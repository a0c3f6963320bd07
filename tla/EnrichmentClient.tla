-------------------------- MODULE EnrichmentClient --------------------------
(***************************************************************************)
(* The router's enrichment client: it stages a question about a gap in     *)
(* what is known of one person, has it delivered by the attention route,   *)
(* and sends the owner's answers to the enrichment API of the backend      *)
(* (EnrichmentLedger).                                                     *)
(*                                                                         *)
(* What it knows is one file, rewritten under a file lock; a section under *)
(* that lock is one step here, and so is each call. What the file records  *)
(* of a call that had no effect is one step with the call. A command may   *)
(* end, by an error or a crash, before any of its steps; the gates of time *)
(* (quiet hours, cooldowns, suppressions) end one in the same way.         *)
(*                                                                         *)
(* A question is named after its plan: the same plan, staged again, is the *)
(* same question. It has one slot. An applier owns a question by a lease   *)
(* that lapses while it works.                                             *)
(***************************************************************************)
EXTENDS AttentionRoute, FiniteSets

CONSTANTS
  Nothing,
  Submissions,  \* submission digests of a question's answers
  Kind,         \* [Submissions -> "known", "unknown" or "skip"]
  Stagers, Dispatchers, Cancellers, Appliers,  \* commands that may run
  MaxBusy,      \* bound: commands that run at once
  Asks          \* bound: questions with which it goes on after staging

Procs == Stagers \cup Dispatchers \cup Cancellers \cup Appliers

Terminal == {"verified_applied", "unknown", "skipped", "stale", "expired", "cancelled"}
InApply == {"applying", "submission_unknown", "committed_unverified"}

(* A question of the file: its state, whether the file holds the capability *)
(* to answer, the submission it was given to and its owner, and what is     *)
(* recorded of its delivery.                                                *)
Question ==
  [state : {"authorizing", "staged", "awaiting_reply"} \cup InApply \cup Terminal,
   capable : BOOLEAN,
   submission : Submissions \cup {Nothing}, owner : Procs \cup {Nothing}, leased : BOOLEAN,
   attn : {"none", "queued", "claimed", "sending", "delivery_unknown",
           "delivered", "completed", "cancelled"},
   lease : Nat, bound : BOOLEAN,
   blind : BOOLEAN]  \* auxiliary: cancelled by a command that had seen no intent

ASSUME EnrichmentClientAssumption ==
  /\ Kind \in [Submissions -> {"known", "unknown", "skip"}]
  /\ Nothing \notin Submissions /\ Nothing \notin Question

VARIABLES
  question,  \* questions: [Questions -> question or Nothing]
  overdue,   \* questions whose expires_at has passed
  outdated,  \* questions whose person or gap has changed for good
  grants,    \* the backend's authorizations: [Questions -> status]
  applied,   \* the submissions it has applied: [Questions -> SUBSET Submissions]
  proc       \* [commands -> what each is doing]

times == <<overdue, outdated>>
backend == <<grants, applied>>
clientVars == <<question, times, backend, route, proc>>

AtRest == [pc |-> "idle"]
Busy == {p \in Procs : proc[p] # AtRest}
Starts(p, q) == p \notin Busy /\ Cardinality(Busy) < MaxBusy

Becomes(p, state) == proc' = [proc EXCEPT ![p] = state]
Goes(p, pc) == proc' = [proc EXCEPT ![p].pc = pc]
Ends(p) == Becomes(p, AtRest)

Asked == {q \in Questions : question[q] # Nothing}

(* Faulty: a question whose answer may have been lost is not active. *)
Active_Known == {q \in Asked : question[q].state \in
                   {"authorizing", "staged", "awaiting_reply", "applying", "committed_unverified"}}

Active == {q \in Asked : question[q].state \in
             {"authorizing", "staged", "awaiting_reply",
              "applying", "submission_unknown", "committed_unverified"}}

ClientInit ==
  /\ RouteInit
  /\ question = [q \in Questions |-> Nothing] /\ overdue = {} /\ outdated = {}
  /\ grants = [q \in Questions |-> "none"] /\ applied = [q \in Questions |-> {}]
  /\ proc = [p \in Procs |-> AtRest]

(* _scrub_authority. The submission digest is not among what it removes.    *)
Closed(it, state) == [it EXCEPT !.state = state, !.capable = FALSE, !.owner = Nothing, !.leased = FALSE]

(* _expire_due, at the start of stage, status and question.                 *)
ExpireDue ==
  /\ question' = [q \in Questions |->
       IF q \in Asked \cap overdue /\ question[q].state \in {"authorizing", "staged", "awaiting_reply"}
         THEN Closed(question[q], "expired") ELSE question[q]]
  /\ UNCHANGED <<times, backend, route, proc>>

-----------------------------------------------------------------------------
(* Staging, under the lock of the conversation route: one command at a time. *)
NewQuestion ==
  [state |-> "authorizing", capable |-> FALSE,
   submission |-> Nothing, owner |-> Nothing, leased |-> FALSE,
   attn |-> "none", lease |-> 0, bound |-> FALSE, blind |-> FALSE]

(* _stage_locked goes on without an active question, or with the one that  *)
(* this plan was being authorized for.                                      *)
StageBegin(p, q) ==
  /\ Starts(p, q) /\ Busy \cap Stagers = {}
  /\ \/ Active = {}
     \/ Active = {q} /\ question[q].state = "authorizing"
  /\ Becomes(p, [pc |-> "write", q |-> q, recovers |-> Active # {}])
  /\ UNCHANGED <<question, times, backend, route>>

(* _gates; a question with the name of this plan is used again.             *)
StageWrite(p) ==
  LET q == proc[p].q IN
  /\ proc[p].pc = "write"
  /\ proc[p].recovers \/ Active = {}
  /\ question' = IF q \in Asked THEN question ELSE [question EXCEPT ![q] = NewQuestion]
  /\ Goes(p, "authorize")
  /\ UNCHANGED <<times, backend, route>>

(* POST of the authorization: the row of this stage key, or a new one.      *)
StageAuthorize(p, answered) ==
  LET q == proc[p].q IN
  /\ proc[p].pc = "authorize"
  /\ grants[q] = "none" => q \notin overdue
  /\ grants' = IF grants[q] = "none" THEN [grants EXCEPT ![q] = "open"] ELSE grants
  /\ IF answered /\ grants'[q] = "open" THEN Goes(p, "store") ELSE Ends(p)
  /\ UNCHANGED <<question, times, applied, route>>

(* The section after the answer does not look at the question's state.      *)
StageStore(p) ==
  /\ proc[p].pc = "store"
  /\ question' = [question EXCEPT ![proc[p].q].state = "staged", ![proc[p].q].capable = TRUE,
                                  ![proc[p].q].blind = FALSE]
  /\ Ends(p)
  /\ UNCHANGED <<times, backend, route>>

(* stale_entity, stale_gap, gap_filled, subject_ambiguous, ...              *)
StageRefused(p) ==
  /\ proc[p].pc = "authorize"
  /\ question' = [question EXCEPT ![proc[p].q] = Closed(@, "stale")]
  /\ Ends(p)
  /\ UNCHANGED <<times, backend, route>>

(* submit_attention calls the broker under the store's lock; one submits at *)
(* a time.                                                                  *)
SubmitAttention(q, answered) ==
  /\ q \in Asked \cap Asks /\ question[q].state = "staged" /\ question[q].attn = "none"
  /\ Submit(q, answered)
  /\ question' = IF answered THEN [question EXCEPT ![q].attn = intent'[q].state] ELSE question
  /\ UNCHANGED <<times, backend, proc>>

-----------------------------------------------------------------------------
(* dispatch_attention, called with the broker's lease or by                 *)
(* recover_attention with the stored one.                                   *)
AfterBridge(it) ==
  CASE it.attn = "queued" \/ (it.attn = "claimed" /\ it.lease = 0) -> "claim"
    [] it.attn = "claimed" /\ it.lease # 0 -> "begin"
    [] OTHER -> "deliver"

DispatchStart(p, q, lease) ==
  LET it == question[q]
      recovers == it.attn \in {"claimed", "sending", "delivery_unknown"} /\ lease = it.lease
      called == intent[q].state = "claimed" /\ lease = intent[q].lease
  IN  /\ Starts(p, q) /\ q \in Asked /\ lease > 0
      /\ it.attn \notin {"none", "delivered", "completed"}
      /\ recovers \/ called
      /\ it.lease \in {0, lease}
      /\ Becomes(p, [pc |-> IF it.state # "staged" \/ q \in overdue THEN "cancel"
                              ELSE IF it.bound THEN AfterBridge(it) ELSE "bridge",
                     q |-> q, lease |-> lease, after |-> AfterBridge(it)])
      /\ UNCHANGED <<question, times, backend, route>>

RecoverWithdraws(p, q) ==
  /\ Starts(p, q) /\ q \in Asked
  /\ question[q].attn \in {"queued", "claimed"}
  /\ question[q].state # "staged" \/ q \in overdue
  /\ Becomes(p, [pc |-> "cancel", q |-> q, lease |-> question[q].lease, after |-> "cancel"])
  /\ UNCHANGED <<question, times, backend, route>>

(* _cancel_attention_before_send: the broker first, then the store.         *)
WithdrawIntent(p, answered) ==
  /\ proc[p].pc = "cancel"
  /\ CancelIntent(proc[p].q, proc[p].lease, answered)
  /\ IF answered THEN Goes(p, "withdraw") ELSE Ends(p)
  /\ UNCHANGED <<question, times, backend>>

WithdrawStore(p) ==
  LET q == proc[p].q
      it == IF question[q].state \in Terminal THEN question[q]
            ELSE Closed(question[q], IF q \in overdue THEN "expired" ELSE "cancelled")
  IN  /\ proc[p].pc = "withdraw"
      /\ question' = [question EXCEPT ![q] = [it EXCEPT !.attn = "cancelled", !.lease = 0]]
      /\ Ends(p)
      /\ UNCHANGED <<times, backend, route>>

DispatchBridge(p, answered) ==
  /\ proc[p].pc = "bridge"
  /\ BridgeStage(proc[p].q, answered)
  /\ Goes(p, IF answered THEN proc[p].after ELSE "giveback")
  /\ UNCHANGED <<question, times, backend>>

DispatchRelease(p, answered) ==
  /\ proc[p].pc = "giveback"
  /\ Release(proc[p].q, proc[p].lease, answered)
  /\ Ends(p)
  /\ UNCHANGED <<question, times, backend>>

(* The attention of the question in the store, whatever its state is.       *)
Marked(p, attn) ==
  [question EXCEPT ![proc[p].q].attn = attn, ![proc[p].q].lease = proc[p].lease, ![proc[p].q].bound = TRUE]

DispatchClaim(p) ==
  /\ proc[p].pc = "claim"
  /\ IF question[proc[p].q].state = "staged"
       THEN question' = Marked(p, "claimed") /\ Goes(p, "begin")
       ELSE UNCHANGED question /\ Ends(p)
  /\ UNCHANGED <<times, backend, route>>

DispatchBegin(p, answered) ==
  /\ proc[p].pc = "begin"
  /\ BeginDelivery(proc[p].q, proc[p].lease, answered)
  /\ IF answered THEN Goes(p, "sending") ELSE Ends(p)
  /\ UNCHANGED <<question, times, backend>>

DispatchSending(p) ==
  /\ proc[p].pc = "sending"
  /\ question' = Marked(p, "sending")
  /\ Goes(p, "deliver")
  /\ UNCHANGED <<times, backend, route>>

DispatchDeliver(p, answered) ==
  /\ proc[p].pc = "deliver"
  /\ BridgeDeliver(proc[p].q, answered)
  /\ IF answered THEN Goes(p, "context") /\ UNCHANGED question
                 ELSE Ends(p) /\ question' = Marked(p, "delivery_unknown")
  /\ UNCHANGED <<times, backend>>

(* bridge_context and bridge_status show a live conversation, then the      *)
(* broker is told.                                                          *)
DispatchComplete(p, answered) ==
  LET q == proc[p].q IN
  /\ proc[p].pc = "context"
  /\ conv[q] = "awaiting_reply"
  /\ Complete(q, proc[p].lease, answered)
  /\ IF answered THEN Goes(p, "delivered") ELSE Ends(p)
  /\ UNCHANGED <<question, times, backend>>

(* Like the section of staging, this one does not look at the state.        *)
DispatchDelivered(p) ==
  /\ proc[p].pc = "delivered"
  /\ question' = [question EXCEPT ![proc[p].q].attn = "delivered", ![proc[p].q].lease = 0,
                    ![proc[p].q].bound = TRUE, ![proc[p].q].state = "awaiting_reply"]
  /\ Ends(p)
  /\ UNCHANGED <<times, backend, route>>

CompleteAttention(q, answered) ==
  /\ q \in Asked
  /\ question[q].state \in Terminal \ {"cancelled"} /\ question[q].attn = "delivered"
  /\ conv[q] = "completed"
  /\ ReleaseVisible(q, answered)
  /\ question' = IF answered THEN [question EXCEPT ![q].attn = "completed"] ELSE question
  /\ UNCHANGED <<times, backend, proc>>

-----------------------------------------------------------------------------
(* cancel.                                                                  *)
CancelStart(p, q) ==
  LET it == question[q] IN
  /\ Starts(p, q) /\ q \in Asked \cap Asks
  /\ it.state \in {"authorizing", "staged", "awaiting_reply"} \/ (it.state = "cancelled" /\ it.attn = "delivered")
  /\ it.attn \in {"none", "queued", "claimed", "delivered"}
  /\ Becomes(p, [pc |-> IF it.state = "cancelled" THEN "release"
                        ELSE CASE it.attn = "none" -> "close" [] it.attn = "delivered" -> "unbridge"
                               [] OTHER -> "broker",
                 q |-> q, lease |-> it.lease, seen |-> it.attn])
  /\ UNCHANGED <<question, times, backend, route>>

CancelBroker(p, answered) ==
  /\ proc[p].pc = "broker"
  /\ CancelIntent(proc[p].q, proc[p].lease, answered)
  /\ IF answered THEN Goes(p, "close") ELSE Ends(p)
  /\ UNCHANGED <<question, times, backend>>

CancelBridge(p, answered) ==
  /\ proc[p].pc = "unbridge"
  /\ BridgeCancel(proc[p].q, answered)
  /\ IF answered /\ conv'[proc[p].q] = "cancelled" THEN Goes(p, "close") ELSE Ends(p)
  /\ UNCHANGED <<question, times, backend>>

Cancelled(it, seen) ==
  [Closed(it, "cancelled") EXCEPT !.attn = IF @ \in {"queued", "claimed"} THEN "cancelled" ELSE @,
                                  !.blind = (seen = "none")]

(* A lease of the intent that is still stored fails the validation of the   *)
(* file, and the cancellation is not written.                               *)
CancelStore(p) ==
  LET q == proc[p].q
      it == question[q]
      valid == it.attn = "claimed" => it.lease = 0
  IN  /\ proc[p].pc = "close"
      /\ question' =
           IF it.state \in Terminal \cup InApply \/ ~valid THEN question
           ELSE [question EXCEPT ![q] = Cancelled(it, proc[p].seen)]
      /\ IF it.state \notin InApply /\ valid /\ proc[p].seen = "delivered"
           THEN Goes(p, "release") ELSE Ends(p)
      /\ UNCHANGED <<times, backend, route>>

CancelRelease(p, answered) ==
  /\ proc[p].pc = "release"
  /\ conv[proc[p].q] = "cancelled"
  /\ ReleaseVisible(proc[p].q, answered)
  /\ question' = IF answered THEN [question EXCEPT ![proc[p].q].attn = "completed"] ELSE question
  /\ Ends(p)
  /\ UNCHANGED <<times, backend>>

-----------------------------------------------------------------------------
(* apply_answers.                                                           *)

(* _owns: the question is as this command left it.                          *)
Owns(p, states) ==
  LET it == question[proc[p].q]
  IN  it.state \in states /\ it.owner = p /\ it.submission = proc[p].s

(* The store's lock is held: the question is taken over when nobody has it, *)
(* or when the lease of who had it lapsed. The first submission is the only *)
(* one that is ever taken.                                                  *)
ApplyStart(p, q, s) ==
  LET it == question[q] IN
  /\ Starts(p, q) /\ q \in Asked \cap Asks /\ it.bound
  /\ it.state \in {"awaiting_reply"} \cup InApply
  /\ it.capable
  /\ it.submission \in {Nothing, s}
  /\ it.state \in InApply => ~it.leased
  /\ question' = [question EXCEPT ![q] =
       [it EXCEPT !.submission = s, !.owner = p, !.leased = TRUE,
                  !.state = IF @ = "committed_unverified" THEN @ ELSE "applying"]]
  /\ Becomes(p, [pc |-> IF it.state = "committed_unverified" THEN "read" ELSE "proof",
                 q |-> q, s |-> s])
  /\ UNCHANGED <<times, backend, route>>

(* Faulty: a submission without a proof is forgotten. *)
Restored_Forgets(p) ==
  IF Owns(p, {"applying"})
    THEN [question EXCEPT ![proc[p].q].state = "awaiting_reply", ![proc[p].q].owner = Nothing,
                          ![proc[p].q].leased = FALSE, ![proc[p].q].submission = Nothing]
    ELSE question

(* _restore_after_proof_failure; also when an earlier POST may have been    *)
(* lost.                                                                    *)
Restored(p) ==
  IF Owns(p, {"applying"})
    THEN [question EXCEPT ![proc[p].q].state = "awaiting_reply", ![proc[p].q].owner = Nothing,
                          ![proc[p].q].leased = FALSE]
    ELSE question

(* The bridge's proof that the owner sent this reply.                       *)
ApplyProof(p, answered) ==
  /\ proc[p].pc = "proof"
  /\ answered => ProofAccepted(proc[p].q)
  /\ IF answered THEN Goes(p, "post") /\ UNCHANGED question
                 ELSE Ends(p) /\ question' = Restored(p)
  /\ UNCHANGED <<times, backend, route>>

(* An answer leaves its slot open only when it skips it.                    *)
SlotOpen(q) == \A s \in applied[q] : Kind[s] = "skip"

(* The backend answers a known resolution again; a new one it applies. (A   *)
(* gap that is filled and open again when the next request comes is left    *)
(* out: of two appliers one may then be refused and the other not.)         *)
Takes(q, s) ==
  \/ s \in applied[q]
  \/ q \notin overdue \cup outdated /\ grants[q] \in {"open", "answered"} /\ SlotOpen(q)

(* POST of the answer, with effect, whether its receipt arrives or not.     *)
ApplyPost(p, answered) ==
  LET q == proc[p].q s == proc[p].s IN
  /\ proc[p].pc = "post" /\ Takes(q, s)
  /\ applied' = [applied EXCEPT ![q] = @ \cup {s}]
  /\ grants' = IF s \in applied[q] THEN grants ELSE [grants EXCEPT ![q] = "answered"]
  /\ Goes(p, IF answered THEN "receipt" ELSE "unknown")
  /\ UNCHANGED <<question, times, route>>

(* Without effect: lost, or refused with a code that is definite            *)
(* (stale_entity, gap_filled, authorization_expired, ...).                  *)
ApplyPostFails(p, definite) ==
  LET q == proc[p].q IN
  /\ proc[p].pc = "post"
  /\ definite => ~Takes(q, proc[p].s)
  /\ grants' = IF definite /\ q \in overdue THEN [grants EXCEPT ![q] = "expired"] ELSE grants
  /\ Goes(p, IF definite THEN "refused" ELSE "unknown")
  /\ UNCHANGED <<question, times, applied, route>>

(* Faulty: a lost answer is taken for a refusal. *)
ApplyUnknown_GivesUp(p) ==
  /\ proc[p].pc \in {"unknown", "refused"}
  /\ question' = IF Owns(p, {"applying"})
       THEN [question EXCEPT ![proc[p].q].state = "submission_unknown", ![proc[p].q].leased = FALSE]
       ELSE question
  /\ Goes(p, "giveup")
  /\ UNCHANGED <<times, backend, route>>

(* _owned_transition, which also ends the lease.                            *)
ApplyUnknown(p) ==
  /\ proc[p].pc \in {"unknown", "refused"}
  /\ question' = IF Owns(p, {"applying"})
       THEN [question EXCEPT ![proc[p].q].state = "submission_unknown", ![proc[p].q].leased = FALSE]
       ELSE question
  /\ IF proc[p].pc = "refused" THEN Goes(p, "giveup") ELSE Ends(p)
  /\ UNCHANGED <<times, backend, route>>

(* _owned_terminal.                                                         *)
ApplyGivesUp(p) ==
  /\ proc[p].pc = "giveup"
  /\ question' = IF Owns(p, InApply)
       THEN [question EXCEPT ![proc[p].q] = Closed(@, "stale")] ELSE question
  /\ Ends(p)
  /\ UNCHANGED <<times, backend, route>>

ApplyReceipt(p) ==
  /\ proc[p].pc = "receipt"
  /\ IF Owns(p, {"applying"})
       THEN question' = [question EXCEPT ![proc[p].q].state = "committed_unverified"] /\ Goes(p, "read")
       ELSE UNCHANGED question /\ Ends(p)
  /\ UNCHANGED <<times, backend, route>>

(* GET of the action: verified, not verified, or failed, which ends the     *)
(* lease.                                                                   *)
ApplyRead(p, result) ==
  LET q == proc[p].q IN
  /\ proc[p].pc = "read"
  /\ result = "verified" => proc[p].s \in applied[q]
  /\ IF result = "verified" THEN Goes(p, "finish") ELSE Ends(p)
  /\ question' = IF result = "failed" /\ Owns(p, {"committed_unverified"})
                   THEN [question EXCEPT ![q].leased = FALSE] ELSE question
  /\ UNCHANGED <<times, backend, route>>

FinalState(s) == CASE Kind[s] = "known" -> "verified_applied"
                   [] Kind[s] = "unknown" -> "unknown"
                   [] Kind[s] = "skip" -> "skipped"

ApplyFinish(p) ==
  LET q == proc[p].q IN
  /\ proc[p].pc = "finish"
  /\ question' = IF Owns(p, {"committed_unverified"})
       THEN [question EXCEPT ![q] = Closed(@, FinalState(proc[p].s))] ELSE question
  /\ Ends(p)
  /\ UNCHANGED <<times, backend, route>>

-----------------------------------------------------------------------------
(* The lease of an applier lapses after 30 seconds, a question's deadline   *)
(* passes.                                                                  *)
ApplyLeaseLapses(q) ==
  /\ q \in Asked /\ question[q].leased
  /\ question' = [question EXCEPT ![q].leased = FALSE]
  /\ UNCHANGED <<times, backend, route, proc>>

DeadlinePasses(q) ==
  /\ q \in (Asked \cap Asks) \ overdue
  /\ overdue' = overdue \cup {q}
  /\ UNCHANGED <<question, outdated, backend, route, proc>>

PersonChanges(q) ==
  /\ q \in (Asked \cap Asks) \ outdated
  /\ outdated' = outdated \cup {q}
  /\ UNCHANGED <<question, overdue, backend, route, proc>>

Crash(p) == p \in Busy /\ Ends(p) /\ UNCHANGED <<question, times, backend, route>>

Stage(p) ==
  \/ \E q \in Questions : StageBegin(p, q)
  \/ StageWrite(p) \/ StageStore(p) \/ StageRefused(p)
  \/ \E answered \in BOOLEAN : StageAuthorize(p, answered)

Dispatch(p) ==
  \/ \E q \in Questions : RecoverWithdraws(p, q) \/ \E lease \in 1..MaxLeases : DispatchStart(p, q, lease)
  \/ \E answered \in BOOLEAN :
       \/ WithdrawIntent(p, answered) \/ DispatchBridge(p, answered) \/ DispatchRelease(p, answered)
       \/ DispatchBegin(p, answered) \/ DispatchDeliver(p, answered) \/ DispatchComplete(p, answered)
  \/ WithdrawStore(p) \/ DispatchClaim(p) \/ DispatchSending(p) \/ DispatchDelivered(p)

Cancel(p) ==
  \/ \E q \in Questions : CancelStart(p, q)
  \/ \E answered \in BOOLEAN :
       CancelBroker(p, answered) \/ CancelBridge(p, answered) \/ CancelRelease(p, answered)
  \/ CancelStore(p)

Apply(p) ==
  \/ \E q \in Questions, s \in Submissions : ApplyStart(p, q, s)
  \/ \E flag \in BOOLEAN : ApplyProof(p, flag) \/ ApplyPost(p, flag) \/ ApplyPostFails(p, flag)
  \/ ApplyUnknown(p) \/ ApplyGivesUp(p) \/ ApplyReceipt(p) \/ ApplyFinish(p)
  \/ \E result \in {"verified", "unverified", "failed"} : ApplyRead(p, result)

(* The broker, the bridge and the agent.                                    *)
RouteMoves ==
  /\ \E q \in Asked :
       \/ ClaimNext(q) \/ LeaseLapses(q)
       \/ question[q].state \in Terminal \ {"cancelled"} /\ BridgeEnds(q, "completed")
       \/ BridgeEnds(q, "expired")
  /\ UNCHANGED <<question, times, backend, proc>>

ClientNext ==
  \/ ExpireDue
  \/ \E p \in Stagers : Stage(p)
  \/ \E p \in Dispatchers : Dispatch(p)
  \/ \E p \in Cancellers : Cancel(p)
  \/ \E p \in Appliers : Apply(p)
  \/ \E q \in Questions, answered \in BOOLEAN : SubmitAttention(q, answered) \/ CompleteAttention(q, answered)
  \/ \E q \in Questions : ApplyLeaseLapses(q) \/ DeadlinePasses(q) \/ PersonChanges(q)
  \/ \E p \in Procs : Crash(p)
  \/ RouteMoves

ClientSpec == ClientInit /\ [][ClientNext]_clientVars

-----------------------------------------------------------------------------
(* Of the questions that are not overdue, one at most is open, although     *)
(* staging and delivery store their result without looking at the state.    *)
(* (The exception: a question that was cancelled without knowledge of its   *)
(* intent, in the middle of its delivery.)                                  *)
OneOpenQuestion ==
  Cardinality({q \in Asked \ overdue : question[q].state \notin Terminal /\ ~question[q].blind}) <= 1

(* One reply becomes one answer: whatever is lost, repeated, taken over or  *)
(* staged again, the backend never applies two different submissions of one *)
(* question, and none to which the owner had not been shown the question.   *)
OneAnswerEach ==
  \A q \in Questions :
    /\ Cardinality(applied[q]) <= 1
    /\ applied[q] # {} => Shown(q)

(* A question that an applier took up is given up as stale only when the    *)
(* backend has no answer to it, and is finished only when it has that one:  *)
(* an applier whose lease lapsed does not speak for the one after it.       *)
OutcomesAreTrue ==
  [][\A q \in Asked : question[q].state \in InApply =>
       /\ question'[q].state = "stale" => applied[q] = {}
       /\ question'[q].state \in {"verified_applied", "unknown", "skipped"}
            => applied[q] = {question[q].submission}]_clientVars

(* An answer that the backend applied is not disowned: its question is not  *)
(* closed as expired or cancelled.                                          *)
AnswersAreKept ==
  \A q \in Asked : question[q].state \in {"expired", "cancelled"} => applied[q] = {}
=============================================================================
