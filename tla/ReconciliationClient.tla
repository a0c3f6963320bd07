------------------------ MODULE ReconciliationClient ------------------------
(***************************************************************************)
(* The router's reconciliation client: it prepares anomalies (items) found *)
(* in finished curation runs, stages one question about a person, has it   *)
(* delivered by the attention route, and applies the owner's answers       *)
(* through the reconciliation API of the backend.                          *)
(*                                                                         *)
(* Everything it knows is one file, rewritten under a file lock            *)
(* (StateStore.update); a section under that lock is one step here, and so *)
(* is each call to the broker, the bridge or the backend. What the file    *)
(* records of an answer that had no effect is one step with the call. A    *)
(* command may end, by an error or a crash, before any of its steps.       *)
(*                                                                         *)
(* An item stands for one fingerprint: when its records change, it is gone *)
(* and what replaces it is another item. Staging and reissuing also give   *)
(* way to an enrichment question; a refusal changes nothing here.          *)
(***************************************************************************)
EXTENDS AttentionRoute, FiniteSets, FiniteSetsExt

CONSTANTS
  Nothing,
  Items,        \* anomalies, numbered in the order build_anomalies sorts them
  PersonOf,     \* [Items -> person key]
  Runs,         \* completed curation runs: 1..n in the order of their cursors
  RunOf,        \* [Items -> the run that wrote its record, or Nothing]
  ItemLimit,    \* hard_question_limit * 4
  Submissions,  \* submission digests
  Answers,      \* [Submissions -> [items answered -> option]]
  Appliers, Dispatchers, Cancellers, Preparers,  \* commands that may run
  MaxBusy,      \* bound: commands that run at once
  Contended,    \* bound: questions about which two commands may run at once
  Unsteady      \* bound: items whose records others may change

Procs == Appliers \cup Dispatchers \cup Cancellers \cup Preparers

Open == {"staged", "awaiting_reply", "applying", "committed_unverified"}
Closed == {"verified_applied", "deferred", "stale", "expired", "cancelled"}

(* The actions of a plan and how far each has come.                         *)
Receipts == UNION {[items -> {"planned", "committed", "verified"}] : items \in SUBSET Items}
NoActions == [i \in {} |-> "planned"]

(* A question of the file: its items, the submission being applied and the  *)
(* last one applied, what was decided, and what is recorded of its delivery.*)
StoredQuestion ==
  [state : Open \cup Closed, items : SUBSET Items,
   pending : Receipts, plan : Submissions \cup {Nothing}, last : Submissions \cup {Nothing},
   resolved : SUBSET Items, deferred : SUBSET Items, outcomes : SUBSET Items,
   attn : {"none", "queued", "claimed", "sending", "delivery_unknown",
           "delivered", "completed", "cancelled"},
   lease : Nat, bound : BOOLEAN,
   blind : BOOLEAN]  \* auxiliary: cancelled by a command that had seen no intent

(* A run: its items, and whether each of them is closed or asked about.     *)
Audit == [items : SUBSET Items, reviewed : BOOLEAN]

ASSUME ClientAssumption ==
  /\ Questions \subseteq Nat \ {0} /\ Items \subseteq Nat
  /\ IsFiniteSet(Runs) /\ Runs = 1 .. Cardinality(Runs)
  /\ PersonOf \in [Items -> Nat] /\ RunOf \in [Items -> Runs \cup {Nothing}]
  /\ \A s \in Submissions : DOMAIN Answers[s] \subseteq Items
  /\ \A s \in Submissions, i \in Items :
       i \in DOMAIN Answers[s] => Answers[s][i] \in {"act", "keep", "unsure"}
  /\ Nothing \notin Nat \cup Submissions /\ Nothing \notin StoredQuestion \cup Audit

VARIABLES
  question,    \* delivery_sets: [Questions -> question or Nothing]
  terminal,    \* fingerprints marked terminal
  suppressed,  \* fingerprints under a cooldown
  current,     \* current_prepared_item_ids
  audits,      \* run_audits: [Runs -> [items, reviewed] or Nothing]
  cursor,      \* last_run_cursor; 0 before the first run
  actions,     \* the backend's actions: [Questions -> [Items -> submission or Nothing]]
  changed,     \* items whose records were changed by others
  proc         \* [commands -> what each is doing]

agenda == <<terminal, suppressed, current, audits, cursor>>
clientVars == <<question, agenda, actions, changed, route, proc>>

AtRest == [pc |-> "idle"]
Busy == {p \in Procs : proc[p] # AtRest}
Starts(p, q) ==
  /\ p \notin Busy /\ Cardinality(Busy) < MaxBusy
  /\ \A r \in Busy : q \in Contended /\ proc[r].q = q

Asked == {q \in Questions : question[q] # Nothing}
OpenQuestions == {q \in Asked : question[q].state \in Open}
Applied == {i \in Items : \E q \in Questions : actions[q][i] # Nothing}

(* The records an item was prepared from are no longer as they were.        *)
Gone == Applied \cup changed

ClientInit ==
  /\ RouteInit
  /\ question = [q \in Questions |-> Nothing]
  /\ terminal = {} /\ suppressed = {} /\ current = {}
  /\ audits = [r \in Runs |-> Nothing] /\ cursor = 0
  /\ actions = [q \in Questions |-> [i \in Items |-> Nothing]]
  /\ changed = {}
  /\ proc = [p \in Procs |-> AtRest]

Becomes(p, state) == proc' = [proc EXCEPT ![p] = state]
Goes(p, pc) == proc' = [proc EXCEPT ![p].pc = pc]
Ends(p) == Becomes(p, AtRest)

-----------------------------------------------------------------------------
(* Audits of curation runs.                                                 *)

(* _advance_run_cursor: over the reviewed runs up to the first that is not. *)
AdvancedCursor(known, from) ==
  Max({from} \cup {r \in Runs : /\ known[r] # Nothing
                                /\ \A s \in Runs : from < s /\ s <= r /\ known[s] # Nothing
                                                     => known[s].reviewed})

(* Faulty: one reviewed item is enough for its run. *)
ReviewRuns_Any(closed, selected) ==
  /\ audits' = [r \in Runs |->
       IF audits[r] # Nothing /\ (audits[r].items = {} \/ audits[r].items \cap (closed \cup selected) # {})
         THEN [audits[r] EXCEPT !.reviewed = TRUE] ELSE audits[r]]
  /\ cursor' = AdvancedCursor(audits', cursor)

(* _review_run_items: a run is reviewed when each of its items is closed or *)
(* selected now.                                                            *)
ReviewRuns(closed, selected) ==
  /\ audits' = [r \in Runs |->
       IF audits[r] # Nothing /\ audits[r].items \subseteq closed \cup selected
         THEN [audits[r] EXCEPT !.reviewed = TRUE] ELSE audits[r]]
  /\ cursor' = AdvancedCursor(audits', cursor)

(* An item of a run is found only while its run is among those read.        *)
FoundIn(runs) == {i \in Items \ Gone : RunOf[i] = Nothing \/ RunOf[i] \in runs}

(* build_anomalies cuts the sorted list at its limit.                       *)
BuildAnomalies(runs) ==
  {i \in FoundIn(runs) : Cardinality({j \in FoundIn(runs) : j < i}) < ItemLimit}

(* prepare: reads the runs after the cursor, up to the latest completed     *)
(* one, and the source pack.                                                *)

PrepareRead(p, latest) ==
  /\ Busy = {}
  /\ OpenQuestions = {}   \* bound: the scheduler prepares only then
  /\ Asked # Questions    \* bound: when another question may be staged
  /\ \A r \in Runs : audits[r] # Nothing => r <= latest
  /\ Becomes(p, [pc |-> "store", q |-> Nothing, runs |-> cursor + 1 .. latest,
                 items |-> BuildAnomalies(cursor + 1 .. latest)])
  /\ UNCHANGED <<question, agenda, actions, changed, route>>

(* prepare, under the store's lock.                                         *)
PrepareStore(p) ==
  LET items == proc[p].items
      open == UNION {question[q].items : q \in OpenQuestions}
      output == items \ (terminal \cup open \cup suppressed)
      audit(r) == LET of == {i \in items : RunOf[i] = r} IN [items |-> of, reviewed |-> of = {}]
  IN  /\ proc[p].pc = "store"
      /\ current' = output
      /\ audits' = [r \in Runs |-> IF r \in proc[p].runs THEN audit(r) ELSE audits[r]]
      /\ cursor' = AdvancedCursor(audits', cursor)
      /\ Ends(p)
      /\ UNCHANGED <<question, terminal, suppressed, actions, changed, route>>

-----------------------------------------------------------------------------
(* Staging.                                                                 *)
NewQuestion(members) ==
  [state |-> "staged", items |-> members, pending |-> NoActions, plan |-> Nothing, last |-> Nothing,
   resolved |-> {}, deferred |-> {}, outcomes |-> {},
   attn |-> "none", lease |-> 0, bound |-> FALSE, blind |-> FALSE]

ClosedItems ==
  UNION {IF question[q].state = "deferred" THEN question[q].resolved ELSE question[q].items :
           q \in {r \in Asked : question[r].state \in Closed}}

(* What a stage plan may say: it gives some current items a disposition.    *)
StagePlans ==
  UNION {[items -> {"no_anomaly", "keep_open", "question"}] : items \in (SUBSET current) \ {{}}}

(* _stage_locked without an open question (with one it reports that one).   *)
(* The agent's plan gives each current item a disposition; one person is    *)
(* asked about.                                                             *)
Stage(q, plan) ==
  LET clean == {i \in DOMAIN plan : plan[i] = "no_anomaly"}
      questions == {i \in DOMAIN plan : plan[i] = "question"}
      first == Min({PersonOf[i] : i \in questions})
      members == {i \in questions : PersonOf[i] = first}
  IN  /\ q = Cardinality(Asked) + 1
      /\ OpenQuestions = {}
      /\ DOMAIN plan \cap ClosedItems = {}
      /\ terminal' = terminal \cup clean
      /\ IF questions = {}
           THEN /\ ReviewRuns(terminal', {})
                /\ UNCHANGED <<question, suppressed>>
           ELSE /\ question' = [question EXCEPT ![q] = NewQuestion(members)]
                /\ suppressed' = suppressed \cup members
                /\ ReviewRuns(terminal', members)
      /\ UNCHANGED <<current, actions, changed, route, proc>>

(* submit_attention calls the broker under the store's lock.                *)
SubmitAttention(q, answered) ==
  /\ q \in Asked /\ question[q].state = "staged" /\ question[q].attn = "none"
  /\ Submit(q, answered)
  /\ question' = IF answered THEN [question EXCEPT ![q].attn = intent'[q].state] ELSE question
  /\ UNCHANGED <<agenda, actions, changed, proc>>

(* reissue_expired_question: a copy of a cancelled question whose           *)
(* conversation expired, under a new identifier.                            *)
Reissue(old, q) ==
  /\ q = Cardinality(Asked) + 1 /\ q \in Questions
  /\ old \in Asked /\ question[old].state = "cancelled" /\ question[old].bound
  /\ question[old].pending = NoActions /\ question[old].resolved = {} /\ question[old].deferred = {}
  /\ conv[old] = "expired"
  /\ OpenQuestions = {}
  /\ question' = [question EXCEPT ![q] =
       [NewQuestion(question[old].items) EXCEPT !.plan = question[old].plan, !.last = question[old].last]]
  /\ UNCHANGED <<agenda, actions, changed, route, proc>>

-----------------------------------------------------------------------------
(* The store has no lease of the intent yet.                                *)
Unleased(it) == it.attn = "queued" \/ (it.attn = "claimed" /\ it.lease = 0)

(* Delivery: dispatch_attention, with the broker's lease of this claim, and *)
(* recover_attention, with the stored one.                                  *)
DispatchStart(p, q, lease, overdue) ==
  LET seen == question[q]
      recovers == seen.attn \in {"claimed", "sending", "delivery_unknown"} /\ lease = seen.lease
      called == intent[q].state = "claimed" /\ lease = intent[q].lease
      withdraws == seen.state # "staged" \/ overdue
  IN  /\ Starts(p, q) /\ q \in Asked /\ lease > 0
      /\ seen.attn \notin {"none", "delivered", "completed"}
      /\ withdraws \/ seen.attn # "cancelled"
      /\ recovers \/ called
      /\ seen.lease \in {0, lease}
      /\ Becomes(p, [pc |-> IF withdraws THEN "cancel"
                              ELSE IF Unleased(seen) THEN "bridge"
                              ELSE IF seen.attn = "claimed" THEN "begin" ELSE "deliver",
                     q |-> q, lease |-> lease])
      /\ UNCHANGED <<question, agenda, actions, changed, route>>

(* recover_attention of a queued or claimed question that ended or is past *)
(* its time to live.                                                        *)
RecoverWithdraws(p, q) ==
  /\ Starts(p, q) /\ q \in Asked
  /\ question[q].attn \in {"queued", "claimed"}
  /\ Becomes(p, [pc |-> "cancel", q |-> q, lease |-> question[q].lease])
  /\ UNCHANGED <<question, agenda, actions, changed, route>>

(* _cancel_attention_before_send: the broker first, then the store.         *)
WithdrawIntent(p, answered) ==
  /\ proc[p].pc = "cancel"
  /\ CancelIntent(proc[p].q, proc[p].lease, answered)
  /\ IF answered THEN Goes(p, "withdraw") ELSE Ends(p)
  /\ UNCHANGED <<question, agenda, actions, changed>>

WithdrawStore(p, overdue) ==
  LET q == proc[p].q
      end == IF question[q].state \in Closed THEN question[q].state
             ELSE IF overdue THEN "expired" ELSE "cancelled"
  IN  /\ proc[p].pc = "withdraw"
      /\ question' = [question EXCEPT ![q].state = end, ![q].attn = "cancelled", ![q].lease = 0]
      /\ Ends(p)
      /\ UNCHANGED <<agenda, actions, changed, route>>

DispatchBridge(p, answered) ==
  /\ proc[p].pc = "bridge"
  /\ BridgeStage(proc[p].q, answered)
  /\ Goes(p, IF answered THEN "claim" ELSE "giveback")
  /\ UNCHANGED <<question, agenda, actions, changed>>

DispatchRelease(p, answered) ==
  /\ proc[p].pc = "giveback"
  /\ Release(proc[p].q, proc[p].lease, answered)
  /\ Ends(p)
  /\ UNCHANGED <<question, agenda, actions, changed>>

DispatchClaim(p) ==
  LET q == proc[p].q IN
  /\ proc[p].pc = "claim"
  /\ IF question[q].state = "staged"
       THEN /\ question' = [question EXCEPT ![q].attn = "claimed", ![q].lease = proc[p].lease,
                                            ![q].bound = TRUE]
            /\ Goes(p, "begin")
       ELSE UNCHANGED question /\ Ends(p)
  /\ UNCHANGED <<agenda, actions, changed, route>>

(* Faulty: a claimed intent is taken to be this dispatcher's to send. *)
DispatchBegin_Trusts(p, answered) ==
  /\ proc[p].pc = "begin"
  /\ Goes(p, "sending")
  /\ UNCHANGED <<question, agenda, actions, changed, route>>

DispatchBegin(p, answered) ==
  /\ proc[p].pc = "begin"
  /\ BeginDelivery(proc[p].q, proc[p].lease, answered)
  /\ IF answered THEN Goes(p, "sending") ELSE Ends(p)
  /\ UNCHANGED <<question, agenda, actions, changed>>

(* The store keeps the question's own state, whatever it is by now.         *)
Marked(p, attn) ==
  [question EXCEPT ![proc[p].q].attn = attn, ![proc[p].q].lease = proc[p].lease, ![proc[p].q].bound = TRUE]

DispatchSending(p) ==
  /\ proc[p].pc = "sending"
  /\ question' = Marked(p, "sending")
  /\ Goes(p, "deliver")
  /\ UNCHANGED <<agenda, actions, changed, route>>

DispatchDeliver(p, answered) ==
  /\ proc[p].pc = "deliver"
  /\ BridgeDeliver(proc[p].q, answered)
  /\ IF answered THEN Goes(p, "context") /\ UNCHANGED question
                 ELSE Ends(p) /\ question' = Marked(p, "delivery_unknown")
  /\ UNCHANGED <<agenda, actions, changed>>

(* bridge_context and bridge_status show a live conversation, or dispatch   *)
(* ends here.                                                               *)
DispatchReceipt(p) ==
  /\ proc[p].pc = "context"
  /\ IF conv[proc[p].q] = "awaiting_reply" THEN Goes(p, "complete") ELSE Ends(p)
  /\ UNCHANGED <<question, agenda, actions, changed, route>>

(* Faulty: the broker's confirmation is not waited for. *)
DispatchComplete_Assumes(p, answered) ==
  /\ proc[p].pc = "complete"
  /\ Complete(proc[p].q, proc[p].lease, answered)
  /\ Goes(p, "delivered")
  /\ UNCHANGED <<question, agenda, actions, changed>>

DispatchComplete(p, answered) ==
  /\ proc[p].pc = "complete"
  /\ Complete(proc[p].q, proc[p].lease, answered)
  /\ IF answered THEN Goes(p, "delivered") ELSE Ends(p)
  /\ UNCHANGED <<question, agenda, actions, changed>>

(* The last section does not look at the question's state again.            *)
DispatchDelivered(p) ==
  /\ proc[p].pc = "delivered"
  /\ question' = [question EXCEPT ![proc[p].q].attn = "delivered", ![proc[p].q].lease = 0,
                                  ![proc[p].q].bound = TRUE,
                                  ![proc[p].q].state = "awaiting_reply"]
  /\ Ends(p)
  /\ UNCHANGED <<agenda, actions, changed, route>>

(* complete_attention, once the agent has completed the conversation.       *)
CompleteAttention(q, answered) ==
  /\ q \in Asked
  /\ question[q].state \in Closed \ {"cancelled"} /\ question[q].attn = "delivered"
  /\ conv[q] = "completed"
  /\ ReleaseVisible(q, answered)
  /\ question' = IF answered THEN [question EXCEPT ![q].attn = "completed"] ELSE question
  /\ UNCHANGED <<agenda, actions, changed, proc>>

-----------------------------------------------------------------------------
(* cancel_question.                                                         *)
CancelStart(p, q) ==
  /\ Starts(p, q) /\ q \in Asked
  /\ \/ question[q].state \in {"staged", "awaiting_reply"}
     \/ question[q].state = "cancelled" /\ question[q].attn = "delivered"
  /\ question[q].attn \in {"none", "queued", "claimed", "delivered"}
  /\ Becomes(p, [pc |-> IF question[q].state = "cancelled" THEN "release"
                          ELSE CASE question[q].attn = "none" -> "close"
                                 [] question[q].attn = "delivered" -> "unbridge"
                                 [] OTHER -> "broker",
                 q |-> q, lease |-> question[q].lease, seen |-> question[q].attn])
  /\ UNCHANGED <<question, agenda, actions, changed, route>>

(* Faulty: an intent that some dispatcher holds is not withdrawn. *)
CancelBroker_Skips(p, answered) ==
  /\ proc[p].pc = "broker"
  /\ Goes(p, "close")
  /\ UNCHANGED <<question, agenda, actions, changed, route>>

CancelBroker(p, answered) ==
  /\ proc[p].pc = "broker"
  /\ CancelIntent(proc[p].q, proc[p].lease, answered)
  /\ IF answered THEN Goes(p, "close") ELSE Ends(p)
  /\ UNCHANGED <<question, agenda, actions, changed>>

(* bridge_cancel, and bridge_status has to say "cancelled".                 *)
CancelBridge(p, answered) ==
  /\ proc[p].pc = "unbridge"
  /\ BridgeCancel(proc[p].q, answered)
  /\ IF answered /\ conv'[proc[p].q] = "cancelled" THEN Goes(p, "close") ELSE Ends(p)
  /\ UNCHANGED <<question, agenda, actions, changed>>

(* A lease of the intent that is still stored fails the validation of the   *)
(* file, and the cancellation is not written.                               *)
CancelStore(p) ==
  LET q == proc[p].q
      open == UNION {question[r].items : r \in OpenQuestions \ {q}}
      valid == question[q].attn = "claimed" => question[q].lease = 0
  IN  /\ proc[p].pc = "close"
      /\ IF question[q].state \in {"staged", "awaiting_reply"} /\ valid
           THEN /\ question' = [question EXCEPT ![q].state = "cancelled",
                     ![q].blind = proc[p].seen = "none",
                     ![q].attn = IF @ \in {"queued", "claimed"} THEN "cancelled" ELSE @]
                /\ suppressed' = suppressed \ (question[q].items \ open)
                /\ IF proc[p].seen = "delivered" THEN Goes(p, "release") ELSE Ends(p)
           ELSE UNCHANGED <<question, suppressed>> /\ Ends(p)
      /\ UNCHANGED <<terminal, current, audits, cursor, actions, changed, route>>

CancelRelease(p, answered) ==
  /\ proc[p].pc = "release"
  /\ conv[proc[p].q] = "cancelled"
  /\ ReleaseVisible(proc[p].q, answered)
  /\ question' = IF answered THEN [question EXCEPT ![proc[p].q].attn = "completed"] ELSE question
  /\ Ends(p)
  /\ UNCHANGED <<agenda, actions, changed>>

-----------------------------------------------------------------------------
(* apply_answers.                                                           *)
(* _secure_answers: the submission answers items of this question.          *)
Fits(s, q) == DOMAIN Answers[s] \subseteq question[q].items

(* _answer_actions: the answers that call for an action of the backend.     *)
Acting(s) == {i \in DOMAIN Answers[s] : Answers[s][i] = "act"}

Committed(pending) == \E i \in DOMAIN pending : pending[i] # "planned"

(* The plan, under the store's lock. A submission that was applied returns  *)
(* its stored result; a pinned question takes only the pinned submission.   *)
ApplyPlan(p, q, s) ==
  LET it == question[q]
      todo == Acting(s) \ (it.resolved \cup it.deferred)
      again == it.state \in {"applying", "committed_unverified"}
      pending == IF again THEN it.pending ELSE [i \in todo |-> "planned"]
  IN  /\ Starts(p, q) /\ q \in Asked /\ it.bound
      /\ it.last # s
      /\ it.state \in {"awaiting_reply", "applying", "committed_unverified"}
      /\ it.plan \in {Nothing, s}
      /\ Fits(s, q)
      /\ again => DOMAIN it.pending = todo
      /\ question' = [question EXCEPT ![q].pending = pending, ![q].plan = s,
                        ![q].state = IF Committed(pending) THEN "committed_unverified" ELSE "applying"]
      /\ Becomes(p, [pc |-> IF it.state = "committed_unverified" THEN "next" ELSE "proof",
                     q |-> q, s |-> s, left |-> todo, before |-> it.resolved \cup it.deferred])
      /\ UNCHANGED <<agenda, actions, changed, route>>

(* The question as it was before the plan.                                  *)
Reopened(q) ==
  [question EXCEPT ![q].state = "awaiting_reply", ![q].pending = NoActions, ![q].plan = Nothing]

(* The bridge's proof that the owner sent this reply; without one the plan  *)
(* is dropped (_restore_after_proof_failure).                               *)
ApplyProof(p, answered) ==
  LET q == proc[p].q IN
  /\ proc[p].pc = "proof"
  /\ answered => ProofAccepted(q)
  /\ IF answered THEN Goes(p, "next") ELSE Ends(p)
  /\ question' = IF /\ ~answered
                    /\ question[q].state = "applying" /\ question[q].plan = proc[p].s
                    /\ ~Committed(question[q].pending)
                   THEN Reopened(q) ELSE question
  /\ UNCHANGED <<agenda, actions, changed, route>>

(* The loop over the planned actions.                                       *)
ApplyNext(p) ==
  LET q == proc[p].q
      i == Min(proc[p].left)
      pending == question[q].pending
  IN  /\ proc[p].pc = "next"
      /\ IF proc[p].left = {} THEN Goes(p, "finish")
         ELSE IF i \notin DOMAIN pending THEN Ends(p)   \* action_retry_mismatch
         ELSE IF pending[i] = "verified" THEN proc' = [proc EXCEPT ![p].left = @ \ {i}]
         ELSE Goes(p, IF pending[i] = "committed" THEN "read" ELSE "post")
      /\ UNCHANGED <<question, agenda, actions, changed, route>>

(* POST /api/reconciliation/actions. The resolution is named after          *)
(* question, item and option; the backend answers a known one again, and    *)
(* refuses one with another body or with outdated snapshots.                *)
Accepts(p) ==
  LET known == actions[proc[p].q][Min(proc[p].left)]
  IN  known = proc[p].s \/ (known = Nothing /\ Min(proc[p].left) \notin Gone)

(* It takes effect, answered or not.                                        *)
ApplyPost(p, answered) ==
  /\ proc[p].pc = "post" /\ Accepts(p)
  /\ actions' = [actions EXCEPT ![proc[p].q][Min(proc[p].left)] = proc[p].s]
  /\ IF answered THEN Goes(p, "receipt") ELSE Ends(p)
  /\ UNCHANGED <<question, agenda, changed, route>>

(* stale_candidate, stale_entity, idempotency_conflict.                     *)
ApplyConflict(p) ==
  LET q == proc[p].q IN
  /\ proc[p].pc = "post" /\ ~Accepts(p)
  /\ question' = IF Committed(question[q].pending) THEN question
                 ELSE [question EXCEPT ![q].state = "stale"]
  /\ Ends(p)
  /\ UNCHANGED <<agenda, actions, changed, route>>

(* Faulty: a 422 reopens the question whatever was committed before. *)
ApplyInvalid_Always(p) ==
  /\ proc[p].pc = "post" /\ actions[proc[p].q][Min(proc[p].left)] = Nothing
  /\ question' = Reopened(proc[p].q)
  /\ Ends(p)
  /\ UNCHANGED <<agenda, actions, changed, route>>

(* A 422 reopens the question while nothing of its plan is committed.       *)
ApplyInvalid(p) ==
  LET q == proc[p].q IN
  /\ proc[p].pc = "post" /\ actions[q][Min(proc[p].left)] = Nothing
  /\ question' = IF question[q].state = "applying" /\ ~Committed(question[q].pending)
                   THEN Reopened(q) ELSE question
  /\ Ends(p)
  /\ UNCHANGED <<agenda, actions, changed, route>>

ApplyReceipt(p) ==
  LET q == proc[p].q
      i == Min(proc[p].left)
  IN  /\ proc[p].pc = "receipt"
      /\ IF i \in DOMAIN question[q].pending
           THEN /\ question' = [question EXCEPT ![q].pending[i] = "committed",
                                                ![q].state = "committed_unverified"]
                /\ Goes(p, "read")
           ELSE UNCHANGED question /\ Ends(p)
      /\ UNCHANGED <<agenda, actions, changed, route>>

(* _verified_action: the backend has this submission's action.              *)
ReadsBack(p) == actions[proc[p].q][Min(proc[p].left)] = proc[p].s

(* GET of the action, repeated once, compared with the plan.                *)
ApplyRead(p, verified) ==
  LET q == proc[p].q
      i == Min(proc[p].left)
  IN  /\ proc[p].pc = "read"
      /\ verified => ReadsBack(p)
      /\ IF ~verified
           THEN /\ question' = [question EXCEPT ![q].state = "committed_unverified"]
                /\ Ends(p)
         ELSE IF i \in DOMAIN question[q].pending
           THEN /\ question' = [question EXCEPT ![q].pending[i] = "verified"]
                /\ proc' = [proc EXCEPT ![p].pc = "next", ![p].left = @ \ {i}]
         ELSE UNCHANGED question /\ Ends(p)
      /\ UNCHANGED <<agenda, actions, changed, route>>

(* The items of this submission that it decides with one of the options.    *)
Decides(p, options) ==
  {i \in DOMAIN Answers[proc[p].s] \ proc[p].before : Answers[proc[p].s][i] \in options}

ApplyFinish(p) ==
  LET q == proc[p].q
      it == question[q]
      resolvedNow == Decides(p, {"act", "keep"})
      deferredNow == Decides(p, {"unsure"})
      resolved == it.resolved \cup resolvedNow
      deferred == it.deferred \cup deferredNow
  IN  /\ proc[p].pc = "finish"
      /\ question' = [question EXCEPT ![q] =
           [it EXCEPT !.resolved = resolved, !.deferred = deferred, !.pending = NoActions,
              !.outcomes = @ \cup {i \in DOMAIN it.pending : it.pending[i] = "verified"},
              !.state = IF it.items \ (resolved \cup deferred) # {} THEN "awaiting_reply"
                        ELSE IF deferred # {} THEN "deferred" ELSE "verified_applied"]]
      /\ terminal' = terminal \cup resolvedNow
      /\ suppressed' = suppressed \cup deferredNow
      /\ IF resolvedNow # {} THEN ReviewRuns(terminal', resolvedNow) ELSE UNCHANGED <<audits, cursor>>
      /\ Goes(p, "result")
      /\ UNCHANGED <<current, actions, changed, route>>

(* The result is stored for exact retries, in a section of its own.         *)
ApplyResult(p) ==
  LET q == proc[p].q IN
  /\ proc[p].pc = "result"
  /\ question' = IF question[q].plan # proc[p].s THEN question
                 ELSE [question EXCEPT ![q].last = proc[p].s, ![q].plan = Nothing]
  /\ Ends(p)
  /\ UNCHANGED <<agenda, actions, changed, route>>

-----------------------------------------------------------------------------
(* The world.                                                               *)
RecordsChange(i) ==
  /\ i \in Unsteady \ Gone
  /\ \E q \in OpenQuestions :   \* bound: while the owner is being asked about it
       i \in question[q].items /\ question[q].state # "staged"
  /\ changed' = changed \cup {i}
  /\ UNCHANGED <<question, agenda, actions, route, proc>>

CooldownEnds(i) ==
  /\ i \in suppressed \ (terminal \cup UNION {question[q].items : q \in OpenQuestions})
  /\ suppressed' = suppressed \ {i}
  /\ UNCHANGED <<question, terminal, current, audits, cursor, actions, changed, route, proc>>

Crash(p) ==
  /\ proc[p].pc # "idle"
  /\ Ends(p)
  /\ UNCHANGED <<question, agenda, actions, changed, route>>

Prepare(p) == (\E latest \in Runs \cup {0} : PrepareRead(p, latest)) \/ PrepareStore(p)

Dispatch(p) ==
  \/ \E q \in Questions, lease \in 1..MaxLeases, overdue \in BOOLEAN : DispatchStart(p, q, lease, overdue)
  \/ \E q \in Questions : RecoverWithdraws(p, q)
  \/ \E answered \in BOOLEAN :
       \/ WithdrawIntent(p, answered) \/ DispatchBridge(p, answered) \/ DispatchRelease(p, answered)
       \/ DispatchBegin(p, answered) \/ DispatchDeliver(p, answered) \/ DispatchComplete(p, answered)
  \/ \E overdue \in BOOLEAN : WithdrawStore(p, overdue)
  \/ DispatchClaim(p) \/ DispatchSending(p) \/ DispatchReceipt(p) \/ DispatchDelivered(p)

Cancel(p) ==
  \/ \E q \in Questions : CancelStart(p, q)
  \/ \E answered \in BOOLEAN : CancelBroker(p, answered) \/ CancelBridge(p, answered) \/ CancelRelease(p, answered)
  \/ CancelStore(p)

Answer(p) ==
  \/ \E q \in Questions, s \in Submissions : ApplyPlan(p, q, s)
  \/ \E answered \in BOOLEAN : ApplyProof(p, answered) \/ ApplyPost(p, answered) \/ ApplyRead(p, answered)
  \/ ApplyNext(p) \/ ApplyConflict(p) \/ ApplyInvalid(p) \/ ApplyReceipt(p)
  \/ ApplyFinish(p) \/ ApplyResult(p)

Manage(q) ==
  \/ \E plan \in StagePlans : Stage(q, plan)
  \/ \E old \in Questions : Reissue(old, q)
  \/ \E answered \in BOOLEAN : SubmitAttention(q, answered) \/ CompleteAttention(q, answered)

(* The agent completes the conversation of an answered question; one that   *)
(* still waits, or was cancelled, may expire.                               *)
Others ==
  /\ \E q \in Asked :
       \/ ClaimNext(q) \/ LeaseLapses(q)
       \/ question[q].state \in Closed \ {"cancelled"} /\ BridgeEnds(q, "completed")
       \/ question[q].state \in Open \cup {"cancelled"} /\ BridgeEnds(q, "expired")
  /\ UNCHANGED <<question, agenda, actions, changed, proc>>

ClientNext ==
  \/ \E p \in Preparers : Prepare(p)
  \/ \E p \in Dispatchers : Dispatch(p)
  \/ \E p \in Cancellers : Cancel(p)
  \/ \E p \in Appliers : Answer(p)
  \/ \E q \in Questions : Manage(q)
  \/ \E i \in Items : RecordsChange(i) \/ CooldownEnds(i)
  \/ \E p \in Procs : Crash(p)
  \/ Others

ClientSpec == ClientInit /\ [][ClientNext]_clientVars

-----------------------------------------------------------------------------
(* Properties.                                                              *)

(* What the file says about a question is true elsewhere: an item counts as *)
(* applied by this question only when the backend has its action, a         *)
(* question that has waited for a reply was really shown, and one stored as *)
(* delivered is delivered at the broker, whatever calls failed in between.  *)
FileIsTruthful ==
  \A q \in Asked :
    /\ \A i \in question[q].outcomes : actions[q][i] # Nothing
    /\ question[q].state \in {"awaiting_reply", "applying", "committed_unverified",
                             "verified_applied", "deferred"} => Shown(q)
    /\ question[q].attn = "delivered" => intent[q].state \in {"delivered", "completed"}

(* The run cursor passes a run only when each of its items was asked about, *)
(* closed, applied or overtaken by a change: prepare never looks at the run *)
(* again (_review_run_items, _advance_run_cursor). So what a limit cuts off *)
(* is carried "to the next run without losing priority"                     *)
(* (docs/plans/relationship-reconciliation-cycle.md:341).                   *)
CursorLeavesNothing ==
  \A i \in Items :
    RunOf[i] \in 1..cursor =>
      i \in terminal \cup Gone \cup UNION {question[q].items : q \in Asked}

(* At most one question is open, although delivery and cancellation decide  *)
(* on what they read earlier and the last section of the delivery opens its *)
(* question whatever became of it. (The exception: one that a cancel        *)
(* without knowledge of its intent closed in the middle of the delivery.)   *)
OneOpenQuestion == Cardinality({q \in OpenQuestions : ~question[q].blind}) <= 1

(* The owner is shown a question only while it is staged: a cancelled or    *)
(* expired one stays unseen, however the canceller and the dispatcher       *)
(* overlap. (A cancel that saw no intent does not look again before it      *)
(* stores: a question submitted and claimed meanwhile may be shown.)        *)
ShownOnlyWhileStaged ==
  [][\A q \in Questions : conv[q] = "prepared" /\ conv'[q] # "prepared" =>
       question[q].state = "staged" \/ question[q].blind]_clientVars

(* The receipt of a committed action is kept until its readback verified it *)
(* and the question counts the item as applied.                             *)
ReceiptsAreKept ==
  [][\A q \in Asked : \A i \in DOMAIN question[q].pending :
       question[q].pending[i] # "planned" =>
         \/ i \in DOMAIN question'[q].pending /\ question'[q].pending[i] # "planned"
         \/ question[q].pending[i] = "verified" /\ i \in question'[q].outcomes]_clientVars

(* docs/reconciliation-channel-contract.md: "If delivery, mutation, or      *)
(* readback is ambiguous [...] recover/read back only; never issue a        *)
(* changed or duplicate write." Once the backend holds an action of a       *)
(* question, no other submission is accepted before that one was verified.  *)
AmbiguityIsReadOnly ==
  [][\A q \in Asked : \A i \in question[q].items \ question[q].outcomes :
       actions[q][i] # Nothing => question'[q].plan \in {Nothing, actions[q][i]}]_clientVars
=============================================================================
