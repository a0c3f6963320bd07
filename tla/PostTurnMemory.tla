--------------------------- MODULE PostTurnMemory ---------------------------
(***************************************************************************)
(* What the Hermes router does with one finished conversation turn: the    *)
(* conversational agent's decision who the user meant, the extraction of   *)
(* claims, and their persistence, either as requests to the memory API or  *)
(* as lines in the user's own knowledge files. Several router processes    *)
(* share the journal; any of them may crash at any step, after which the   *)
(* host may offer the turn again, to this process or another one.          *)
(*                                                                         *)
(* The journal (extractions, requests, outcomes) is SQLite under a file    *)
(* lock and survives; identity frames, their signed results and a run in   *)
(* progress do not. Every read of the backend is a step of its own, and    *)
(* other writers change people between any two steps.                      *)
(*                                                                         *)
(* All claims of a turn name the same surface. A person has one slot (one  *)
(* axis of the relationship profile) holding the version of its current    *)
(* record, 0 for none, and a card, whose version stands for the evidence   *)
(* shown to the agent. A request identifier is its body: it is derived     *)
(* from the input key and the body.                                        *)
(***************************************************************************)
EXTENDS Integers, Sequences, FiniteSets, Functions

CONSTANTS
  None,
  Procs,          \* router processes
  Turns,          \* native turns
  People,
  Decisions,      \* what the classifier may extract from a turn
  Policies,       \* storage policies of the installation
  Attempts,       \* how often _post_memory sends a request
  MaxItems,       \* MAX_CONTEXT_UPDATES_PER_SECTION
  MaxClaims,      \* claims the classifier returns for a turn (8 in the code)
  MaxLookups,     \* bound: identity lookups of a turn (8 in the code)
  MaxDeliveries,  \* bound: how often the host offers a turn
  MaxCrashes,     \* bound: crashes of router processes
  MaxOthers       \* bound: changes by other writers

(* _submit_kinlayer_memories refuses a decision with too many claims.      *)
ASSUME DecisionsAssumption ==
  \A d \in Decisions :
    /\ d.claims \in Seq({"note", "set", "correct", "retract"})
    /\ Len(d.claims) <= MaxClaims

ASSUME BoundsAssumption ==
  /\ Attempts \in Nat \ {0} /\ MaxItems \in Nat \ {0} /\ MaxClaims \in Nat
  /\ MaxLookups \in Nat /\ MaxDeliveries \in Nat /\ MaxCrashes \in Nat /\ MaxOthers \in Nat

VARIABLES
  frame,       \* NativeIdentityState.turns, by turn
  run,         \* [Procs -> the job a process is working on]
  lock,        \* the process that holds the journal, or None
  extracted,   \* extractions: [Turns -> the accepted decision or None]
  requests,    \* requests: [Inputs -> the prepared body or None]
  outcomes,    \* outcomes: [Inputs -> OutcomeState]
  candidateLog,      \* the turns in the candidate log
  evidence, page,    \* [Domains -> lines of the evidence ledger and of the curated page]
  slot, card, active,            \* the backend's people
  changes,     \* the backend's memory changes
  pending,     \* requests a client gave up on that the backend has yet to process
  told,        \* history: what each input was reported as
  policy, budget

journal == <<extracted, requests, outcomes>>
files == <<candidateLog, evidence, page>>
backend == <<slot, card, active, changes, pending>>
vars == <<frame, run, lock, journal, files, backend, told, policy, budget>>

Inputs == Turns \X (1..MaxClaims)
Domains == {"context", "cultural"}
Own == "own line"  \* a line the user wrote into each page
OutcomeState == {"none", "noop", "terminal", "retryable", "receipt"}
Report == {"saved", "unverified", "unknown", "not_committed"}

(* The body of a memory request; old is the version it replaces, 0 for none. *)
Body == [input : Inputs, kind : {"note", "create", "correct", "retract"},
         who : People, old : Nat]

Frame == [proc : Procs, lookups : SUBSET [People -> Nat], who : People \cup {None},
          seen : Nat, conflict : BOOLEAN, closed : BOOLEAN]

(* None is no value of any type; the user's own line is a text that the    *)
(* router does not generate, for that is how retention tells them apart.   *)
ASSUME NoneAssumption == None \notin Procs \cup Turns \cup People \cup Decisions \cup Body \cup Frame
ASSUME OwnAssumption == \A d \in Decisions : d.line # Own

PCs == {"idle", "extract", "log", "lock", "claim", "resolve", "select", "post", "record",
        "verify", "evidence", "page", "replace"}
Idle == [pc |-> "idle", turn |-> None, who |-> None, seen |-> 0, resolved |-> None,
         index |-> 0, tries |-> 0, replay |-> FALSE, copy |-> <<>>, known |-> {}]

Goto(p, pc) == run' = [run EXCEPT ![p].pc = pc]
Spend(what) == budget[what] > 0 /\ budget' = [budget EXCEPT ![what] = @ - 1]

-----------------------------------------------------------------------------
(* The agent's decision about the person, before and during the turn.      *)

(* NativeIdentityState.pre: opens the frame of a native turn. *)
Pre(p, t) ==
  /\ frame[t] = None
  /\ budget[t] = MaxDeliveries
  /\ frame' = [frame EXCEPT ![t] = [proc |-> p, lookups |-> {}, who |-> None, seen |-> 0,
                                    conflict |-> FALSE, closed |-> FALSE]]
  /\ UNCHANGED <<run, lock, journal, files, backend, told, policy, budget>>

(* preflight: the candidates and the evidence the backend shows for them.  *)
Candidates == [x \in People |-> IF active[x] THEN card[x] ELSE 0]

(* The tool's "lookup" hands out a token for one snapshot of candidates.   *)
Lookup(t) ==
  /\ frame[t] # None /\ ~frame[t].closed
  /\ Cardinality(frame[t].lookups) < MaxLookups
  /\ frame' = [frame EXCEPT ![t].lookups = @ \cup {Candidates}]
  /\ UNCHANGED <<run, lock, journal, files, backend, told, policy, budget>>

(* The tool's "decide": the snapshot must still be what the backend shows, *)
(* otherwise the surface becomes unresolved; two different people for one  *)
(* surface are a conflict that lasts for the rest of the turn.             *)
Decide(t, snapshot, x) ==
  /\ frame[t] # None /\ ~frame[t].closed
  /\ snapshot \in frame[t].lookups /\ snapshot[x] > 0
  /\ LET clash == frame[t].conflict \/ frame[t].who \notin {None, x}
         stale == snapshot # Candidates
     IN frame' = [frame EXCEPT
          ![t].who = IF stale \/ clash THEN None ELSE x,
          ![t].seen = snapshot[x],
          ![t].conflict = @ \/ (clash /\ ~stale)]
  /\ UNCHANGED <<run, lock, journal, files, backend, told, policy, budget>>

(* The tool's "unresolved", and a decision whose evidence is refused.      *)
Unresolve(t) ==
  /\ frame[t] # None /\ ~frame[t].closed /\ frame[t].lookups # {}
  /\ frame' = [frame EXCEPT ![t].who = None]
  /\ UNCHANGED <<run, lock, journal, files, backend, told, policy, budget>>

(* The signed results of a frame are valid in the process that made it.    *)
Native(p, t) == frame[t] # None /\ frame[t].proc = p

(* post_llm_call offers the turn to process p, which attaches the results  *)
(* that are valid there; anywhere else, and after a restart, the surface   *)
(* is undecided.                                                           *)
Deliver(p, t) ==
  /\ run[p].pc = "idle"
  /\ Spend(t)
  /\ frame' = IF Native(p, t) THEN [frame EXCEPT ![t].closed = TRUE] ELSE frame
  /\ run' = [run EXCEPT ![p] =
       [Idle EXCEPT !.pc = "extract", !.turn = t,
                    !.who = IF Native(p, t) THEN frame[t].who ELSE None,
                    !.seen = IF Native(p, t) THEN frame[t].seen ELSE 0]]
  /\ UNCHANGED <<lock, journal, files, backend, told, policy>>

-----------------------------------------------------------------------------
(* What a decision of the classifier leads to. A decision is a record:     *)
(* work, relationships (the target domain is relationships), claims,       *)
(* subjects (usable person subjects), cultural (the item of a cultural     *)
(* decision or None), thirdParty, confidence 0..2, line (the text rendered *)
(* for the page, for a cultural item its key) and empty (there is none).   *)
Domain(d) == IF d.cultural = None THEN "context" ELSE "cultural"

(* _relationship_person_specific *)
PersonSpecific(d) ==
  /\ d.cultural = None
  /\ d.relationships
  /\ d.claims # <<>> \/ d.subjects

(* _cultural_candidate_only_reason: below these, only the candidate log.   *)
CandidateOnly(d) ==
  /\ d.cultural # None
  /\ \/ ~d.cultural.resolved
     \/ d.cultural.item /\ ~d.cultural.title
     \/ d.cultural.item /\ ~d.cultural.medium
     \/ ~d.cultural.item /\ ~d.cultural.title /\ ~d.subjects
     \/ d.confidence = 0

(* _third_party_subject_domain_block *)
ThirdPartyBlocked(d) == d.cultural # None /\ d.thirdParty

(* _storage_allows_auto_write: the first setting that speaks decides.      *)
AutoWriteAllowed(s) ==
  /\ s.postTurn # FALSE /\ s.gate # FALSE
  /\ IF s.domain # None THEN s.domain
     ELSE \/ s.postTurn = TRUE
          \/ s.postTurn = None /\ s.default = TRUE
          \/ s.postTurn = None /\ s.default = None /\ s.target = TRUE

(* _auto_write_section: the part of the page that takes generated lines,   *)
(* by the medium of a cultural item or by the policy of the domain.        *)
HasSection(d) ==
  IF d.cultural = None THEN policy.section ELSE d.cultural.medium

(* What process_post_turn asks before it writes a curated page.            *)
MayCurate(d) ==
  /\ AutoWriteAllowed(policy)
  /\ HasSection(d)
  /\ d.cultural # None => d.confidence = 2 /\ d.cultural.title
  /\ ~d.empty

-----------------------------------------------------------------------------
(* The run of a turn.                                                      *)

(* _accepted_post_turn_extraction, under the journal's lock from the first  *)
(* read to the commit: the classifier is asked once per turn.              *)
Extract(p) ==
  /\ run[p].pc = "extract" /\ lock = None
  /\ LET t == run[p].turn
     IN IF extracted[t] # None
          THEN Goto(p, "log") /\ UNCHANGED extracted
          ELSE \E d \in Decisions :
                 Goto(p, "log") /\ extracted' = [extracted EXCEPT ![t] = d]
  /\ UNCHANGED <<frame, lock, requests, outcomes, files, backend, told, policy, budget>>

(* The classifier is not available, or an exception before anything was    *)
(* persisted: the run ends and leaves no trace.                            *)
ExtractFails(p) ==
  /\ run[p].pc = "extract"
  /\ run' = [run EXCEPT ![p] = Idle]
  /\ UNCHANGED <<frame, lock, journal, files, backend, told, policy, budget>>

(* process_post_turn up to the choice of the owner of the information.     *)
LogCandidate(p) ==
  /\ run[p].pc = "log"
  /\ LET t == run[p].turn
         d == extracted[t]
     IN IF ~d.work
          THEN run' = [run EXCEPT ![p] = Idle] /\ UNCHANGED candidateLog
          ELSE /\ candidateLog' = IF policy.candidateLog THEN candidateLog \cup {t}
                                                          ELSE candidateLog
               /\ run' = [run EXCEPT ![p] =
                    IF ThirdPartyBlocked(d) \/ CandidateOnly(d) \/ policy.dryRun THEN Idle
                    ELSE [@ EXCEPT !.pc = IF PersonSpecific(d) THEN "lock" ELSE "evidence"]]
  /\ UNCHANGED <<frame, lock, journal, evidence, page, backend, told, policy, budget>>

(* _submit_kinlayer_memories enters _memory_journal, for all its claims.   *)
LockJournal(p) ==
  /\ run[p].pc = "lock"
  /\ lock = None
  /\ lock' = p
  /\ run' = [run EXCEPT ![p].pc = "claim", ![p].index = 1]
  /\ UNCHANGED <<frame, journal, files, backend, told, policy, budget>>

Input(p) == <<run[p].turn, run[p].index>>
Claim(p) == extracted[run[p].turn].claims[run[p].index]
NextClaim(p) == run' = [run EXCEPT ![p].pc = "claim", ![p].index = @ + 1, ![p].tries = 0,
                                   ![p].replay = FALSE]
Tell(p, what) == told' = [told EXCEPT ![Input(p)] = @ \cup {what}]

LeaveJournal(p) ==
  /\ run[p].pc = "claim"
  /\ run[p].index > Len(extracted[run[p].turn].claims)
  /\ lock' = None
  /\ run' = [run EXCEPT ![p] = Idle]
  /\ UNCHANGED <<frame, journal, files, backend, told, policy, budget>>

(* Faulty: a claim that has failed for good is tried again. *)
TakeClaim_Retries(p) ==
  /\ run[p].pc = "claim"
  /\ run[p].index <= Len(extracted[run[p].turn].claims)
  /\ IF outcomes[Input(p)] = "noop" THEN NextClaim(p)
     ELSE IF requests[Input(p)] # None
       THEN run' = [run EXCEPT ![p].pc = "post", ![p].replay = TRUE]
       ELSE Goto(p, "resolve")
  /\ UNCHANGED <<frame, lock, journal, files, backend, told, policy, budget>>

(* Faulty: a request that was sent before is prepared anew. *)
TakeClaim_Anew(p) ==
  /\ run[p].pc = "claim"
  /\ run[p].index <= Len(extracted[run[p].turn].claims)
  /\ IF outcomes[Input(p)] \in {"noop", "terminal"} THEN NextClaim(p) ELSE Goto(p, "resolve")
  /\ UNCHANGED <<frame, lock, journal, files, backend, told, policy, budget>>

(* One claim of the loop: finished claims are passed over, a prepared      *)
(* request is sent again as it is, anything else has to be prepared.       *)
TakeClaim(p) ==
  /\ run[p].pc = "claim"
  /\ run[p].index <= Len(extracted[run[p].turn].claims)
  /\ IF outcomes[Input(p)] \in {"noop", "terminal"}
       THEN /\ NextClaim(p)
            /\ IF outcomes[Input(p)] = "terminal"
                 THEN Tell(p, "not_committed") ELSE UNCHANGED told
       ELSE /\ IF requests[Input(p)] # None
                 THEN run' = [run EXCEPT ![p].pc = "post", ![p].replay = TRUE]
                 ELSE Goto(p, "resolve")
            /\ UNCHANGED told
  /\ UNCHANGED <<frame, lock, journal, files, backend, policy, budget>>

(* The error branch of the loop. A claim with a receipt is committed but   *)
(* not verified; without one it may be tried again only if what failed was *)
(* the transport.                                                          *)
Failed(p, transport, attempted) ==
  LET receipt == outcomes[Input(p)] = "receipt"
  IN /\ outcomes' = [outcomes EXCEPT ![Input(p)] =
          IF receipt THEN "receipt" ELSE IF transport THEN "retryable" ELSE "terminal"]
     /\ Tell(p, IF receipt THEN "unverified"
                ELSE IF transport /\ attempted THEN "unknown" ELSE "not_committed")
     /\ NextClaim(p)

(* Faulty: the decision of the agent is used without looking again. *)
Resolve_Trusts(p) ==
  /\ run[p].pc = "resolve"
  /\ run[p].who # None
  /\ run' = [run EXCEPT ![p].pc = "select", ![p].resolved = run[p].who]
  /\ UNCHANGED <<frame, lock, journal, files, backend, told, policy, budget>>

(* revalidate_candidate: the person decided in this turn is still active   *)
(* and shown with the same evidence.                                       *)
StillShown(p) == run[p].who # None /\ active[run[p].who] /\ card[run[p].who] = run[p].seen

(* _preflight_memory_people and _memory_resolve: the person is the one     *)
(* decided in this turn, which is checked once per submission.             *)
Resolve(p) ==
  /\ run[p].pc = "resolve"
  /\ IF run[p].resolved # None
       THEN Goto(p, "select") /\ UNCHANGED <<outcomes, told>>
       ELSE IF StillShown(p)
         THEN /\ run' = [run EXCEPT ![p].pc = "select", ![p].resolved = run[p].who]
              /\ UNCHANGED <<outcomes, told>>
         ELSE Failed(p, FALSE, FALSE)
  /\ UNCHANGED <<frame, lock, extracted, requests, files, backend, policy, budget>>

(* The contract, the ontology or a target cannot be read.                  *)
PrepareFails(p) ==
  /\ run[p].pc \in {"resolve", "select"}
  /\ Failed(p, TRUE, FALSE)
  /\ UNCHANGED <<frame, lock, extracted, requests, files, backend, policy, budget>>

BodyFor(p, kind, old) ==
  [input |-> Input(p), kind |-> kind, who |-> run[p].resolved, old |-> old]

(* The body of a claim, given the target the backend shows: an assessment  *)
(* of an axis that has one becomes a correction of it, to retract nothing  *)
(* is no work, and what is to be corrected must exist.                     *)
NewBody(p, current) ==
  CASE Claim(p) = "note" -> BodyFor(p, "note", 0)
    [] Claim(p) = "set" -> BodyFor(p, IF current = 0 THEN "create" ELSE "correct", current)
    [] OTHER -> IF current = 0 THEN None ELSE BodyFor(p, Claim(p), current)

(* _select_memory_target: the version the backend shows as current.        *)
Target(p) == slot[run[p].resolved]

(* _memory_request_body: selects the target and commits the body to the    *)
(* journal before anything is sent.                                        *)
Prepare(p) ==
  /\ run[p].pc = "select"
  /\ LET body == NewBody(p, Target(p))
     IN IF body # None
          THEN /\ requests' = [requests EXCEPT ![Input(p)] = body]
               /\ run' = [run EXCEPT ![p].pc = "post"]
               /\ UNCHANGED <<outcomes, told>>
        ELSE IF Claim(p) = "retract"
          THEN /\ outcomes' = [outcomes EXCEPT ![Input(p)] = "noop"]
               /\ NextClaim(p)
               /\ UNCHANGED <<requests, told>>
        ELSE Failed(p, FALSE, FALSE) /\ UNCHANGED requests
  /\ UNCHANGED <<frame, lock, extracted, files, backend, policy, budget>>

-----------------------------------------------------------------------------
(* The memory API, as one atomic write per request (MemoryLedger).         *)
Fresh == 1 + Cardinality(changes) + (MaxOthers - budget["others"])
Applied(body) == body \in changes

Acceptable(body) ==
  /\ body.kind \in {"note", "create", "correct"} => active[body.who]
  /\ body.kind \in {"create", "correct", "retract"} => slot[body.who] = body.old

(* A request is answered with its receipt if it was applied before, else   *)
(* applied if it can be, else refused.                                     *)
Processed(body) ==
  IF Applied(body) \/ ~Acceptable(body)
    THEN UNCHANGED <<slot, card, changes>>
    ELSE /\ changes' = changes \cup {body}
         /\ card' = [card EXCEPT ![body.who] = @ + 1]
         /\ slot' = [slot EXCEPT ![body.who] =
              CASE body.kind = "note" -> @ [] body.kind = "retract" -> 0 [] OTHER -> Fresh]

(* One attempt of _post_memory that reaches the backend and is answered.   *)
(* Requests with one identifier wait for each other, so an attempt that is *)
(* still pending is processed first.                                       *)
PostAnswered(p) ==
  /\ run[p].pc = "post"
  /\ requests[Input(p)] \notin pending
  /\ Processed(requests[Input(p)])
  /\ IF requests[Input(p)] \in changes'
       THEN Goto(p, "record") /\ UNCHANGED <<outcomes, told>>
       ELSE Failed(p, FALSE, TRUE)
  /\ UNCHANGED <<frame, lock, extracted, requests, files, active, pending, policy, budget>>

(* One that times out: it never arrives, or stays pending.                 *)
PostTimesOut(p) ==
  /\ run[p].pc = "post"
  /\ \/ UNCHANGED pending
     \/ pending' = pending \cup {requests[Input(p)]}
  /\ IF run[p].tries + 1 < Attempts
       THEN run' = [run EXCEPT ![p].tries = @ + 1] /\ UNCHANGED <<outcomes, told>>
       ELSE Failed(p, TRUE, TRUE)
  /\ UNCHANGED <<frame, lock, extracted, requests, files, slot, card, active, changes,
                 policy, budget>>

(* The backend processes an attempt nobody waits for any more.             *)
ProcessPending ==
  /\ \E body \in pending : Processed(body) /\ pending' = pending \ {body}
  /\ UNCHANGED <<frame, run, lock, journal, files, active, told, policy, budget>>

(* The acknowledged commit is kept before it is verified.                  *)
Record(p) ==
  /\ run[p].pc = "record"
  /\ outcomes' = [outcomes EXCEPT ![Input(p)] = "receipt"]
  /\ Goto(p, "verify")
  /\ UNCHANGED <<frame, lock, extracted, requests, files, backend, told, policy, budget>>

(* _verify_memory_receipt reads the change back. The first time its record *)
(* must still be current, a replay also accepts one replaced since.        *)
Verified(p) ==
  LET body == requests[Input(p)]
  IN /\ Applied(body)
     /\ run[p].replay \/ body.kind \in {"note", "retract"} \/ slot[body.who] > body.old

Verify(p) ==
  /\ run[p].pc = "verify"
  /\ \/ Verified(p) /\ Tell(p, "saved") /\ NextClaim(p) /\ UNCHANGED outcomes
     \/ Failed(p, TRUE, TRUE)   \* a read fails, or shows something else
  /\ UNCHANGED <<frame, lock, extracted, requests, files, backend, policy, budget>>

-----------------------------------------------------------------------------
(* The user's own knowledge files.                                         *)

(* Faulty: the page is written without an entry in the ledger. *)
AppendEvidence_Optional(p) ==
  /\ run[p].pc = "evidence"
  /\ run' = [run EXCEPT ![p].pc = "page"]
  /\ UNCHANGED <<frame, lock, journal, files, backend, told, policy, budget>>

(* _append_evidence_ledger: returns the lines by which retention knows     *)
(* what was generated. Without it nothing is written to the page.          *)
AppendEvidence(p) ==
  /\ run[p].pc = "evidence"
  /\ LET d == extracted[run[p].turn]
     IN IF policy.evidence
          THEN /\ evidence' = [evidence EXCEPT ![Domain(d)] = Append(@, d.line)]
               /\ run' = [run EXCEPT ![p].pc = "page",
                                     ![p].known = Range(evidence'[Domain(d)])]
          ELSE /\ run' = [run EXCEPT ![p] = Idle]
               /\ UNCHANGED evidence
  /\ UNCHANGED <<frame, lock, journal, candidateLog, page, backend, told, policy, budget>>

(* The guards of append_domain_entry, then the page as read.               *)
ReadPage(p) ==
  /\ run[p].pc = "page"
  /\ LET d == extracted[run[p].turn]
     IN run' = [run EXCEPT ![p] =
          IF MayCurate(d) THEN [@ EXCEPT !.pc = "replace", !.copy = page[Domain(d)]] ELSE Idle]
  /\ UNCHANGED <<frame, lock, journal, files, backend, told, policy, budget>>

(* The lines at some positions, in the order they have in the page.        *)
LinesAt(lines, kept) ==
  [n \in 1..Cardinality(kept) |->
     lines[CHOOSE i \in kept : Cardinality({j \in kept : j <= i}) = n]]

(* _prune_context_update_lines: only the newest recognised lines stay.     *)
LastOf(lines, known) ==
  LET Recent(i) == Cardinality({j \in DOMAIN lines : j > i /\ lines[j] \in known}) < MaxItems
  IN LinesAt(lines, {i \in DOMAIN lines : lines[i] \in known => Recent(i)})

(* _append_under_section, and _upsert_cultural_item, which replaces the    *)
(* item's line and counts every item of the page.                          *)
Updated(d, lines, known) ==
  IF d.cultural = None
    THEN LastOf(Append(lines, d.line), known)
    ELSE LET others == LinesAt(lines, {i \in DOMAIN lines : lines[i] # d.line})
         IN LastOf(Append(others, d.line), Range(Append(others, d.line)))

(* os.replace with the updated copy. *)
ReplacePage(p) ==
  /\ run[p].pc = "replace"
  /\ LET d == extracted[run[p].turn]
     IN page' = [page EXCEPT ![Domain(d)] = Updated(d, run[p].copy, run[p].known)]
  /\ run' = [run EXCEPT ![p] = Idle]
  /\ UNCHANGED <<frame, lock, journal, candidateLog, evidence, backend, told, policy, budget>>

-----------------------------------------------------------------------------
(* Process p dies: its run, its frames and its hold on the journal go.     *)
Crash(p) ==
  /\ Spend("crashes")
  /\ run[p].pc # "idle" \/ \E t \in Turns : frame[t] # None /\ frame[t].proc = p
  /\ run' = [run EXCEPT ![p] = Idle]
  /\ lock' = IF lock = p THEN None ELSE lock
  /\ frame' = [t \in Turns |-> IF frame[t] # None /\ frame[t].proc = p THEN None ELSE frame[t]]
  /\ UNCHANGED <<journal, files, backend, told, policy>>

(* Somebody else writes or removes a person's record, or the person.       *)
OtherWriter(x) ==
  /\ Spend("others")
  /\ card' = [card EXCEPT ![x] = @ + 1]
  /\ \/ \E v \in {0, Fresh} : slot' = [slot EXCEPT ![x] = v] /\ UNCHANGED active
     \/ active' = [active EXCEPT ![x] = ~@] /\ UNCHANGED slot
  /\ UNCHANGED <<frame, run, lock, journal, files, changes, pending, told, policy>>

Init ==
  /\ frame = [t \in Turns |-> None]
  /\ run = [p \in Procs |-> Idle]
  /\ lock = None
  /\ extracted = [t \in Turns |-> None]
  /\ requests = [i \in Inputs |-> None]
  /\ outcomes = [i \in Inputs |-> "none"]
  /\ candidateLog = {}
  /\ evidence = [d \in Domains |-> <<>>]
  /\ page = [d \in Domains |-> <<Own>>]
  /\ slot = [x \in People |-> 0]
  /\ card = [x \in People |-> 1]
  /\ active = [x \in People |-> TRUE]
  /\ changes = {} /\ pending = {}
  /\ told = [i \in Inputs |-> {}]
  /\ policy \in Policies
  /\ budget = [b \in Turns \cup {"crashes", "others"} |->
       CASE b = "crashes" -> MaxCrashes [] b = "others" -> MaxOthers [] OTHER -> MaxDeliveries]

Step(p) ==
  \/ Extract(p) \/ ExtractFails(p) \/ LogCandidate(p) \/ LockJournal(p) \/ LeaveJournal(p)
  \/ TakeClaim(p) \/ Resolve(p) \/ PrepareFails(p) \/ Prepare(p)
  \/ PostAnswered(p) \/ PostTimesOut(p) \/ Record(p) \/ Verify(p)
  \/ AppendEvidence(p) \/ ReadPage(p) \/ ReplacePage(p)

Next ==
  \/ \E p \in Procs : Step(p) \/ Crash(p)
  \/ \E p \in Procs, t \in Turns : Pre(p, t) \/ Deliver(p, t)
  \/ \E t \in Turns :
       \/ Lookup(t) \/ Unresolve(t)
       \/ frame[t] # None /\ \E s \in frame[t].lookups, x \in People : Decide(t, s, x)
  \/ ProcessPending
  \/ \E x \in People : OtherWriter(x)

Spec == Init /\ [][Next]_vars

-----------------------------------------------------------------------------
(* Each claim has its effect once, with the body the journal holds, or is  *)
(* given up and never takes effect, however often the turn is offered, to  *)
(* whom, and whatever a timed-out attempt still does in the backend.       *)
OnceOrNever == INSTANCE AtMostOnce WITH
  Works <- Inputs,
  effects <- [i \in Inputs |-> Cardinality({c \in changes : c.input = i})],
  givenUp <- {i \in Inputs : outcomes[i] \in {"noop", "terminal"}}
ClaimsOnceOrNever == OnceOrNever!Spec

(* "saved" is said of changes that took place, and "not_committed" of a    *)
(* claim that is closed only when there is and will be none; a prepared    *)
(* body is never replaced, and a receipt is never lost.                    *)
ReportsTruthful ==
  \A i \in Inputs :
    /\ "saved" \in told[i] \/ outcomes[i] = "receipt" => requests[i] \in changes
    /\ outcomes[i] = "terminal" => told[i] \cap {"saved", "unverified"} = {}
    /\ \A c \in changes : c.input = i => c = requests[i]

(* The person a claim is written to was decided by the agent in this very  *)
(* turn, in this process, without a conflict, and the evidence the agent   *)
(* saw is what the backend shows when the claim is prepared.               *)
PersonAsDecided ==
  [][\A p \in Procs :
       run'[p].resolved \notin {None, run[p].resolved} =>
         LET f == frame[run[p].turn] x == run'[p].resolved
         IN /\ f # None /\ f.proc = p /\ f.closed /\ ~f.conflict
            /\ active[x] /\ \E snapshot \in f.lookups : snapshot[x] = card[x]]_vars

(* Curated pages hold what the user wrote and lines the evidence ledger    *)
(* has; retention and concurrent updates never drop the user's own line    *)
(* from a page of context updates.                                         *)
KnowledgeKept ==
  /\ Own \in Range(page["context"])
  /\ \A d \in Domains : Range(page[d]) \subseteq {Own} \cup Range(evidence[d])

=============================================================================
