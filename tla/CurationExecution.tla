------------------------- MODULE CurationExecution -------------------------
(***************************************************************************)
(* One curation run: its decisions are first evaluated against the policy  *)
(* and then executed, by whichever requests ask for it. The client times   *)
(* out and resumes, so several workers may evaluate and execute the same   *)
(* run at once, and each may crash between any two statements.             *)
(*                                                                         *)
(* A worker loads the run and its decisions without a lock and keeps those *)
(* copies (expire_on_commit is off) until a rollback expires them. It      *)
(* executes a decision in one transaction that locks the decision, its     *)
(* candidates, the run and the person, and reads them again. After the     *)
(* commit a fresh session without locks reads the outcome back and records *)
(* the verdict. SQLAlchemy writes only the columns that differ from the    *)
(* loaded copy.                                                            *)
(*                                                                         *)
(* All candidates are observations about one person; a payload is reduced  *)
(* to what it says, its fingerprint.                                       *)
(***************************************************************************)
EXTENDS Integers, Sequences, FiniteSets

CONSTANTS
  Workers,     \* the request workers, each with its database session
  Candidates,  \* the run's candidates; numbers, because locks are sorted
  Windows,     \* what may be in a window: the fingerprints of the candidates
               \* and the plan for them, a sequence of decisions
  Known,       \* the observations about the person before the run
  Contents,    \* fingerprints
  None,        \* absence of a reference, a copy, a candidate
  MaxOthers    \* bound: how many changes the reviewers and other writers make

Actions == {"accept_existing", "edit_accept_existing", "consolidate_accept",
            "archive_exact_duplicate"}
Decision == [action : Actions, sources : SUBSET Candidates, says : Contents, duplicateOf : Nat]

(* A run covers each candidate of its window exactly once.                 *)
ASSUME WindowsAssumption ==
  /\ MaxOthers \in Nat
  /\ Candidates \subseteq Nat \ {0}
  /\ \A window \in Windows :
       /\ window.says \in [Candidates -> Contents]
       /\ window.plan \in Seq(Decision)
       /\ \A d, e \in DOMAIN window.plan :
            d # e => window.plan[d].sources \cap window.plan[e].sources = {}
       /\ \A d \in DOMAIN window.plan : window.plan[d].sources # {}

VARIABLES
  says,      \* [Candidates -> fingerprint of the payload]; never changes
  plan,      \* the decisions of the run, in order; never changes
  run,       \* curation_runs.status
  dec,       \* the rows of curation_decisions
  cand,      \* [Candidates -> CandidateRow]; touched since it was reviewed
  obs,       \* the observations about the person, in order of creation
  person,    \* the person is active
  worker,    \* [Workers -> WorkerState]
  reviewer,  \* the open candidate a reviewer has loaded, or None
  others     \* changes of reviewers and other writers so far

tables == <<says, plan, run, dec, cand, obs, person>>
meanwhile == <<reviewer, others>>
vars == <<tables, worker, meanwhile>>

RunStatus == {"pending", "planning", "ready", "executing", "completed", "partial", "failed"}
DecisionStatus == {"proposed", "allowed", "blocked", "executing", "executed", "failed"}
CandidateStatus == {"pending", "needs_clarification", "accepted", "edited_accepted",
                    "superseded", "archived", "rejected"}
Open == {"pending", "needs_clarification"}

Decisions == DOMAIN plan
Refs == ({"observations"} \X Nat) \cup ({"candidates"} \X Candidates) \cup {None}
DecisionRow == [status : DecisionStatus, ref : Refs,
                readback : {None, "verification_unknown", "verified", "failed"}]
CandidateRow == [status : CandidateStatus, touched : BOOLEAN]
Observation == [by : Nat, source : Candidates \cup {None}, says : Contents, intact : BOOLEAN]

(* No decision of this run wrote what was known before it.                 *)
ASSUME KnownAssumption == Known \in Seq(Observation) /\ \A i \in DOMAIN Known : Known[i].by = 0
ASSUME NoneAssumption == None \notin Candidates \cup (({"observations", "candidates"}) \X Nat)

(* Row locks. Each transaction takes those it needs in this order.         *)
Lockable == {<<1, d>> : d \in Decisions} \cup {<<2, c>> : c \in Candidates} \cup {<<3, 0>>, <<4, 0>>}
RunLock == <<3, 0>>
PersonLock == <<4, 0>>
Precedes(a, b) == a[1] < b[1] \/ (a[1] = b[1] /\ a[2] <= b[2])

WorkerState ==
  [pc : {"idle", "planning", "planned", "loaded", "next", "lock", "commit", "reconcile",
         "verdict", "mark", "marking", "finishing"},
   k : Nat,                    \* the decision it is at
   held : SUBSET Lockable,
   seenRun : RunStatus,        \* its copy of the run's status
   seen : [Decisions -> DecisionRow] \cup {None},  \* its copies of the decisions, or expired
   plan : [Decisions -> {"allowed", "blocked"}] \cup {None},
   failing : BOOLEAN,          \* an exception is being handled
   row : DecisionRow \cup {None},  \* the fresh session's copy of the decision
   ok : BOOLEAN]               \* what it concluded

Idle == [pc |-> "idle", k |-> 0, held |-> {}, seenRun |-> "pending", seen |-> None,
         plan |-> None, failing |-> FALSE, row |-> None, ok |-> FALSE]

Holds(w, r) == r \in worker[w].held

Free(w, r) == \A v \in Workers \ {w} : ~Holds(v, r)
Unlocked(r) == \A v \in Workers : ~Holds(v, r)

Become(w, state) == worker' = [worker EXCEPT ![w] = state]

(* On to the next decision; a rollback also expires the copies.            *)
Skip(state) == [state EXCEPT !.pc = "next", !.k = @ + 1, !.held = {},
                             !.failing = FALSE, !.row = None, !.ok = FALSE]
RolledBack(state) == [state EXCEPT !.held = {}, !.seen = None]

-----------------------------------------------------------------------------
(* The policy, on the committed tables.                                    *)
Duplicated(d) ==
  \/ \E c \in Candidates \ plan[d].sources :
       cand[c].status = "pending" /\ says[c] = plan[d].says
  \/ \E i \in DOMAIN obs : obs[i].intact /\ obs[i].says = plan[d].says

PolicyAllows(d) ==
  LET p == plan[d]
  IN /\ \A c \in p.sources : cand[c].status = "pending"
     /\ person
     /\ CASE p.action = "archive_exact_duplicate" ->
               /\ \A c \in p.sources : says[c] = p.says
               /\ \/ \E i \in DOMAIN obs : obs[i].intact /\ obs[i].says = p.says
                  \/ Cardinality(p.sources) >= 2
          [] p.action = "consolidate_accept" -> Cardinality(p.sources) >= 2 /\ ~Duplicated(d)
          [] OTHER -> Cardinality(p.sources) = 1 /\ ~Duplicated(d)

(* _candidate_snapshot_mismatch: nothing changed since the plan was made.  *)
SnapshotsMatch(d) == \A c \in plan[d].sources : ~cand[c].touched

-----------------------------------------------------------------------------
(* evaluate_run loads a run that is not evaluated yet and has no execution *)
(* state.                                                                  *)
Evaluate(w) ==
  /\ worker[w].pc = "idle"
  /\ run \in {"pending", "planning"}
  /\ \A d \in Decisions : dec[d].ref = None /\ dec[d].status \in {"proposed", "allowed", "blocked"}
  /\ Become(w, [Idle EXCEPT !.pc = "planning", !.seenRun = run, !.seen = dec])
  /\ UNCHANGED <<tables, meanwhile>>

(* A pending run is marked as planning and loaded again; then every        *)
(* decision is compared with the policy.                                   *)
Plan(w) ==
  LET state == worker[w]
  IN /\ state.pc = "planning"
     /\ IF state.seenRun = "pending"
          THEN /\ Free(w, RunLock)
               /\ run' = "planning"
               /\ Become(w, [state EXCEPT !.seenRun = "planning", !.seen = dec])
          ELSE /\ UNCHANGED run
               /\ Become(w, [state EXCEPT !.pc = "planned", !.plan =
                    [d \in Decisions |-> IF PolicyAllows(d) THEN "allowed" ELSE "blocked"]])
     /\ UNCHANGED <<says, plan, dec, cand, obs, person, meanwhile>>

(* The verdicts and the status are written over whatever is there by now.  *)
CommitPlan(w) ==
  LET state == worker[w]
  IN /\ state.pc = "planned"
     /\ \A r \in {<<1, d>> : d \in Decisions} \cup {RunLock} : Free(w, r)
     /\ dec' = [d \in Decisions |->
                  IF state.plan[d] = state.seen[d].status
                    THEN dec[d] ELSE [dec[d] EXCEPT !.status = state.plan[d]]]
     /\ run' = "ready"
     /\ Become(w, Idle)
     /\ UNCHANGED <<says, plan, cand, obs, person, meanwhile>>

-----------------------------------------------------------------------------
(* execute_run, from the execute or the resume request. *)
Load(w) ==
  /\ worker[w].pc = "idle"
  /\ run \notin {"pending", "planning"}
  /\ Become(w, [Idle EXCEPT !.pc = "loaded", !.k = 1, !.seenRun = run, !.seen = dec])
  /\ UNCHANGED <<tables, meanwhile>>

(* A run already completed is only read back. *)
Audits(state) == state.seenRun = "completed"

Start(w) ==
  /\ worker[w].pc = "loaded"
  /\ IF Audits(worker[w])
       THEN UNCHANGED run /\ Become(w, [worker[w] EXCEPT !.pc = "next"])
       ELSE /\ IF worker[w].seenRun = "executing"
                 THEN UNCHANGED run
                 ELSE Free(w, RunLock) /\ run' = "executing"
            /\ Become(w, [worker[w] EXCEPT !.pc = "next", !.seenRun = "executing"])
  /\ UNCHANGED <<says, plan, dec, cand, obs, person, meanwhile>>

(* The unlocked look at the next decision: its copy decides whether it is  *)
(* left alone, read back or locked.                                        *)
Look(w) ==
  LET state == worker[w]
      row == IF state.seen = None THEN dec[state.k] ELSE state.seen[state.k]
      (* The copies are not looked at again after the last decision. *)
      rest == [state EXCEPT !.seen = IF state.k = Len(plan) THEN None ELSE @]
      pc == IF Audits(state) THEN IF row.status = "executed" THEN "reconcile" ELSE "skip"
            ELSE IF row.status \in {"executed", "blocked"} THEN "skip"
            ELSE IF row.ref # None THEN "reconcile"
            ELSE IF row.status \in {"allowed", "failed"} THEN "lock" ELSE "skip"
  IN /\ state.pc = "next"
     /\ state.k \in Decisions
     /\ Become(w, CASE pc = "skip" -> Skip(rest)
                    [] pc = "lock" -> [rest EXCEPT !.pc = "lock"]
                    [] OTHER -> [IF Audits(state) THEN rest ELSE RolledBack(rest)
                                   EXCEPT !.pc = "reconcile"])
     /\ UNCHANGED <<tables, meanwhile>>

(* Faulty: the person the observation is about is not locked. *)
LockSet_NoPerson(d) == {<<1, d>>, RunLock} \cup {<<2, c>> : c \in plan[d].sources}

LockSet(d) == {<<1, d>>, RunLock, PersonLock} \cup {<<2, c>> : c \in plan[d].sources}

NextLock(w, r) ==
  LET missing == LockSet(worker[w].k) \ worker[w].held
  IN r \in missing /\ \A q \in missing : Precedes(r, q)

(* With the run locked, decision and run are judged as they are now.       *)
Recheck(state) ==
  LET row == dec[state.k]
  IN CASE row.ref # None \/ row.status = "executed" ->
            [RolledBack(state) EXCEPT !.pc = "reconcile"]
       [] /\ run \in {"executing", "partial", "failed"}
          /\ row.status \in {"allowed", "failed"}
          /\ row.ref = None ->
            [state EXCEPT !.held = @ \cup {RunLock}]
       [] OTHER -> Skip(RolledBack(state))

Lock(w, r) ==
  LET state == worker[w]
  IN /\ state.pc = "lock"
     /\ NextLock(w, r)
     /\ Free(w, r)
     /\ Become(w, IF r = RunLock THEN Recheck(state)
                                 ELSE [state EXCEPT !.held = @ \cup {r}])
     /\ UNCHANGED <<tables, meanwhile>>

(* Faulty: the policy alone decides, whatever the reviewer saw. *)
Judge_PolicyOnly(w) ==
  LET d == worker[w].k
  IN /\ worker[w].pc = "lock"
     /\ LockSet(d) \subseteq worker[w].held
     /\ IF PolicyAllows(d)
          THEN Become(w, [worker[w] EXCEPT !.pc = "commit"]) /\ UNCHANGED dec
          ELSE Become(w, Skip(worker[w])) /\ dec' = [dec EXCEPT ![d].status = "blocked"]
     /\ UNCHANGED <<says, plan, run, cand, obs, person, meanwhile>>

(* Everything is locked: block the decision, or carry it out.              *)
Judge(w) ==
  LET d == worker[w].k
  IN /\ worker[w].pc = "lock"
     /\ LockSet(d) \subseteq worker[w].held
     /\ IF SnapshotsMatch(d) /\ PolicyAllows(d)
          THEN Become(w, [worker[w] EXCEPT !.pc = "commit"]) /\ UNCHANGED dec
          ELSE Become(w, Skip(worker[w])) /\ dec' = [dec EXCEPT ![d].status = "blocked"]
     /\ UNCHANGED <<says, plan, run, cand, obs, person, meanwhile>>

Oldest(cs) == CHOOSE c \in cs : \A b \in cs : c <= b
Creates(d) == plan[d].action # "archive_exact_duplicate"

(* The action and the checks before the commit do not raise.               *)
Executable(d) ==
  LET p == plan[d]
  IN CASE p.action = "accept_existing" ->
            \A c \in p.sources : says[c] = p.says /\ \A i \in DOMAIN obs : obs[i].source # c
       [] p.action = "edit_accept_existing" ->
            \A c \in p.sources, i \in DOMAIN obs : obs[i].source # c
       [] p.action = "consolidate_accept" -> TRUE
       [] OTHER -> IF p.duplicateOf = 0
                     THEN Cardinality(p.sources) >= 2
                     ELSE /\ p.duplicateOf \in DOMAIN obs
                          /\ obs[p.duplicateOf].intact /\ obs[p.duplicateOf].says = p.says

Ref(d) ==
  IF Creates(d) THEN <<"observations", Len(obs) + 1>>
  ELSE IF plan[d].duplicateOf # 0 THEN <<"observations", plan[d].duplicateOf>>
  ELSE <<"candidates", Oldest(plan[d].sources)>>

(* What becomes of a source candidate. Of pending duplicates the oldest    *)
(* stays as it is.                                                         *)
Resolved(d, c) ==
  LET p == plan[d]
      to(status) == [status |-> status, touched |-> TRUE]
  IN CASE p.action = "accept_existing" -> to("accepted")
       [] p.action = "edit_accept_existing" -> to("edited_accepted")
       [] p.action = "consolidate_accept" -> to("superseded")
       [] OTHER -> IF p.duplicateOf # 0 THEN to("archived")
                   ELSE IF c = Oldest(p.sources) THEN cand[c] ELSE to("superseded")

(* Record, candidates, reference and status are committed together. The    *)
(* commit may succeed and its acknowledgement be lost. A consolidated      *)
(* observation has a replacement candidate of its own as its source.       *)
Commit(w) ==
  LET state == worker[w]
      d == state.k
      c == IF Cardinality(plan[d].sources) = 1 THEN Oldest(plan[d].sources) ELSE None
  IN /\ state.pc = "commit"
     /\ Executable(d)
     /\ obs' = IF Creates(d)
                 THEN Append(obs, [by |-> d, source |-> c, says |-> plan[d].says, intact |-> TRUE])
                 ELSE obs
     /\ cand' = [b \in Candidates |-> IF b \in plan[d].sources THEN Resolved(d, b) ELSE cand[b]]
     /\ dec' = [dec EXCEPT ![d] = [status |-> "executing", ref |-> Ref(d),
                                   readback |-> "verification_unknown"]]
     /\ \E lost \in BOOLEAN :
          LET after == IF lost THEN [RolledBack(state) EXCEPT !.failing = TRUE]
                               ELSE [state EXCEPT !.held = {}]
          IN Become(w, [after EXCEPT !.pc = "reconcile"])
     /\ UNCHANGED <<says, plan, run, person, meanwhile>>

(* An exception before the commit: roll back, then look for a reference.   *)
Fail(w) ==
  /\ worker[w].pc = "commit"
  /\ Become(w, [RolledBack(worker[w]) EXCEPT !.pc = "reconcile", !.failing = TRUE])
  /\ UNCHANGED <<tables, meanwhile>>

-----------------------------------------------------------------------------
(* _verify_execution on the committed tables. *)
Verified(d, ref) ==
  LET p == plan[d]
      statuses == {cand[c].status : c \in p.sources}
  IN IF ref[1] = "candidates"
       THEN /\ cand[ref[2]].status = "pending"
            /\ \A c \in p.sources \ {ref[2]} : cand[c].status = "superseded"
       ELSE /\ obs[ref[2]].intact
            /\ obs[ref[2]].says = p.says
            /\ statuses \subseteq
                 CASE p.action = "accept_existing" -> {"accepted"}
                   [] p.action = "edit_accept_existing" -> {"edited_accepted"}
                   [] p.action = "consolidate_accept" -> {"superseded"}
                   [] OTHER -> {"archived", "pending", "superseded"}

(* Where _reconcile_committed returns to when it could not verify.         *)
NotVerified(state) ==
  IF state.failing THEN [state EXCEPT !.pc = "mark", !.row = None] ELSE Skip(state)

(* _reconcile_committed reads the decision and what it refers to ...       *)
ReconcileRead(w) ==
  LET state == worker[w]
      row == dec[state.k]
  IN /\ state.pc = "reconcile"
     /\ Become(w, IF row.ref = None
                    THEN NotVerified(state)
                    ELSE [state EXCEPT !.pc = "verdict", !.row = row,
                                       !.ok = Verified(state.k, row.ref)])
     /\ UNCHANGED <<tables, meanwhile>>

(* The row after an update of the columns that differ from the copy.       *)
Overwritten(row, copy, status, readback) ==
  [row EXCEPT !.status = IF status = copy.status THEN @ ELSE status,
              !.readback = IF readback = copy.readback THEN @ ELSE readback]

(* ... and writes the verdict without having locked anything. The check    *)
(* itself may also be impossible for now.                                  *)
ReconcileWrite(w) ==
  LET state == worker[w]
      d == state.k
  IN /\ state.pc = "verdict"
     /\ Free(w, <<1, d>>)
     /\ \/ /\ state.ok
           /\ dec' = [dec EXCEPT ![d] = Overwritten(@, state.row, "executed", "verified")]
           /\ Become(w, Skip(state))
        \/ /\ ~state.ok
           /\ dec' = [dec EXCEPT ![d] = Overwritten(@, state.row, "failed", "failed")]
           /\ Become(w, NotVerified(state))
        \/ /\ dec' = [dec EXCEPT ![d] =
                        Overwritten(@, state.row, "failed", "verification_unknown")]
           /\ Become(w, NotVerified(state))
     /\ UNCHANGED <<says, plan, run, cand, obs, person, meanwhile>>

(* _mark_execution_failed reads the decision in another fresh session ...  *)
MarkRead(w) ==
  /\ worker[w].pc = "mark"
  /\ Become(w, [worker[w] EXCEPT !.pc = "marking", !.row = dec[worker[w].k]])
  /\ UNCHANGED <<tables, meanwhile>>

(* Faulty: the failed execution also forgets the reference. *)
MarkWrite_ForgetsRef(w) ==
  LET state == worker[w]
  IN /\ state.pc = "marking"
     /\ Free(w, <<1, state.k>>)
     /\ dec' = [dec EXCEPT ![state.k] = [status |-> "failed", ref |-> None, readback |-> None]]
     /\ Become(w, Skip(state))
     /\ UNCHANGED <<says, plan, run, cand, obs, person, meanwhile>>

(* ... and marks it as failed, whatever it has become since.               *)
MarkWrite(w) ==
  LET state == worker[w]
  IN /\ state.pc = "marking"
     /\ Free(w, <<1, state.k>>)
     /\ dec' = [dec EXCEPT ![state.k] = Overwritten(@, state.row, "failed", None)]
     /\ Become(w, Skip(state))
     /\ UNCHANGED <<says, plan, run, cand, obs, person, meanwhile>>

(* The end of execute_run: the decisions are loaded again and counted ...  *)
Count(w) ==
  LET state == worker[w]
      settled == \A d \in Decisions : dec[d].status \in {"executed", "blocked"}
  IN /\ state.pc = "next"
     /\ state.k \notin Decisions
     /\ Become(w, IF Audits(state) /\ settled
                    THEN Idle
                    ELSE [state EXCEPT !.pc = "finishing", !.ok = settled, !.seenRun = run])
     /\ UNCHANGED <<tables, meanwhile>>

(* ... and the run gets its final status.                                  *)
Finish(w) ==
  /\ worker[w].pc = "finishing"
  /\ Free(w, RunLock)
  /\ LET status == IF worker[w].ok THEN "completed" ELSE "partial"
     IN run' = IF status = worker[w].seenRun THEN run ELSE status
  /\ Become(w, Idle)
  /\ UNCHANGED <<says, plan, dec, cand, obs, person, meanwhile>>

(* The process dies or loses its connection; its locks are released.       *)
Crash(w) ==
  /\ worker[w].pc # "idle"
  /\ Become(w, Idle)
  /\ UNCHANGED <<tables, meanwhile>>

-----------------------------------------------------------------------------
(* Reviewers and other writers meanwhile, as CandidateReview and           *)
(* MemoryLedger describe them.                                             *)
ReviewerLoads(c) ==
  /\ reviewer = None
  /\ others < MaxOthers    \* else the load leads nowhere
  /\ cand[c].status \in Open
  /\ reviewer' = c
  /\ UNCHANGED <<tables, worker, others>>

ReviewerResolves(status) ==
  /\ reviewer # None
  /\ Unlocked(<<2, reviewer>>)
  /\ cand' = [cand EXCEPT ![reviewer] = [status |-> status, touched |-> TRUE]]
  /\ reviewer' = None
  /\ UNCHANGED <<says, plan, run, dec, obs, person>>

ReviewerAccepts(c) ==
  /\ cand[c].status \in Open
  /\ Unlocked(<<2, c>>) /\ Unlocked(PersonLock)
  /\ person
  /\ \A i \in DOMAIN obs : obs[i].source # c
  /\ obs' = Append(obs, [by |-> 0, source |-> c, says |-> says[c], intact |-> TRUE])
  /\ cand' = [cand EXCEPT ![c] = [status |-> "accepted", touched |-> TRUE]]
  /\ UNCHANGED <<says, plan, run, dec, person, reviewer>>

PatchCandidate(c) ==
  /\ Unlocked(<<2, c>>)
  /\ cand' = [cand EXCEPT ![c].touched = TRUE]
  /\ UNCHANGED <<says, plan, run, dec, obs, person, reviewer>>

WriteObservation(content) ==
  /\ Unlocked(PersonLock)
  /\ person
  /\ obs' = Append(obs, [by |-> 0, source |-> None, says |-> content, intact |-> TRUE])
  /\ UNCHANGED <<says, plan, run, dec, cand, person, reviewer>>

(* An observation is corrected, retracted or deleted. *)
EditObservation(i) ==
  /\ obs' = [obs EXCEPT ![i].intact = FALSE]
  /\ UNCHANGED <<says, plan, run, dec, cand, person, reviewer>>

PatchPerson ==
  /\ Unlocked(PersonLock)
  /\ person' = ~person
  /\ UNCHANGED <<says, plan, run, dec, cand, obs, reviewer>>

Advance(w) ==
  \/ Plan(w) \/ CommitPlan(w)
  \/ Start(w) \/ Look(w) \/ Judge(w) \/ Commit(w) \/ Fail(w)
  \/ \E r \in Lockable : Lock(w, r)
  \/ ReconcileRead(w) \/ ReconcileWrite(w) \/ MarkRead(w) \/ MarkWrite(w)
  \/ Count(w) \/ Finish(w)

Others ==
  /\ others < MaxOthers
  /\ others' = others + 1
  /\ UNCHANGED worker
  /\ \/ \E c \in Candidates : ReviewerAccepts(c) \/ PatchCandidate(c)
     \/ \E status \in {"rejected", "needs_clarification"} : ReviewerResolves(status)
     \/ \E content \in Contents : WriteObservation(content)
     \/ \E i \in DOMAIN obs : EditObservation(i)
     \/ PatchPerson

Next ==
  \/ \E w \in Workers : Evaluate(w) \/ Load(w) \/ Advance(w) \/ Crash(w)
  \/ \E c \in Candidates : ReviewerLoads(c)
  \/ Others

Init ==
  /\ \E window \in Windows : says = window.says /\ plan = window.plan
  /\ run = "pending"
  /\ dec = [d \in DOMAIN plan |-> [status |-> "proposed", ref |-> None, readback |-> None]]
  /\ cand = [c \in Candidates |-> [status |-> "pending", touched |-> FALSE]]
  /\ obs = Known
  /\ person = TRUE
  /\ worker = [w \in Workers |-> Idle]
  /\ reviewer = None
  /\ others = 0

Spec == Init /\ [][Next]_vars

-----------------------------------------------------------------------------
(* Type invariant of the tables and of the workers.                        *)
TypeOK ==
  /\ run \in RunStatus
  /\ dec \in [Decisions -> DecisionRow]
  /\ cand \in [Candidates -> CandidateRow]
  /\ obs \in Seq(Observation)
  /\ person \in BOOLEAN
  /\ worker \in [Workers -> WorkerState]
  /\ reviewer \in Candidates \cup {None}
  /\ others \in 0 .. MaxOthers

(* Retrying a decision never writes a second canonical record, and the one *)
(* it wrote is never forgotten: every observation a decision has brought   *)
(* about is the one that decision refers to.                               *)
OneRecordPerDecision ==
  \A i \in DOMAIN obs :
    obs[i].by # 0 => obs[i].by \in Decisions /\ dec[obs[i].by].ref = <<"observations", i>>

(* A decision takes effect only while every source candidate is exactly    *)
(* what the planner saw, still pending and untouched.                      *)
ExecutesWhatWasReviewed ==
  [][\A d \in Decisions :
       dec[d].ref = None /\ dec'[d].ref # None =>
         \A c \in plan[d].sources : cand[c] = [status |-> "pending", touched |-> FALSE]]_vars

(* Curation never repeats what an active observation already says, even    *)
(* when that one is being written at the same time.                        *)
NeverRepeats ==
  [][\A d \in Decisions :
       dec[d].ref = None /\ dec'[d].ref # None /\ Creates(d) =>
         \A i \in DOMAIN obs : obs[i].intact => obs[i].says # plan[d].says]_vars

(* No decision is reported as executed unless it was committed, whatever   *)
(* acknowledgement was lost and whoever read it back.                      *)
ExecutedWasCommitted ==
  \A d \in Decisions : dec[d].status = "executed" => dec[d].ref # None

(* A run is resumable from its persisted decisions: a request can evaluate *)
(* or execute it. The code does not keep it: an evaluation whose copy of   *)
(* the run is old sets an executed run back to planning, where evaluation  *)
(* is refused because of the execution state and execution because of the  *)
(* status. When that worker dies there, the run is stuck.                  *)
RunStaysResumable ==
  \/ run \notin {"pending", "planning"}
  \/ \A d \in Decisions : dec[d].ref = None /\ dec[d].status \in {"proposed", "allowed", "blocked"}

=============================================================================
