--------------------- MODULE CurationExecution_proofs ---------------------
(***************************************************************************)
(* The execution of a curation run for every number of workers, candidates *)
(* and decisions and for every window. The locks of a decision, taken in   *)
(* one order, make what is read under the run lock last until the commit.  *)
(***************************************************************************)
EXTENDS CurationExecution, WellFoundedInduction, TLAPS

AtDecision == {"lock", "commit", "reconcile", "verdict", "mark", "marking"}

PlanOK ==
  /\ says \in [Candidates -> Contents]
  /\ plan \in Seq(Decision)
  /\ \A d \in Decisions : plan[d].sources # {}

(* What the reviewer has seen of a decision still holds.                   *)
AsReviewed(d) ==
  /\ \A c \in plan[d].sources : cand[c] = [status |-> "pending", touched |-> FALSE]
  /\ Creates(d) => \A i \in DOMAIN obs : obs[i].intact => obs[i].says # plan[d].says

(* What a worker may rely on where it is.                                  *)
WorkerOK(w) ==
  LET x == worker[w]
  IN /\ x.pc \in AtDecision => x.k \in Decisions
     /\ x.pc = "planned" => x.plan \in [Decisions -> {"allowed", "blocked"}]
     /\ x.pc \notin {"lock", "commit"} => x.held = {}
     /\ RunLock \in x.held => <<1, x.k>> \in x.held /\ dec[x.k].ref = None
     /\ x.pc = "commit" => LockSet(x.k) \subseteq x.held /\ AsReviewed(x.k)

Exclusive == \A v, w \in Workers : v # w => worker[v].held \cap worker[w].held = {}

Inv ==
  /\ PlanOK
  /\ TypeOK
  /\ \A w \in Workers : WorkerOK(w)
  /\ Exclusive
  /\ OneRecordPerDecision

-----------------------------------------------------------------------------
(* The oldest of the sources of a decision is one of them.                 *)
LEMMA OldestIsSource ==
  ASSUME NEW S, S \subseteq Candidates, S # {}
  PROVE  Oldest(S) \in S
<1>1. S \subseteq Nat
  BY WindowsAssumption
<1>2. PICK x \in S : \A y \in S : ~(<<y, x>> \in OpToRel(<, Nat))
  BY <1>1, WFMin, NatLessThanWellFounded
<1>3. \A y \in S : ~(y < x)
  BY <1>1, <1>2 DEF OpToRel
<1>4. \E c \in S : \A b \in S : c <= b
  BY <1>1, <1>3
<1> QED
  BY <1>4 DEF Oldest

LEMMA DecisionTypes ==
  ASSUME PlanOK, NEW d \in Decisions
  PROVE  /\ plan[d] \in Decision /\ plan[d].sources \subseteq Candidates /\ plan[d].sources # {}
         /\ plan[d].says \in Contents /\ plan[d].duplicateOf \in Nat /\ d \in Nat
         /\ plan[d].action \in Actions
<1>1. plan[d] \in Decision /\ d \in Nat
  BY DEF PlanOK, Decisions
<1> QED
  BY <1>1 DEF PlanOK, Decision

(* The tables that name decisions keep their types while the plan is.      *)
LEMMA SamePlan ==
  ASSUME UNCHANGED plan
  PROVE  /\ Decisions' = Decisions /\ WorkerState' = WorkerState /\ DecisionRow' = DecisionRow
         /\ \A d : LockSet(d)' = LockSet(d) /\ (Creates(d)' <=> Creates(d))
BY DEF Decisions, WorkerState, Lockable, LockSet, Creates, DecisionRow

(* A step of one worker that changes no candidate and no observation.      *)
LEMMA WorkerSteps ==
  ASSUME Inv, NEW w \in Workers, NEW x \in WorkerState, Become(w, x),
         UNCHANGED <<says, plan, obs, cand, person, reviewer, others>>,
         run' \in RunStatus, dec' \in [Decisions -> DecisionRow],
         \A d \in Decisions : dec'[d].ref = dec[d].ref,
         WorkerOK(w)', \A v \in Workers \ {w} : x.held \cap worker[v].held = {}
  PROVE  Inv'
<1>1. worker'[w] = x /\ \A v \in Workers \ {w} : worker'[v] = worker[v]
  BY DEF Inv, TypeOK, Become
<1>2. PlanOK'
  BY DEF Inv, PlanOK, Decisions
<1>3. worker' \in [Workers -> WorkerState]
  BY DEF Inv, TypeOK, Become
<1>4. TypeOK'
  BY <1>3, SamePlan DEF Inv, TypeOK
<1>5. \A v \in Workers : WorkerOK(v)'
  <2>1. ASSUME NEW v \in Workers \ {w} PROVE WorkerOK(v)'
    <3> DEFINE y == worker[v]
    <3>1. WorkerOK(v) /\ worker'[v] = y /\ y \in WorkerState
      BY <1>1 DEF Inv, TypeOK
    <3>2. RunLock \in y.held => y.pc \in AtDecision
      BY <3>1 DEF WorkerOK, AtDecision
    <3>3. RunLock \in y.held => dec'[y.k].ref = None
      BY <3>1, <3>2 DEF WorkerOK
    <3>4. y.pc = "commit" => (AsReviewed(y.k))'
      BY <1>1, <3>1 DEF WorkerOK, AsReviewed, Creates
    <3> HIDE DEF y
    <3>5. y.pc = "commit" => LockSet(y.k) \subseteq y.held
      BY <3>1 DEF WorkerOK, y
    <3> QED
      BY <1>1, <3>1, <3>3, <3>4, <3>5, SamePlan DEF WorkerOK, y, LockSet
  <2> QED
    BY <2>1
<1>6. Exclusive'
  BY <1>1 DEF Inv, Exclusive
<1>7. OneRecordPerDecision'
  BY SamePlan DEF Inv, OneRecordPerDecision
<1> QED
  BY <1>2, <1>4, <1>5, <1>6, <1>7 DEF Inv

(* Where a worker goes that has released its locks.                        *)
LEMMA FreeSteps ==
  ASSUME Inv, NEW w \in Workers, NEW x \in WorkerState, Become(w, x),
         UNCHANGED <<says, plan, obs, cand, person, reviewer, others>>,
         run' \in RunStatus, dec' \in [Decisions -> DecisionRow],
         \A d \in Decisions : dec'[d].ref = dec[d].ref,
         x.held = {}, x.pc \notin {"lock", "commit"}, x.pc \in AtDecision => x.k \in Decisions,
         x.pc = "planned" => x.plan \in [Decisions -> {"allowed", "blocked"}]
  PROVE  Inv'
<1>1. worker'[w] = x
  BY DEF Inv, TypeOK, Become
<1>2. WorkerOK(w)'
  BY <1>1, SamePlan DEF WorkerOK
<1> QED
  BY <1>2, WorkerSteps

LEMMA IdleState == Idle \in WorkerState /\ Idle.held = {} /\ Idle.pc = "idle"
BY DEF Idle, WorkerState, RunStatus

LEMMA SkipState ==
  ASSUME NEW x \in WorkerState
  PROVE  Skip(x) \in WorkerState /\ Skip(x).held = {} /\ Skip(x).pc = "next"
<1>1. x.k + 1 \in Nat
  BY DEF WorkerState
<1> DEFINE n == x.k + 1
<1>2. Skip(x) = [x EXCEPT !.pc = "next", !.k = n, !.held = {}, !.failing = FALSE,
                          !.row = None, !.ok = FALSE]
  BY DEF Skip
<1> HIDE DEF n
<1> QED
  BY <1>1, <1>2 DEF WorkerState, n

LEMMA RolledBackState ==
  ASSUME NEW x \in WorkerState
  PROVE  /\ RolledBack(x) \in WorkerState /\ RolledBack(x).held = {} /\ RolledBack(x).pc = x.pc
         /\ RolledBack(x).k = x.k
BY DEF RolledBack, WorkerState

LEMMA NotVerifiedState ==
  ASSUME NEW x \in WorkerState, x.held = {}, x.k \in Decisions
  PROVE  /\ NotVerified(x) \in WorkerState /\ NotVerified(x).held = {}
         /\ NotVerified(x).pc \in {"mark", "next"}
         /\ NotVerified(x).pc \in AtDecision => NotVerified(x).k \in Decisions
<1>1. CASE x.failing
  BY <1>1 DEF NotVerified, WorkerState
<1>2. CASE ~x.failing
  BY <1>2, SkipState DEF NotVerified, AtDecision
<1> QED
  BY <1>1, <1>2

LEMMA Typed ==
  ASSUME Inv, NEW w \in Workers
  PROVE  /\ worker[w] \in WorkerState /\ run \in RunStatus /\ dec \in [Decisions -> DecisionRow]
         /\ worker[w].pc \notin {"lock", "commit"} => worker[w].held = {}
         /\ worker[w].pc \in AtDecision => worker[w].k \in Decisions
BY DEF Inv, TypeOK, WorkerOK

-----------------------------------------------------------------------------
LEMMA CrashKeeps ==
  ASSUME Inv, NEW w \in Workers, Crash(w)
  PROVE  Inv'
BY IdleState, FreeSteps, Typed DEF Crash, tables, meanwhile, AtDecision

LEMMA EvaluateKeeps ==
  ASSUME Inv, NEW w \in Workers, Evaluate(w)
  PROVE  Inv'
<1> DEFINE x == [Idle EXCEPT !.pc = "planning", !.seenRun = run, !.seen = dec]
<1>1. x \in WorkerState /\ x.held = {} /\ x.pc = "planning"
  BY IdleState, Typed DEF WorkerState
<1>2. Become(w, x)
  BY DEF Evaluate
<1> HIDE DEF x
<1> QED
  BY <1>1, <1>2, FreeSteps, Typed DEF Evaluate, tables, meanwhile, AtDecision

LEMMA LoadKeeps ==
  ASSUME Inv, NEW w \in Workers, Load(w)
  PROVE  Inv'
<1> DEFINE x == [Idle EXCEPT !.pc = "loaded", !.k = 1, !.seenRun = run, !.seen = dec]
<1>1. x \in WorkerState /\ x.held = {} /\ x.pc = "loaded"
  BY IdleState, Typed DEF WorkerState
<1>2. Become(w, x)
  BY DEF Load
<1> HIDE DEF x
<1> QED
  BY <1>1, <1>2, FreeSteps, Typed DEF Load, tables, meanwhile, AtDecision

LEMMA PlanKeeps ==
  ASSUME Inv, NEW w \in Workers, Plan(w)
  PROVE  Inv'
<1> DEFINE state == worker[w]
<1>0. state \in WorkerState /\ state.held = {} /\ state.pc = "planning"
  BY Typed DEF Plan
<1>1. CASE state.seenRun = "pending"
  <2> DEFINE x == [state EXCEPT !.seenRun = "planning", !.seen = dec]
  <2>1. x \in WorkerState /\ x.held = {} /\ x.pc = "planning"
    BY <1>0, Typed DEF WorkerState, RunStatus
  <2>2. Become(w, x) /\ run' = "planning"
    BY <1>1 DEF Plan
  <2> HIDE DEF x
  <2> QED
    BY <2>1, <2>2, FreeSteps, Typed DEF Plan, meanwhile, AtDecision, RunStatus
<1>2. CASE state.seenRun # "pending"
  <2> DEFINE verdicts == [d \in Decisions |-> IF PolicyAllows(d) THEN "allowed" ELSE "blocked"]
             x == [state EXCEPT !.pc = "planned", !.plan = verdicts]
  <2>1. Become(w, x) /\ UNCHANGED run
    BY <1>2 DEF Plan
  <2>2. verdicts \in [Decisions -> {"allowed", "blocked"}]
    OBVIOUS
  <2> HIDE DEF verdicts
  <2>3. x \in WorkerState /\ x.held = {} /\ x.pc = "planned" /\ x.plan = verdicts
    BY <1>0, <2>2 DEF WorkerState
  <2> HIDE DEF x
  <2> QED
    BY <2>1, <2>2, <2>3, FreeSteps, Typed DEF Plan, meanwhile, AtDecision
<1> QED
  BY <1>1, <1>2

LEMMA CommitPlanKeeps ==
  ASSUME Inv, NEW w \in Workers, CommitPlan(w)
  PROVE  Inv'
<1>1. worker[w].plan \in [Decisions -> {"allowed", "blocked"}]
  BY DEF CommitPlan, Inv, WorkerOK
<1>2. ASSUME NEW d \in Decisions
      PROVE  /\ [dec[d] EXCEPT !.status = worker[w].plan[d]] \in DecisionRow
             /\ [dec[d] EXCEPT !.status = worker[w].plan[d]].ref = dec[d].ref
  <2>1. dec[d] \in DecisionRow /\ worker[w].plan[d] \in DecisionStatus
    BY <1>1, Typed DEF DecisionStatus
  <2> QED
    BY <2>1 DEF DecisionRow
<1>3. dec' \in [Decisions -> DecisionRow] /\ \A d \in Decisions : dec'[d].ref = dec[d].ref
  BY <1>2, Typed DEF CommitPlan
<1>4. Become(w, Idle) /\ run' \in RunStatus
  BY DEF CommitPlan, RunStatus
<1> QED
  BY <1>3, <1>4, IdleState, FreeSteps DEF CommitPlan, meanwhile, AtDecision

LEMMA StartKeeps ==
  ASSUME Inv, NEW w \in Workers, Start(w)
  PROVE  Inv'
<1> DEFINE state == worker[w]
<1>0. state \in WorkerState /\ state.held = {} /\ state.pc = "loaded"
  BY Typed DEF Start
<1>1. CASE Audits(state)
  <2> DEFINE x == [state EXCEPT !.pc = "next"]
  <2>1. x \in WorkerState /\ x.held = {} /\ x.pc = "next"
    BY <1>0 DEF WorkerState
  <2>2. Become(w, x) /\ UNCHANGED run
    BY <1>1 DEF Start
  <2> HIDE DEF x
  <2> QED
    BY <2>1, <2>2, FreeSteps, Typed DEF Start, meanwhile, AtDecision
<1>2. CASE ~Audits(state)
  <2> DEFINE x == [state EXCEPT !.pc = "next", !.seenRun = "executing"]
  <2>1. x \in WorkerState /\ x.held = {} /\ x.pc = "next"
    BY <1>0 DEF WorkerState, RunStatus
  <2>2. Become(w, x) /\ run' \in RunStatus
    BY <1>2, Typed DEF Start, RunStatus
  <2> HIDE DEF x
  <2> QED
    BY <2>1, <2>2, FreeSteps, Typed DEF Start, meanwhile, AtDecision
<1> QED
  BY <1>1, <1>2

(* The unlocked look sends a worker on, to the locks or to the readback.   *)
LEMMA LookKeeps ==
  ASSUME Inv, NEW w \in Workers, Look(w)
  PROVE  Inv'
<1> DEFINE state == worker[w]
           rest == [state EXCEPT !.seen = IF state.k = Len(plan) THEN None ELSE @]
<1>1. state \in WorkerState /\ state.held = {} /\ state.k \in Decisions
  BY Typed DEF Look
<1>2. rest \in WorkerState /\ rest.held = {} /\ rest.k \in Decisions
  <2>1. (IF state.k = Len(plan) THEN None ELSE state.seen) \in [Decisions -> DecisionRow] \cup {None}
    BY <1>1 DEF WorkerState
  <2>2. rest = [state EXCEPT !.seen = IF state.k = Len(plan) THEN None ELSE state.seen]
    OBVIOUS
  <2> QED
    BY <1>1, <2>1, <2>2 DEF WorkerState
<1>3. \/ Become(w, Skip(rest))
      \/ Become(w, [rest EXCEPT !.pc = "lock"])
      \/ Become(w, [rest EXCEPT !.pc = "reconcile"])
      \/ Become(w, [RolledBack(rest) EXCEPT !.pc = "reconcile"])
  BY DEF Look
<1>4. UNCHANGED <<says, plan, run, dec, cand, obs, person, reviewer, others>>
  BY DEF Look, tables, meanwhile
<1> HIDE DEF rest
<1>5. CASE Become(w, Skip(rest))
  BY <1>2, <1>4, <1>5, SkipState, FreeSteps, Typed DEF AtDecision
<1>6. CASE Become(w, [rest EXCEPT !.pc = "lock"])
  <2> DEFINE x == [rest EXCEPT !.pc = "lock"]
  <2>1. x \in WorkerState /\ x.held = {} /\ x.pc = "lock" /\ x.k \in Decisions
    BY <1>2 DEF WorkerState
  <2>2. Become(w, x)
    BY <1>6
  <2> HIDE DEF x
  <2>3. worker'[w] = x
    BY <2>2 DEF Become, Inv, TypeOK
  <2>4. WorkerOK(w)'
    BY <1>4, <2>1, <2>3, SamePlan DEF WorkerOK, AtDecision
  <2> QED
    BY <1>4, <2>1, <2>2, <2>4, WorkerSteps, Typed
<1>7. CASE Become(w, [rest EXCEPT !.pc = "reconcile"])
  <2> DEFINE x == [rest EXCEPT !.pc = "reconcile"]
  <2>1. x \in WorkerState /\ x.held = {} /\ x.pc = "reconcile" /\ x.k \in Decisions
    BY <1>2 DEF WorkerState
  <2>2. Become(w, x)
    BY <1>7
  <2> HIDE DEF x
  <2> QED
    BY <1>4, <2>1, <2>2, FreeSteps, Typed
<1>8. CASE Become(w, [RolledBack(rest) EXCEPT !.pc = "reconcile"])
  <2> DEFINE x == [RolledBack(rest) EXCEPT !.pc = "reconcile"]
  <2>1. x \in WorkerState /\ x.held = {} /\ x.pc = "reconcile" /\ x.k \in Decisions
    BY <1>2, RolledBackState DEF WorkerState
  <2>2. Become(w, x)
    BY <1>8
  <2> HIDE DEF x
  <2> QED
    BY <1>4, <2>1, <2>2, FreeSteps, Typed
<1> QED
  BY <1>3, <1>5, <1>6, <1>7, <1>8

(* The run's lock comes after that of the decision, and under both the     *)
(* decision is found without a reference.                                  *)
LEMMA LockKeeps ==
  ASSUME Inv, NEW w \in Workers, NEW r \in Lockable, Lock(w, r)
  PROVE  Inv'
<1> DEFINE state == worker[w]
<1>1. /\ state \in WorkerState /\ state.k \in Decisions /\ state.pc = "lock" /\ WorkerOK(w)
      /\ NextLock(w, r) /\ Free(w, r)
      /\ UNCHANGED <<says, plan, run, dec, cand, obs, person, reviewer, others>>
  BY Typed DEF Lock, tables, meanwhile, AtDecision, Inv
<1>2. ASSUME NEW x \in WorkerState, Become(w, x), x.held = state.held \cup {r}, x.pc = "lock",
             x.k = state.k, r = RunLock => dec[state.k].ref = None
      PROVE  Inv'
  <2>1. worker'[w] = x
    BY <1>2 DEF Become, Inv, TypeOK
  <2>2. r = RunLock => <<1, state.k>> \in state.held
    <3>1. <<1, state.k>> \in LockSet(state.k) /\ ~Precedes(RunLock, <<1, state.k>>)
      BY DEF LockSet, Precedes, RunLock
    <3> QED
      BY <1>1, <3>1 DEF NextLock
  <2>3. RunLock \in x.held => <<1, x.k>> \in x.held /\ dec[x.k].ref = None
    BY <1>1, <1>2, <2>2 DEF WorkerOK
  <2>4. WorkerOK(w)'
    BY <1>1, <1>2, <2>1, <2>3, SamePlan DEF WorkerOK
  <2>5. \A v \in Workers \ {w} : x.held \cap worker[v].held = {}
    BY <1>1, <1>2 DEF Inv, Exclusive, Free, Holds
  <2> QED
    BY <1>1, <1>2, <2>4, <2>5, WorkerSteps, Typed
<1>3. CASE r # RunLock
  <2> DEFINE held == state.held \cup {r}
             x == [state EXCEPT !.held = held]
  <2>1. Become(w, x)
    BY <1>3 DEF Lock
  <2>2. held \in SUBSET Lockable
    BY <1>1 DEF WorkerState
  <2> HIDE DEF held
  <2>3. x \in WorkerState /\ x.held = held /\ x.pc = "lock" /\ x.k = state.k
    BY <1>1, <2>2 DEF WorkerState
  <2> HIDE DEF x
  <2> QED
    BY <1>2, <1>3, <2>1, <2>3 DEF held
<1>4. CASE r = RunLock
  <2>0. Become(w, Recheck(state))
    BY <1>4 DEF Lock
  <2>1. CASE Recheck(state) = [RolledBack(state) EXCEPT !.pc = "reconcile"]
    <3> DEFINE x == [RolledBack(state) EXCEPT !.pc = "reconcile"]
    <3>1. x \in WorkerState /\ x.held = {} /\ x.pc = "reconcile" /\ x.k \in Decisions
      BY <1>1, RolledBackState DEF WorkerState
    <3>2. Become(w, x)
      BY <2>0, <2>1
    <3> HIDE DEF x
    <3> QED
      BY <1>1, <3>1, <3>2, FreeSteps, Typed
  <2>2. CASE Recheck(state) = Skip(RolledBack(state))
    BY <1>1, <2>0, <2>2, RolledBackState, SkipState, FreeSteps, Typed DEF AtDecision
  <2>3. CASE /\ Recheck(state) = [state EXCEPT !.held = @ \cup {RunLock}]
             /\ dec[state.k].ref = None
    <3> DEFINE held == state.held \cup {RunLock}
               x == [state EXCEPT !.held = held]
    <3>1. Become(w, x)
      BY <2>0, <2>3
    <3>2. held \in SUBSET Lockable
      BY <1>1, <1>4 DEF WorkerState
    <3> HIDE DEF held
    <3>3. x \in WorkerState /\ x.held = held /\ x.pc = "lock" /\ x.k = state.k
      BY <1>1, <3>2 DEF WorkerState
    <3> HIDE DEF x
    <3> QED
      BY <1>2, <1>4, <2>3, <3>1, <3>3 DEF held
  <2> DEFINE gone == dec[state.k].ref # None \/ dec[state.k].status = "executed"
             fine == /\ run \in {"executing", "partial", "failed"}
                     /\ dec[state.k].status \in {"allowed", "failed"}
  <2>4. CASE gone
    <3>1. Recheck(state) = [RolledBack(state) EXCEPT !.pc = "reconcile"]
      BY <2>4 DEF Recheck
    <3> QED
      BY <2>1, <3>1
  <2>5. CASE ~gone /\ fine
    <3>1. Recheck(state) = [state EXCEPT !.held = @ \cup {RunLock}]
      BY <2>5 DEF Recheck
    <3> QED
      BY <2>3, <2>5, <3>1
  <2>6. CASE ~gone /\ ~fine
    <3>1. Recheck(state) = Skip(RolledBack(state))
      BY <2>6 DEF Recheck
    <3> QED
      BY <2>2, <3>1
  <2> QED
    BY <2>4, <2>5, <2>6
<1> QED
  BY <1>3, <1>4

(* What the policy and the snapshots allow is what was reviewed.           *)
LEMMA AllowedAsReviewed ==
  ASSUME Inv, NEW d \in Decisions, SnapshotsMatch(d), PolicyAllows(d)
  PROVE  AsReviewed(d)
<1>1. \A c \in plan[d].sources : cand[c] = [status |-> "pending", touched |-> FALSE]
  <2>1. SUFFICES ASSUME NEW c \in plan[d].sources
                 PROVE  cand[c] = [status |-> "pending", touched |-> FALSE]
    OBVIOUS
  <2>2. cand[c] \in CandidateRow
    BY DecisionTypes DEF Inv, TypeOK
  <2>3. cand[c].status = "pending" /\ cand[c].touched = FALSE
    BY <2>2 DEF SnapshotsMatch, PolicyAllows, CandidateRow
  <2> QED
    BY <2>2, <2>3 DEF CandidateRow
<1>2. Creates(d) => ~Duplicated(d)
  <2>1. plan[d].action \in Actions
    BY DecisionTypes DEF Inv
  <2> QED
    BY <2>1 DEF Creates, PolicyAllows, Actions
<1> QED
  BY <1>1, <1>2 DEF AsReviewed, Duplicated

LEMMA JudgeKeeps ==
  ASSUME Inv, NEW w \in Workers, Judge(w)
  PROVE  Inv'
<1> DEFINE state == worker[w]
           d == state.k
<1>1. /\ state \in WorkerState /\ d \in Decisions /\ state.pc = "lock" /\ WorkerOK(w)
      /\ LockSet(d) \subseteq state.held
      /\ UNCHANGED <<says, plan, run, cand, obs, person, reviewer, others>>
  BY Typed DEF Judge, meanwhile, AtDecision, Inv
<1>2. CASE SnapshotsMatch(d) /\ PolicyAllows(d)
  <2> DEFINE x == [state EXCEPT !.pc = "commit"]
  <2>1. x \in WorkerState /\ x.held = state.held /\ x.pc = "commit" /\ x.k = d
    BY <1>1 DEF WorkerState
  <2>2. Become(w, x) /\ UNCHANGED dec
    BY <1>2 DEF Judge
  <2> HIDE DEF x
  <2>3. worker'[w] = x
    BY <2>2 DEF Become, Inv, TypeOK
  <2>4. AsReviewed(d)
    BY <1>1, <1>2, AllowedAsReviewed
  <2>5. \A e : AsReviewed(e) => AsReviewed(e)'
    BY <1>1 DEF AsReviewed, Creates
  <2>6. WorkerOK(w)'
    BY <1>1, <2>1, <2>2, <2>3, <2>4, <2>5, SamePlan DEF WorkerOK
  <2>7. \A v \in Workers \ {w} : x.held \cap worker[v].held = {}
    BY <2>1 DEF Inv, Exclusive
  <2> QED
    BY <1>1, <2>1, <2>2, <2>6, <2>7, WorkerSteps, Typed
<1>3. CASE ~(SnapshotsMatch(d) /\ PolicyAllows(d))
  <2>1. Become(w, Skip(state)) /\ dec' = [dec EXCEPT ![d].status = "blocked"]
    BY <1>3 DEF Judge
  <2>2. dec' \in [Decisions -> DecisionRow] /\ \A e \in Decisions : dec'[e].ref = dec[e].ref
    <3>1. \A e \in Decisions : dec[e] \in DecisionRow
      BY Typed
    <3> QED
      BY <1>1, <2>1, <3>1, Typed DEF DecisionRow, DecisionStatus
  <2> QED
    BY <1>1, <2>1, <2>2, SkipState, FreeSteps, Typed DEF AtDecision
<1> QED
  BY <1>2, <1>3

LEMMA FailKeeps ==
  ASSUME Inv, NEW w \in Workers, Fail(w)
  PROVE  Inv'
<1> DEFINE back == RolledBack(worker[w])
           x == [back EXCEPT !.pc = "reconcile", !.failing = TRUE]
<1>0. back \in WorkerState /\ back.held = {} /\ back.k \in Decisions
  BY Typed, RolledBackState DEF Fail, AtDecision
<1>1. x \in WorkerState /\ x.held = {} /\ x.pc = "reconcile" /\ x.k \in Decisions
  BY <1>0 DEF WorkerState
<1>2. Become(w, x)
  BY DEF Fail
<1> HIDE DEF x
<1> QED
  BY <1>1, <1>2, FreeSteps, Typed DEF Fail, tables, meanwhile

-----------------------------------------------------------------------------
(* The readback and the marking never touch the reference.                 *)
LEMMA OverwrittenKeepsRef ==
  ASSUME NEW row \in DecisionRow, NEW copy, NEW status \in DecisionStatus,
         NEW readback \in {None, "verification_unknown", "verified", "failed"}
  PROVE  /\ Overwritten(row, copy, status, readback) \in DecisionRow
         /\ Overwritten(row, copy, status, readback).ref = row.ref
<1> DEFINE a == IF status = copy.status THEN row.status ELSE status
           b == IF readback = copy.readback THEN row.readback ELSE readback
<1>1. a \in DecisionStatus /\ b \in {None, "verification_unknown", "verified", "failed"}
  BY DEF DecisionRow
<1>2. Overwritten(row, copy, status, readback) = [row EXCEPT !.status = a, !.readback = b]
  BY DEF Overwritten
<1> HIDE DEF a, b
<1> QED
  BY <1>1, <1>2 DEF DecisionRow

(* An update of one decision that keeps its reference.                     *)
LEMMA DecisionUpdated ==
  ASSUME Inv, NEW d \in Decisions, NEW copy, NEW status \in DecisionStatus,
         NEW readback \in {None, "verification_unknown", "verified", "failed"},
         dec' = [dec EXCEPT ![d] = Overwritten(dec[d], copy, status, readback)]
  PROVE  dec' \in [Decisions -> DecisionRow] /\ \A e \in Decisions : dec'[e].ref = dec[e].ref
<1> DEFINE y == Overwritten(dec[d], copy, status, readback)
<1>1. dec \in [Decisions -> DecisionRow] /\ dec[d] \in DecisionRow
  BY DEF Inv, TypeOK
<1>2. y \in DecisionRow /\ y.ref = dec[d].ref
  BY <1>1, OverwrittenKeepsRef
<1>3. dec' = [dec EXCEPT ![d] = y]
  OBVIOUS
<1> HIDE DEF y
<1> QED
  BY <1>1, <1>2, <1>3

LEMMA ReconcileReadKeeps ==
  ASSUME Inv, NEW w \in Workers, ReconcileRead(w)
  PROVE  Inv'
<1> DEFINE state == worker[w]
           row == dec[state.k]
<1>1. state \in WorkerState /\ state.held = {} /\ state.k \in Decisions /\ row \in DecisionRow
  BY Typed DEF ReconcileRead, AtDecision
<1>2. UNCHANGED <<says, plan, run, dec, cand, obs, person, reviewer, others>>
  BY DEF ReconcileRead, tables, meanwhile
<1>3. CASE Become(w, NotVerified(state))
  BY <1>1, <1>2, <1>3, NotVerifiedState, FreeSteps, Typed DEF AtDecision
<1>4. CASE Become(w, [state EXCEPT !.pc = "verdict", !.row = row,
                                   !.ok = Verified(state.k, row.ref)])
  <2> DEFINE ok == Verified(state.k, row.ref)
             x == [state EXCEPT !.pc = "verdict", !.row = row, !.ok = ok]
  <2>1. ok \in BOOLEAN
    BY DEF Verified
  <2>2. Become(w, x)
    BY <1>4
  <2> HIDE DEF ok
  <2>3. x \in WorkerState /\ x.held = {} /\ x.pc = "verdict" /\ x.k \in Decisions
    BY <1>1, <2>1 DEF WorkerState
  <2> HIDE DEF x
  <2> QED
    BY <1>2, <2>2, <2>3, FreeSteps, Typed
<1> QED
  BY <1>3, <1>4 DEF ReconcileRead

LEMMA ReconcileWriteKeeps ==
  ASSUME Inv, NEW w \in Workers, ReconcileWrite(w)
  PROVE  Inv'
<1> DEFINE state == worker[w]
           d == state.k
<1>1. state \in WorkerState /\ state.held = {} /\ d \in Decisions
  BY Typed DEF ReconcileWrite, AtDecision
<1>2. UNCHANGED <<says, plan, run, cand, obs, person, reviewer, others>>
  BY DEF ReconcileWrite, meanwhile
<1>3. \E status \in DecisionStatus,
        readback \in {None, "verification_unknown", "verified", "failed"} :
          dec' = [dec EXCEPT ![d] = Overwritten(dec[d], state.row, status, readback)]
  BY DEF ReconcileWrite, DecisionStatus
<1>4. dec' \in [Decisions -> DecisionRow] /\ \A e \in Decisions : dec'[e].ref = dec[e].ref
  <2>1. PICK status \in DecisionStatus,
             readback \in {None, "verification_unknown", "verified", "failed"} :
               dec' = [dec EXCEPT ![d] = Overwritten(dec[d], state.row, status, readback)]
    BY <1>3
  <2> DEFINE copy == state.row
  <2>2. dec' = [dec EXCEPT ![d] = Overwritten(dec[d], copy, status, readback)]
    BY <2>1
  <2> HIDE DEF copy
  <2> QED
    BY <1>1, <2>2, DecisionUpdated
<1>5. Become(w, Skip(state)) \/ Become(w, NotVerified(state))
  BY DEF ReconcileWrite
<1>6. CASE Become(w, Skip(state))
  BY <1>1, <1>2, <1>4, <1>6, SkipState, FreeSteps, Typed DEF AtDecision
<1>7. CASE Become(w, NotVerified(state))
  BY <1>1, <1>2, <1>4, <1>7, NotVerifiedState, FreeSteps, Typed DEF AtDecision
<1> QED
  BY <1>5, <1>6, <1>7

LEMMA MarkReadKeeps ==
  ASSUME Inv, NEW w \in Workers, MarkRead(w)
  PROVE  Inv'
<1> DEFINE state == worker[w]
           row == dec[state.k]
           x == [state EXCEPT !.pc = "marking", !.row = row]
<1>1. state \in WorkerState /\ state.held = {} /\ state.k \in Decisions /\ row \in DecisionRow
  BY Typed DEF MarkRead, AtDecision
<1>2. Become(w, x)
  BY DEF MarkRead
<1> HIDE DEF row
<1>3. x \in WorkerState /\ x.held = {} /\ x.pc = "marking" /\ x.k \in Decisions
  BY <1>1 DEF WorkerState
<1> HIDE DEF x
<1> QED
  BY <1>2, <1>3, FreeSteps, Typed DEF MarkRead, tables, meanwhile

LEMMA MarkWriteKeeps ==
  ASSUME Inv, NEW w \in Workers, MarkWrite(w)
  PROVE  Inv'
<1> DEFINE state == worker[w]
<1>1. state \in WorkerState /\ state.held = {} /\ state.k \in Decisions
  BY Typed DEF MarkWrite, AtDecision
<1>2. dec' = [dec EXCEPT ![state.k] = Overwritten(dec[state.k], state.row, "failed", None)]
  BY DEF MarkWrite
<1>3. dec' \in [Decisions -> DecisionRow] /\ \A e \in Decisions : dec'[e].ref = dec[e].ref
  BY <1>1, <1>2, DecisionUpdated DEF DecisionStatus
<1> QED
  BY <1>1, <1>3, SkipState, FreeSteps, Typed DEF MarkWrite, meanwhile, AtDecision

LEMMA CountKeeps ==
  ASSUME Inv, NEW w \in Workers, Count(w)
  PROVE  Inv'
<1> DEFINE state == worker[w]
           settled == \A d \in Decisions : dec[d].status \in {"executed", "blocked"}
           x == [state EXCEPT !.pc = "finishing", !.ok = settled, !.seenRun = run]
<1>1. state \in WorkerState /\ state.held = {} /\ run \in RunStatus
  BY Typed DEF Count
<1>2. UNCHANGED <<says, plan, run, dec, cand, obs, person, reviewer, others>>
  BY DEF Count, tables, meanwhile
<1>3. Become(w, Idle) \/ Become(w, x)
  BY DEF Count
<1>4. settled \in BOOLEAN
  OBVIOUS
<1> HIDE DEF settled
<1>5. x \in WorkerState /\ x.held = {} /\ x.pc = "finishing"
  BY <1>1, <1>4 DEF WorkerState
<1> HIDE DEF x
<1>6. CASE Become(w, Idle)
  BY <1>2, <1>6, IdleState, FreeSteps, Typed DEF AtDecision
<1>7. CASE Become(w, x)
  BY <1>2, <1>5, <1>7, FreeSteps, Typed DEF AtDecision
<1> QED
  BY <1>3, <1>6, <1>7

LEMMA FinishKeeps ==
  ASSUME Inv, NEW w \in Workers, Finish(w)
  PROVE  Inv'
<1>1. run' \in RunStatus
  BY Typed DEF Finish, RunStatus
<1> QED
  BY <1>1, IdleState, FreeSteps, Typed DEF Finish, meanwhile, AtDecision

-----------------------------------------------------------------------------
(* Where a commit finds its decision: everything locked, no reference yet. *)
LEMMA CommitFinds ==
  ASSUME Inv, NEW w \in Workers, Commit(w)
  PROVE  LET d == worker[w].k
         IN /\ d \in Decisions /\ worker[w].pc = "commit" /\ dec[d].ref = None /\ AsReviewed(d)
            /\ LockSet(d) \subseteq worker[w].held
<1>1. worker[w].pc = "commit" /\ worker[w].k \in Decisions /\ WorkerOK(w)
  BY Typed DEF Commit, AtDecision, Inv
<1>2. RunLock \in LockSet(worker[w].k)
  BY DEF LockSet
<1> QED
  BY <1>1, <1>2 DEF WorkerOK

LEMMA CommitTypes ==
  ASSUME Inv, NEW w \in Workers, Commit(w)
  PROVE  /\ cand' \in [Candidates -> CandidateRow] /\ obs' \in Seq(Observation)
         /\ dec' \in [Decisions -> DecisionRow]
<1> DEFINE d == worker[w].k
<1>1. /\ d \in Decisions /\ d \in Nat /\ plan[d].sources \subseteq Candidates /\ plan[d].sources # {}
      /\ plan[d].says \in Contents /\ plan[d].duplicateOf \in Nat
  BY CommitFinds, DecisionTypes DEF Inv
<1>2. Oldest(plan[d].sources) \in Candidates
  BY <1>1, OldestIsSource
<1>3. cand' \in [Candidates -> CandidateRow]
  <2>1. ASSUME NEW b \in Candidates PROVE Resolved(d, b) \in CandidateRow
    <3>1. cand[b] \in CandidateRow
      BY DEF Inv, TypeOK
    <3>2. \/ Resolved(d, b) = cand[b]
          \/ \E status \in CandidateStatus : Resolved(d, b) = [status |-> status, touched |-> TRUE]
      BY DEF Resolved, CandidateStatus
    <3>3. \A status \in CandidateStatus : [status |-> status, touched |-> TRUE] \in CandidateRow
      BY DEF CandidateRow
    <3> QED
      BY <3>1, <3>2, <3>3
  <2>2. \A b \in Candidates : cand[b] \in CandidateRow
    BY DEF Inv, TypeOK
  <2>3. cand' = [b \in Candidates |-> IF b \in plan[d].sources THEN Resolved(d, b) ELSE cand[b]]
    BY DEF Commit
  <2> HIDE DEF d
  <2> QED
    BY <2>1, <2>2, <2>3
<1>4. obs' \in Seq(Observation)
  <2> DEFINE c == IF Cardinality(plan[d].sources) = 1 THEN Oldest(plan[d].sources) ELSE None
             row == [by |-> d, source |-> c, says |-> plan[d].says, intact |-> TRUE]
  <2>1. c \in Candidates \cup {None}
    BY <1>2
  <2> HIDE DEF c
  <2>2. row \in Observation
    BY <1>1, <2>1 DEF Observation
  <2>3. obs' = Append(obs, row) \/ obs' = obs
    BY DEF Commit, c
  <2> QED
    BY <2>2, <2>3 DEF Inv, TypeOK
<1>5. dec' \in [Decisions -> DecisionRow]
  <2>1. Len(obs) + 1 \in Nat
    BY DEF Inv, TypeOK
  <2>2. Ref(d) \in Refs
    BY <1>1, <1>2, <2>1 DEF Ref, Refs
  <2> DEFINE row == [status |-> "executing", ref |-> Ref(d), readback |-> "verification_unknown"]
  <2>3. row \in DecisionRow
    BY <2>2 DEF DecisionRow, DecisionStatus
  <2>4. dec' = [dec EXCEPT ![d] = row]
    BY DEF Commit
  <2> HIDE DEF row
  <2> QED
    BY <2>3, <2>4 DEF Inv, TypeOK
<1> QED
  BY <1>3, <1>4, <1>5

(* A decision gets its reference once, and every record keeps its own.     *)
LEMMA CommitKeeps ==
  ASSUME Inv, NEW w \in Workers, Commit(w)
  PROVE  Inv'
<1> DEFINE state == worker[w]
           d == state.k
<1>1. /\ d \in Decisions /\ state.pc = "commit" /\ dec[d].ref = None
      /\ LockSet(d) \subseteq state.held /\ state \in WorkerState
  BY CommitFinds, Typed
<1>2. UNCHANGED <<says, plan, run, person, reviewer, others>>
  BY DEF Commit, meanwhile
<1>3. PICK x \in WorkerState : Become(w, x) /\ x.held = {} /\ x.pc = "reconcile" /\ x.k = d
  <2>1. PICK lost \in BOOLEAN :
          LET after == IF lost THEN [RolledBack(state) EXCEPT !.failing = TRUE]
                               ELSE [state EXCEPT !.held = {}]
          IN Become(w, [after EXCEPT !.pc = "reconcile"])
    BY DEF Commit
  <2> DEFINE after == IF lost THEN [RolledBack(state) EXCEPT !.failing = TRUE]
                              ELSE [state EXCEPT !.held = {}]
             x == [after EXCEPT !.pc = "reconcile"]
  <2>2. RolledBack(state) \in WorkerState /\ RolledBack(state).held = {} /\ RolledBack(state).k = d
    BY <1>1, RolledBackState
  <2>3. after \in WorkerState /\ after.held = {} /\ after.k = d
    BY <1>1, <2>2 DEF WorkerState
  <2>4. Become(w, x)
    BY <2>1
  <2> HIDE DEF after
  <2>5. x \in WorkerState /\ x.held = {} /\ x.pc = "reconcile" /\ x.k = d
    BY <2>3 DEF WorkerState
  <2> QED
    BY <2>4, <2>5
<1>4. worker' \in [Workers -> WorkerState] /\ worker'[w] = x
      /\ \A v \in Workers \ {w} : worker'[v] = worker[v]
  BY <1>3 DEF Become, Inv, TypeOK
<1>5. TypeOK'
  BY <1>2, <1>4, CommitTypes, SamePlan DEF Inv, TypeOK
<1>6. \A v \in Workers : WorkerOK(v)'
  <2>1. ASSUME NEW v \in Workers \ {w} PROVE WorkerOK(v)'
    <3>1. WorkerOK(v) /\ worker'[v] = worker[v]
      BY <1>4 DEF Inv
    <3>2. RunLock \notin worker[v].held
      BY <1>1 DEF LockSet, Inv, Exclusive
    <3>3. worker[v].pc # "commit"
      BY <3>1, <3>2 DEF WorkerOK, LockSet
    <3> QED
      BY <1>2, <3>1, <3>2, <3>3, SamePlan DEF WorkerOK
  <2>2. WorkerOK(w)'
    BY <1>1, <1>2, <1>3, <1>4, SamePlan DEF WorkerOK
  <2> QED
    BY <2>1, <2>2
<1>7. Exclusive'
  BY <1>3, <1>4 DEF Inv, Exclusive
<1>8. OneRecordPerDecision'
  <2>1. dec'[d].ref = Ref(d) /\ \A e \in Decisions \ {d} : dec'[e] = dec[e]
    <3> DEFINE row == [status |-> "executing", ref |-> Ref(d), readback |-> "verification_unknown"]
    <3>1. dec' = [dec EXCEPT ![d] = row] /\ row.ref = Ref(d)
      BY DEF Commit
    <3> HIDE DEF row
    <3> QED
      BY <1>1, <3>1 DEF Inv, TypeOK
  <2>2. ASSUME NEW i \in DOMAIN obs, obs[i].by # 0
        PROVE  obs[i].by \in Decisions /\ dec'[obs[i].by].ref = <<"observations", i>>
    <3>1. obs[i].by \in Decisions /\ dec[obs[i].by].ref = <<"observations", i>>
      BY <2>2 DEF Inv, OneRecordPerDecision
    <3>2. i \in Nat
      BY DEF Inv, TypeOK
    <3>3. <<"observations", i>> # None
      BY <3>2, NoneAssumption
    <3> QED
      BY <1>1, <2>1, <3>1, <3>3
  <2>3. CASE ~Creates(d)
    <3>1. obs' = obs
      BY <2>3 DEF Commit
    <3> QED
      BY <1>2, <2>2, <3>1, SamePlan DEF OneRecordPerDecision
  <2>4. CASE Creates(d)
    <3>1. Ref(d) = <<"observations", Len(obs) + 1>>
      BY <2>4 DEF Ref
    <3> DEFINE c == IF Cardinality(plan[d].sources) = 1 THEN Oldest(plan[d].sources) ELSE None
               row == [by |-> d, source |-> c, says |-> plan[d].says, intact |-> TRUE]
    <3>2. obs' = Append(obs, row) /\ row.by = d
      BY <2>4 DEF Commit
    <3> HIDE DEF row
    <3>3. /\ obs'[Len(obs) + 1].by = d /\ DOMAIN obs' = DOMAIN obs \cup {Len(obs) + 1}
          /\ \A i \in DOMAIN obs : obs'[i] = obs[i]
      BY <3>2 DEF Inv, TypeOK
    <3>4. ASSUME NEW i \in DOMAIN obs', obs'[i].by # 0
          PROVE  obs'[i].by \in Decisions /\ dec'[obs'[i].by].ref = <<"observations", i>>
      <4>1. CASE i \in DOMAIN obs
        BY <2>2, <3>3, <3>4, <4>1
      <4>2. CASE i = Len(obs) + 1
        BY <1>1, <2>1, <3>1, <3>3, <4>2
      <4> QED
        BY <3>3, <4>1, <4>2
    <3> QED
      BY <1>2, <3>4, SamePlan DEF OneRecordPerDecision
  <2> QED
    BY <2>3, <2>4
<1>9. PlanOK'
  BY <1>2 DEF Inv, PlanOK, Decisions
<1> QED
  BY <1>5, <1>6, <1>7, <1>8, <1>9 DEF Inv

-----------------------------------------------------------------------------
(* A step of somebody else, who has to wait for the locks of a commit.     *)
LEMMA MeanwhileKeeps ==
  ASSUME Inv, UNCHANGED <<says, plan, run, dec, worker>>,
         cand' \in [Candidates -> CandidateRow], obs' \in Seq(Observation), person' \in BOOLEAN,
         reviewer' \in Candidates \cup {None}, others' \in 0 .. MaxOthers,
         OneRecordPerDecision',
         \A w \in Workers, d \in Decisions :
           LockSet(d) \subseteq worker[w].held /\ AsReviewed(d) => AsReviewed(d)'
  PROVE  Inv'
<1>1. PlanOK'
  BY DEF Inv, PlanOK, Decisions
<1>2. TypeOK'
  BY SamePlan DEF Inv, TypeOK
<1>3. ASSUME NEW w \in Workers PROVE WorkerOK(w)'
  <2> DEFINE x == worker[w]
  <2>1. WorkerOK(w) /\ (x.pc = "commit" => x.k \in Decisions)
    BY Typed DEF Inv, AtDecision
  <2>2. x.pc = "commit" => LockSet(x.k) \subseteq x.held /\ AsReviewed(x.k)
    BY <2>1 DEF WorkerOK
  <2>3. \A e \in Decisions : x.pc = "commit" /\ e = x.k => AsReviewed(e)'
    BY <2>2
  <2>4. x' = x
    OBVIOUS
  <2> HIDE DEF x
  <2>5. x.pc = "commit" => (AsReviewed(x.k))'
    BY <2>1, <2>3, <2>4
  <2> QED
    BY <2>1, <2>4, <2>5, SamePlan DEF WorkerOK, x, LockSet
<1>4. Exclusive'
  BY DEF Inv, Exclusive
<1> QED
  BY <1>1, <1>2, <1>3, <1>4 DEF Inv

(* One more observation, written by somebody else.                         *)
LEMMA OneMoreRecord ==
  ASSUME Inv, NEW row \in Observation, row.by = 0, obs' = Append(obs, row), UNCHANGED <<plan, dec>>
  PROVE  OneRecordPerDecision' /\ obs' \in Seq(Observation)
<1>1. obs \in Seq(Observation)
  BY DEF Inv, TypeOK
<1>2. /\ obs'[Len(obs) + 1] = row /\ DOMAIN obs' = DOMAIN obs \cup {Len(obs) + 1}
      /\ \A i \in DOMAIN obs : obs'[i] = obs[i]
  BY <1>1
<1>3. obs' \in Seq(Observation)
  BY <1>1
<1>4. \A i \in DOMAIN obs' : obs'[i].by # 0 => i \in DOMAIN obs
  BY <1>2
<1> QED
  BY <1>2, <1>3, <1>4, SamePlan DEF Inv, OneRecordPerDecision

(* A change to a candidate, for which a commit's lock is waited.           *)
LEMMA CandidateChanges ==
  ASSUME Inv, NEW c \in Candidates, Unlocked(<<2, c>>), UNCHANGED <<says, plan, run, dec, worker, obs>>,
         NEW row \in CandidateRow, cand' = [cand EXCEPT ![c] = row], person' \in BOOLEAN,
         reviewer' \in Candidates \cup {None}, others' \in 0 .. MaxOthers
  PROVE  Inv'
<1>1. cand' \in [Candidates -> CandidateRow] /\ \A b \in Candidates \ {c} : cand'[b] = cand[b]
  BY DEF Inv, TypeOK
<1>2. ASSUME NEW w \in Workers, NEW d \in Decisions, LockSet(d) \subseteq worker[w].held, AsReviewed(d)
      PROVE  AsReviewed(d)'
  <2>1. c \notin plan[d].sources
    BY <1>2 DEF Unlocked, Holds, LockSet
  <2>2. plan[d].sources \subseteq Candidates
    BY DecisionTypes DEF Inv
  <2> QED
    BY <1>1, <1>2, <2>1, <2>2 DEF AsReviewed, Creates
<1>3. OneRecordPerDecision' /\ obs' \in Seq(Observation)
  BY SamePlan DEF Inv, TypeOK, OneRecordPerDecision
<1> QED
  BY <1>1, <1>2, <1>3, MeanwhileKeeps

LEMMA ReviewerLoadsKeeps ==
  ASSUME Inv, NEW c \in Candidates, ReviewerLoads(c)
  PROVE  Inv'
<1>1. UNCHANGED <<says, plan, run, dec, cand, obs, person, worker, others>> /\ reviewer' = c
  BY DEF ReviewerLoads, tables
<1>2. TypeOK
  BY DEF Inv
<1>3. OneRecordPerDecision' /\ \A d : AsReviewed(d) => AsReviewed(d)'
  BY <1>1, SamePlan DEF Inv, OneRecordPerDecision, AsReviewed, Creates
<1> QED
  BY <1>1, <1>2, <1>3, MeanwhileKeeps DEF TypeOK

LEMMA OthersKeep ==
  ASSUME Inv, Others
  PROVE  Inv'
<1>1. others' \in 0 .. MaxOthers /\ UNCHANGED worker /\ TypeOK
  BY WindowsAssumption DEF Others, Inv, TypeOK
<1>2. ASSUME Unlocked(PersonLock), NEW w \in Workers, NEW d PROVE ~(LockSet(d) \subseteq worker[w].held)
  BY <1>2 DEF Unlocked, Holds, LockSet
<1>3. ASSUME NEW c \in Candidates, ReviewerAccepts(c) PROVE Inv'
  <2> DEFINE row == [by |-> 0, source |-> c, says |-> says[c], intact |-> TRUE]
  <2>1. says[c] \in Contents
    BY DEF Inv, PlanOK
  <2>2. row \in Observation /\ row.by = 0
    BY <2>1 DEF Observation
  <2>3. /\ obs' = Append(obs, row) /\ UNCHANGED <<says, plan, run, dec, person, reviewer>>
        /\ Unlocked(PersonLock) /\ cand' = [cand EXCEPT ![c] = [status |-> "accepted", touched |-> TRUE]]
    BY <1>3 DEF ReviewerAccepts
  <2> HIDE DEF row
  <2>4. OneRecordPerDecision' /\ obs' \in Seq(Observation)
    BY <2>2, <2>3, OneMoreRecord
  <2>5. [status |-> "accepted", touched |-> TRUE] \in CandidateRow
    BY DEF CandidateRow, CandidateStatus
  <2>6. cand' \in [Candidates -> CandidateRow]
    BY <1>1, <2>3, <2>5 DEF TypeOK
  <2> QED
    BY <1>1, <1>2, <2>3, <2>4, <2>6, MeanwhileKeeps DEF TypeOK
<1>4. ASSUME NEW c \in Candidates, PatchCandidate(c) PROVE Inv'
  <2> DEFINE row == [cand[c] EXCEPT !.touched = TRUE]
  <2>1. row \in CandidateRow
    BY <1>1 DEF TypeOK, CandidateRow
  <2>2. cand' = [cand EXCEPT ![c] = row]
    BY <1>4 DEF PatchCandidate
  <2> HIDE DEF row
  <2> QED
    BY <1>1, <1>4, <2>1, <2>2, CandidateChanges DEF PatchCandidate, TypeOK
<1>5. ASSUME NEW status \in {"rejected", "needs_clarification"}, ReviewerResolves(status) PROVE Inv'
  <2> DEFINE row == [status |-> status, touched |-> TRUE]
  <2>1. row \in CandidateRow
    BY DEF CandidateRow, CandidateStatus
  <2>2. cand' = [cand EXCEPT ![reviewer] = row] /\ reviewer \in Candidates /\ reviewer' = None
    BY <1>1, <1>5 DEF ReviewerResolves, TypeOK
  <2> HIDE DEF row
  <2> QED
    BY <1>1, <1>5, <2>1, <2>2, CandidateChanges DEF ReviewerResolves, TypeOK
<1>6. ASSUME NEW content \in Contents, WriteObservation(content) PROVE Inv'
  <2> DEFINE row == [by |-> 0, source |-> None, says |-> content, intact |-> TRUE]
  <2>1. row \in Observation /\ row.by = 0
    BY DEF Observation
  <2>2. /\ obs' = Append(obs, row) /\ UNCHANGED <<says, plan, run, dec, cand, person, reviewer>>
        /\ Unlocked(PersonLock)
    BY <1>6 DEF WriteObservation
  <2> HIDE DEF row
  <2>3. OneRecordPerDecision' /\ obs' \in Seq(Observation)
    BY <2>1, <2>2, OneMoreRecord
  <2> QED
    BY <1>1, <1>2, <2>2, <2>3, MeanwhileKeeps DEF TypeOK
<1>7. ASSUME NEW i \in DOMAIN obs, EditObservation(i) PROVE Inv'
  <2> DEFINE row == [obs[i] EXCEPT !.intact = FALSE]
  <2>1. obs \in Seq(Observation) /\ obs[i] \in Observation
    BY <1>1 DEF TypeOK
  <2>2. /\ row \in Observation /\ row.by = obs[i].by /\ row.says = obs[i].says /\ ~row.intact
    BY <2>1 DEF Observation
  <2>3. obs' = [obs EXCEPT ![i] = row] /\ UNCHANGED <<says, plan, run, dec, cand, person, reviewer>>
    BY <1>7 DEF EditObservation
  <2> HIDE DEF row
  <2>4. obs' \in Seq(Observation) /\ DOMAIN obs' = DOMAIN obs
        /\ \A j \in DOMAIN obs : obs'[j] = IF j = i THEN row ELSE obs[j]
    BY <2>1, <2>2, <2>3
  <2>5. OneRecordPerDecision'
    BY <2>2, <2>3, <2>4, SamePlan DEF Inv, OneRecordPerDecision
  <2>6. ASSUME NEW d, AsReviewed(d) PROVE AsReviewed(d)'
    BY <2>2, <2>3, <2>4, <2>6 DEF AsReviewed, Creates
  <2> QED
    BY <1>1, <2>3, <2>4, <2>5, <2>6, MeanwhileKeeps DEF TypeOK
<1>8. ASSUME PatchPerson PROVE Inv'
  <2>1. UNCHANGED <<says, plan, run, dec, cand, obs, reviewer>> /\ person' \in BOOLEAN
    BY <1>1, <1>8 DEF PatchPerson, TypeOK
  <2>2. OneRecordPerDecision' /\ \A d : AsReviewed(d) => AsReviewed(d)'
    BY <2>1, SamePlan DEF Inv, OneRecordPerDecision, AsReviewed, Creates
  <2> QED
    BY <1>1, <2>1, <2>2, MeanwhileKeeps DEF TypeOK
<1> QED
  BY <1>3, <1>4, <1>5, <1>6, <1>7, <1>8 DEF Others

-----------------------------------------------------------------------------
LEMMA InitInv == Init => Inv
<1> SUFFICES ASSUME Init PROVE Inv
  OBVIOUS
<1>1. PlanOK
  BY WindowsAssumption DEF Init, PlanOK, Decisions
<1>2. TypeOK
  <2>1. dec \in [Decisions -> DecisionRow]
    BY DEF Init, Decisions, DecisionRow, DecisionStatus, Refs
  <2>2. cand \in [Candidates -> CandidateRow]
    BY DEF Init, CandidateRow, CandidateStatus
  <2>3. worker \in [Workers -> WorkerState]
    BY IdleState DEF Init
  <2>4. run \in RunStatus /\ others \in 0 .. MaxOthers
    BY WindowsAssumption DEF Init, RunStatus
  <2> QED
    BY <2>1, <2>2, <2>3, <2>4, KnownAssumption DEF Init, TypeOK
<1>3. \A w \in Workers : worker[w] = Idle
  BY DEF Init
<1>4. \A w \in Workers : WorkerOK(w)
  BY <1>3 DEF WorkerOK, Idle, AtDecision
<1>5. Exclusive
  BY <1>3, IdleState DEF Exclusive
<1>6. OneRecordPerDecision
  BY KnownAssumption DEF Init, OneRecordPerDecision
<1> QED
  BY <1>1, <1>2, <1>4, <1>5, <1>6 DEF Inv

LEMMA NextInv == Inv /\ [Next]_vars => Inv'
<1> SUFFICES ASSUME Inv, [Next]_vars PROVE Inv'
  OBVIOUS
<1>1. ASSUME NEW w \in Workers, Evaluate(w) \/ Load(w) \/ Crash(w) PROVE Inv'
  BY <1>1, EvaluateKeeps, LoadKeeps, CrashKeeps
<1>2. ASSUME NEW w \in Workers, Plan(w) \/ CommitPlan(w) \/ Start(w) \/ Look(w) PROVE Inv'
  BY <1>2, PlanKeeps, CommitPlanKeeps, StartKeeps, LookKeeps
<1>3. ASSUME NEW w \in Workers, NEW r \in Lockable, Lock(w, r) PROVE Inv'
  BY <1>3, LockKeeps
<1>4. ASSUME NEW w \in Workers, Judge(w) \/ Commit(w) \/ Fail(w) PROVE Inv'
  BY <1>4, JudgeKeeps, CommitKeeps, FailKeeps
<1>5. ASSUME NEW w \in Workers, ReconcileRead(w) \/ ReconcileWrite(w) \/ MarkRead(w) \/ MarkWrite(w)
      PROVE  Inv'
  BY <1>5, ReconcileReadKeeps, ReconcileWriteKeeps, MarkReadKeeps, MarkWriteKeeps
<1>6. ASSUME NEW w \in Workers, Count(w) \/ Finish(w) PROVE Inv'
  BY <1>6, CountKeeps, FinishKeeps
<1>7. ASSUME NEW c \in Candidates, ReviewerLoads(c) PROVE Inv'
  BY <1>7, ReviewerLoadsKeeps
<1>8. CASE UNCHANGED vars
  <2>1. UNCHANGED <<says, plan, run, dec, cand, obs, person, worker, reviewer, others>>
    BY <1>8 DEF vars, tables, meanwhile
  <2>2. OneRecordPerDecision' /\ \A d : AsReviewed(d) => AsReviewed(d)'
    BY <2>1, SamePlan DEF Inv, OneRecordPerDecision, AsReviewed, Creates
  <2>3. TypeOK
    BY DEF Inv
  <2> QED
    BY <2>1, <2>2, <2>3, MeanwhileKeeps DEF TypeOK
<1> QED
  BY <1>1, <1>2, <1>3, <1>4, <1>5, <1>6, <1>7, <1>8, OthersKeep DEF Next, Advance

(* The invariant of the workers, whatever they are interrupted by.         *)
THEOREM ExecutionInvariant == Spec => []Inv
BY InitInv, NextInv, PTL DEF Spec

(* Retried, resumed or read back by many workers, a decision writes one    *)
(* record at most and never forgets it.                                    *)
THEOREM OneRecordEach == Spec => []OneRecordPerDecision
<1>1. Inv => OneRecordPerDecision
  BY DEF Inv
<1> QED
  BY <1>1, ExecutionInvariant, PTL

(* A decision gets a reference only when a worker commits it.              *)
LEMMA OnlyCommits ==
  ASSUME Inv, [Next]_vars, NEW d \in Decisions, dec[d].ref = None, dec'[d].ref # None
  PROVE  AsReviewed(d)
<1>1. dec \in [Decisions -> DecisionRow] /\ dec[d] \in DecisionRow
  BY DEF Inv, TypeOK
<1>2. ASSUME NEW w \in Workers, Commit(w) PROVE AsReviewed(d)
  <2>1. worker[w].k = d
    BY <1>1, <1>2 DEF Commit
  <2> QED
    BY <1>2, <2>1, CommitFinds
<1>3. ASSUME UNCHANGED dec PROVE FALSE
  BY <1>3
<1>4. ASSUME NEW w \in Workers, CommitPlan(w) PROVE FALSE
  <2>1. dec'[d] = dec[d] \/ dec'[d] = [dec[d] EXCEPT !.status = worker[w].plan[d]]
    BY <1>4 DEF CommitPlan
  <2> QED
    BY <1>1, <2>1 DEF DecisionRow
<1>5. ASSUME NEW w \in Workers, Judge(w) PROVE FALSE
  <2>1. UNCHANGED dec \/ dec' = [dec EXCEPT ![worker[w].k].status = "blocked"]
    BY <1>5 DEF Judge
  <2> QED
    BY <1>1, <2>1 DEF DecisionRow
<1>6. ASSUME NEW w \in Workers, ReconcileWrite(w) \/ MarkWrite(w) PROVE FALSE
  <2>1. worker[w].k \in Decisions
    BY <1>6, Typed DEF ReconcileWrite, MarkWrite, AtDecision
  <2> DEFINE copy == worker[w].row
             k == worker[w].k
  <2>2. PICK status \in DecisionStatus,
             readback \in {None, "verification_unknown", "verified", "failed"} :
          dec' = [dec EXCEPT ![k] = Overwritten(dec[k], copy, status, readback)]
    BY <1>6 DEF ReconcileWrite, MarkWrite, DecisionStatus
  <2> HIDE DEF copy, k
  <2>3. dec'[d].ref = dec[d].ref
    BY <2>1, <2>2, DecisionUpdated DEF k
  <2> QED
    BY <2>3
<1>7. ASSUME NEW w \in Workers,
             \/ Evaluate(w) \/ Load(w) \/ Crash(w) \/ Plan(w) \/ Start(w) \/ Look(w) \/ Fail(w)
             \/ ReconcileRead(w) \/ MarkRead(w) \/ Count(w) \/ Finish(w)
             \/ \E r \in Lockable : Lock(w, r)
      PROVE  UNCHANGED dec
  BY <1>7 DEF Evaluate, Load, Crash, Plan, Start, Look, Fail, ReconcileRead, MarkRead, Count, Finish,
     Lock, tables
<1>8. ASSUME Others \/ UNCHANGED vars \/ \E c \in Candidates : ReviewerLoads(c) PROVE UNCHANGED dec
  BY <1>8 DEF Others, ReviewerAccepts, PatchCandidate, ReviewerResolves, WriteObservation,
     EditObservation, PatchPerson, ReviewerLoads, vars, tables
<1> QED
  BY <1>2, <1>3, <1>4, <1>5, <1>6, <1>7, <1>8 DEF Next, Advance

(* A decision takes effect only on candidates as the planner saw them.     *)
THEOREM ExecutedAsReviewed == Spec => ExecutesWhatWasReviewed
<1> DEFINE Seen ==
      \A d \in Decisions :
        dec[d].ref = None /\ dec'[d].ref # None =>
          \A c \in plan[d].sources : cand[c] = [status |-> "pending", touched |-> FALSE]
<1>1. Inv /\ [Next]_vars => Seen
  BY OnlyCommits DEF AsReviewed
<1>2. Inv /\ [Next]_vars => [Seen]_vars
  BY <1>1
<1>3. Spec => [][Seen]_vars
  BY <1>2, ExecutionInvariant, PTL DEF Spec
<1> QED
  BY <1>3 DEF ExecutesWhatWasReviewed

(* No curated record says what an active observation already says.         *)
THEOREM NothingRepeated == Spec => NeverRepeats
<1> DEFINE New ==
      \A d \in Decisions :
        dec[d].ref = None /\ dec'[d].ref # None /\ Creates(d) =>
          \A i \in DOMAIN obs : obs[i].intact => obs[i].says # plan[d].says
<1>1. Inv /\ [Next]_vars => New
  BY OnlyCommits DEF AsReviewed
<1>2. Inv /\ [Next]_vars => [New]_vars
  BY <1>1
<1>3. Spec => [][New]_vars
  BY <1>2, ExecutionInvariant, PTL DEF Spec
<1> QED
  BY <1>3 DEF NeverRepeats

=============================================================================
