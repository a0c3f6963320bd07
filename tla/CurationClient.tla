--------------------------- MODULE CurationClient ---------------------------
(***************************************************************************)
(* The router's curation client. A cycle reads the runs the backend keeps, *)
(* recovers what an earlier cycle left unfinished, finds out from them     *)
(* where the next window of candidates begins, has the model plan it, and  *)
(* creates and executes one run. The client keeps no state of its own: the *)
(* list of runs is its cursor.                                             *)
(*                                                                         *)
(* In shadow mode runs are planned and not executed. When the operator     *)
(* changes the mode to apply, the windows of the shadow runs are replayed. *)
(*                                                                         *)
(* Candidates are numbered in the order of (created_at, id), in which they *)
(* also appear; all are young enough for a window. Requests about one run  *)
(* count as one request here: CurationExecution lets them interleave. The  *)
(* list of runs is one page, read with the runs in it. One cycle runs at a *)
(* time, but the backend may still work on what an earlier one asked for.  *)
(***************************************************************************)
EXTENDS Integers, Sequences, SequencesExt, FiniteSets, FiniteSetsExt

CONSTANTS
  N,            \* candidates: 1 .. N
  Limit,        \* candidates in one window
  Reviewed,     \* bound: candidates a reviewer may resolve meanwhile
  MaxSwitches,  \* bound: changes of the mode
  MaxErrors     \* bound: lost answers, crashes and failed decisions

ASSUME CurationClientAssumption ==
  /\ N \in Nat /\ Limit \in Nat \ {0} /\ Reviewed \subseteq 1 .. N
  /\ MaxSwitches \in Nat /\ MaxErrors \in Nat

VARIABLES
  cand,     \* [1 .. N -> "absent", "pending", "done" or "reviewed"]
  runs,     \* the runs, oldest first
  work,     \* what the backend is doing for each run
  mode,     \* KINLAYER_CURATION_MODE
  client,   \* the cycle that is running
  switches, errors

vars == <<cand, runs, work, mode, client, switches, errors>>

Candidates == 1 .. N
None == 0 - 1   \* no upper bound
Unsettled == {"ready", "executing", "partial"}

Idle == [pc |-> "idle"]
Becomes(state) == client' = state
Quits == Becomes(Idle)

-----------------------------------------------------------------------------
(* The backend. *)

(* Faulty: the candidate at the cursor is read again. *)
Pending_Inclusive(from, to) ==
  {c \in Candidates : from <= c /\ c <= to /\ cand[c] = "pending"}

(* What a reviewer has not resolved after one cursor, up to another.       *)
Pending(from, to) == {c \in Candidates : from < c /\ c <= to /\ cand[c] = "pending"}

(* The oldest of them.                                                     *)
Window(from, upper) ==
  LET all == Pending(from, IF upper = None THEN N ELSE upper)
  IN {c \in all : Cardinality({b \in all : b <= c}) <= Limit}

(* The pack a plan was made from is still what is pending in its window.   *)
WindowMatches(run) == Pending(run.from, run.to) = DOMAIN run.plan

(* A decision has an idempotency key of its own: what is decided, in which *)
(* mode, about which candidates.                                           *)
KeyTaken(run) ==
  \E r \in DOMAIN runs : runs[r].mode = run.mode /\
    \E c \in DOMAIN run.plan \cap DOMAIN runs[r].plan : runs[r].plan[c] = run.plan[c]

Accepted(run) == run.mode = mode /\ WindowMatches(run) /\ ~KeyTaken(run)

(* The run is committed as pending and then evaluated.                     *)
CreateRun(run) ==
  /\ runs' = Append(runs, run)
  /\ work' = Append(work, "create")

Checkpoint(run) == run.plan = <<>>

(* The policy gate of a decision.                                          *)
Allowed(run, c) == run.plan[c] = "auto" /\ cand[c] = "pending"

Evaluate(r) ==
  LET run == runs[r]
      verdict == [c \in DOMAIN run.plan |-> IF Allowed(run, c) THEN "allowed" ELSE "blocked"]
  IN /\ work[r] \in {"create", "evaluate"}
     /\ IF run.status = "pending"
          THEN runs' = [runs EXCEPT ![r].status = "planning"] /\ UNCHANGED work
          ELSE /\ run.status = "planning"
               /\ runs' = [runs EXCEPT ![r].status = "ready", ![r].dec = verdict]
               /\ work' = [work EXCEPT ![r] =
                    IF work[r] = "create" /\ Checkpoint(run) THEN "execute" ELSE "none"]
     /\ UNCHANGED <<cand, mode, client, switches, errors>>

ToDo(run) == {c \in DOMAIN run.dec : run.dec[c] = "allowed"}

(* One decision after the other is executed, blocked because its candidate *)
(* is not pending any more, or fails.                                      *)
Execute(r) ==
  LET c == Min(ToDo(runs[r]))
  IN /\ work[r] = "execute" /\ runs[r].status = "executing"
     /\ ToDo(runs[r]) # {}
     /\ \/ /\ cand[c] = "pending"
           /\ cand' = [cand EXCEPT ![c] = "done"]
           /\ runs' = [runs EXCEPT ![r].dec[c] = "executed"]
           /\ UNCHANGED errors
        \/ /\ cand[c] # "pending"
           /\ runs' = [runs EXCEPT ![r].dec[c] = "blocked"]
           /\ UNCHANGED <<cand, errors>>
        \/ /\ errors < MaxErrors /\ errors' = errors + 1
           /\ runs' = [runs EXCEPT ![r].dec[c] = "failed"]
           /\ UNCHANGED cand
     /\ UNCHANGED <<work, mode, client, switches>>

StartExecution(r) ==
  /\ work[r] = "execute" /\ runs[r].status \in {"ready", "partial"}
  /\ runs' = [runs EXCEPT ![r].status = "executing", ![r].dec =
                [c \in DOMAIN @ |-> IF @[c] = "failed" THEN "allowed" ELSE @[c]]]
  /\ UNCHANGED <<cand, work, mode, client, switches, errors>>

FinishExecution(r) ==
  /\ work[r] = "execute" /\ runs[r].status = "executing" /\ ToDo(runs[r]) = {}
  /\ runs' = [runs EXCEPT ![r].status =
       IF \A c \in DOMAIN runs[r].dec : runs[r].dec[c] \in {"executed", "blocked"}
         THEN "completed" ELSE "partial"]
  /\ work' = [work EXCEPT ![r] = "none"]
  /\ UNCHANGED <<cand, mode, client, switches, errors>>

Backend == \E r \in DOMAIN runs :
  Evaluate(r) \/ StartExecution(r) \/ Execute(r) \/ FinishExecution(r)

(* resume_run: what the backend takes up for a run, or refuses.            *)
Resumes(run) ==
  CASE run.status \in {"pending", "planning"} -> "evaluate"
    [] run.mode = "apply" /\ mode = "apply" /\ run.status \in Unsettled -> "execute"
    [] OTHER -> "none"

-----------------------------------------------------------------------------
(* What the client makes of the runs it has read, oldest first.            *)
Applies(h) == {r \in DOMAIN h : h[r].mode = "apply"}
NewestApply(h) == IF Applies(h) = {} THEN 0 ELSE Max(Applies(h))

(* Faulty: a run whose evaluation has begun is taken for evaluated. *)
Unplanned_Begun(h) == {r \in DOMAIN h : h[r].status = "pending"}

Unplanned(h) == {r \in DOMAIN h : h[r].status \in {"pending", "planning"}}

(* Faulty: a run that was never executed is not recovered. *)
Incomplete_Executed(h) == {r \in Applies(h) : h[r].status \in Unsettled \ {"ready"}}

Incomplete(h) == {r \in Applies(h) : h[r].status \in Unsettled}

(* Runs, from the oldest to the newest.                                    *)
OldestFirst(r) == SetToSortSeq(r, <)

(* Each of the shadow runs begins where the one before ended.              *)
Chained(h, order, base) ==
  \A k \in DOMAIN order : h[order[k]].from = IF k = 1 THEN base ELSE h[order[k - 1]].to

(* The shadow runs since the latest apply run.                             *)
InitialEpoch(h) == {r \in DOMAIN h : h[r].mode = "shadow" /\ r > NewestApply(h)}

(* Shadow runs that go beyond the base, wherever they are in the history.  *)
SuccessorEpoch(h, base) == {r \in DOMAIN h : h[r].mode = "shadow" /\ h[r].to > base}

(* They form one chain, and no two of them begin at the same place.        *)
Unbroken(h, shadows, base) ==
  /\ \E order \in SetToSeqs(shadows) : Chained(h, order, base)
  /\ \A r, s \in shadows : h[r].from = h[s].from => r = s

(* A checkpoint stands for the shadow runs between its start and its end.  *)
LineageOK(h) ==
  \A r \in {q \in DOMAIN h : Checkpoint(h[q])} :
    LET between == {s \in DOMAIN h : /\ h[s].mode = "shadow"
                                     /\ h[r].from <= h[s].from /\ h[s].to <= h[r].to}
    IN Unbroken(h, between, h[r].from) /\ \E s \in between : h[s].to = h[r].to

From(from, upper) == [ok |-> TRUE, from |-> from, upper |-> upper]
Broken == [ok |-> FALSE]

(* Faulty: apply mode goes on after the latest run, like shadow mode. *)
Continuity_Latest(h, m) == From(IF h = <<>> THEN 0 ELSE h[Len(h)].to, None)

(* Where the next window begins, and where a replay ends.                  *)
Continuity(h, m) ==
  LET newest == NewestApply(h)
      initial == InitialEpoch(h)
      base == IF newest # 0 THEN h[newest].to
              ELSE IF initial # {} THEN h[Min(initial)].from ELSE 0
      successor == SuccessorEpoch(h, base)
      Replay(shadows) == From(base, Max({h[r].to : r \in shadows}))
  IN IF m = "shadow" THEN From(IF h = <<>> THEN 0 ELSE h[Len(h)].to, None)
     ELSE IF initial # {} THEN
       IF Chained(h, OldestFirst(initial), base) THEN Replay(initial) ELSE Broken
     ELSE IF newest # 0 /\ successor # {} THEN
       IF Unbroken(h, successor, base) THEN Replay(successor) ELSE Broken
     ELSE From(base, None)

-----------------------------------------------------------------------------
(* A cycle.                                                                *)
Begin ==
  /\ client = Idle
  /\ Becomes([pc |-> "recover", mode |-> mode, h |-> runs])
  /\ UNCHANGED <<cand, runs, work, mode, switches, errors>>

(* resume, for a run that nothing is being done for, or together with what *)
(* is. Only an apply run is refused, unless the mode is apply.             *)
Resume(r, next) ==
  IF runs[r].mode = "apply" /\ mode # "apply" /\ runs[r].status \notin {"pending", "planning"}
    THEN Quits /\ UNCHANGED work
    ELSE /\ Becomes(next)
         /\ work' = [work EXCEPT ![r] = IF @ = "none" THEN Resumes(runs[r]) ELSE @]

(* First the runs that were not evaluated, then the apply run that was not *)
(* completed. There is at most one, the latest, or else the cycle ends.    *)
Recover ==
  LET unplanned == Unplanned(client.h)
      incomplete == Incomplete(client.h)
      Recovering(r, pc) == [pc |-> pc, mode |-> client.mode, h |-> client.h, run |-> r]
  IN /\ client.pc = "recover"
     /\ \/ /\ unplanned # {}
           /\ Resume(Min(unplanned), Recovering(Min(unplanned), "replanned"))
        \/ /\ unplanned = {} /\ incomplete = {NewestApply(client.h)}
           /\ Resume(NewestApply(client.h), Recovering(NewestApply(client.h), "reapplied"))
        \/ /\ unplanned = {} /\ incomplete = {} /\ LineageOK(client.h)
           /\ Becomes([client EXCEPT !.pc = "pack"]) /\ UNCHANGED work
        \/ /\ unplanned = {}
           /\ IF incomplete = {} THEN ~LineageOK(client.h)
                                 ELSE incomplete # {NewestApply(client.h)}
           /\ Quits /\ UNCHANGED work
     /\ UNCHANGED <<cand, runs, mode, switches, errors>>

Answered(pc) == client.pc = pc /\ work[client.run] = "none"

Recovered ==
  \E pc \in {"replanned", "reapplied"} :
    /\ Answered(pc)
    /\ LET r == client.run
       IN IF runs[r].status = (IF pc = "replanned" THEN "ready" ELSE "completed")
            THEN Becomes([pc |-> "recover", mode |-> client.mode,
                          h |-> [client.h EXCEPT ![r] = runs[r]]])
            ELSE Quits
    /\ UNCHANGED <<cand, runs, work, mode, switches, errors>>

Plans == {"auto", "defer"}

(* The source pack: the candidates of the next window.                     *)
SourcePack(next) == IF next.ok THEN Window(next.from, next.upper) ELSE {}

NewRun(next, to, plan) ==
  [mode |-> client.mode, from |-> next.from, to |-> to, plan |-> plan,
   dec |-> plan, status |-> "pending"]

Posts(run) ==
  /\ Becomes([pc |-> "post", mode |-> client.mode, new |-> run])
  /\ UNCHANGED <<cand, runs, work, mode, switches, errors>>

(* The model plans each candidate of the window.                           *)
PlanWindow ==
  LET next == Continuity(client.h, client.mode)
      window == SourcePack(next)
  IN /\ client.pc = "pack" /\ window # {}
     /\ \E plan \in [window -> Plans] : Posts(NewRun(next, Max(window), plan))

(* A replay that has nothing left to decide ends with a checkpoint.        *)
EndReplay ==
  LET next == Continuity(client.h, client.mode)
  IN /\ client.pc = "pack" /\ next.ok /\ SourcePack(next) = {}
     /\ client.mode = "apply" /\ next.upper # None
     /\ Posts(NewRun(next, next.upper, <<>>))

(* There is no candidate, or the shadow runs do not make one chain.        *)
NothingNew ==
  LET next == Continuity(client.h, client.mode)
  IN /\ client.pc = "pack" /\ SourcePack(next) = {}
     /\ next.ok => client.mode = "shadow" \/ next.upper = None
     /\ Quits
     /\ UNCHANGED <<cand, runs, work, mode, switches, errors>>

Post ==
  /\ client.pc = "post"
  /\ IF Accepted(client.new)
       THEN CreateRun(client.new) /\ Becomes([pc |-> "created", run |-> Len(runs) + 1])
       ELSE Quits /\ UNCHANGED <<runs, work>>
  /\ UNCHANGED <<cand, mode, switches, errors>>

(* The run is read back. A plan that is ready is executed in apply mode; a *)
(* checkpoint was completed, or the cycle fails.                           *)
Created ==
  /\ Answered("created")
  /\ LET r == client.run
     IN IF /\ runs[r].status = "ready" /\ ~Checkpoint(runs[r])
           /\ runs[r].mode = "apply" /\ mode = "apply"
          THEN /\ work' = [work EXCEPT ![r] = "execute"]
               /\ Becomes([pc |-> "executed", run |-> r])
          ELSE Quits /\ UNCHANGED work
  /\ UNCHANGED <<cand, runs, mode, switches, errors>>

(* What is left is tried once more.                                        *)
Executed ==
  /\ Answered("executed")
  /\ IF runs[client.run].status \in Unsettled
       THEN Resume(client.run, [client EXCEPT !.pc = "resumed"]) ELSE Quits /\ UNCHANGED work
  /\ UNCHANGED <<cand, runs, mode, switches, errors>>

Resumed ==
  /\ Answered("resumed") /\ Quits
  /\ UNCHANGED <<cand, runs, work, mode, switches, errors>>

Cycle == Recover \/ Recovered \/ PlanWindow \/ EndReplay \/ NothingNew \/ Post \/ Created \/ Executed \/ Resumed

-----------------------------------------------------------------------------
(* An answer is lost, the model fails or the client dies; or the backend.  *)
Fault ==
  /\ errors < MaxErrors /\ errors' = errors + 1
  /\ \/ client # Idle /\ Quits /\ UNCHANGED work
     \/ \E r \in DOMAIN runs : /\ work[r] # "none"
                               /\ work' = [work EXCEPT ![r] = "none"]
                               /\ UNCHANGED client
  /\ UNCHANGED <<cand, runs, mode, switches>>

Appear ==
  /\ \E c \in Candidates : /\ cand[c] = "absent" /\ \A b \in 1 .. (c - 1) : cand[b] # "absent"
                           /\ cand' = [cand EXCEPT ![c] = "pending"]
  /\ UNCHANGED <<runs, work, mode, client, switches, errors>>

(* A reviewer accepts or rejects a candidate.                              *)
Review ==
  /\ \E c \in Reviewed : cand[c] = "pending" /\ cand' = [cand EXCEPT ![c] = "reviewed"]
  /\ UNCHANGED <<runs, work, mode, client, switches, errors>>

Switch ==
  /\ switches < MaxSwitches /\ switches' = switches + 1
  /\ mode' = IF mode = "apply" THEN "shadow" ELSE "apply"
  /\ UNCHANGED <<cand, runs, work, client, errors>>

Init ==
  /\ cand = [c \in Candidates |-> "absent"] /\ runs = <<>> /\ work = <<>>
  /\ mode \in {"shadow", "apply"} /\ client = Idle /\ switches = 0 /\ errors = 0

Next == Begin \/ Cycle \/ Backend \/ Fault \/ Appear \/ Review \/ Switch

(* A scheduler begins the cycles; the backend answers what it is asked.    *)
Spec == Init /\ [][Next]_vars /\ WF_vars(Begin \/ Cycle) /\ WF_vars(Backend)

-----------------------------------------------------------------------------
(* The cursor never passes over a candidate: whatever is pending before    *)
(* the end of an apply run is in that run or in another apply run, through *)
(* crashes, changes of the mode, replays and checkpoints (the replay that  *)
(* _continuity computes from shadow runs).                                 *)
NothingSkipped ==
  \A r \in Applies(runs), c \in Candidates :
    cand[c] = "pending" /\ c <= runs[r].to =>
      \E s \in Applies(runs) : c \in DOMAIN runs[s].plan

(* A candidate is put to the model for execution only once: a candidate    *)
(* that was deferred is not decided again by a later cycle, a recovery or  *)
(* a replay.                                                               *)
DecidedOnce ==
  \A r, s \in Applies(runs) :
    DOMAIN runs[r].plan \cap DOMAIN runs[s].plan # {} => r = s

(* The client never brings about a history it refuses to recover: several  *)
(* unfinished apply runs, or one older than another apply run (the errors  *)
(* multiple_incomplete_apply_runs and older_incomplete_apply_run).         *)
NeverWedged ==
  \A r, s \in Applies(runs) : runs[r].status # "completed" => s <= r

Decided(c) == \E r \in Applies(runs) :
  c \in DOMAIN runs[r].dec /\ runs[r].dec[c] \in {"executed", "blocked"}

(* An apply run that ended inside the window of a shadow run.              *)
Straddled ==
  \E r \in Applies(runs), s \in DOMAIN runs \ Applies(runs) :
    runs[s].from < runs[r].to /\ runs[r].to < runs[s].to

Backlog == {c \in Candidates : cand[c] = "pending" /\ ~Decided(c)}

(* While the mode stays apply, the backlog of candidates is worked off,    *)
(* whatever was lost and whatever was left unfinished. The one exception   *)
(* is a replay whose window ends inside that of a shadow run: from then on *)
(* _continuity finds a gap (shadow_lineage_gap), and every cycle ends      *)
(* there.                                                                  *)
BacklogIsWorkedOff == Backlog # {} ~> Backlog = {} \/ Straddled \/ mode = "shadow"
=============================================================================
