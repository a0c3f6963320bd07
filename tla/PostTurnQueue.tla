--------------------------- MODULE PostTurnQueue ---------------------------
(***************************************************************************)
(* The post-turn queue of the Hermes router. Every finished conversation   *)
(* turn is offered to post_llm_call, from any thread. In the normal mode   *)
(* the turn goes through a bounded queue to one daemon worker, in the      *)
(* synchronous mode the calling thread runs it. A turn is known while it   *)
(* is pending, in flight or among the last few completed, and is then      *)
(* refused. A run that fails before it has begun to persist anything may   *)
(* be offered again; after that point it counts as completed.              *)
(*                                                                         *)
(* A turn is reduced to its key, NoKey for one without a turn_id. Each     *)
(* block of code under _worker_lock is one step.                           *)
(***************************************************************************)
EXTENDS Integers, Sequences, FiniteSets

CONSTANTS
  Keys,         \* the keys of turns
  NoKey,        \* a turn without an identifier, or no turn
  Stop,         \* the sentinel that ends the worker
  Callers,      \* threads that run turns themselves in the synchronous mode
  Stoppers,     \* threads that call shutdown
  Capacity,     \* queue_size
  RecentLimit,  \* _RECENT_TURN_LIMIT
  MaxTurns      \* bound: how many turns are admitted

ASSUME KeysAssumption == NoKey \notin Keys /\ Stop \notin Keys \cup {NoKey}
ASSUME LimitsAssumption ==
  Capacity \in Nat \ {0} /\ RecentLimit \in Nat \ {0} /\ MaxTurns \in Nat

VARIABLES
  synchronous,  \* the mode, chosen once
  queue,        \* _post_turn_queue
  unfinished,   \* its unfinished_tasks
  pending, inFlight,  \* _pending_turn_keys, _in_flight_turn_keys
  completed,    \* _completed_turn_keys, oldest first, and the set beside it
  worker,       \* the daemon thread, as a Runner
  caller,       \* [Callers -> Runner]
  closed, stopEnqueued,
  stopper,      \* [Stoppers -> where its last shutdown call stands or ended]
  log,          \* history of persistence and completion of keyed turns
  admitted      \* turns admitted so far

queueVars == <<queue, unfinished>>
known == <<pending, inFlight, completed>>
closing == <<closed, stopEnqueued, stopper>>
vars == <<synchronous, queueVars, known, worker, caller, closing, log, admitted>>

Jobs == Keys \cup {NoKey}
KeySet(job) == {job} \cap Keys
Elements(seq) == {seq[i] : i \in DOMAIN seq}

(* A thread that may run a turn. "persisted" tells that persistence_may_have_begun. *)
Runner == [pc : {"none", "idle", "taken", "running", "finished", "exiting", "dead"},
           job : Jobs, persisted : BOOLEAN]
At(pc, job) == [pc |-> pc, job |-> job, persisted |-> FALSE]

Alive == worker.pc \notin {"none", "dead"}

(* Faulty: a turn that has left the queue is no longer known. *)
Known_OnlyPending(job) == KeySet(job) \cap (pending \cup Elements(completed)) # {}

(* _turn_known_locked *)
Known(job) == KeySet(job) \cap (pending \cup inFlight \cup Elements(completed)) # {}

(* _ensure_worker_locked: starts a worker unless one is alive.             *)
EnsuredWorker == IF Alive THEN worker ELSE At("idle", NoKey)

-----------------------------------------------------------------------------
(* _enqueue_post_turn. A turn that is known, that finds the queue full or   *)
(* no thread to run it is dropped: nothing changes.                        *)
Enqueue(job) ==
  /\ ~synchronous /\ ~closed /\ ~Known(job) /\ admitted < MaxTurns
  /\ Len(queue) < Capacity
  /\ worker' = EnsuredWorker
  /\ queue' = Append(queue, job)
  /\ unfinished' = unfinished + 1
  /\ pending' = pending \cup KeySet(job)
  /\ admitted' = admitted + 1
  /\ UNCHANGED <<synchronous, inFlight, completed, caller, closing, log>>

(* _defer_telemetry, in either mode: a dropped turn or an error in the hook *)
(* starts a worker to write its telemetry.                                 *)
DeferTelemetry ==
  /\ ~closed
  /\ worker' = EnsuredWorker
  /\ UNCHANGED <<synchronous, queueVars, known, caller, closing, log, admitted>>

(* The synchronous branch of post_llm_call.                                *)
CallerBegin(t, job) ==
  /\ synchronous
  /\ ~closed
  /\ caller[t].pc = "idle"
  /\ ~Known(job)
  /\ admitted < MaxTurns
  /\ admitted' = admitted + 1
  /\ inFlight' = inFlight \cup KeySet(job)
  /\ caller' = [caller EXCEPT ![t] = At("running", job)]
  /\ UNCHANGED <<synchronous, queueVars, pending, completed, worker, closing, log>>

(* Faulty: the worker leaves as soon as shutdown has been called. *)
WorkerTake_LeavesWhenClosed ==
  /\ worker.pc = "idle"
  /\ IF closed
       THEN worker' = At("exiting", NoKey) /\ UNCHANGED queueVars
       ELSE /\ queue # <<>>
            /\ queue' = Tail(queue)
            /\ worker' = At("taken", Head(queue))
            /\ UNCHANGED unfinished
  /\ UNCHANGED <<synchronous, known, caller, closing, log, admitted>>

(* queue.get: the job is out of the queue but still pending. The sentinel  *)
(* ends the loop, and its task_done runs on the way out.                   *)
WorkerTake ==
  /\ worker.pc = "idle"
  /\ queue # <<>>
  /\ queue' = Tail(queue)
  /\ IF Head(queue) = Stop
       THEN worker' = At("exiting", NoKey) /\ unfinished' = unfinished - 1
       ELSE worker' = At("taken", Head(queue)) /\ UNCHANGED unfinished
  /\ UNCHANGED <<synchronous, known, caller, closing, log, admitted>>

WorkerStart ==
  /\ worker.pc = "taken"
  /\ worker' = At("running", worker.job)
  /\ pending' = pending \ KeySet(worker.job)
  /\ inFlight' = inFlight \cup KeySet(worker.job)
  /\ UNCHANGED <<synchronous, queueVars, completed, caller, closing, log, admitted>>

Logged(event, job) == IF job \in Keys THEN Append(log, <<event, job>>) ELSE log

(* process_post_turn is called: from here on the outcome is "completed",   *)
(* whatever is raised.                                                     *)
WorkerPersist ==
  /\ worker.pc = "running" /\ ~worker.persisted
  /\ worker' = [worker EXCEPT !.persisted = TRUE]
  /\ log' = Logged("persist", worker.job)
  /\ UNCHANGED <<synchronous, queueVars, known, caller, closing, admitted>>

CallerPersist(t) ==
  /\ caller[t].pc = "running" /\ ~caller[t].persisted
  /\ caller' = [caller EXCEPT ![t].persisted = TRUE]
  /\ log' = Logged("persist", caller[t].job)
  /\ UNCHANGED <<synchronous, queueVars, known, worker, closing, admitted>>

(* Faulty: an exception makes the turn retryable even after persistence. *)
Outcomes_AlwaysRetryable(runner) == {"completed", "retryable_pre_persistence"}

(* How a run can end. Before persistence it may also complete, when the    *)
(* turn holds nothing worth keeping.                                       *)
Outcomes(runner) ==
  IF runner.persisted THEN {"completed"} ELSE {"completed", "retryable_pre_persistence"}

(* _finish_turn_locked: a completed turn pushes the oldest one out.        *)
FinishTurn(job, outcome) ==
  /\ pending' = pending \ KeySet(job)
  /\ inFlight' = inFlight \ KeySet(job)
  /\ IF outcome = "completed" /\ job \in Keys
       THEN /\ completed' = Append(IF Len(completed) >= RecentLimit THEN Tail(completed)
                                                                   ELSE completed, job)
            /\ log' = Logged("complete", job)
       ELSE UNCHANGED <<completed, log>>

WorkerFinish ==
  /\ worker.pc = "running"
  /\ \E outcome \in Outcomes(worker) : FinishTurn(worker.job, outcome)
  /\ worker' = At("finished", NoKey)
  /\ UNCHANGED <<synchronous, queueVars, caller, closing, admitted>>

CallerFinish(t) ==
  /\ caller[t].pc = "running"
  /\ \E outcome \in Outcomes(caller[t]) : FinishTurn(caller[t].job, outcome)
  /\ caller' = [caller EXCEPT ![t] = At("idle", NoKey)]
  /\ UNCHANGED <<synchronous, queueVars, worker, closing, admitted>>

(* task_done, after the turn is finished. *)
WorkerTaskDone ==
  /\ worker.pc = "finished"
  /\ worker' = At("idle", NoKey)
  /\ unfinished' = unfinished - 1
  /\ UNCHANGED <<synchronous, queue, known, caller, closing, log, admitted>>

WorkerExit ==
  /\ worker.pc = "exiting"
  /\ worker' = At("dead", NoKey)
  /\ UNCHANGED <<synchronous, queueVars, known, caller, closing, log, admitted>>

-----------------------------------------------------------------------------
InShutdown(p) == stopper[p] \in {"flush", "join"}
Frame == UNCHANGED <<synchronous, known, caller, log, admitted>>

(* Faulty: the router only closes once the worker is gone. *)
Close_Late(p) ==
  /\ \A o \in Stoppers : ~InShutdown(o)
  /\ stopper' = [stopper EXCEPT ![p] = IF closed /\ ~Alive THEN "true" ELSE "flush"]
  /\ UNCHANGED <<queueVars, worker, closed, stopEnqueued>>
  /\ Frame

(* shutdown, holding _shutdown_lock: stop admitting turns. *)
Close(p) ==
  /\ \A o \in Stoppers : ~InShutdown(o)
  /\ stopper' = [stopper EXCEPT ![p] = IF closed /\ ~Alive THEN "true" ELSE "flush"]
  /\ closed' = TRUE
  /\ UNCHANGED <<queueVars, worker, stopEnqueued>>
  /\ Frame

(* flush has returned: without a worker there is nothing to stop,          *)
(* otherwise the sentinel is put once, if the queue has room.              *)
Flushed(p) ==
  /\ stopper[p] = "flush"
  /\ unfinished = 0
  /\ IF ~Alive
       THEN /\ stopper' = [stopper EXCEPT ![p] = "true"]
            /\ worker' = At("none", NoKey)
            /\ UNCHANGED <<queueVars, stopEnqueued>>
       ELSE /\ UNCHANGED worker
            /\ IF stopEnqueued
                 THEN /\ stopper' = [stopper EXCEPT ![p] = "join"]
                      /\ UNCHANGED <<queueVars, stopEnqueued>>
                 ELSE IF Len(queue) < Capacity
                   THEN /\ stopper' = [stopper EXCEPT ![p] = "join"]
                        /\ queue' = Append(queue, Stop)
                        /\ unfinished' = unfinished + 1
                        /\ stopEnqueued' = TRUE
                   ELSE /\ stopper' = [stopper EXCEPT ![p] = "false"]
                        /\ UNCHANGED <<queueVars, stopEnqueued>>
  /\ UNCHANGED closed
  /\ Frame

Joined(p) ==
  /\ stopper[p] = "join"
  /\ ~Alive
  /\ stopper' = [stopper EXCEPT ![p] = "true"]
  /\ worker' = At("none", NoKey)
  /\ UNCHANGED <<queueVars, closed, stopEnqueued>>
  /\ Frame

(* The flush or the join times out. A call that cannot even get the        *)
(* shutdown lock in time changes nothing.                                  *)
ShutdownTimeout(p) ==
  /\ InShutdown(p)
  /\ stopper' = [stopper EXCEPT ![p] = "false"]
  /\ UNCHANGED <<queueVars, worker, closed, stopEnqueued>>
  /\ Frame

WorkerNext ==
  \/ WorkerTake \/ WorkerStart \/ WorkerPersist \/ WorkerFinish \/ WorkerTaskDone \/ WorkerExit

CallerNext(t) == CallerPersist(t) \/ CallerFinish(t)

Next ==
  \/ \E job \in Jobs : Enqueue(job) \/ \E t \in Callers : CallerBegin(t, job)
  \/ DeferTelemetry
  \/ WorkerNext
  \/ \E t \in Callers : CallerNext(t)
  \/ \E p \in Stoppers : Close(p) \/ Flushed(p) \/ Joined(p) \/ ShutdownTimeout(p)

Init ==
  /\ synchronous \in BOOLEAN
  /\ queue = <<>> /\ unfinished = 0
  /\ pending = {} /\ inFlight = {} /\ completed = <<>>
  /\ worker = At("none", NoKey)
  /\ caller = [t \in Callers |-> At("idle", NoKey)]
  /\ closed = FALSE /\ stopEnqueued = FALSE
  /\ stopper = [p \in Stoppers |-> "idle"]
  /\ log = <<>> /\ admitted = 0

Spec == Init /\ [][Next]_vars

(* A thread that can go on does: the calls inside a run have timeouts.     *)
LiveSpec == Spec /\ WF_vars(WorkerNext) /\ \A t \in Callers : WF_vars(CallerNext(t))

-----------------------------------------------------------------------------
(* Type invariant of the router's state.                                   *)
TypeOK ==
  /\ queue \in Seq(Jobs \cup {Stop}) /\ Len(queue) <= Capacity
  /\ unfinished \in Nat
  /\ pending \subseteq Keys /\ inFlight \subseteq Keys
  /\ completed \in Seq(Keys) /\ Len(completed) <= RecentLimit
  /\ worker \in Runner /\ caller \in [Callers -> Runner]
  /\ stopper \in [Stoppers -> {"idle", "flush", "join", "true", "false"}]

(* The key sets mirror the work exactly: what waits in the queue or has    *)
(* just left it is pending, what runs is in flight. Nothing stays known    *)
(* after it was dropped or is over.                                        *)
KeysMirrorWork ==
  /\ pending = (Elements(queue) \cup (IF worker.pc = "taken" THEN {worker.job} ELSE {})) \cap Keys
  /\ inFlight = {r.job : r \in {x \in {worker} \cup {caller[t] : t \in Callers} :
                                  x.pc = "running"}} \cap Keys

(* No turn is in the works twice at a time, in the queue or in any thread. *)
NeverTwiceAtOnce ==
  \A k \in Keys :
    Cardinality({i \in DOMAIN queue : queue[i] = k})
      + (IF worker.job = k THEN 1 ELSE 0)
      + Cardinality({t \in Callers : caller[t].job = k}) <= 1

(* After it began to persist, a turn is not persisted again before its own *)
(* completion and RecentLimit further ones.                                *)
PersistedOnce ==
  \A i, j \in DOMAIN log :
    i < j /\ log[i][1] = "persist" /\ log[j] = log[i] =>
      Cardinality({n \in i .. j : log[n][1] = "complete"}) > RecentLimit

(* When shutdown reports success, every queued turn has been run and no    *)
(* worker is left, now and for good.                                       *)
ShutdownDrains ==
  \A p \in Stoppers :
    stopper[p] = "true" =>
      queue = <<>> /\ unfinished = 0 /\ ~Alive /\ pending = {}

(* An admitted turn is run to its end, whatever shutdown does or misses.   *)
AdmittedTurnsEnd ==
  \A k \in Keys : k \in pending \cup inFlight ~> k \notin pending \cup inFlight

=============================================================================
