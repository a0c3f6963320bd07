------------------------ MODULE PostTurnQueue_proofs ------------------------
(***************************************************************************)
(* The post-turn queue for every number of callers, stoppers and turns,    *)
(* every capacity and every limit of remembered turns. First where work    *)
(* can be and what shutdown may rely on, then that the key sets say where  *)
(* it is, then what the history of persisted turns owes to them.           *)
(***************************************************************************)
EXTENDS PostTurnQueue, FiniteSetTheorems, TLAPS

Busy == worker.pc \in {"taken", "running", "finished"}

(* In the synchronous mode the callers run the turns, otherwise the worker.*)
Modes ==
  /\ synchronous \in BOOLEAN
  /\ synchronous => ~Busy /\ \A i \in DOMAIN queue : queue[i] = Stop
  /\ ~synchronous => \A t \in Callers : caller[t].pc = "idle"

(* A thread has the key of a turn only while it works on it.               *)
JobsHeld ==
  /\ worker.job \in Keys => worker.pc \in {"taken", "running"}
  /\ \A t \in Callers :
       caller[t].pc \in {"idle", "running"} /\ (caller[t].job \in Keys => caller[t].pc = "running")

(* unfinished counts what waits and what the worker is at.                 *)
Counted == unfinished = Len(queue) + (IF Busy THEN 1 ELSE 0)

(* The sentinel comes last and once, and without a worker nothing waits.   *)
StopIsLast ==
  /\ \A i \in DOMAIN queue : queue[i] = Stop => Len(queue) = 1 /\ ~Busy /\ stopEnqueued
  /\ worker.pc = "exiting" => queue = <<>> /\ stopEnqueued
  /\ ~Alive => queue = <<>>
  /\ stopEnqueued \in BOOLEAN /\ closed \in BOOLEAN
  /\ stopEnqueued => closed

Stopping ==
  \A p \in Stoppers : (stopper[p] # "idle" => closed) /\ (stopper[p] = "true" => ~Alive)

Places == TypeOK /\ Modes /\ JobsHeld /\ Counted /\ StopIsLast /\ Stopping

-----------------------------------------------------------------------------
LEMMA InitPlaces == Init => Places
<1> SUFFICES ASSUME Init PROVE Places
  OBVIOUS
<1>1. /\ queue = <<>> /\ queue \in Seq(Jobs \cup {Stop}) /\ Len(queue) = 0
      /\ completed \in Seq(Keys) /\ Len(completed) = 0 /\ DOMAIN queue = {}
  BY DEF Init
<1>2. worker \in Runner /\ worker.pc = "none" /\ worker.job = NoKey
  BY DEF Init, At, Runner, Jobs
<1>3. \A t \in Callers : caller[t] \in Runner /\ caller[t].pc = "idle" /\ caller[t].job = NoKey
  BY DEF Init, At, Runner, Jobs
<1>4. caller \in [Callers -> Runner]
  BY <1>3 DEF Init
<1>5. TypeOK
  BY <1>1, <1>2, <1>4, LimitsAssumption DEF Init, TypeOK
<1>6. ~Busy /\ ~Alive /\ synchronous \in BOOLEAN
  BY <1>2 DEF Busy, Alive, Init
<1>7. Modes /\ Counted
  BY <1>1, <1>3, <1>6 DEF Init, Modes, Counted
<1>8. JobsHeld
  BY <1>2, <1>3, KeysAssumption DEF JobsHeld
<1>9. StopIsLast /\ Stopping
  BY <1>1, <1>2, <1>6 DEF Init, StopIsLast, Stopping
<1> QED
  BY <1>5, <1>7, <1>8, <1>9 DEF Places

(* A turn or the sentinel joins the queue.                                 *)
LEMMA Appended ==
  ASSUME NEW S, NEW q \in Seq(S), NEW x \in S
  PROVE  /\ Append(q, x) \in Seq(S) /\ Len(Append(q, x)) = Len(q) + 1
         /\ DOMAIN Append(q, x) = 1 .. Len(q) + 1 /\ DOMAIN q = 1 .. Len(q) /\ Len(q) \in Nat
         /\ \A i \in DOMAIN q : Append(q, x)[i] = q[i]
         /\ Append(q, x)[Len(q) + 1] = x
OBVIOUS

LEMMA Taken ==
  ASSUME NEW S, NEW q \in Seq(S), q # <<>>
  PROVE  /\ Head(q) \in S /\ Head(q) = q[1] /\ Tail(q) \in Seq(S)
         /\ Len(q) \in Nat \ {0} /\ Len(Tail(q)) = Len(q) - 1
         /\ DOMAIN Tail(q) = 1 .. Len(q) - 1 /\ DOMAIN q = 1 .. Len(q)
         /\ \A i \in 1 .. Len(q) - 1 : Tail(q)[i] = q[i + 1]
OBVIOUS

LEMMA EnqueuePlaces ==
  ASSUME Places, NEW job \in Jobs, Enqueue(job)
  PROVE  Places'
<1>1. job \in Jobs \cup {Stop} /\ job # Stop
  BY KeysAssumption DEF Jobs
<1>2. queue \in Seq(Jobs \cup {Stop}) /\ queue' = Append(queue, job)
  BY DEF Places, TypeOK, Enqueue
<1>3. /\ queue' \in Seq(Jobs \cup {Stop}) /\ Len(queue') = Len(queue) + 1 /\ Len(queue) \in Nat
      /\ DOMAIN queue' = 1 .. Len(queue) + 1 /\ DOMAIN queue = 1 .. Len(queue)
      /\ \A i \in DOMAIN queue : queue'[i] = queue[i]
      /\ queue'[Len(queue) + 1] = job
  BY <1>1, <1>2, Appended
<1>4. worker' \in Runner /\ Alive' /\ (Busy' <=> Busy)
      /\ (worker' = worker \/ (worker'.job = NoKey /\ worker'.pc = "idle"))
  BY DEF Places, TypeOK, Enqueue, EnsuredWorker, Alive, Busy, At, Runner, Jobs
<1>5. TypeOK'
  <2>1. Len(queue') <= Capacity /\ unfinished' \in Nat
    BY <1>3, LimitsAssumption DEF Places, TypeOK, Enqueue
  <2>2. pending' \subseteq Keys
    BY DEF Places, TypeOK, Enqueue, KeySet
  <2> QED
    BY <1>3, <1>4, <2>1, <2>2 DEF Places, TypeOK, Enqueue, closing
<1>6. Modes'
  BY <1>4 DEF Places, Modes, Enqueue
<1>7. JobsHeld'
  BY <1>4, KeysAssumption DEF Places, JobsHeld, Enqueue
<1>8. Counted'
  <2>1. unfinished' = unfinished + 1
    BY DEF Enqueue
  <2>2. CASE Busy
    BY <1>3, <1>4, <2>1, <2>2 DEF Places, Counted
  <2>3. CASE ~Busy
    BY <1>3, <1>4, <2>1, <2>3 DEF Places, Counted
  <2> QED
    BY <2>2, <2>3
<1>9. StopIsLast'
  <2>1. ~closed /\ UNCHANGED <<closed, stopEnqueued>>
    BY DEF Enqueue, closing
  <2>2. ~stopEnqueued /\ worker.pc # "exiting" /\ \A i \in DOMAIN queue : queue[i] # Stop
    BY <2>1 DEF Places, StopIsLast
  <2>3. \A i \in DOMAIN queue' : queue'[i] # Stop
    BY <1>1, <1>3, <2>2
  <2>4. worker'.pc # "exiting"
    BY <1>4, <2>2
  <2> QED
    BY <1>4, <2>1, <2>3, <2>4 DEF Places, StopIsLast
<1>10. Stopping'
  BY <1>4 DEF Places, Stopping, Enqueue, closing
<1> QED
  BY <1>5, <1>6, <1>7, <1>8, <1>9, <1>10 DEF Places

LEMMA TakePlaces ==
  ASSUME Places, WorkerTake
  PROVE  Places'
<1>1. /\ queue \in Seq(Jobs \cup {Stop}) /\ queue # <<>> /\ queue' = Tail(queue)
      /\ worker.pc = "idle" /\ ~Busy
  BY DEF Places, TypeOK, WorkerTake, Busy
<1>2. /\ Head(queue) \in Jobs \cup {Stop} /\ Head(queue) = queue[1]
      /\ queue' \in Seq(Jobs \cup {Stop}) /\ Len(queue) \in Nat \ {0}
      /\ Len(queue') = Len(queue) - 1
      /\ DOMAIN queue' = 1 .. Len(queue) - 1 /\ DOMAIN queue = 1 .. Len(queue)
      /\ \A i \in DOMAIN queue' : queue'[i] = queue[i + 1]
  BY <1>1, Taken
<1>3. CASE Head(queue) = Stop
  <2>1. worker' = At("exiting", NoKey) /\ unfinished' = unfinished - 1
    BY <1>3 DEF WorkerTake
  <2>2. /\ worker' \in Runner /\ worker'.pc = "exiting" /\ worker'.job = NoKey /\ ~Busy' /\ Alive'
    BY <2>1 DEF At, Runner, Jobs, Busy, Alive
  <2>3. Len(queue) = 1 /\ stopEnqueued /\ queue' = <<>>
    BY <1>2, <1>3 DEF Places, StopIsLast
  <2>4. UNCHANGED <<synchronous, pending, inFlight, completed, caller, closed, stopEnqueued, stopper>>
    BY DEF WorkerTake, known, closing
  <2>5. unfinished = 1 /\ unfinished' = 0 /\ Len(queue') = 0 /\ DOMAIN queue' = {}
    BY <1>1, <1>2, <2>1, <2>3 DEF Places, Counted
  <2>6. TypeOK'
    BY <1>2, <2>2, <2>4, <2>5, LimitsAssumption DEF Places, TypeOK
  <2>7. Modes' /\ Counted'
    BY <2>2, <2>4, <2>5 DEF Places, Modes, Counted
  <2>8. JobsHeld'
    BY <2>2, <2>4, KeysAssumption DEF Places, JobsHeld
  <2>9. StopIsLast' /\ Stopping'
    BY <1>1, <2>2, <2>3, <2>4, <2>5 DEF Places, StopIsLast, Stopping, Alive
  <2> QED
    BY <2>6, <2>7, <2>8, <2>9 DEF Places
<1>4. CASE Head(queue) # Stop
  <2>1. worker' = At("taken", Head(queue)) /\ unfinished' = unfinished
    BY <1>4 DEF WorkerTake
  <2>2. worker' \in Runner /\ worker'.pc = "taken" /\ Busy' /\ Alive' /\ Alive /\ ~synchronous
    BY <1>1, <1>2, <1>4, <2>1 DEF At, Runner, Jobs, Busy, Alive, Places, Modes
  <2>3. \A i \in DOMAIN queue : queue[i] # Stop
    BY <1>2, <1>4 DEF Places, StopIsLast
  <2>4. UNCHANGED <<synchronous, pending, inFlight, completed, caller, closed, stopEnqueued, stopper>>
    BY DEF WorkerTake, known, closing
  <2>5. \A i \in DOMAIN queue' : queue'[i] # Stop
    BY <1>2, <2>3
  <2>6. TypeOK'
    BY <1>2, <2>1, <2>2, <2>4, LimitsAssumption DEF Places, TypeOK
  <2>7. Modes' /\ Counted'
    BY <1>1, <1>2, <2>1, <2>2, <2>4 DEF Places, Modes, Counted
  <2>8. JobsHeld'
    BY <2>2, <2>4 DEF Places, JobsHeld
  <2>9. StopIsLast' /\ Stopping'
    BY <2>2, <2>4, <2>5 DEF Places, StopIsLast, Stopping, Alive
  <2> QED
    BY <2>6, <2>7, <2>8, <2>9 DEF Places
<1> QED
  BY <1>3, <1>4

(* Steps of a thread that leave the queue alone.                           *)
LEMMA ThreadPlaces ==
  ASSUME Places,
         \/ WorkerStart \/ WorkerPersist \/ WorkerTaskDone \/ WorkerExit \/ DeferTelemetry
  PROVE  Places'
<1>1. CASE WorkerStart
  BY <1>1 DEF Places, TypeOK, Modes, JobsHeld, Counted, StopIsLast, Stopping, WorkerStart,
    queueVars, closing, Busy, Alive, At, Runner, Jobs, KeySet
<1>2. CASE WorkerPersist
  BY <1>2 DEF Places, TypeOK, Modes, JobsHeld, Counted, StopIsLast, Stopping, WorkerPersist,
    queueVars, known, closing, Busy, Alive, Runner
<1>3. CASE WorkerTaskDone
  BY <1>3, KeysAssumption DEF Places, TypeOK, Modes, JobsHeld, Counted, StopIsLast, Stopping,
    WorkerTaskDone, known, closing, Busy, Alive, At, Runner, Jobs
<1>4. CASE WorkerExit
  BY <1>4, KeysAssumption DEF Places, TypeOK, Modes, JobsHeld, Counted, StopIsLast, Stopping,
    WorkerExit, queueVars, known, closing, Busy, Alive, At, Runner, Jobs
<1>5. CASE DeferTelemetry
  BY <1>5, KeysAssumption DEF Places, TypeOK, Modes, JobsHeld, Counted, StopIsLast, Stopping,
    DeferTelemetry, EnsuredWorker, queueVars, known, closing, Busy, Alive, At, Runner, Jobs
<1> QED
  BY <1>1, <1>2, <1>3, <1>4, <1>5

LEMMA CallerPlaces ==
  ASSUME Places, NEW t \in Callers, (\E job \in Jobs : CallerBegin(t, job)) \/ CallerPersist(t)
  PROVE  Places'
<1>1. ASSUME NEW job \in Jobs, CallerBegin(t, job) PROVE Places'
  BY <1>1 DEF Places, TypeOK, Modes, JobsHeld, Counted, StopIsLast, Stopping, CallerBegin,
    queueVars, closing, Busy, Alive, At, Runner, KeySet
<1>2. CASE CallerPersist(t)
  BY <1>2 DEF Places, TypeOK, Modes, JobsHeld, Counted, StopIsLast, Stopping, CallerPersist,
    queueVars, known, closing, Busy, Alive, Runner
<1> QED
  BY <1>1, <1>2

(* A turn ends: what is known of the completed ones stays within its limit.*)
LEMMA FinishTyped ==
  ASSUME TypeOK, NEW job \in Jobs, NEW outcome, FinishTurn(job, outcome)
  PROVE  /\ pending' \subseteq Keys /\ inFlight' \subseteq Keys
         /\ completed' \in Seq(Keys) /\ Len(completed') <= RecentLimit
<1>1. CASE outcome = "completed" /\ job \in Keys
  <2> DEFINE rest == IF Len(completed) >= RecentLimit THEN Tail(completed) ELSE completed
  <2>1. completed \in Seq(Keys) /\ Len(completed) \in Nat /\ Len(completed) <= RecentLimit
    BY DEF TypeOK
  <2>2. rest \in Seq(Keys) /\ Len(rest) \in Nat /\ Len(rest) + 1 <= RecentLimit
    <3>1. CASE Len(completed) >= RecentLimit
      <4>1. completed # <<>>
        BY <2>1, <3>1, LimitsAssumption
      <4> QED
        BY <2>1, <3>1, <4>1, Taken, LimitsAssumption
    <3>2. CASE ~(Len(completed) >= RecentLimit)
      BY <2>1, <3>2, LimitsAssumption
    <3> QED
      BY <3>1, <3>2
  <2>3. completed' = Append(rest, job)
    BY <1>1 DEF FinishTurn
  <2> HIDE DEF rest
  <2> QED
    BY <1>1, <2>2, <2>3, Appended DEF TypeOK, FinishTurn
<1>2. CASE ~(outcome = "completed" /\ job \in Keys)
  BY <1>2 DEF TypeOK, FinishTurn
<1> QED
  BY <1>1, <1>2

LEMMA FinishPlaces ==
  ASSUME Places, WorkerFinish \/ \E t \in Callers : CallerFinish(t)
  PROVE  Places'
<1>1. CASE WorkerFinish
  <2>1. worker.job \in Jobs
    BY DEF Places, TypeOK, Runner
  <2>2. /\ pending' \subseteq Keys /\ inFlight' \subseteq Keys
        /\ completed' \in Seq(Keys) /\ Len(completed') <= RecentLimit
    BY <1>1, <2>1, FinishTyped DEF WorkerFinish, Places
  <2> QED
    BY <1>1, <2>2, KeysAssumption DEF Places, TypeOK, Modes, JobsHeld, Counted, StopIsLast,
      Stopping, WorkerFinish, queueVars, closing, Busy, Alive, At, Runner, Jobs
<1>2. ASSUME NEW t \in Callers, CallerFinish(t) PROVE Places'
  <2>1. caller[t].job \in Jobs
    BY DEF Places, TypeOK, Runner
  <2>2. /\ pending' \subseteq Keys /\ inFlight' \subseteq Keys
        /\ completed' \in Seq(Keys) /\ Len(completed') <= RecentLimit
    BY <1>2, <2>1, FinishTyped DEF CallerFinish, Places
  <2> QED
    BY <1>2, <2>2, KeysAssumption DEF Places, TypeOK, Modes, JobsHeld, Counted, StopIsLast,
      Stopping, CallerFinish, queueVars, closing, Busy, Alive, At, Runner, Jobs
<1> QED
  BY <1>1, <1>2

LEMMA StopPlaces ==
  ASSUME Places, NEW p \in Stoppers,
         Close(p) \/ Flushed(p) \/ Joined(p) \/ ShutdownTimeout(p)
  PROVE  Places'
<1>1. CASE Close(p)
  <2>1. UNCHANGED <<queue, unfinished, worker, stopEnqueued, synchronous, pending, inFlight,
                    completed, caller>>
    BY <1>1 DEF Close, Frame, queueVars, known
  <2>2. closed' = TRUE /\ stopper' = [stopper EXCEPT ![p] = IF closed /\ ~Alive THEN "true" ELSE "flush"]
    BY <1>1 DEF Close
  <2>3. TypeOK'
    BY <2>1, <2>2 DEF Places, TypeOK
  <2>4. Modes' /\ JobsHeld' /\ Counted'
    BY <2>1 DEF Places, Modes, JobsHeld, Counted, Busy
  <2>5. StopIsLast'
    BY <2>1, <2>2 DEF Places, StopIsLast, Busy, Alive
  <2>6. Stopping'
    BY <2>1, <2>2 DEF Places, TypeOK, Stopping, Alive
  <2> QED
    BY <2>3, <2>4, <2>5, <2>6 DEF Places
<1>2. CASE Joined(p)
  <2>1. UNCHANGED <<queue, unfinished, closed, stopEnqueued, synchronous, pending, inFlight,
                    completed, caller>>
    BY <1>2 DEF Joined, Frame, queueVars, known
  <2>2. worker' \in Runner /\ worker'.pc = "none" /\ worker'.job = NoKey
    BY <1>2 DEF Joined, At, Runner, Jobs
  <2>3. ~Alive /\ ~Alive' /\ ~Busy /\ ~Busy' /\ stopper' = [stopper EXCEPT ![p] = "true"]
    BY <1>2, <2>2 DEF Joined, Alive, Busy
  <2>4. TypeOK'
    BY <2>1, <2>2, <2>3 DEF Places, TypeOK
  <2>5. Modes' /\ Counted'
    BY <2>1, <2>3 DEF Places, Modes, Counted
  <2>6. JobsHeld'
    BY <2>1, <2>2, KeysAssumption DEF Places, JobsHeld
  <2>7. StopIsLast'
    BY <2>1, <2>2, <2>3 DEF Places, StopIsLast
  <2>8. Stopping'
    BY <1>2, <2>1, <2>3 DEF Places, TypeOK, Stopping, Joined
  <2> QED
    BY <2>4, <2>5, <2>6, <2>7, <2>8 DEF Places
<1>3. CASE ShutdownTimeout(p)
  <2>1. UNCHANGED <<queue, unfinished, worker, closed, stopEnqueued, synchronous, pending, inFlight,
                    completed, caller>>
    BY <1>3 DEF ShutdownTimeout, Frame, queueVars, known
  <2>2. stopper[p] # "idle" /\ stopper' = [stopper EXCEPT ![p] = "false"]
    BY <1>3 DEF ShutdownTimeout, InShutdown
  <2>3. TypeOK'
    BY <2>1, <2>2 DEF Places, TypeOK
  <2>4. Modes' /\ JobsHeld' /\ Counted' /\ StopIsLast'
    BY <2>1 DEF Places, Modes, JobsHeld, Counted, StopIsLast, Busy, Alive
  <2>5. Stopping'
    BY <2>1, <2>2 DEF Places, TypeOK, Stopping, Alive
  <2> QED
    BY <2>3, <2>4, <2>5 DEF Places
<1>4. CASE Flushed(p) /\ ~Alive
  <2>1. UNCHANGED <<queue, unfinished, closed, stopEnqueued, synchronous, pending, inFlight,
                    completed, caller>>
    BY <1>4 DEF Flushed, Frame, queueVars, known
  <2>0. worker' = At("none", NoKey)
    BY <1>4 DEF Flushed
  <2>2. worker' \in Runner /\ worker'.pc = "none" /\ worker'.job = NoKey
    BY <2>0 DEF At, Runner, Jobs
  <2>3. /\ ~Alive' /\ ~Busy /\ ~Busy'
        /\ stopper[p] = "flush" /\ stopper' = [stopper EXCEPT ![p] = "true"]
    BY <1>4, <2>2 DEF Flushed, Alive, Busy
  <2>4. TypeOK'
    BY <2>1, <2>2, <2>3 DEF Places, TypeOK
  <2>5. Modes' /\ Counted'
    BY <2>1, <2>3 DEF Places, Modes, Counted
  <2>6. JobsHeld'
    BY <2>1, <2>2, KeysAssumption DEF Places, JobsHeld
  <2>7. StopIsLast'
    BY <1>4, <2>1, <2>2, <2>3 DEF Places, StopIsLast
  <2>8. Stopping'
    BY <1>4, <2>1, <2>3 DEF Places, TypeOK, Stopping
  <2> QED
    BY <2>4, <2>5, <2>6, <2>7, <2>8 DEF Places
<1>5. CASE Flushed(p) /\ Alive /\ ~stopEnqueued /\ Len(queue) < Capacity
  <2>1. /\ stopper[p] = "flush" /\ stopper' = [stopper EXCEPT ![p] = "join"] /\ unfinished = 0
        /\ queue' = Append(queue, Stop) /\ unfinished' = unfinished + 1 /\ stopEnqueued'
        /\ stopEnqueued' \in BOOLEAN
        /\ UNCHANGED <<closed, worker, synchronous, pending, inFlight, completed, caller>>
    BY <1>5 DEF Flushed, Frame, known
  <2>2. queue \in Seq(Jobs \cup {Stop}) /\ Len(queue) = 0 /\ ~Busy
    BY <2>1 DEF Places, TypeOK, Counted
  <2>3. /\ queue' \in Seq(Jobs \cup {Stop}) /\ Len(queue') = 1 /\ DOMAIN queue' = {1}
        /\ queue'[1] = Stop
    BY <2>1, <2>2, Appended
  <2>4. closed /\ worker.pc # "exiting" /\ closed \in BOOLEAN
    BY <1>5, <2>1 DEF Places, Stopping, StopIsLast
  <2> QED
    BY <1>5, <2>1, <2>2, <2>3, <2>4, LimitsAssumption DEF Places, TypeOK, Modes, JobsHeld, Counted,
      StopIsLast, Stopping, Busy, Alive
<1>6. CASE Flushed(p) /\ Alive /\ ~(~stopEnqueued /\ Len(queue) < Capacity)
  BY <1>6 DEF Places, TypeOK, Modes, JobsHeld, Counted, StopIsLast, Stopping,
    Flushed, Frame, queueVars, known, Busy, Alive
<1> QED
  BY <1>1, <1>2, <1>3, <1>4, <1>5, <1>6

LEMMA NextPlaces == Places /\ [Next]_vars => Places'
<1> SUFFICES ASSUME Places, [Next]_vars PROVE Places'
  OBVIOUS
<1>1. CASE UNCHANGED vars
  BY <1>1 DEF Places, TypeOK, Modes, JobsHeld, Counted, StopIsLast, Stopping, vars, queueVars,
    known, closing, Busy, Alive
<1> QED
  BY <1>1, EnqueuePlaces, TakePlaces, ThreadPlaces, CallerPlaces, FinishPlaces, StopPlaces
    DEF Next, WorkerNext, CallerNext

-----------------------------------------------------------------------------
(* Where a keyed turn is: at one place at most, and the key sets tell it.  *)
Waits(k) == \E i \in DOMAIN queue : queue[i] = k
Runs(k) ==
  \/ worker.pc = "running" /\ worker.job = k
  \/ \E t \in Callers : caller[t].pc = "running" /\ caller[t].job = k

OnePlace ==
  /\ \A i, j \in DOMAIN queue : queue[i] = queue[j] /\ queue[i] \in Keys => i = j
  /\ \A k \in Keys : worker.job = k => ~Waits(k)
  /\ \A t, u \in Callers : caller[t].job = caller[u].job /\ caller[t].job \in Keys => t = u

Mirror ==
  \A k \in Keys :
    /\ k \in pending <=> Waits(k) \/ (worker.pc = "taken" /\ worker.job = k)
    /\ k \in inFlight <=> Runs(k)

(* What is at work is not among the completed turns.                       *)
Apart == \A k \in pending \cup inFlight : k \notin Elements(completed)

Work == OnePlace /\ Mirror /\ Apart

LEMMA InitWork == Init => Work
<1> SUFFICES ASSUME Init PROVE Work
  OBVIOUS
<1>1. DOMAIN queue = {} /\ pending = {} /\ inFlight = {}
  BY DEF Init
<1>2. worker.pc = "none" /\ worker.job = NoKey
  BY DEF Init, At
<1>3. \A t \in Callers : caller[t].pc = "idle" /\ caller[t].job = NoKey
  BY DEF Init, At
<1> QED
  BY <1>1, <1>2, <1>3, KeysAssumption DEF Work, OnePlace, Mirror, Apart, Waits, Runs

(* In the synchronous mode no turn waits and the worker runs none; in the  *)
(* other mode the callers run none.                                        *)
LEMMA ModesApart ==
  ASSUME Places
  PROVE  /\ synchronous => worker.job \notin Keys /\ \A k \in Keys : ~Waits(k)
         /\ ~synchronous => \A t \in Callers : caller[t].job \notin Keys
BY KeysAssumption DEF Places, Modes, JobsHeld, Busy, Waits

LEMMA EnqueueWork ==
  ASSUME Places, Work, NEW job \in Jobs, Enqueue(job)
  PROVE  Work'
<1>1. queue \in Seq(Jobs \cup {Stop}) /\ queue' = Append(queue, job) /\ job \in Jobs \cup {Stop}
  BY DEF Places, TypeOK, Enqueue
<1>2. /\ DOMAIN queue' = 1 .. Len(queue) + 1 /\ DOMAIN queue = 1 .. Len(queue) /\ Len(queue) \in Nat
      /\ \A i \in DOMAIN queue : queue'[i] = queue[i]
      /\ queue'[Len(queue) + 1] = job
  BY <1>1, Appended
<1>3. /\ pending' = pending \cup KeySet(job) /\ ~Known(job) /\ ~synchronous
      /\ UNCHANGED <<inFlight, completed, caller>>
  BY DEF Enqueue
<1>4. job \in Keys => job \notin pending /\ job \notin inFlight /\ job \notin Elements(completed)
  BY <1>3 DEF Known, KeySet
<1>5. /\ worker' = worker \/ (worker'.pc = "idle" /\ worker'.job = NoKey)
      /\ ~Alive => worker.job \notin Keys
  BY DEF Enqueue, EnsuredWorker, At, Places, JobsHeld, Alive
<1>6. \A k \in Keys : Waits(k)' <=> Waits(k) \/ k = job
  BY <1>2 DEF Waits
<1>7. worker'.job \in Keys => worker' = worker
  BY <1>5, KeysAssumption
<1>8. \A k \in Keys : (worker'.pc = "taken" /\ worker'.job = k) <=> (worker.pc = "taken" /\ worker.job = k)
  BY DEF Enqueue, EnsuredWorker, At, Alive
<1>9. \A k \in Keys : Runs(k)' <=> Runs(k)
  BY <1>3 DEF Runs, Enqueue, EnsuredWorker, At, Alive
<1>10. OnePlace'
  <2>1. ASSUME NEW i \in DOMAIN queue', NEW j \in DOMAIN queue', queue'[i] = queue'[j], queue'[i] \in Keys
        PROVE i = j
    <3>1. CASE i \in DOMAIN queue /\ j \in DOMAIN queue
      BY <1>2, <2>1, <3>1 DEF Work, OnePlace
    <3>2. CASE i \notin DOMAIN queue \/ j \notin DOMAIN queue
      <4>1. job \in Keys /\ ~Waits(job)
        BY <1>2, <1>4, <2>1, <3>2 DEF Work, Mirror
      <4> QED
        BY <1>2, <2>1, <3>2, <4>1 DEF Waits
    <3> QED
      BY <3>1, <3>2
  <2>2. \A k \in Keys : worker'.job = k => ~Waits(k)'
    <3> SUFFICES ASSUME NEW k \in Keys, worker'.job = k PROVE ~Waits(k)'
      OBVIOUS
    <3>1. worker.job = k /\ ~Waits(k)
      BY <1>7 DEF Work, OnePlace
    <3>2. k \in pending \cup inFlight
      BY <3>1 DEF Places, JobsHeld, Work, Mirror, Runs
    <3> QED
      BY <1>4, <1>6, <3>1, <3>2
  <2> QED
    BY <1>3, <2>1, <2>2 DEF Work, OnePlace
<1>11. Mirror'
  <2> SUFFICES ASSUME NEW k \in Keys
               PROVE  /\ k \in pending' <=> Waits(k)' \/ (worker'.pc = "taken" /\ worker'.job = k)
                      /\ k \in inFlight' <=> Runs(k)'
    BY DEF Mirror
  <2>1. k \in pending' <=> k \in pending \/ k = job
    BY <1>3 DEF KeySet
  <2> QED
    BY <1>3, <1>6, <1>8, <1>9, <2>1 DEF Work, Mirror
<1>12. Apart'
  BY <1>3, <1>4 DEF Work, Apart, KeySet
<1> QED
  BY <1>10, <1>11, <1>12 DEF Work

LEMMA TakeWork ==
  ASSUME Places, Work, WorkerTake
  PROVE  Work'
<1>1. /\ queue \in Seq(Jobs \cup {Stop}) /\ queue # <<>> /\ queue' = Tail(queue)
      /\ worker.pc = "idle" /\ UNCHANGED <<pending, inFlight, completed, caller, synchronous>>
  BY DEF Places, TypeOK, WorkerTake, known
<1>2. /\ Head(queue) = queue[1] /\ Len(queue) \in Nat \ {0}
      /\ DOMAIN queue' = 1 .. Len(queue) - 1 /\ DOMAIN queue = 1 .. Len(queue)
      /\ \A i \in DOMAIN queue' : queue'[i] = queue[i + 1]
  BY <1>1, Taken
<1>3. IF Head(queue) \in Jobs THEN worker'.pc = "taken" /\ worker'.job = Head(queue)
                              ELSE worker'.pc = "exiting" /\ worker'.job = NoKey
  <2>1. Head(queue) \in Jobs <=> Head(queue) # Stop
    BY <1>1, Taken, KeysAssumption DEF Jobs
  <2> QED
    BY <2>1 DEF WorkerTake, At
<1>4. \A k \in Keys : Waits(k) <=> Waits(k)' \/ k = Head(queue)
  <2> SUFFICES ASSUME NEW k \in Keys PROVE Waits(k) <=> Waits(k)' \/ k = Head(queue)
    OBVIOUS
  <2>1. ASSUME NEW i \in DOMAIN queue, queue[i] = k PROVE Waits(k)' \/ k = Head(queue)
    <3>1. CASE i = 1
      BY <1>2, <2>1, <3>1
    <3>2. CASE i # 1
      <4>1. i - 1 \in DOMAIN queue' /\ queue'[i - 1] = k
        BY <1>2, <2>1, <3>2
      <4> QED
        BY <4>1 DEF Waits
    <3> QED
      BY <3>1, <3>2
  <2>2. ASSUME NEW i \in DOMAIN queue', queue'[i] = k PROVE Waits(k)
    <3>1. i + 1 \in DOMAIN queue /\ queue[i + 1] = k
      BY <1>2, <2>2
    <3> QED
      BY <3>1 DEF Waits
  <2>3. k = Head(queue) => Waits(k)
    BY <1>2 DEF Waits
  <2> QED
    BY <2>1, <2>2, <2>3 DEF Waits
<1>5. \A k \in Keys : k = Head(queue) => ~Waits(k)'
  <2> SUFFICES ASSUME Head(queue) \in Keys, NEW i \in DOMAIN queue', queue'[i] = Head(queue) PROVE FALSE
    BY DEF Waits
  <2>1. i + 1 \in DOMAIN queue /\ 1 \in DOMAIN queue /\ queue[i + 1] = queue[1] /\ i + 1 # 1
    BY <1>2
  <2> QED
    BY <1>2, <2>1 DEF Work, OnePlace
<1>6. OnePlace'
  <2>1. \A i, j \in DOMAIN queue' : queue'[i] = queue'[j] /\ queue'[i] \in Keys => i = j
    <3> SUFFICES ASSUME NEW i \in DOMAIN queue', NEW j \in DOMAIN queue',
                        queue'[i] = queue'[j], queue'[i] \in Keys
                 PROVE i = j
      OBVIOUS
    <3>1. /\ i + 1 \in DOMAIN queue /\ j + 1 \in DOMAIN queue
          /\ queue[i + 1] = queue[j + 1] /\ queue[i + 1] \in Keys
      BY <1>2
    <3>2. i + 1 = j + 1
      BY <3>1 DEF Work, OnePlace
    <3> QED
      BY <1>2, <3>2
  <2>2. \A k \in Keys : worker'.job = k => ~Waits(k)'
    BY <1>3, <1>5, KeysAssumption DEF Jobs
  <2> QED
    BY <1>1, <2>1, <2>2 DEF Work, OnePlace
<1>7. Mirror'
  <2> SUFFICES ASSUME NEW k \in Keys
               PROVE  /\ k \in pending' <=> Waits(k)' \/ (worker'.pc = "taken" /\ worker'.job = k)
                      /\ k \in inFlight' <=> Runs(k)'
    BY DEF Mirror
  <2>1. k \in pending <=> Waits(k)
    BY <1>1 DEF Work, Mirror
  <2>2. Waits(k) <=> Waits(k)' \/ (worker'.pc = "taken" /\ worker'.job = k)
    BY <1>3, <1>4 DEF Jobs
  <2>3. Runs(k)' <=> Runs(k)
    BY <1>1, <1>3 DEF Runs
  <2> QED
    BY <1>1, <2>1, <2>2, <2>3 DEF Work, Mirror
<1> QED
  BY <1>1, <1>6, <1>7 DEF Work, Apart

LEMMA StartWork ==
  ASSUME Places, Work, WorkerStart
  PROVE  Work'
<1>1. /\ worker.pc = "taken" /\ worker'.pc = "running" /\ worker'.job = worker.job
      /\ pending' = pending \ KeySet(worker.job) /\ inFlight' = inFlight \cup KeySet(worker.job)
      /\ UNCHANGED <<queue, completed, caller>>
  BY DEF WorkerStart, At, queueVars
<1>2. \A k : Waits(k)' <=> Waits(k)
  BY <1>1 DEF Waits
<1>3. \A k \in Keys : Runs(k)' <=> Runs(k) \/ worker.job = k
  BY <1>1 DEF Runs
<1>4. OnePlace'
  BY <1>1, <1>2 DEF Work, OnePlace
<1>5. Mirror'
  <2> SUFFICES ASSUME NEW k \in Keys
               PROVE  /\ k \in pending' <=> Waits(k)' \/ (worker'.pc = "taken" /\ worker'.job = k)
                      /\ k \in inFlight' <=> Runs(k)'
    BY DEF Mirror
  <2>1. worker.job = k => ~Waits(k)
    BY DEF Work, OnePlace
  <2>2. k \in KeySet(worker.job) <=> k = worker.job
    BY DEF KeySet
  <2> QED
    BY <1>1, <1>2, <1>3, <2>1, <2>2 DEF Work, Mirror
<1>6. Apart'
  <2>1. KeySet(worker.job) \subseteq pending
    BY <1>1 DEF KeySet, Work, Mirror
  <2> QED
    BY <1>1, <2>1 DEF Work, Apart
<1> QED
  BY <1>4, <1>5, <1>6 DEF Work

LEMMA BeginWork ==
  ASSUME Places, Work, NEW t \in Callers, NEW job \in Jobs, CallerBegin(t, job)
  PROVE  Work'
<1>1. /\ inFlight' = inFlight \cup KeySet(job) /\ caller[t].pc = "idle" /\ ~Known(job)
      /\ caller'[t].pc = "running" /\ caller'[t].job = job
      /\ \A u \in Callers \ {t} : caller'[u] = caller[u]
      /\ UNCHANGED <<queue, pending, completed, worker>>
  BY DEF Places, TypeOK, CallerBegin, At, queueVars
<1>2. job \in Keys => job \notin pending /\ job \notin inFlight /\ job \notin Elements(completed)
  BY <1>1 DEF Known, KeySet
<1>3. \A k : Waits(k)' <=> Waits(k)
  BY <1>1 DEF Waits
<1>4. \A k \in Keys : Runs(k)' <=> Runs(k) \/ job = k
  BY <1>1 DEF Runs
<1>5. \A u \in Callers : caller[u].job \in Keys => caller[u].job \in inFlight
  BY DEF Places, JobsHeld, Work, Mirror, Runs
<1>6. OnePlace'
  <2>1. \A u, v \in Callers : caller'[u].job = caller'[v].job /\ caller'[u].job \in Keys => u = v
    BY <1>1, <1>2, <1>5 DEF Work, OnePlace
  <2> QED
    BY <1>1, <1>3, <2>1 DEF Work, OnePlace
<1>7. Mirror'
  BY <1>1, <1>3, <1>4 DEF Work, Mirror, KeySet
<1>8. Apart'
  BY <1>1, <1>2 DEF Work, Apart, KeySet
<1> QED
  BY <1>6, <1>7, <1>8 DEF Work

(* A turn ends: it is gone from everywhere but the completed ones.         *)
LEMMA FinishKnown ==
  ASSUME TypeOK, NEW job \in Jobs, NEW outcome, FinishTurn(job, outcome)
  PROVE  /\ pending' = pending \ KeySet(job) /\ inFlight' = inFlight \ KeySet(job)
         /\ Elements(completed') \subseteq Elements(completed) \cup KeySet(job)
<1>1. CASE outcome = "completed" /\ job \in Keys
  <2> DEFINE rest == IF Len(completed) >= RecentLimit THEN Tail(completed) ELSE completed
  <2>1. completed \in Seq(Keys) /\ Len(completed) \in Nat
    BY DEF TypeOK
  <2>2. rest \in Seq(Keys) /\ Elements(rest) \subseteq Elements(completed)
    <3>1. CASE Len(completed) >= RecentLimit
      <4>1. completed # <<>>
        BY <2>1, <3>1, LimitsAssumption
      <4>2. /\ Tail(completed) \in Seq(Keys) /\ DOMAIN completed = 1 .. Len(completed)
            /\ DOMAIN Tail(completed) = 1 .. Len(completed) - 1
            /\ \A i \in 1 .. Len(completed) - 1 : Tail(completed)[i] = completed[i + 1]
        BY <2>1, <4>1, Taken
      <4> QED
        BY <2>1, <3>1, <4>2 DEF Elements
    <3>2. CASE ~(Len(completed) >= RecentLimit)
      BY <2>1, <3>2
    <3> QED
      BY <3>1, <3>2
  <2>3. completed' = Append(rest, job)
    BY <1>1 DEF FinishTurn
  <2> HIDE DEF rest
  <2>4. Elements(completed') \subseteq Elements(rest) \cup {job}
    <3>1. /\ DOMAIN Append(rest, job) = 1 .. Len(rest) + 1 /\ DOMAIN rest = 1 .. Len(rest)
          /\ Len(rest) \in Nat
          /\ \A i \in DOMAIN rest : Append(rest, job)[i] = rest[i]
          /\ Append(rest, job)[Len(rest) + 1] = job
      BY <1>1, <2>2, Appended
    <3> QED
      BY <2>3, <3>1 DEF Elements
  <2> QED
    BY <1>1, <2>2, <2>4 DEF FinishTurn, KeySet
<1>2. CASE ~(outcome = "completed" /\ job \in Keys)
  BY <1>2 DEF FinishTurn, Elements
<1> QED
  BY <1>1, <1>2

LEMMA WorkerFinishWork ==
  ASSUME Places, Work, WorkerFinish
  PROVE  Work'
<1>1. /\ worker.pc = "running" /\ worker'.pc = "finished" /\ worker'.job = NoKey
      /\ UNCHANGED <<queue, caller>>
  BY DEF WorkerFinish, At, queueVars
<1>2. worker.job \in Jobs
  BY DEF Places, TypeOK, Runner
<1>3. /\ pending' = pending \ KeySet(worker.job) /\ inFlight' = inFlight \ KeySet(worker.job)
      /\ Elements(completed') \subseteq Elements(completed) \cup KeySet(worker.job)
  BY <1>2, FinishKnown DEF WorkerFinish, Places
<1>4. \A k : Waits(k)' <=> Waits(k)
  BY <1>1 DEF Waits
<1>5. \A k \in Keys : k # worker.job => (Runs(k)' <=> Runs(k))
  BY <1>1 DEF Runs
<1>6. \A k \in Keys : k = worker.job => ~Runs(k)' /\ ~Waits(k)
  BY <1>1, KeysAssumption, ModesApart DEF Work, OnePlace, Runs, Places, Modes
<1>7. OnePlace'
  BY <1>1, <1>4, KeysAssumption DEF Work, OnePlace
<1>8. Mirror'
  BY <1>1, <1>3, <1>4, <1>5, <1>6 DEF Work, Mirror, KeySet
<1>9. Apart'
  BY <1>3 DEF Work, Apart, KeySet
<1> QED
  BY <1>7, <1>8, <1>9 DEF Work

LEMMA CallerFinishWork ==
  ASSUME Places, Work, NEW t \in Callers, CallerFinish(t)
  PROVE  Work'
<1> DEFINE job == caller[t].job
<1>1. /\ caller[t].pc = "running" /\ caller'[t].pc = "idle" /\ caller'[t].job = NoKey
      /\ \A u \in Callers \ {t} : caller'[u] = caller[u]
      /\ UNCHANGED <<queue, worker>>
  BY DEF Places, TypeOK, CallerFinish, At, queueVars
<1>2. job \in Jobs /\ synchronous
  BY <1>1 DEF Places, TypeOK, Runner, Modes
<1>3. /\ pending' = pending \ KeySet(job) /\ inFlight' = inFlight \ KeySet(job)
      /\ Elements(completed') \subseteq Elements(completed) \cup KeySet(job)
  BY <1>2, FinishKnown DEF CallerFinish, Places
<1>4. \A k : Waits(k)' <=> Waits(k)
  BY <1>1 DEF Waits
<1>5. \A k \in Keys : ~Waits(k) /\ worker.job # k
  BY <1>2, ModesApart
<1>6. \A k \in Keys : k # job => (Runs(k)' <=> Runs(k))
  BY <1>1, KeysAssumption DEF Runs
<1>7. \A k \in Keys : k = job => ~Runs(k)'
  BY <1>1, <1>5, KeysAssumption DEF Runs, Work, OnePlace
<1>8. OnePlace'
  <2>1. \A u, v \in Callers : caller'[u].job = caller'[v].job /\ caller'[u].job \in Keys => u = v
    BY <1>1, KeysAssumption DEF Work, OnePlace
  <2> QED
    BY <1>1, <1>4, <2>1 DEF Work, OnePlace
<1>9. Mirror'
  BY <1>1, <1>3, <1>4, <1>5, <1>6, <1>7 DEF Work, Mirror, KeySet
<1>10. Apart'
  BY <1>3 DEF Work, Apart, KeySet
<1> QED
  BY <1>8, <1>9, <1>10 DEF Work

(* Steps after which every keyed turn is where it was.                     *)
LEMMA WorkStays ==
  ASSUME Work, UNCHANGED <<pending, inFlight, completed>>,
         \A k \in Keys : Waits(k)' <=> Waits(k),
         \A i, j \in DOMAIN queue' : queue'[i] = queue'[j] /\ queue'[i] \in Keys => i = j,
         worker'.job \in Keys => worker'.job = worker.job,
         \A k \in Keys : worker.job = k /\ worker.pc = "taken" <=> worker'.job = k /\ worker'.pc = "taken",
         \A k \in Keys : worker.job = k /\ worker.pc = "running" <=> worker'.job = k /\ worker'.pc = "running",
         \A t \in Callers : caller'[t].pc = caller[t].pc /\ caller'[t].job = caller[t].job
  PROVE  Work'
<1>1. \A k \in Keys : Runs(k)' <=> Runs(k)
  BY DEF Runs
<1>2. OnePlace'
  BY DEF Work, OnePlace
<1>3. Mirror'
  BY <1>1 DEF Work, Mirror
<1> QED
  BY <1>2, <1>3 DEF Work, Apart

LEMMA QuietWork ==
  ASSUME Places, Work,
         \/ DeferTelemetry \/ WorkerPersist \/ WorkerTaskDone \/ WorkerExit \/ UNCHANGED vars
         \/ \E t \in Callers : CallerPersist(t)
         \/ \E p \in Stoppers : Close(p) \/ Flushed(p) \/ Joined(p) \/ ShutdownTimeout(p)
  PROVE  Work'
<1>1. UNCHANGED <<pending, inFlight, completed>>
  BY DEF DeferTelemetry, WorkerPersist, WorkerTaskDone, WorkerExit, vars, CallerPersist, Close,
    Flushed, Joined, ShutdownTimeout, Frame, known
<1>2. queue' = queue \/ (DOMAIN queue = {} /\ DOMAIN queue' = {1} /\ queue'[1] = Stop)
  <2>1. ASSUME NEW p \in Stoppers, Flushed(p), queue' # queue
        PROVE DOMAIN queue = {} /\ DOMAIN queue' = {1} /\ queue'[1] = Stop
    <3>1. unfinished = 0 /\ queue' = Append(queue, Stop)
      BY <2>1 DEF Flushed, queueVars
    <3>2. queue \in Seq(Jobs \cup {Stop}) /\ Len(queue) = 0
      BY <3>1 DEF Places, TypeOK, Counted
    <3> QED
      BY <3>1, <3>2, Appended
  <2> QED
    BY <2>1 DEF DeferTelemetry, WorkerPersist, WorkerTaskDone, WorkerExit, vars, CallerPersist, Close,
      Joined, ShutdownTimeout, queueVars
<1>3. (\A k \in Keys : Waits(k)' <=> Waits(k))
      /\ \A i, j \in DOMAIN queue' : queue'[i] = queue'[j] /\ queue'[i] \in Keys => i = j
  BY <1>2, KeysAssumption DEF Work, OnePlace, Waits
<1>4. \/ worker'.job = worker.job /\ worker'.pc = worker.pc
      \/ /\ worker'.job = NoKey /\ worker'.pc \notin {"taken", "running"}
         /\ worker.pc \notin {"taken", "running"}
  <2>1. CASE DeferTelemetry
    BY <2>1 DEF DeferTelemetry, EnsuredWorker, At, Alive
  <2>2. CASE WorkerPersist
    BY <2>2 DEF WorkerPersist, Places, TypeOK, Runner
  <2>3. CASE WorkerTaskDone \/ WorkerExit
    BY <2>3 DEF WorkerTaskDone, WorkerExit, At
  <2>4. CASE UNCHANGED vars \/ \E t \in Callers : CallerPersist(t)
    BY <2>4 DEF vars, CallerPersist
  <2>5. ASSUME NEW p \in Stoppers, Close(p) \/ Flushed(p) \/ Joined(p) \/ ShutdownTimeout(p)
        PROVE worker' = worker \/ (~Alive /\ worker' = At("none", NoKey))
    BY <2>5 DEF Close, Flushed, Joined, ShutdownTimeout
  <2> QED
    BY <2>1, <2>2, <2>3, <2>4, <2>5 DEF At, Alive
<1>5. \A t \in Callers : caller'[t].pc = caller[t].pc /\ caller'[t].job = caller[t].job
  <2>1. ASSUME NEW t \in Callers, CallerPersist(t)
        PROVE \A u \in Callers : caller'[u].pc = caller[u].pc /\ caller'[u].job = caller[u].job
    BY <2>1 DEF CallerPersist, Places, TypeOK, Runner
  <2> QED
    BY <2>1 DEF DeferTelemetry, WorkerPersist, WorkerTaskDone, WorkerExit, vars, Close,
      Flushed, Joined, ShutdownTimeout, Frame
<1> QED
  BY <1>1, <1>3, <1>4, <1>5, KeysAssumption, WorkStays

LEMMA NextWork == Places /\ Work /\ [Next]_vars => Work'
BY EnqueueWork, TakeWork, StartWork, BeginWork, WorkerFinishWork, CallerFinishWork, QuietWork
  DEF Next, WorkerNext, CallerNext

-----------------------------------------------------------------------------
(* The history. Between i and now so many turns were completed:            *)
Completes(i) == {n \in i .. Len(log) : log[n][1] = "complete"}

Persisting(k) ==
  \/ worker.pc = "running" /\ worker.job = k /\ worker.persisted
  \/ \E t \in Callers : caller[t].pc = "running" /\ caller[t].job = k /\ caller[t].persisted

(* Neither remembered nor being persisted: it may be persisted again.      *)
Fresh(k) == k \notin Elements(completed) /\ ~Persisting(k)

Events == {"persist", "complete"} \X Keys

(* A turn in position p of the remembered ones has that many behind it, and*)
(* one that is fresh has left them.                                        *)
Forgotten ==
  \A k \in Keys : \A i \in DOMAIN log :
    log[i] = <<"persist", k>> =>
      /\ Fresh(k) => Cardinality(Completes(i)) > RecentLimit
      /\ \A p \in DOMAIN completed :
           completed[p] = k => Cardinality(Completes(i)) >= Len(completed) - p + 1

History == log \in Seq(Events) /\ Forgotten /\ PersistedOnce

LEMMA CompletesFinite ==
  ASSUME log \in Seq(Events), NEW i \in Nat, NEW j \in Nat, j <= Len(log)
  PROVE  /\ IsFiniteSet({n \in i .. j : log[n][1] = "complete"})
         /\ Cardinality({n \in i .. j : log[n][1] = "complete"}) \in Nat
<1>1. i \in Int /\ j \in Int
  OBVIOUS
<1>2. IsFiniteSet(i .. j)
  BY <1>1, FS_Interval
<1>3. {n \in i .. j : log[n][1] = "complete"} \subseteq i .. j
  OBVIOUS
<1>4. IsFiniteSet({n \in i .. j : log[n][1] = "complete"})
  BY <1>2, <1>3, FS_Subset
<1> QED
  BY <1>4, FS_CardinalityType

(* What an event appended to the history does to the counts.               *)
LEMMA LogGrows ==
  ASSUME log \in Seq(Events), NEW e \in Events, log' = Append(log, e)
  PROVE  /\ log' \in Seq(Events) /\ Len(log) \in Nat /\ Len(log') = Len(log) + 1
         /\ DOMAIN log' = 1 .. Len(log) + 1 /\ DOMAIN log = 1 .. Len(log)
         /\ log'[Len(log) + 1] = e
         /\ \A i \in DOMAIN log :
              /\ log'[i] = log[i]
              /\ Cardinality(Completes(i)) \in Nat
              /\ e[1] = "persist" => Completes(i)' = Completes(i)
              /\ e[1] = "complete" => Cardinality(Completes(i)') = Cardinality(Completes(i)) + 1
<1>1. /\ log' \in Seq(Events) /\ Len(log) \in Nat /\ Len(log') = Len(log) + 1
      /\ DOMAIN log' = 1 .. Len(log) + 1 /\ DOMAIN log = 1 .. Len(log)
      /\ log'[Len(log) + 1] = e
      /\ \A i \in DOMAIN log : log'[i] = log[i]
  BY Appended
<1>2. ASSUME NEW i \in DOMAIN log
      PROVE  /\ Cardinality(Completes(i)) \in Nat
             /\ e[1] = "persist" => Completes(i)' = Completes(i)
             /\ e[1] = "complete" => Cardinality(Completes(i)') = Cardinality(Completes(i)) + 1
  <2>1. i \in Nat /\ i \in 1 .. Len(log)
    BY <1>1
  <2>2. IsFiniteSet(Completes(i)) /\ Cardinality(Completes(i)) \in Nat
    <3>1. Len(log) \in Nat /\ Len(log) <= Len(log)
      BY <1>1
    <3> QED
      BY <2>1, <3>1, CompletesFinite DEF Completes
  <2>3. \A n \in i .. Len(log) : log'[n] = log[n]
    BY <1>1, <2>1
  <2>4. e[1] = "persist" => Completes(i)' = Completes(i)
    BY <1>1, <2>1, <2>3 DEF Completes
  <2>5. e[1] = "complete" => Completes(i)' = Completes(i) \cup {Len(log) + 1}
    BY <1>1, <2>1, <2>3 DEF Completes
  <2>6. Len(log) + 1 \notin Completes(i)
    BY <1>1, <2>1 DEF Completes
  <2>7. Cardinality(Completes(i) \cup {Len(log) + 1}) = Cardinality(Completes(i)) + 1
    BY <2>2, <2>6, FS_AddElement
  <2> QED
    BY <2>2, <2>4, <2>5, <2>7
<1> QED
  BY <1>1, <1>2

LEMMA InitHistory == Init => History
<1> SUFFICES ASSUME Init PROVE History
  OBVIOUS
<1>1. log \in Seq(Events) /\ DOMAIN log = {}
  BY DEF Init
<1> QED
  BY <1>1 DEF History, Forgotten, PersistedOnce

LEMMA HistoryStays ==
  ASSUME History, UNCHANGED <<log, completed>>, \A k \in Keys : Persisting(k) => Persisting(k)'
  PROVE  History'
<1>1. \A i : Completes(i)' = Completes(i)
  BY DEF Completes
<1>2. \A k \in Keys : Fresh(k)' => Fresh(k)
  BY DEF Fresh
<1>3. Forgotten'
  BY <1>1, <1>2 DEF History, Forgotten
<1>4. PersistedOnce'
  BY DEF History, PersistedOnce
<1> QED
  BY <1>3, <1>4 DEF History

(* The pairs of the history that were there keep what is between them.     *)
LEMMA OldPairs ==
  ASSUME log \in Seq(Events), NEW e \in Events, log' = Append(log, e), PersistedOnce,
         NEW i \in DOMAIN log, NEW j \in DOMAIN log,
         i < j, log'[i][1] = "persist", log'[j] = log'[i]
  PROVE  Cardinality({n \in i .. j : log'[n][1] = "complete"}) > RecentLimit
<1>1. /\ Len(log) \in Nat /\ DOMAIN log = 1 .. Len(log) /\ \A n \in DOMAIN log : log'[n] = log[n]
  BY LogGrows
<1>2. {n \in i .. j : log'[n][1] = "complete"} = {n \in i .. j : log[n][1] = "complete"}
  BY <1>1
<1>3. log[i][1] = "persist" /\ log[j] = log[i]
  BY <1>1
<1> QED
  BY <1>2, <1>3 DEF PersistedOnce

LEMMA PersistHistory ==
  ASSUME History, TypeOK, Work, NEW job \in Keys, job \in inFlight, ~Persisting(job),
         log' = Append(log, <<"persist", job>>), completed' = completed,
         \A k \in Keys : Persisting(k)' <=> Persisting(k) \/ k = job
  PROVE  History'
<1> DEFINE e == <<"persist", job>>
<1>1. e \in Events /\ e[1] = "persist" /\ log \in Seq(Events)
  BY DEF Events, History
<1>2. job \notin Elements(completed)
  BY DEF Work, Apart
<1>3. Fresh(job)
  BY <1>2 DEF Fresh
<1>4. /\ log' \in Seq(Events) /\ Len(log) \in Nat /\ Len(log') = Len(log) + 1
      /\ DOMAIN log' = 1 .. Len(log) + 1 /\ DOMAIN log = 1 .. Len(log) /\ log'[Len(log) + 1] = e
      /\ \A i \in DOMAIN log : log'[i] = log[i] /\ Completes(i)' = Completes(i)
  BY <1>1, LogGrows
<1>5. Forgotten'
  <2> SUFFICES ASSUME NEW k \in Keys, NEW i \in DOMAIN log', log'[i] = <<"persist", k>>
               PROVE  /\ Fresh(k)' => Cardinality(Completes(i)') > RecentLimit
                      /\ \A p \in DOMAIN completed :
                           completed[p] = k => Cardinality(Completes(i)') >= Len(completed) - p + 1
    BY DEF Forgotten
  <2>1. CASE i \in DOMAIN log
    <3>1. Fresh(k)' => Fresh(k)
      BY DEF Fresh
    <3> QED
      BY <1>4, <2>1, <3>1 DEF History, Forgotten
  <2>2. CASE i \notin DOMAIN log
    <3>1. k = job
      BY <1>4, <2>2
    <3> QED
      BY <1>2, <3>1 DEF Fresh, Elements
  <2> QED
    BY <2>1, <2>2
<1>6. PersistedOnce'
  <2> SUFFICES ASSUME NEW i \in DOMAIN log', NEW j \in DOMAIN log', i < j,
                      log'[i][1] = "persist", log'[j] = log'[i]
               PROVE  Cardinality({n \in i .. j : log'[n][1] = "complete"}) > RecentLimit
    BY DEF PersistedOnce
  <2>1. i \in DOMAIN log
    BY <1>4
  <2>2. CASE j \in DOMAIN log
    BY <1>1, <2>1, <2>2, OldPairs DEF History
  <2>3. CASE j \notin DOMAIN log
    <3>1. j = Len(log) + 1 /\ log[i] = <<"persist", job>>
      BY <1>4, <2>1, <2>3
    <3>2. {n \in i .. j : log'[n][1] = "complete"} = Completes(i)'
      BY <1>4, <3>1 DEF Completes
    <3> QED
      BY <1>3, <1>4, <2>1, <3>1, <3>2 DEF History, Forgotten
  <2> QED
    BY <2>2, <2>3
<1> QED
  BY <1>4, <1>5, <1>6 DEF History

(* A completed turn pushes the remembered ones towards the end of memory.  *)
LEMMA Remembered ==
  ASSUME TypeOK, NEW job \in Keys, NEW outcome, FinishTurn(job, outcome), outcome = "completed"
  PROVE  /\ log' = Append(log, <<"complete", job>>)
         /\ Len(completed') \in Nat \ {0} /\ DOMAIN completed' = 1 .. Len(completed')
         /\ Len(completed) \in Nat /\ DOMAIN completed = 1 .. Len(completed)
         /\ completed'[Len(completed')] = job
         /\ \/ /\ Len(completed) = RecentLimit /\ Len(completed') = RecentLimit
               /\ \A p \in 1 .. RecentLimit - 1 : completed'[p] = completed[p + 1]
            \/ /\ Len(completed') = Len(completed) + 1
               /\ \A p \in 1 .. Len(completed) : completed'[p] = completed[p]
<1>1. completed \in Seq(Keys) /\ Len(completed) \in Nat /\ Len(completed) <= RecentLimit
      /\ DOMAIN completed = 1 .. Len(completed)
  BY DEF TypeOK
<1>2. log' = Append(log, <<"complete", job>>)
  BY DEF FinishTurn, Logged
<1>3. CASE Len(completed) >= RecentLimit
  <2> DEFINE rest == IF Len(completed) >= RecentLimit THEN Tail(completed) ELSE completed
  <2>1. completed' = Append(rest, job)
    BY DEF FinishTurn
  <2>2. rest = Tail(completed)
    BY <1>3
  <2>3. Len(completed) = RecentLimit
    <3> DEFINE n == Len(completed)
    <3>1. n \in Nat /\ n <= RecentLimit /\ n >= RecentLimit /\ RecentLimit \in Nat
      BY <1>1, <1>3, LimitsAssumption
    <3> HIDE DEF n
    <3>2. n = RecentLimit
      BY <3>1
    <3> QED
      BY <3>2 DEF n
  <2> HIDE DEF rest
  <2>4. completed' = Append(Tail(completed), job) /\ Len(completed) = RecentLimit
    BY <2>1, <2>2, <2>3
  <2>5. /\ Tail(completed) \in Seq(Keys) /\ Len(Tail(completed)) = RecentLimit - 1
        /\ \A p \in 1 .. RecentLimit - 1 : Tail(completed)[p] = completed[p + 1]
        /\ RecentLimit \in Nat \ {0}
    BY <1>1, <2>4, LimitsAssumption, Taken
  <2>6. /\ Len(completed') = RecentLimit /\ DOMAIN completed' = 1 .. RecentLimit
        /\ \A p \in 1 .. RecentLimit - 1 : completed'[p] = Tail(completed)[p]
        /\ completed'[RecentLimit] = job
    BY <2>4, <2>5, Appended
  <2> QED
    BY <1>1, <1>2, <2>4, <2>5, <2>6
<1>4. CASE ~(Len(completed) >= RecentLimit)
  <2>1. completed' = Append(completed, job)
    BY <1>1, <1>4, LimitsAssumption DEF FinishTurn
  <2> QED
    BY <1>1, <1>2, <2>1, Appended
<1> QED
  BY <1>3, <1>4

LEMMA CompleteHistory ==
  ASSUME History, TypeOK, NEW job \in Keys, NEW outcome, FinishTurn(job, outcome),
         outcome = "completed",
         \A k \in Keys : k # job => (Persisting(k)' <=> Persisting(k))
  PROVE  History'
<1> DEFINE e == <<"complete", job>>
<1>1. e \in Events /\ e[1] = "complete" /\ log \in Seq(Events) /\ log' = Append(log, e)
  BY Remembered DEF Events, History
<1>2. /\ Len(completed') \in Nat \ {0} /\ DOMAIN completed' = 1 .. Len(completed')
      /\ Len(completed) \in Nat /\ DOMAIN completed = 1 .. Len(completed)
      /\ completed'[Len(completed')] = job
      /\ \/ /\ Len(completed) = RecentLimit /\ Len(completed') = RecentLimit
            /\ \A p \in 1 .. RecentLimit - 1 : completed'[p] = completed[p + 1]
         \/ /\ Len(completed') = Len(completed) + 1
            /\ \A p \in 1 .. Len(completed) : completed'[p] = completed[p]
  BY Remembered
<1>3. /\ log' \in Seq(Events) /\ Len(log) \in Nat /\ Len(log') = Len(log) + 1
      /\ DOMAIN log' = 1 .. Len(log) + 1 /\ DOMAIN log = 1 .. Len(log) /\ log'[Len(log) + 1] = e
      /\ \A i \in DOMAIN log : /\ log'[i] = log[i] /\ Cardinality(Completes(i)) \in Nat
                               /\ Cardinality(Completes(i)') = Cardinality(Completes(i)) + 1
  BY <1>1, LogGrows
<1>4. Forgotten'
  <2> SUFFICES ASSUME NEW k \in Keys, NEW i \in DOMAIN log', log'[i] = <<"persist", k>>
               PROVE  /\ Fresh(k)' => Cardinality(Completes(i)') > RecentLimit
                      /\ \A p \in DOMAIN completed' :
                           completed'[p] = k => Cardinality(Completes(i)') >= Len(completed') - p + 1
    BY DEF Forgotten
  <2>1. i \in DOMAIN log /\ log[i] = <<"persist", k>>
    BY <1>1, <1>3
  <2>2. /\ Fresh(k) => Cardinality(Completes(i)) > RecentLimit
        /\ \A p \in DOMAIN completed :
             completed[p] = k => Cardinality(Completes(i)) >= Len(completed) - p + 1
    BY <2>1 DEF History, Forgotten
  <2>3. /\ Cardinality(Completes(i)) \in Nat
        /\ Cardinality(Completes(i)') = Cardinality(Completes(i)) + 1
    BY <1>3, <2>1
  <2> DEFINE c == Cardinality(Completes(i))
  <2>4. ASSUME Fresh(k)' PROVE c + 1 > RecentLimit
    <3>1. k # job /\ \A p \in DOMAIN completed' : completed'[p] # k
      <4>1. k \notin {completed'[p] : p \in DOMAIN completed'}
        BY <2>4 DEF Fresh, Elements
      <4>2. Len(completed') \in DOMAIN completed'
        <5> DEFINE last == Len(completed')
        <5>1. last \in Nat \ {0} /\ DOMAIN completed' = 1 .. last
          BY <1>2
        <5> HIDE DEF last
        <5>2. last \in DOMAIN completed'
          BY <5>1
        <5> QED
          BY <5>2 DEF last
      <4> QED
        BY <1>2, <4>1, <4>2
    <3>2. CASE k \notin Elements(completed)
      <4>1. Fresh(k)
        BY <2>4, <3>1, <3>2 DEF Fresh
      <4> QED
        BY <2>2, <2>3, <4>1, LimitsAssumption
    <3>3. CASE k \in Elements(completed)
      <4>1. PICK p \in DOMAIN completed : completed[p] = k
        BY <3>3 DEF Elements
      <4>2. Len(completed) = RecentLimit /\ p = 1
        <5>1. CASE Len(completed') = Len(completed) + 1 /\ \A n \in 1 .. Len(completed) : completed'[n] = completed[n]
          BY <1>2, <3>1, <4>1, <5>1
        <5>2. CASE /\ Len(completed) = RecentLimit /\ Len(completed') = RecentLimit
                   /\ \A n \in 1 .. RecentLimit - 1 : completed'[n] = completed[n + 1]
          <6>1. ASSUME p # 1 PROVE FALSE
            <7>1. p - 1 \in 1 .. RecentLimit - 1 /\ p - 1 \in DOMAIN completed' /\ (p - 1) + 1 = p
              BY <1>2, <4>1, <5>2, <6>1
            <7>2. completed'[p - 1] = completed[(p - 1) + 1]
              BY <5>2, <7>1
            <7> QED
              BY <3>1, <4>1, <7>1, <7>2
          <6> QED
            BY <5>2, <6>1
        <5> QED
          BY <1>2, <5>1, <5>2
      <4>3. c >= Len(completed) - p + 1
        BY <2>2, <4>1
      <4> HIDE DEF c
      <4> QED
        BY <2>3, <4>2, <4>3, LimitsAssumption DEF c
    <3> QED
      BY <3>2, <3>3
  <2>5. ASSUME NEW p \in DOMAIN completed', completed'[p] = k
        PROVE  c + 1 >= Len(completed') - p + 1
    <3> HIDE DEF c
    <3>0. c \in Nat
      BY <2>3 DEF c
    <3>1. CASE p = Len(completed')
      <4> DEFINE last == Len(completed')
      <4>1. last \in Nat /\ p = last
        BY <1>2, <3>1
      <4> HIDE DEF last
      <4>2. last - p + 1 = 1
        BY <4>1
      <4>3. c + 1 >= last - p + 1
        BY <3>0, <4>2
      <4> QED
        BY <4>3 DEF last
    <3>2. CASE p # Len(completed') /\ Len(completed') = Len(completed) + 1
               /\ \A n \in 1 .. Len(completed) : completed'[n] = completed[n]
      <4>1. p \in DOMAIN completed /\ completed[p] = k
        BY <1>2, <2>5, <3>2
      <4>2. c >= Len(completed) - p + 1
        BY <2>2, <4>1 DEF c
      <4> QED
        BY <1>2, <3>0, <3>2, <4>1, <4>2
    <3>3. CASE p # Len(completed') /\ Len(completed) = RecentLimit /\ Len(completed') = RecentLimit
               /\ \A n \in 1 .. RecentLimit - 1 : completed'[n] = completed[n + 1]
      <4>1. p \in 1 .. RecentLimit - 1 /\ p + 1 \in DOMAIN completed
        BY <1>2, <2>5, <3>3, LimitsAssumption
      <4>2. completed[p + 1] = k
        BY <2>5, <3>3, <4>1
      <4>3. c >= Len(completed) - (p + 1) + 1
        BY <2>2, <4>1, <4>2 DEF c
      <4> QED
        BY <1>2, <3>0, <3>3, <4>1, <4>3, LimitsAssumption
    <3> QED
      BY <1>2, <3>1, <3>2, <3>3
  <2> QED
    BY <2>3, <2>4, <2>5
<1>5. PersistedOnce'
  <2> SUFFICES ASSUME NEW i \in DOMAIN log', NEW j \in DOMAIN log', i < j,
                      log'[i][1] = "persist", log'[j] = log'[i]
               PROVE  Cardinality({n \in i .. j : log'[n][1] = "complete"}) > RecentLimit
    BY DEF PersistedOnce
  <2>1. i \in DOMAIN log /\ j \in DOMAIN log
    BY <1>1, <1>3
  <2> QED
    BY <1>1, <2>1, OldPairs DEF History
<1> QED
  BY <1>3, <1>4, <1>5 DEF History

(* A run that ends either completes its turn or has persisted nothing.     *)
LEMMA FinishHistory ==
  ASSUME History, TypeOK, NEW runner \in Runner, NEW outcome \in Outcomes(runner),
         FinishTurn(runner.job, outcome),
         runner.job \in Keys /\ ~runner.persisted => ~Persisting(runner.job),
         \A k \in Keys : k # runner.job => (Persisting(k)' <=> Persisting(k))
  PROVE  History'
<1>1. CASE outcome = "completed" /\ runner.job \in Keys
  BY <1>1, CompleteHistory
<1>2. CASE ~(outcome = "completed" /\ runner.job \in Keys)
  <2>1. UNCHANGED <<log, completed>>
    BY <1>2 DEF FinishTurn
  <2>2. runner.job \in Keys => ~runner.persisted
    BY <1>2 DEF Outcomes
  <2> QED
    BY <2>1, <2>2, HistoryStays
<1> QED
  BY <1>1, <1>2

LEMMA NextHistory == Places /\ Work /\ History /\ [Next]_vars => History'
<1> SUFFICES ASSUME Places, Work, History, [Next]_vars PROVE History'
  OBVIOUS
<1>0. TypeOK /\ worker \in Runner /\ caller \in [Callers -> Runner]
  BY DEF Places, TypeOK
<1>1. ASSUME UNCHANGED <<log, completed, caller>>,
             worker' = worker \/ worker.pc # "running"
      PROVE  History'
  <2>1. \A k \in Keys : Persisting(k) => Persisting(k)'
    BY <1>1 DEF Persisting
  <2> QED
    BY <1>1, <2>1, HistoryStays
<1>2. CASE \/ DeferTelemetry \/ WorkerTake \/ WorkerStart \/ WorkerTaskDone \/ WorkerExit
           \/ (\E job \in Jobs : Enqueue(job)) \/ UNCHANGED vars
  BY <1>1, <1>2 DEF DeferTelemetry, WorkerTake, WorkerStart, WorkerTaskDone, WorkerExit, Enqueue, vars,
    known, EnsuredWorker, Alive
<1>3. ASSUME NEW p \in Stoppers, Close(p) \/ Flushed(p) \/ Joined(p) \/ ShutdownTimeout(p)
      PROVE  History'
  BY <1>1, <1>3 DEF Close, Flushed, Joined, ShutdownTimeout, Frame, known, Alive
<1>4. ASSUME NEW t \in Callers, NEW job \in Jobs, CallerBegin(t, job) PROVE History'
  <2>1. caller[t].pc = "idle" /\ \A u \in Callers \ {t} : caller'[u] = caller[u]
    BY <1>0, <1>4 DEF CallerBegin
  <2>2. \A k \in Keys : Persisting(k) => Persisting(k)'
    BY <1>4, <2>1 DEF Persisting, CallerBegin
  <2> QED
    BY <1>4, <2>2, HistoryStays DEF CallerBegin
<1>5. CASE WorkerPersist
  <2>1. /\ worker.pc = "running" /\ ~worker.persisted /\ worker'.pc = "running"
        /\ worker'.job = worker.job /\ worker'.persisted
        /\ log' = Logged("persist", worker.job) /\ UNCHANGED <<completed, caller>>
    BY <1>0, <1>5 DEF WorkerPersist, known, Runner
  <2>2. \A k \in Keys : Persisting(k)' <=> Persisting(k) \/ k = worker.job
    BY <2>1 DEF Persisting
  <2>3. CASE worker.job \in Keys
    <3>1. ~Persisting(worker.job)
      BY <2>1, <2>3, ModesApart DEF Persisting, Places, Modes, Busy
    <3>2. worker.job \in inFlight
      BY <2>1, <2>3 DEF Work, Mirror, Runs
    <3> QED
      BY <1>0, <2>1, <2>2, <2>3, <3>1, <3>2, PersistHistory DEF Logged
  <2>4. CASE worker.job \notin Keys
    BY <2>1, <2>2, <2>4, HistoryStays DEF Logged
  <2> QED
    BY <2>3, <2>4
<1>6. ASSUME NEW t \in Callers, CallerPersist(t) PROVE History'
  <2>1. /\ caller[t].pc = "running" /\ ~caller[t].persisted /\ caller'[t].pc = "running"
        /\ caller'[t].job = caller[t].job /\ caller'[t].persisted
        /\ \A u \in Callers \ {t} : caller'[u] = caller[u]
        /\ log' = Logged("persist", caller[t].job) /\ UNCHANGED <<completed, worker>>
    BY <1>0, <1>6 DEF CallerPersist, known, Runner
  <2>2. \A k \in Keys : Persisting(k)' <=> Persisting(k) \/ k = caller[t].job
    BY <2>1 DEF Persisting
  <2>3. CASE caller[t].job \in Keys
    <3>1. ~Persisting(caller[t].job)
      BY <2>1, <2>3, ModesApart DEF Persisting, Work, OnePlace
    <3>2. caller[t].job \in inFlight
      BY <2>1, <2>3 DEF Work, Mirror, Runs
    <3> QED
      BY <1>0, <2>1, <2>2, <2>3, <3>1, <3>2, PersistHistory DEF Logged
  <2>4. CASE caller[t].job \notin Keys
    BY <2>1, <2>2, <2>4, HistoryStays DEF Logged
  <2> QED
    BY <2>3, <2>4
<1>7. CASE WorkerFinish
  <2>1. PICK outcome \in Outcomes(worker) : FinishTurn(worker.job, outcome)
    BY <1>7 DEF WorkerFinish
  <2>2. worker.pc = "running" /\ worker'.pc = "finished" /\ caller' = caller
    BY <1>7 DEF WorkerFinish, At
  <2>3. \A k \in Keys : k # worker.job => (Persisting(k)' <=> Persisting(k))
    BY <2>2 DEF Persisting
  <2>4. worker.job \in Keys /\ ~worker.persisted => ~Persisting(worker.job)
    BY <2>2, ModesApart DEF Persisting, Places, Modes, Busy
  <2> QED
    BY <1>0, <2>1, <2>3, <2>4, FinishHistory
<1>8. ASSUME NEW t \in Callers, CallerFinish(t) PROVE History'
  <2>1. PICK outcome \in Outcomes(caller[t]) : FinishTurn(caller[t].job, outcome)
    BY <1>8 DEF CallerFinish
  <2>2. /\ caller[t].pc = "running" /\ caller'[t].pc = "idle" /\ worker' = worker
        /\ \A u \in Callers \ {t} : caller'[u] = caller[u]
    BY <1>0, <1>8 DEF CallerFinish, At
  <2>3. \A k \in Keys : k # caller[t].job => (Persisting(k)' <=> Persisting(k))
    BY <2>2 DEF Persisting
  <2>4. caller[t].job \in Keys /\ ~caller[t].persisted => ~Persisting(caller[t].job)
    BY <2>2, ModesApart DEF Persisting, Places, Modes, Work, OnePlace
  <2>5. caller[t] \in Runner
    BY <1>0
  <2> QED
    BY <1>0, <2>1, <2>3, <2>4, <2>5, FinishHistory
<1> QED
  BY <1>2, <1>3, <1>4, <1>5, <1>6, <1>7, <1>8 DEF Next, WorkerNext, CallerNext

-----------------------------------------------------------------------------
Inv == Places /\ Work /\ History

(* Where turns are, what the key sets say of it, and what was persisted    *)
(* when: the locks and the order of the queue's steps suffice, whatever the*)
(* callers and stoppers do.                                                *)
THEOREM QueueInvariant == Spec => []Inv
<1>1. Init => Inv
  BY InitPlaces, InitWork, InitHistory DEF Inv
<1>2. Inv /\ [Next]_vars => Inv'
  BY NextPlaces, NextWork, NextHistory DEF Inv
<1> QED
  BY <1>1, <1>2, PTL DEF Spec

(* The queue, the threads and the key sets always have their types, and the*)
(* bounds on the queue and on the remembered turns hold.                   *)
THEOREM QueueTypeCorrect == Spec => []TypeOK
<1>1. Inv => TypeOK
  BY DEF Inv, Places
<1> QED
  BY <1>1, QueueInvariant, PTL

(* _pending_turn_keys and _in_flight_turn_keys say exactly what waits and  *)
(* what runs: no turn stays known after it was dropped or has ended.       *)
THEOREM KeysAreTheWork == Spec => []KeysMirrorWork
<1>1. ASSUME Inv PROVE KeysMirrorWork
  <2>1. Mirror /\ pending \subseteq Keys /\ inFlight \subseteq Keys
    BY <1>1 DEF Inv, Work, Places, TypeOK
  <2>2. pending = (Elements(queue) \cup (IF worker.pc = "taken" THEN {worker.job} ELSE {})) \cap Keys
    BY <2>1 DEF Mirror, Waits, Elements
  <2> DEFINE runners == {x \in {worker} \cup {caller[t] : t \in Callers} : x.pc = "running"}
  <2>3. \A k \in Keys : Runs(k) <=> k \in {r.job : r \in runners}
    BY DEF Runs
  <2>4. inFlight = {r.job : r \in runners} \cap Keys
    BY <2>1, <2>3 DEF Mirror
  <2> QED
    BY <2>2, <2>4 DEF KeysMirrorWork
<1> QED
  BY <1>1, QueueInvariant, PTL

(* A set with at most one member has at most that many.                    *)
LEMMA AtMostOneMember ==
  ASSUME NEW S, \A x, y \in S : x = y
  PROVE  Cardinality(S) \in {0, 1} /\ (S = {} => Cardinality(S) = 0)
<1>1. CASE S = {}
  BY <1>1, FS_EmptySet
<1>2. CASE S # {}
  <2>1. PICK x \in S : TRUE
    BY <1>2
  <2>2. S = {x}
    BY <2>1
  <2> QED
    BY <1>2, <2>2, FS_Singleton
<1> QED
  BY <1>1, <1>2

(* No turn is twice in the queue and the threads together.                 *)
THEOREM NoDuplicateWork == Spec => []NeverTwiceAtOnce
<1>1. ASSUME Inv, NEW k \in Keys
      PROVE Cardinality({i \in DOMAIN queue : queue[i] = k})
              + (IF worker.job = k THEN 1 ELSE 0)
              + Cardinality({t \in Callers : caller[t].job = k}) <= 1
  <2> DEFINE waiting == {i \in DOMAIN queue : queue[i] = k}
             calling == {t \in Callers : caller[t].job = k}
  <2>1. \A i, j \in waiting : i = j
    BY <1>1 DEF Inv, Work, OnePlace
  <2>2. \A t, u \in calling : t = u
    BY <1>1 DEF Inv, Work, OnePlace
  <2>3. worker.job = k => waiting = {}
    BY <1>1 DEF Inv, Work, OnePlace, Waits
  <2>4. synchronous => worker.job # k /\ waiting = {}
    BY <1>1, ModesApart DEF Inv, Waits
  <2>5. ~synchronous => calling = {}
    BY <1>1, ModesApart DEF Inv
  <2> HIDE DEF waiting, calling
  <2>6. Cardinality(waiting) \in {0, 1} /\ (waiting = {} => Cardinality(waiting) = 0)
    BY <2>1, AtMostOneMember
  <2>7. Cardinality(calling) \in {0, 1} /\ (calling = {} => Cardinality(calling) = 0)
    BY <2>2, AtMostOneMember
  <2>8. Cardinality(waiting) + (IF worker.job = k THEN 1 ELSE 0) + Cardinality(calling) <= 1
    BY <2>3, <2>4, <2>5, <2>6, <2>7
  <2> QED
    BY <2>8 DEF waiting, calling
<1>2. Inv => NeverTwiceAtOnce
  BY <1>1 DEF NeverTwiceAtOnce
<1> QED
  BY <1>2, QueueInvariant, PTL

(* A turn is not persisted again until it and RecentLimit further ones were*)
(* completed since, in either mode and whatever was raised.                *)
THEOREM NotPersistedAgain == Spec => []PersistedOnce
<1>1. Inv => PersistedOnce
  BY DEF Inv, History
<1> QED
  BY <1>1, QueueInvariant, PTL

(* When shutdown has reported success nothing waits, nothing is counted as *)
(* unfinished, no keyed turn is pending and no worker is left.             *)
THEOREM ShutdownHasDrained == Spec => []ShutdownDrains
<1>1. ASSUME Inv, NEW p \in Stoppers, stopper[p] = "true"
      PROVE  queue = <<>> /\ unfinished = 0 /\ ~Alive /\ pending = {}
  <2>1. ~Alive /\ queue = <<>>
    BY <1>1 DEF Inv, Places, Stopping, StopIsLast
  <2>2. ~Busy /\ worker.pc # "taken"
    BY <2>1 DEF Alive, Busy
  <2>3. unfinished = 0
    BY <1>1, <2>1, <2>2 DEF Inv, Places, Counted
  <2>4. \A k \in Keys : ~Waits(k)
    BY <2>1 DEF Waits
  <2>5. pending = {}
    BY <1>1, <2>2, <2>4 DEF Inv, Work, Mirror, Places, TypeOK
  <2> QED
    BY <2>1, <2>3, <2>5
<1>2. Inv => ShutdownDrains
  BY <1>1 DEF ShutdownDrains
<1> QED
  BY <1>2, QueueInvariant, PTL

=============================================================================
