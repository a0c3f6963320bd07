------------------------ MODULE MemoryWrites_proofs ------------------------
(***************************************************************************)
(* The handlers implement the ledger, for every number of workers,         *)
(* records, entities, requests and bodies. The argument: locks are held by *)
(* one session at a time (LocksExclusive), so what a session checked while *)
(* holding them is not disturbed until it commits (ChecksStillHold), so    *)
(* the commit is a step of the ledger; every other step changes no table   *)
(* or is an entity handler. Entity locks are taken in ascending order and  *)
(* after the lock on the old record, so no handlers wait in a circle.      *)
(***************************************************************************)
EXTENDS MemoryWrites, FiniteSetTheorems, WellFoundedInduction, TLAPS

(* First what a write does to the tables of MemoryRecords, and the promises *)
(* of the abstract ledger; after its theorems, the handlers.               *)

(* The shape of a request body. *)
LEMMA BodyShape ==
  ASSUME NEW b \in Bodies
  PROVE  /\ b \in Body
         /\ b.old = None <=> b.action \in {"create", "legacy_create"}
         /\ b.axis # None => IsMemory(b) /\ Creates(b)
BY BodiesAssumption

(* An update of the status keeps everything else a property reads. *)
LEMMA UpdatedShape ==
  ASSUME NEW row \in Row, NEW st \in RecordStatus
  PROVE  /\ Updated(row, st) \in Row
         /\ Updated(row, st).status = st
         /\ Updated(row, st).target = row.target
         /\ Updated(row, st).axis = row.axis
         /\ Updated(row, st).related = row.related
<1> DEFINE mid == [row EXCEPT !.status = st]
<1>1. /\ mid \in Row
      /\ mid.status = st
      /\ mid.target = row.target
      /\ mid.axis = row.axis
      /\ mid.related = row.related
  BY DEF Row
<1>2. Updated(row, st) = [mid EXCEPT !.rev = @ + 1]
  BY DEF Updated
<1> HIDE DEF mid
<1> QED
  BY <1>1, <1>2 DEF Row

(* What a write does to the record tables. *)
LEMMA WrittenShape ==
  ASSUME TablesOK, NEW b \in Bodies, NEW n \in Records \cup {None}
  PROVE  /\ Written(b, n) \in [Records -> Row]
         /\ \A q \in Records : q # n /\ q # b.old => Written(b, n)[q] = rec[q]
         /\ n \in Records => /\ Written(b, n)[n].status = "active"
                             /\ Written(b, n)[n].target = b.target
                             /\ Written(b, n)[n].axis = b.axis
                             /\ Written(b, n)[n].related = b.related
         /\ b.old \in Records /\ b.old # n =>
              /\ Written(b, n)[b.old].status = OldStatus(b)
              /\ Written(b, n)[b.old].target = rec[b.old].target
              /\ Written(b, n)[b.old].axis = rec[b.old].axis
              /\ Written(b, n)[b.old].related = rec[b.old].related
<1>1. b \in Body
  BY BodyShape
<1>2. NewRow(b) \in Row
  BY <1>1 DEF NewRow, Row, Body, RecordStatus
<1>3. OldStatus(b) \in RecordStatus
  BY <1>1 DEF OldStatus, Body, RecordStatus
<1>4. \A row \in Row : /\ Updated(row, OldStatus(b)) \in Row
                       /\ Updated(row, OldStatus(b)).status = OldStatus(b)
                       /\ Updated(row, OldStatus(b)).target = row.target
                       /\ Updated(row, OldStatus(b)).axis = row.axis
                       /\ Updated(row, OldStatus(b)).related = row.related
  BY <1>3, UpdatedShape
<1>5. \A q \in Records : rec[q] \in Row
  BY DEF TablesOK
<1>6. /\ NewRow(b).status = "active"
      /\ NewRow(b).target = b.target
      /\ NewRow(b).axis = b.axis
      /\ NewRow(b).related = b.related
  BY DEF NewRow
<1> QED
  BY <1>2, <1>4, <1>5, <1>6 DEF Written

(* What the checks of the old record guarantee. *)
LEMMA AcceptableShape ==
  ASSUME NEW b \in Bodies, RecordAcceptable(b), b.old # None
  PROVE  /\ b.old \in Records
         /\ Present(b.old)
         /\ IsMemory(b) => IsCurrent(b.old)
         /\ ~IsMemory(b) => ~Tracked(b.old) /\ rec[b.old].axis = None
BY BodyShape DEF RecordAcceptable, OldAcceptable, LegacyAcceptable, Body, Present, IsCurrent

(* A memory write leaves the record it replaces in a final status. *)
LEMMA FinalStatus ==
  ASSUME NEW b \in Bodies, IsMemory(b)
  PROVE  OldStatus(b) \in {"deleted", "superseded"}
BY DEF OldStatus, IsMemory, MemoryActions

-----------------------------------------------------------------------------
(* A record some change names exists. *)
TrackedPresent == \A q \in Records : Tracked(q) => Present(q)

LedgerInv ==
  /\ TablesOK
  /\ UniqueRequest
  /\ LinearHistory
  /\ OneCurrentPerAxis
  /\ TrackedPresent

-----------------------------------------------------------------------------
(* A written row never vanishes. *)
LEMMA WriteKeepsPresent ==
  ASSUME TablesOK, NEW b \in Bodies, NEW n \in Records \cup {None}, WriteReady(b, n),
         rec' = Written(b, n), NEW q \in Records, Present(q) \/ q = n
  PROVE  Present(q)'
<1>1. CASE q = n
  BY <1>1, WrittenShape DEF Present
<1>2. CASE q # n /\ q = b.old
  <2>1. OldStatus(b) # "absent"
    BY BodyShape DEF OldStatus, Body, RecordStatus
  <2> QED
    BY <1>2, <2>1, WrittenShape DEF Present
<1>3. CASE q # n /\ q # b.old
  BY <1>3, WrittenShape DEF Present
<1> QED
  BY <1>1, <1>2, <1>3

(* No second current assessment of a person on an axis. *)
LEMMA WriteKeepsOneCurrent ==
  ASSUME TablesOK, OneCurrentPerAxis, NEW b \in Bodies, NEW n \in Records \cup {None},
         WriteReady(b, n), rec' = Written(b, n)
  PROVE  OneCurrentPerAxis'
<1> SUFFICES ASSUME NEW q1 \in Records, NEW q2 \in Records,
                    IsCurrent(q1)', IsCurrent(q2)',
                    rec'[q1].axis # None, rec'[q1].axis = rec'[q2].axis,
                    rec'[q1].target = rec'[q2].target, q1 # q2
             PROVE  FALSE
  BY DEF OneCurrentPerAxis
<1>1. ASSUME NEW q \in Records, q # n, IsCurrent(q)', rec'[q].axis # None
      PROVE  /\ q # b.old /\ IsCurrent(q)
             /\ rec'[q].axis = rec[q].axis /\ rec'[q].target = rec[q].target
  <2>1. CASE q = b.old
    <3>1. b.old # None
      BY <2>1, NoneAssumption
    <3>2. ~IsMemory(b)
      BY <1>1, <2>1, FinalStatus, WrittenShape DEF IsCurrent
    <3>3. rec[b.old].axis = None
      BY <3>1, <3>2, AcceptableShape DEF WriteReady
    <3> QED
      BY <1>1, <2>1, <3>3, WrittenShape
  <2>2. CASE q # b.old
    BY <1>1, <2>2, WrittenShape DEF IsCurrent
  <2> QED
    BY <2>1, <2>2
<1>2. CASE q1 # n /\ q2 # n
  BY <1>1, <1>2 DEF OneCurrentPerAxis
<1>3. ASSUME NEW q \in Records, q # n, n \in Records, IsCurrent(q)', rec'[n].axis # None,
             rec'[q].axis = rec'[n].axis, rec'[q].target = rec'[n].target
      PROVE  FALSE
  <2>1. q # b.old /\ IsCurrent(q) /\ rec'[q].axis = rec[q].axis /\ rec'[q].target = rec[q].target
    BY <1>1, <1>3
  <2>2. rec'[n].axis = b.axis /\ rec'[n].target = b.target
    BY <1>3, WrittenShape
  <2> QED
    BY <1>3, <2>1, <2>2 DEF WriteReady, RecordWritable, AxisFree
<1>4. CASE q1 = n
  BY <1>3, <1>4
<1>5. CASE q2 = n
  BY <1>3, <1>5
<1> QED
  BY <1>2, <1>4, <1>5

(* A memory change that takes effect. *)
LEMMA ApplyKeepsInv ==
  ASSUME LedgerInv, NEW r \in Requests, NEW b \in Bodies, NEW n \in Records \cup {None},
         Apply(r, b, n)
  PROVE  LedgerInv'
<1> DEFINE c0 == [request |-> r, body |-> b, new |-> n]
<1>1. /\ TablesOK
      /\ IsMemory(b)
      /\ \A c \in changes : c.request # r
      /\ WriteReady(b, n)
      /\ rec' = Written(b, n)
      /\ changes' = changes \cup {c0}
      /\ entity' = entity
  BY DEF Apply, WriteReady, LedgerInv
<1>2. c0.request = r /\ c0.body = b /\ c0.new = n /\ c0 \notin changes
  BY <1>1
<1>3. TablesOK'
  <2>1. rec' \in [Records -> Row]
    BY <1>1, WrittenShape
  <2> QED
    BY <1>1, <2>1 DEF TablesOK
<1>4. UniqueRequest'
  BY <1>1, <1>2 DEF LedgerInv, UniqueRequest
<1>5. \A c \in changes : c.body.old # None => c.body.old # b.old
  <2> SUFFICES ASSUME NEW c \in changes, c.body.old # None, c.body.old = b.old
               PROVE  FALSE
    OBVIOUS
  <2>1. IsCurrent(b.old)
    BY <1>1, AcceptableShape DEF WriteReady
  <2> QED
    BY <2>1 DEF LedgerInv, LinearHistory
<1>6. \A q \in Records : q # n /\ q # b.old => rec'[q] = rec[q]
  BY <1>1, WrittenShape
<1>7. b.old # None => b.old \in Records /\ b.old # n /\ ~IsCurrent(b.old)'
  <2> HAVE b.old # None
  <2>1. b.old \in Records /\ Present(b.old)
    BY <1>1, AcceptableShape DEF WriteReady
  <2>2. b.old # n
    BY <1>1, <2>1, NoneAssumption DEF WriteReady
  <2>3. rec'[b.old].status \in {"deleted", "superseded"}
    BY <1>1, <2>1, <2>2, WrittenShape, FinalStatus
  <2> QED
    BY <2>1, <2>2, <2>3 DEF IsCurrent
<1>8. LinearHistory'
  <2>1. \A c \in changes : c.body.old # None => ~IsCurrent(c.body.old)'
    <3> SUFFICES ASSUME NEW c \in changes, c.body.old # None
                 PROVE  ~IsCurrent(c.body.old)'
      OBVIOUS
    <3>1. c.body.old \in Records
      BY <1>1, BodyShape DEF TablesOK, Body
    <3>2. c.body.old # n
      BY <1>1, <3>1, NoneAssumption DEF LedgerInv, TrackedPresent, Tracked, WriteReady
    <3> QED
      BY <1>5, <1>6, <3>1, <3>2 DEF LedgerInv, LinearHistory, IsCurrent
  <2> QED
    BY <1>1, <1>2, <1>5, <1>7, <2>1 DEF LedgerInv, LinearHistory
<1>9. OneCurrentPerAxis'
  BY <1>1, WriteKeepsOneCurrent DEF LedgerInv
<1>10. TrackedPresent'
  <2> SUFFICES ASSUME NEW q \in Records, Tracked(q)'
               PROVE  Present(q)'
    BY DEF TrackedPresent
  <2>1. Tracked(q) \/ q = b.old \/ q = n
    BY <1>1, <1>2 DEF Tracked
  <2>2. Present(q) \/ q = n
    BY <1>1, <2>1, AcceptableShape, NoneAssumption DEF LedgerInv, TrackedPresent, WriteReady
  <2> QED
    BY <1>1, <2>2, WriteKeepsPresent
<1> QED
  BY <1>3, <1>4, <1>8, <1>9, <1>10 DEF LedgerInv

(* A compatibility write that takes effect. *)
LEMMA ApplyLegacyKeepsInv ==
  ASSUME LedgerInv, NEW b \in Bodies, NEW n \in Records \cup {None}, ApplyLegacy(b, n)
  PROVE  LedgerInv'
<1>1. /\ TablesOK
      /\ ~IsMemory(b)
      /\ WriteReady(b, n)
      /\ rec' = Written(b, n)
      /\ changes' = changes
      /\ entity' = entity
  BY DEF ApplyLegacy, WriteReady, LedgerInv
<1>2. \A q \in Records : Tracked(q) => rec'[q] = rec[q]
  <2> SUFFICES ASSUME NEW q \in Records, Tracked(q)
               PROVE  q # n /\ q # b.old
    BY <1>1, WrittenShape
  <2>1. q # n
    BY <1>1, NoneAssumption DEF LedgerInv, TrackedPresent, WriteReady
  <2>2. q # b.old
    BY <1>1, AcceptableShape, NoneAssumption DEF WriteReady
  <2> QED
    BY <2>1, <2>2
<1>3. TablesOK'
  <2>1. rec' \in [Records -> Row]
    BY <1>1, WrittenShape
  <2> QED
    BY <1>1, <2>1 DEF TablesOK
<1>4. UniqueRequest'
  BY <1>1 DEF LedgerInv, UniqueRequest
<1>5. LinearHistory'
  <2>1. \A c \in changes : c.body.old # None => c.body.old \in Records /\ Tracked(c.body.old)
    BY <1>1, BodyShape DEF TablesOK, Body, Tracked
  <2> QED
    BY <1>1, <1>2, <2>1 DEF LedgerInv, LinearHistory, IsCurrent
<1>6. OneCurrentPerAxis'
  BY <1>1, WriteKeepsOneCurrent DEF LedgerInv
<1>7. TrackedPresent'
  BY <1>1, <1>2 DEF LedgerInv, TrackedPresent, Tracked, Present
<1> QED
  BY <1>3, <1>4, <1>5, <1>6, <1>7 DEF LedgerInv

(* Every step of the ledger keeps the invariant. *)
LEMMA LedgerStep ==
  ASSUME LedgerInv, [LedgerNext]_tables
  PROVE  LedgerInv'
<1>1. ASSUME NEW r \in Requests, NEW b \in Bodies, NEW n \in Records \cup {None}, Apply(r, b, n)
      PROVE  LedgerInv'
  BY <1>1, ApplyKeepsInv
<1>2. ASSUME NEW b \in Bodies, NEW n \in Records \cup {None}, ApplyLegacy(b, n)
      PROVE  LedgerInv'
  BY <1>2, ApplyLegacyKeepsInv
<1>3. ASSUME rec' = rec, changes' = changes, entity' \in [Entities -> EntityStatus]
      PROVE  LedgerInv'
  BY <1>3 DEF LedgerInv, TablesOK, UniqueRequest, LinearHistory, OneCurrentPerAxis,
              TrackedPresent, Tracked, Present, IsCurrent
<1>4. ASSUME NEW e \in Entities, DeleteEntity(e) \/ \E st \in EntityStatus : PatchEntity(e, st)
      PROVE  LedgerInv'
  BY <1>3, <1>4 DEF LedgerInv, TablesOK, DeleteEntity, PatchEntity, EntityStatus
<1>5. CASE UNCHANGED tables
  BY <1>3, <1>5 DEF tables, LedgerInv, TablesOK
<1> QED
  BY <1>1, <1>2, <1>4, <1>5 DEF LedgerNext

(* The invariant holds of the tables an earlier history may have left. *)
LEMMA LedgerInitInv == LedgerInit => LedgerInv
<1> SUFFICES ASSUME LedgerInit PROVE LedgerInv
  OBVIOUS
<1>1. TablesOK
  BY InitAssumption DEF LedgerInit, TablesOK, EntityStatus
<1> QED
  BY <1>1 DEF LedgerInit, LedgerInv, UniqueRequest, LinearHistory, TrackedPresent, Tracked

(* Whatever is sent, resent or sent twice, every request is applied at     *)
(* most once, the revisions of a memory form a chain, and a person has one *)
(* current assessment per axis.                                            *)
THEOREM LedgerInvariant == Ledger => []LedgerInv
BY LedgerInitInv, LedgerStep, PTL DEF Ledger

-----------------------------------------------------------------------------
(* The actions behind the three step properties. *)
FrozenStep ==
  \A q \in Records :
    Tracked(q) /\ rec'[q] # rec[q] => \E c \in changes' \ changes : c.body.old = q

ExpectedStep ==
  \A c \in changes' \ changes :
    c.body.expected # None => rec[c.body.old].rev = c.body.expected

ActiveStep ==
  \A q \in Records :
    ~Present(q) /\ Present(q)'
      => \A e \in EntitiesOf(rec'[q]) : entity[e] = "active" /\ entity'[e] = "active"

(* A write that adds a row found its entities active. *)
LEMMA WriteIsActive ==
  ASSUME TablesOK, NEW b \in Bodies, NEW n \in Records \cup {None}, WriteReady(b, n),
         rec' = Written(b, n), entity' = entity
  PROVE  ActiveStep
<1> SUFFICES ASSUME NEW q \in Records, ~Present(q), Present(q)'
             PROVE  \A e \in EntitiesOf(rec'[q]) : entity[e] = "active"
  BY DEF ActiveStep
<1>1. q = n
  <2>1. CASE q = b.old
    BY <2>1, AcceptableShape, NoneAssumption DEF WriteReady
  <2>2. CASE q # b.old
    BY <2>2, WrittenShape DEF Present
  <2> QED
    BY <2>1, <2>2
<1>2. Creates(b)
  BY <1>1, NoneAssumption DEF WriteReady
<1>3. EntitiesOf(rec'[q]) = EntitiesOf(b)
  BY <1>1, WrittenShape DEF EntitiesOf
<1>4. EntitiesOf(b) \subseteq LockSet(b)
  BY <1>2 DEF LockSet, Creates
<1> QED
  BY <1>3, <1>4 DEF WriteReady, RecordWritable, EntitiesActive

LEMMA LedgerSteps ==
  ASSUME LedgerInv, [LedgerNext]_tables
  PROVE  FrozenStep /\ ExpectedStep /\ ActiveStep
<1>1. ASSUME rec' = rec, changes' = changes
      PROVE  FrozenStep /\ ExpectedStep /\ ActiveStep
  BY <1>1 DEF FrozenStep, ExpectedStep, ActiveStep, Present
<1>2. ASSUME NEW b \in Bodies, NEW n \in Records \cup {None}, WriteReady(b, n),
             rec' = Written(b, n), NEW q \in Records, Tracked(q), rec'[q] # rec[q]
      PROVE  q = b.old /\ IsMemory(b)
  <2>1. q # n
    BY <1>2, NoneAssumption DEF LedgerInv, TrackedPresent, WriteReady
  <2>2. q = b.old
    BY <1>2, <2>1, WrittenShape DEF LedgerInv
  <2> QED
    BY <1>2, <2>2, AcceptableShape, NoneAssumption DEF WriteReady
<1>3. ASSUME NEW r \in Requests, NEW b \in Bodies, NEW n \in Records \cup {None}, Apply(r, b, n)
      PROVE  FrozenStep /\ ExpectedStep /\ ActiveStep
  <2> DEFINE c0 == [request |-> r, body |-> b, new |-> n]
  <2>1. /\ TablesOK
        /\ WriteReady(b, n)
        /\ rec' = Written(b, n)
        /\ entity' = entity
        /\ changes' = changes \cup {c0}
        /\ c0 \notin changes
        /\ c0.body = b
        /\ IsMemory(b)
    BY <1>3 DEF Apply, WriteReady, LedgerInv
  <2>2. FrozenStep
    BY <1>2, <2>1 DEF FrozenStep
  <2>3. b.expected # None => b.old # None /\ rec[b.old].rev = b.expected
    BY <2>1, BodiesAssumption DEF WriteReady, RecordAcceptable, OldAcceptable
  <2>4. ExpectedStep
    BY <2>1, <2>3 DEF ExpectedStep
  <2> QED
    BY <2>1, <2>2, <2>4, WriteIsActive
<1>4. ASSUME NEW b \in Bodies, NEW n \in Records \cup {None}, ApplyLegacy(b, n)
      PROVE  FrozenStep /\ ExpectedStep /\ ActiveStep
  <2>1. /\ TablesOK
        /\ WriteReady(b, n)
        /\ rec' = Written(b, n)
        /\ entity' = entity
        /\ changes' = changes
        /\ ~IsMemory(b)
    BY <1>4 DEF ApplyLegacy, WriteReady, LedgerInv
  <2>2. FrozenStep
    BY <1>2, <2>1 DEF FrozenStep
  <2> QED
    BY <2>1, <2>2, WriteIsActive DEF ExpectedStep
<1>5. ASSUME NEW e \in Entities, DeleteEntity(e) \/ \E st \in EntityStatus : PatchEntity(e, st)
      PROVE  FrozenStep /\ ExpectedStep /\ ActiveStep
  BY <1>1, <1>5 DEF DeleteEntity, PatchEntity
<1>6. CASE UNCHANGED tables
  BY <1>1, <1>6 DEF tables
<1> QED
  BY <1>3, <1>4, <1>5, <1>6 DEF LedgerNext

(* A tracked revision changes only through a memory change that names it.  *)
THEOREM LedgerHistoryFrozen == Ledger => HistoryFrozen
<1>1. LedgerInv /\ [LedgerNext]_tables => [FrozenStep]_tables
  BY LedgerSteps
<1> QED
  BY <1>1, LedgerInvariant, PTL DEF Ledger, HistoryFrozen, FrozenStep

(* A change replaces exactly the revision its caller says it read.         *)
THEOREM LedgerNoLostUpdate == Ledger => NoLostUpdate
<1>1. LedgerInv /\ [LedgerNext]_tables => [ExpectedStep]_tables
  BY LedgerSteps
<1> QED
  BY <1>1, LedgerInvariant, PTL DEF Ledger, NoLostUpdate, ExpectedStep

(* A row appears only while every entity it is about is active.            *)
THEOREM LedgerNewRowsAboutActive == Ledger => NewRowsAboutActive
<1>1. LedgerInv /\ [LedgerNext]_tables => [ActiveStep]_tables
  BY LedgerSteps
<1> QED
  BY <1>1, LedgerInvariant, PTL DEF Ledger, NewRowsAboutActive, ActiveStep

-----------------------------------------------------------------------------
(* What a running handler carries. *)
SessionShape ==
  \A s \in Sessions :
    session[s].pc # "idle" =>
      /\ session[s].body \in Bodies
      /\ IsMemory(session[s].body) => session[s].req \in Requests
      /\ session[s].pc = "reserve" => IsMemory(session[s].body)
      /\ session[s].pc = "lock_old" => session[s].body.old # None

(* No lock has two holders, and no two handlers have the same new id.      *)
LocksExclusive ==
  \A s, t \in Sessions :
    s # t =>
      /\ \A r \in Requests : ~(HoldsRequest(s, r) /\ HoldsRequest(t, r))
      /\ \A q \in Records : ~(HoldsRecord(s, q) /\ HoldsRecord(t, q))
      /\ \A e \in Entities : ~(HoldsEntity(s, e) /\ HoldsEntity(t, e))
      /\ \A n \in Records : ~(session[s].new = n /\ session[t].new = n)

Inv ==
  /\ TypeOK
  /\ SessionShape
  /\ LocksExclusive
  /\ ChecksStillHold

-----------------------------------------------------------------------------
(* While the rows it reads stand still, a check keeps its outcome.         *)
LEMMA FrameAcceptable ==
  ASSUME NEW b \in Bodies,
         b.old # None => rec'[b.old] = rec[b.old] /\ (Tracked(b.old)' <=> Tracked(b.old))
  PROVE  RecordAcceptable(b)' <=> RecordAcceptable(b)
BY DEF RecordAcceptable, OldAcceptable, LegacyAcceptable, Present, IsCurrent, TargetsAllowed

LEMMA FrameLockSet ==
  ASSUME NEW b \in Bodies, b.old # None => rec'[b.old] = rec[b.old]
  PROVE  LockSet(b)' = LockSet(b)
BY BodyShape DEF LockSet, EntitiesOf, Creates

(* Nothing a handler has checked depends on more than the tables.          *)
LEMMA FrameReady ==
  ASSUME NEW b \in Bodies, NEW n \in Records \cup {None}, rec' = rec, changes' = changes,
         \A e \in LockSet(b) : entity'[e] = entity[e]
  PROVE  /\ RecordAcceptable(b)' <=> RecordAcceptable(b)
         /\ LockSet(b)' = LockSet(b)
         /\ WriteReady(b, n) => WriteReady(b, n)'
<1>1. RecordAcceptable(b)' <=> RecordAcceptable(b)
  BY FrameAcceptable DEF Tracked
<1>2. LockSet(b)' = LockSet(b)
  BY FrameLockSet
<1>3. RecordWritable(b) => RecordWritable(b)'
  BY <1>2 DEF RecordWritable, EntitiesActive, AxisFree, IsCurrent
<1> QED
  BY <1>1, <1>2, <1>3 DEF WriteReady, Present

(* A commit of another handler, with other locks, disturbs no check.       *)
LEMMA FrameCommit ==
  ASSUME TablesOK, NEW b \in Bodies, NEW b2 \in Bodies, NEW n2 \in Records \cup {None},
         WriteReady(b2, n2), rec' = Written(b2, n2), entity' = entity,
         \A q \in Records : q # b2.old /\ q # n2 => (Tracked(q)' <=> Tracked(q)),
         RecordAcceptable(b), b.old # None => b.old # b2.old
  PROVE  /\ RecordAcceptable(b)'
         /\ LockSet(b)' = LockSet(b)
         /\ \A n \in Records \cup {None} :
              WriteReady(b, n) /\ LockSet(b) \cap LockSet(b2) = {} /\ (n # None => n # n2)
                => WriteReady(b, n)'
<1>1. b.old # None => b.old \in Records /\ b.old # n2
  BY AcceptableShape, NoneAssumption DEF WriteReady
<1>2. \A q \in Records : q # b2.old /\ q # n2 => rec'[q] = rec[q]
  BY WrittenShape
<1>3. b.old # None => rec'[b.old] = rec[b.old] /\ (Tracked(b.old)' <=> Tracked(b.old))
  BY <1>1, <1>2
<1>4. RecordAcceptable(b)'
  BY <1>3, FrameAcceptable
<1>5. LockSet(b)' = LockSet(b)
  BY <1>3, FrameLockSet
<1>6. ASSUME NEW n \in Records \cup {None}, WriteReady(b, n),
             LockSet(b) \cap LockSet(b2) = {}, n # None => n # n2
      PROVE  WriteReady(b, n)'
  <2>1. EntitiesActive(b)'
    BY <1>5, <1>6 DEF WriteReady, RecordWritable, EntitiesActive
  <2>2. AxisFree(b)'
    <3> SUFFICES ASSUME b.axis # None, NEW q \in Records \ {b.old}, IsCurrent(q)',
                        rec'[q].axis = b.axis, rec'[q].target = b.target
                 PROVE  FALSE
      BY DEF AxisFree
    <3>1. Self \in LockSet(b)
      BY BodyShape DEF LockSet, Creates
    <3>2. CASE q = n2
      <4>1. b2.axis = b.axis
        BY <3>2, WrittenShape
      <4>2. Self \in LockSet(b2)
        BY <4>1, BodyShape DEF LockSet, Creates
      <4> QED
        BY <1>6, <3>1, <4>2
    <3>3. CASE q = b2.old /\ q # n2
      <4>1. CASE IsMemory(b2)
        BY <3>3, <4>1, FinalStatus, WrittenShape DEF IsCurrent
      <4>2. CASE ~IsMemory(b2)
        <5>1. rec[b2.old].axis = None
          BY <3>3, <4>2, AcceptableShape, NoneAssumption DEF WriteReady
        <5> QED
          BY <3>3, <5>1, WrittenShape
      <4> QED
        BY <4>1, <4>2
    <3>4. CASE q # b2.old /\ q # n2
      BY <1>2, <1>6, <3>4 DEF WriteReady, RecordWritable, AxisFree, IsCurrent
    <3> QED
      BY <3>2, <3>3, <3>4
  <2>3. n \in Records /\ ~Present(n) => ~Present(n)'
    <3> SUFFICES ASSUME n \in Records, ~Present(n) PROVE ~Present(n)'
      OBVIOUS
    <3>1. n # b2.old
      BY AcceptableShape, NoneAssumption DEF WriteReady
    <3> QED
      BY <1>2, <1>6, <3>1, NoneAssumption DEF Present
  <2> QED
    BY <1>4, <1>6, <2>1, <2>2, <2>3 DEF WriteReady, RecordWritable
<1> QED
  BY <1>4, <1>5, <1>6

-----------------------------------------------------------------------------
Reserved == {"lock_old", "lock_entities", "commit"}
Locked == {"lock_entities", "commit"}

(* The part of ChecksStillHold about one session that stands at x.         *)
Checked(x) ==
  /\ \A r \in Requests : x.req = r /\ x.pc \in Reserved => \A c \in changes : c.request # r
  /\ x.pc \in Locked => RecordAcceptable(x.body)
  /\ x.pc = "commit" => WriteReady(x.body, x.new) /\ LockSet(x.body) \subseteq x.held

(* No other session holds a lock or an id that a session at x would hold.  *)
Apart(s, x) ==
  \A t \in Sessions \ {s} :
    /\ \A r \in Requests : x.req = r /\ x.pc \in Reserved => ~HoldsRequest(t, r)
    /\ \A q \in Records : x.pc \in Locked /\ x.body.old = q => ~HoldsRecord(t, q)
    /\ \A e \in x.held : ~HoldsEntity(t, e)
    /\ x.new \in Records => session[t].new # x.new

WellShaped(x) ==
  /\ x \in SessionState
  /\ x.pc # "idle" =>
      /\ x.body \in Bodies
      /\ IsMemory(x.body) => x.req \in Requests
      /\ x.pc = "reserve" => IsMemory(x.body)
      /\ x.pc = "lock_old" => x.body.old # None

LEMMA ChecksAsChecked ==
  ASSUME TypeOK
  PROVE  /\ ChecksStillHold <=> \A s \in Sessions : Checked(session[s])
         /\ ChecksStillHold' <=> \A s \in Sessions : Checked(session[s])'
BY DEF ChecksStillHold, Checked, HoldsRequest, Reserved, Locked

LEMMA ShapeAsWellShaped ==
  ASSUME Inv, NEW s \in Sessions
  PROVE  WellShaped(session[s]) /\ Checked(session[s]) /\ Apart(s, session[s])
<1>1. Checked(session[s])
  BY ChecksAsChecked DEF Inv
<1>2. WellShaped(session[s])
  BY DEF Inv, TypeOK, SessionShape, WellShaped
<1>3. Apart(s, session[s])
  BY <1>2 DEF Inv, LocksExclusive, Apart, HoldsRequest, HoldsRecord, HoldsEntity, Reserved, Locked,
              WellShaped, SessionState
<1> QED
  BY <1>1, <1>2, <1>3

(* One session moves on and the tables stand still.                        *)
LEMMA OneSessionMoves ==
  ASSUME Inv, NEW s \in Sessions, NEW x,
         WellShaped(x), Apart(s, x), Checked(x),
         session' = [session EXCEPT ![s] = x], UNCHANGED tables,
         receipts' \subseteq [request : Requests, body : Bodies, new : Records \cup {None}]
  PROVE  Inv'
<1>1. rec' = rec /\ entity' = entity /\ changes' = changes
  BY DEF tables
<1>2. session' \in [Sessions -> SessionState] /\ session'[s] = x
  BY DEF Inv, TypeOK, WellShaped
<1>3. \A t \in Sessions \ {s} : session'[t] = session[t]
  BY DEF Inv, TypeOK
<1>4. TypeOK' /\ SessionShape'
  <2>1. TablesOK'
    BY <1>1 DEF Inv, TypeOK, TablesOK
  <2>2. SessionShape'
    BY <1>2, <1>3 DEF Inv, SessionShape, WellShaped
  <2> QED
    BY <1>2, <1>3, <2>1, <2>2 DEF Inv, TypeOK, SessionShape, WellShaped
<1>5. LocksExclusive'
  BY <1>2, <1>3 DEF Inv, LocksExclusive, Apart, HoldsRequest, HoldsRecord, HoldsEntity,
                    Reserved, Locked
<1>6. ASSUME NEW t \in Sessions
      PROVE  Checked(session[t])'
  <2> DEFINE y == session'[t]
  <2>1. WellShaped(y) /\ Checked(y)
    BY <1>2, <1>3, ShapeAsWellShaped
  <2>2. \A b \in Bodies, n \in Records \cup {None} :
          /\ RecordAcceptable(b)' <=> RecordAcceptable(b)
          /\ LockSet(b)' = LockSet(b)
          /\ WriteReady(b, n) => WriteReady(b, n)'
    BY <1>1, FrameReady
  <2> QED
    BY <1>1, <2>1, <2>2 DEF Checked, WellShaped, SessionState, Reserved, Locked
<1> QED
  BY <1>4, <1>5, <1>6, ChecksAsChecked DEF Inv

(* Going back to idle releases everything.                                 *)
LEMMA IdleIsFine ==
  ASSUME Inv, NEW s \in Sessions
  PROVE  WellShaped(IdleSession) /\ Apart(s, IdleSession) /\ Checked(IdleSession)
BY NoneAssumption DEF WellShaped, Apart, Checked, IdleSession, SessionState, PCs, Reserved, Locked

(* A receipt copied from the table has the type of a receipt.              *)
LEMMA AnswerType ==
  ASSUME Inv, NEW r \in Requests, NEW b \in Bodies, AnswerExisting(r, b)
  PROVE  receipts' \subseteq [request : Requests, body : Bodies, new : Records \cup {None}]
<1>1. PICK c \in changes : receipts' = IF SameContent(c, b)
                                         THEN receipts \cup {Receipt(r, b, c.new)} ELSE receipts
  BY DEF AnswerExisting
<1>2. c.new \in Records \cup {None}
  BY DEF Inv, TypeOK, TablesOK
<1> QED
  BY <1>1, <1>2 DEF Inv, TypeOK, Receipt

LEMMA ReceiveKeepsInv ==
  ASSUME Inv, NEW s \in Sessions, NEW b \in Bodies,
         (\E r \in Requests : Receive(s, r, b)) \/ ReceiveLegacy(s, b)
  PROVE  Inv'
<1>1. ASSUME NEW r \in Requests, Receive(s, r, b)
      PROVE  Inv'
  <2>1. CASE \E c \in changes : c.request = r
    <3>1. session' = [session EXCEPT ![s] = session[s]]
      BY <1>1, <2>1 DEF Receive, Inv, TypeOK
    <3>2. receipts' \subseteq [request : Requests, body : Bodies, new : Records \cup {None}]
      BY <1>1, <2>1, AnswerType DEF Receive
    <3> QED
      BY <1>1, <3>1, <3>2, ShapeAsWellShaped, OneSessionMoves DEF Receive
  <2>2. CASE ~ \E c \in changes : c.request = r
    <3> DEFINE x == Begin(r, b, "reserve")
    <3>1. WellShaped(x) /\ Apart(s, x) /\ Checked(x)
      BY <1>1, NoneAssumption
         DEF Receive, Begin, WellShaped, Apart, Checked, SessionState, PCs, Reserved, Locked
    <3>2. session' = [session EXCEPT ![s] = x] /\ receipts' = receipts
      BY <1>1, <2>2 DEF Receive
    <3> HIDE DEF x
    <3> QED
      BY <1>1, <3>1, <3>2, OneSessionMoves DEF Receive, Inv, TypeOK
  <2> QED
    BY <2>1, <2>2
<1>2. ASSUME ReceiveLegacy(s, b)
      PROVE  Inv'
  <2> DEFINE x == Begin(None, b, AfterReserve(b))
  <2>1. x.body = b /\ x.held = {} /\ x.req = None /\ x.new = None
        /\ x.pc \in {"lock_entities", "lock_old"}
        /\ (x.pc = "lock_old" <=> b.old # None)
    BY DEF Begin, AfterReserve
  <2>2. x \in SessionState
    BY <2>1 DEF Begin, SessionState, PCs
  <2>3. session' = [session EXCEPT ![s] = x] /\ receipts' = receipts /\ UNCHANGED tables
        /\ ~IsMemory(b)
    BY <1>2 DEF ReceiveLegacy
  <2> HIDE DEF x
  <2>4. WellShaped(x) /\ Apart(s, x) /\ Checked(x)
    BY <2>1, <2>2, <2>3, NoneAssumption
       DEF WellShaped, Apart, Checked, Reserved, Locked, RecordAcceptable
  <2> QED
    BY <2>3, <2>4, OneSessionMoves DEF Inv, TypeOK
<1> QED
  BY <1>1, <1>2

LEMMA ReserveKeepsInv ==
  ASSUME Inv, NEW s \in Sessions, Reserve(s)
  PROVE  Inv'
<1> DEFINE r == session[s].req
           b == session[s].body
           x == [session[s] EXCEPT !.pc = AfterReserve(b)]
<1>1. WellShaped(session[s]) /\ Checked(session[s]) /\ Apart(s, session[s])
  BY ShapeAsWellShaped
<1>2. b \in Bodies /\ r \in Requests /\ IsMemory(b) /\ UNCHANGED tables /\ session[s].pc = "reserve"
  BY <1>1 DEF Reserve, WellShaped
<1>3. CASE \E c \in changes : c.request = r
  <2>1. AnswerExisting(r, b) /\ session' = [session EXCEPT ![s] = IdleSession]
    BY <1>3 DEF Reserve
  <2>2. receipts' \subseteq [request : Requests, body : Bodies, new : Records \cup {None}]
    BY <1>2, <2>1, AnswerType
  <2> QED
    BY <1>2, <2>1, <2>2, IdleIsFine, OneSessionMoves
<1>4. CASE ~ \E c \in changes : c.request = r
  <2>1. /\ session' = [session EXCEPT ![s] = x] /\ receipts' = receipts
        /\ \A t \in Sessions \ {s} : ~HoldsRequest(t, r)
    BY <1>4 DEF Reserve, Inv, TypeOK
  <2>2. /\ x \in SessionState /\ x.body = b /\ x.held = session[s].held /\ x.req = r
        /\ x.new = session[s].new /\ x.pc \in {"lock_entities", "lock_old"}
        /\ (x.pc = "lock_old" <=> b.old # None)
    BY <1>1 DEF AfterReserve, SessionState, PCs, WellShaped
  <2> HIDE DEF x
  <2>3. WellShaped(x) /\ Checked(x)
    BY <1>2, <1>4, <2>2 DEF WellShaped, Checked, Reserved, Locked, RecordAcceptable
  <2>4. Apart(s, x)
    BY <1>1, <1>2, <2>1, <2>2, NoneAssumption DEF Apart, Reserved, Locked
  <2> QED
    BY <1>2, <2>1, <2>3, <2>4, OneSessionMoves DEF Inv, TypeOK
<1> QED
  BY <1>3, <1>4

LEMMA LockOldKeepsInv ==
  ASSUME Inv, NEW s \in Sessions, LockOld(s)
  PROVE  Inv'
<1> DEFINE b == session[s].body
           x == [session[s] EXCEPT !.pc = "lock_entities"]
<1>1. WellShaped(session[s]) /\ Checked(session[s]) /\ Apart(s, session[s])
  BY ShapeAsWellShaped
<1>2. /\ b \in Bodies /\ UNCHANGED tables /\ receipts' = receipts
      /\ session[s].pc = "lock_old"
      /\ \A t \in Sessions \ {s} : ~HoldsRecord(t, b.old)
  BY <1>1 DEF LockOld, WellShaped
<1>3. CASE RecordAcceptable(b)
  <2>1. session' = [session EXCEPT ![s] = x]
    BY <1>3 DEF LockOld
  <2>2. /\ x \in SessionState /\ x.body = b /\ x.held = session[s].held
        /\ x.req = session[s].req /\ x.new = session[s].new /\ x.pc = "lock_entities"
    BY <1>1 DEF SessionState, PCs, WellShaped
  <2> HIDE DEF x
  <2>3. WellShaped(x) /\ Checked(x)
    BY <1>1, <1>2, <1>3, <2>2 DEF WellShaped, Checked, Reserved, Locked
  <2>4. Apart(s, x)
    BY <1>1, <1>2, <2>2 DEF Apart, Reserved, Locked
  <2> QED
    BY <1>2, <2>1, <2>3, <2>4, OneSessionMoves DEF Inv, TypeOK
<1>4. CASE ~RecordAcceptable(b)
  <2>1. session' = [session EXCEPT ![s] = IdleSession]
    BY <1>4 DEF LockOld
  <2> QED
    BY <1>2, <2>1, IdleIsFine, OneSessionMoves DEF Inv, TypeOK
<1> QED
  BY <1>3, <1>4

LEMMA LockEntityKeepsInv ==
  ASSUME Inv, NEW s \in Sessions, NEW e \in Entities, LockActiveEntity(s, e)
  PROVE  Inv'
<1> DEFINE x == [session[s] EXCEPT !.held = @ \cup {e}]
<1>1. WellShaped(session[s]) /\ Checked(session[s]) /\ Apart(s, session[s])
  BY ShapeAsWellShaped
<1>2. /\ UNCHANGED tables /\ receipts' = receipts /\ session[s].pc = "lock_entities"
      /\ session' = [session EXCEPT ![s] = x]
      /\ \A t \in Sessions \ {s} : ~HoldsEntity(t, e)
  BY DEF LockActiveEntity
<1>3. /\ x \in SessionState /\ x.body = session[s].body /\ x.held = session[s].held \cup {e}
      /\ x.req = session[s].req /\ x.new = session[s].new /\ x.pc = session[s].pc
  BY <1>1 DEF SessionState, WellShaped
<1> HIDE DEF x
<1>4. WellShaped(x) /\ Checked(x)
  BY <1>1, <1>2, <1>3 DEF WellShaped, Checked
<1>5. Apart(s, x)
  BY <1>1, <1>2, <1>3 DEF Apart
<1> QED
  BY <1>2, <1>4, <1>5, OneSessionMoves DEF Inv, TypeOK

LEMMA WriteRecordKeepsInv ==
  ASSUME Inv, NEW s \in Sessions, WriteRecord(s)
  PROVE  Inv'
<1> DEFINE b == session[s].body
           ids == IF Creates(b) THEN Fresh ELSE {None}
<1>1. WellShaped(session[s]) /\ Checked(session[s]) /\ Apart(s, session[s])
  BY ShapeAsWellShaped
<1>2. /\ b \in Bodies /\ UNCHANGED tables /\ receipts' = receipts
      /\ session[s].pc = "lock_entities" /\ LockSet(b) \subseteq session[s].held
  BY <1>1 DEF WriteRecord, WellShaped
<1>3. CASE RecordWritable(b) /\ ids # {}
  <2> DEFINE mid == [session[s] EXCEPT !.pc = "commit"]
  <2>1. PICK n \in ids : session' = [session EXCEPT ![s] = [mid EXCEPT !.new = n]]
    BY <1>3 DEF WriteRecord
  <2> DEFINE x == [mid EXCEPT !.new = n]
  <2>2. /\ n \in Records \cup {None}
        /\ IF Creates(b) THEN n \in Records /\ ~Present(n) ELSE n = None
        /\ n \in Records => \A t \in Sessions : session[t].new # n
    BY <2>1, NoneAssumption DEF Fresh
  <2>3. /\ mid \in SessionState /\ mid.body = b /\ mid.held = session[s].held
        /\ mid.req = session[s].req /\ mid.pc = "commit"
    BY <1>1 DEF SessionState, PCs, WellShaped
  <2> HIDE DEF mid
  <2>4. /\ x \in SessionState /\ x.body = b /\ x.held = session[s].held
        /\ x.req = session[s].req /\ x.new = n /\ x.pc = "commit"
    BY <2>2, <2>3 DEF SessionState
  <2>5. session' = [session EXCEPT ![s] = x]
    BY <2>1
  <2> HIDE DEF x
  <2>6. WellShaped(x)
    BY <1>1, <1>2, <2>4 DEF WellShaped
  <2>7. Checked(x)
    BY <1>1, <1>2, <1>3, <2>2, <2>4 DEF Checked, WriteReady, Reserved, Locked
  <2>8. Apart(s, x)
    BY <1>1, <1>2, <2>2, <2>4 DEF Apart, Reserved, Locked
  <2> QED
    BY <1>2, <2>5, <2>6, <2>7, <2>8, OneSessionMoves DEF Inv, TypeOK
<1>4. CASE ~(RecordWritable(b) /\ ids # {})
  <2>1. session' = [session EXCEPT ![s] = IdleSession]
    BY <1>4 DEF WriteRecord
  <2> QED
    BY <1>2, <2>1, IdleIsFine, OneSessionMoves DEF Inv, TypeOK
<1> QED
  BY <1>3, <1>4

LEMMA AbortKeepsInv ==
  ASSUME Inv, NEW s \in Sessions, Abort(s)
  PROVE  Inv'
BY IdleIsFine, OneSessionMoves DEF Abort, Inv, TypeOK

(* An entity handler changes only an entity no transaction has locked.     *)
LEMMA EntityHandlerKeepsInv ==
  ASSUME Inv, NEW e \in Entities, EntityHandler(e)
  PROVE  Inv'
<1>1. /\ rec' = rec /\ changes' = changes /\ session' = session /\ receipts' = receipts
      /\ entity' \in [Entities -> EntityStatus]
      /\ \A f \in Entities \ {e} : entity'[f] = entity[f]
      /\ \A s \in Sessions : e \notin session[s].held
  BY DEF EntityHandler, EntityUnlocked, HoldsEntity, DeleteEntity, PatchEntity, EntityStatus,
         Inv, TypeOK, TablesOK
<1>2. TypeOK' /\ SessionShape' /\ LocksExclusive'
  BY <1>1 DEF Inv, TypeOK, TablesOK, SessionShape, LocksExclusive, HoldsRequest, HoldsRecord,
              HoldsEntity
<1>3. ASSUME NEW s \in Sessions
      PROVE  Checked(session[s])'
  <2> DEFINE y == session[s]
  <2>1. WellShaped(y) /\ Checked(y) /\ session'[s] = y
    BY <1>1, ShapeAsWellShaped
  <2>2. \A b \in Bodies : b.old # None => (Tracked(b.old)' <=> Tracked(b.old))
    BY <1>1 DEF Tracked
  <2>3. \A b \in Bodies : RecordAcceptable(b)' <=> RecordAcceptable(b)
    BY <1>1, <2>2, FrameAcceptable
  <2>4. \A b \in Bodies : LockSet(b)' = LockSet(b)
    BY <1>1, FrameLockSet
  <2>5. ASSUME y.pc = "commit"
        PROVE  WriteReady(y.body, y.new) /\ LockSet(y.body) \subseteq y.held
               /\ y.body \in Bodies /\ y.new \in Records \cup {None}
    BY <2>1, <2>5 DEF Checked, WellShaped, SessionState
  <2>6. ASSUME y.pc = "commit"
        PROVE  \A f \in LockSet(y.body) : entity'[f] = entity[f]
    BY <1>1, <2>1, <2>5, <2>6 DEF WellShaped, SessionState
  <2>7. \A b \in Bodies, n \in Records \cup {None} :
          (\A f \in LockSet(b) : entity'[f] = entity[f]) /\ WriteReady(b, n) => WriteReady(b, n)'
    BY <1>1, FrameReady
  <2> QED
    BY <1>1, <2>1, <2>3, <2>4, <2>5, <2>6, <2>7 DEF Checked, WellShaped, Reserved, Locked
<1> QED
  BY <1>2, <1>3, ChecksAsChecked DEF Inv

(* The commit of a handler is a step of the ledger.                        *)
LEMMA CommitIsLedgerStep ==
  ASSUME Inv, NEW s \in Sessions, Commit(s)
  PROVE  LedgerNext
<1> DEFINE b == session[s].body
           n == session[s].new
           r == session[s].req
<1>1. WellShaped(session[s]) /\ Checked(session[s]) /\ session[s].pc = "commit"
  BY ShapeAsWellShaped DEF Commit
<1>2. /\ b \in Bodies /\ n \in Records \cup {None}
      /\ WriteReady(b, n)
      /\ IsMemory(b) => r \in Requests /\ \A c \in changes : c.request # r
  BY <1>1 DEF WellShaped, Checked, SessionState, Reserved
<1>3. CASE IsMemory(b)
  <2>1. Apply(r, b, n)
    BY <1>2, <1>3 DEF Apply, Commit, Receipt
  <2> QED
    BY <1>2, <1>3, <2>1 DEF LedgerNext
<1>4. CASE ~IsMemory(b)
  <2>1. ApplyLegacy(b, n)
    BY <1>2, <1>4 DEF ApplyLegacy, Commit
  <2> QED
    BY <1>2, <2>1 DEF LedgerNext
<1> QED
  BY <1>3, <1>4

LEMMA CommitKeepsInv ==
  ASSUME Inv, NEW s \in Sessions, Commit(s)
  PROVE  Inv'
<1> DEFINE b2 == session[s].body
           n2 == session[s].new
           r2 == session[s].req
<1>1. WellShaped(session[s]) /\ Checked(session[s]) /\ session[s].pc = "commit"
      /\ Apart(s, session[s])
  BY ShapeAsWellShaped DEF Commit
<1>2. /\ b2 \in Bodies /\ n2 \in Records \cup {None}
      /\ WriteReady(b2, n2) /\ LockSet(b2) \subseteq session[s].held
      /\ rec' = Written(b2, n2) /\ entity' = entity
      /\ IsMemory(b2) => /\ r2 \in Requests
                         /\ changes' = changes \cup {Receipt(r2, b2, n2)}
      /\ ~IsMemory(b2) => changes' = changes
  BY <1>1 DEF WellShaped, Checked, SessionState, Reserved, Commit
<1>3. session' = [session EXCEPT ![s] = IdleSession]
  BY DEF Commit
<1>4. TablesOK'
  <2>1. rec' \in [Records -> Row]
    BY <1>2, WrittenShape DEF Inv, TypeOK
  <2>2. changes' \subseteq [request : Requests, body : Bodies, new : Records \cup {None}]
    BY <1>2 DEF Inv, TypeOK, TablesOK, Receipt
  <2> QED
    BY <1>2, <2>1, <2>2 DEF Inv, TypeOK, TablesOK
<1>5. receipts' \subseteq [request : Requests, body : Bodies, new : Records \cup {None}]
  <2>1. CASE IsMemory(b2)
    BY <1>2, <2>1 DEF Commit, Inv, TypeOK, Receipt
  <2>2. CASE ~IsMemory(b2)
    BY <2>2 DEF Commit, Inv, TypeOK
  <2> QED
    BY <2>1, <2>2
<1>6. session' \in [Sessions -> SessionState] /\ session'[s] = IdleSession
      /\ \A t \in Sessions \ {s} : session'[t] = session[t]
  BY <1>3, IdleIsFine DEF Inv, TypeOK, WellShaped
<1>7. TypeOK' /\ SessionShape'
  BY <1>4, <1>5, <1>6 DEF Inv, TypeOK, SessionShape, IdleSession
<1>8. LocksExclusive'
  BY <1>6, NoneAssumption DEF Inv, LocksExclusive, HoldsRequest, HoldsRecord, HoldsEntity, IdleSession
<1>9. \A q \in Records : q # b2.old /\ q # n2 => (Tracked(q)' <=> Tracked(q))
  BY <1>2 DEF Tracked, Receipt
<1>10. ASSUME NEW t \in Sessions \ {s}
       PROVE  Checked(session[t])'
  <2> DEFINE y == session[t]
  <2>1. WellShaped(y) /\ Checked(y) /\ session'[t] = y
    BY <1>6, ShapeAsWellShaped
  <2>2. \A r \in Requests : y.req = r /\ y.pc \in Reserved => \A c \in changes' : c.request # r
    <3>1. \A r \in Requests : y.req = r /\ y.pc \in Reserved => r # r2
      BY <1>1 DEF Apart, HoldsRequest, Reserved
    <3> QED
      BY <1>2, <2>1, <3>1 DEF Checked, Receipt
  <2>3. ASSUME y.pc \in Locked
        PROVE  /\ y.body \in Bodies /\ RecordAcceptable(y.body)
               /\ y.body.old # None => y.body.old # b2.old
    <3>1. y.body \in Bodies /\ RecordAcceptable(y.body)
      BY <2>1, <2>3 DEF WellShaped, Checked, Locked
    <3>2. y.body.old # None => y.body.old \in Records
      BY <3>1, BodyShape DEF Body
    <3> QED
      BY <1>1, <2>3, <3>1, <3>2 DEF Apart, HoldsRecord, Locked
  <2>4. y.pc \in Locked => RecordAcceptable(y.body)' /\ LockSet(y.body)' = LockSet(y.body)
    <3>1. \A b \in Bodies : RecordAcceptable(b) /\ (b.old # None => b.old # b2.old)
            => RecordAcceptable(b)' /\ LockSet(b)' = LockSet(b)
      BY <1>2, <1>9, FrameCommit DEF Inv, TypeOK
    <3> QED
      BY <2>1, <2>3, <3>1
  <2>5. ASSUME y.pc = "commit"
        PROVE  WriteReady(y.body, y.new)'
    <3>1. /\ y.new \in Records \cup {None} /\ WriteReady(y.body, y.new)
          /\ LockSet(y.body) \subseteq y.held
      BY <2>1, <2>5 DEF WellShaped, Checked, SessionState
    <3>2. y.held \cap session[s].held = {}
      BY <1>1, <2>1 DEF Apart, HoldsEntity, WellShaped, SessionState
    <3>3. y.new # None => y.new # n2
      BY <1>1, <3>1 DEF Apart
    <3>4. \A b \in Bodies, n \in Records \cup {None} :
            /\ RecordAcceptable(b) /\ (b.old # None => b.old # b2.old)
            /\ WriteReady(b, n) /\ LockSet(b) \cap LockSet(b2) = {} /\ (n # None => n # n2)
            => WriteReady(b, n)'
      BY <1>2, <1>9, FrameCommit DEF Inv, TypeOK
    <3>5. LockSet(y.body) \cap LockSet(b2) = {}
      BY <1>2, <3>1, <3>2
    <3> QED
      BY <2>1, <2>3, <2>5, <3>1, <3>3, <3>4, <3>5 DEF Locked
  <2> QED
    BY <2>1, <2>2, <2>4, <2>5 DEF Checked, Locked
<1>11. Checked(session[s])'
  BY <1>6 DEF Checked, IdleSession, Reserved, Locked
<1> QED
  BY <1>7, <1>8, <1>10, <1>11, ChecksAsChecked DEF Inv

-----------------------------------------------------------------------------
LEMMA InitInv == Init => Inv
<1> SUFFICES ASSUME Init PROVE Inv
  OBVIOUS
<1>1. LedgerInv
  BY LedgerInitInv DEF Init
<1>2. session \in [Sessions -> SessionState]
      /\ \A s \in Sessions : session[s] = IdleSession
  BY DEF Init, IdleSession, SessionState, PCs
<1>3. TypeOK /\ SessionShape /\ LocksExclusive
  BY <1>1, <1>2, NoneAssumption
     DEF Init, LedgerInv, TypeOK, SessionShape, LocksExclusive, HoldsRequest, HoldsRecord,
         HoldsEntity, IdleSession
<1>4. ChecksStillHold
  BY <1>2 DEF ChecksStillHold, HoldsRequest, IdleSession
<1> QED
  BY <1>3, <1>4 DEF Inv

LEMMA NextInv ==
  ASSUME Inv, [Next]_vars
  PROVE  Inv'
<1>1. ASSUME NEW s \in Sessions, NEW b \in Bodies,
             (\E r \in Requests : Receive(s, r, b)) \/ ReceiveLegacy(s, b)
      PROVE  Inv'
  BY <1>1, ReceiveKeepsInv
<1>2. ASSUME NEW s \in Sessions, Advance(s)
      PROVE  Inv'
  BY <1>2, ReserveKeepsInv, LockOldKeepsInv, LockEntityKeepsInv, WriteRecordKeepsInv,
     CommitKeepsInv DEF Advance
<1>3. ASSUME NEW s \in Sessions, Abort(s)
      PROVE  Inv'
  BY <1>3, AbortKeepsInv
<1>4. ASSUME NEW e \in Entities, EntityHandler(e)
      PROVE  Inv'
  BY <1>4, EntityHandlerKeepsInv
<1>5. CASE UNCHANGED vars
  <2>1. rec' = rec /\ entity' = entity /\ changes' = changes /\ session' = session
        /\ receipts' = receipts
    BY <1>5 DEF vars
  <2>2. TypeOK' /\ SessionShape' /\ LocksExclusive'
    BY <2>1 DEF Inv, TypeOK, TablesOK, SessionShape, LocksExclusive, HoldsRequest, HoldsRecord,
                HoldsEntity
  <2>3. \A b \in Bodies, n \in Records \cup {None} :
          /\ RecordAcceptable(b)' <=> RecordAcceptable(b)
          /\ LockSet(b)' = LockSet(b)
          /\ WriteReady(b, n) => WriteReady(b, n)'
    BY <2>1, FrameReady
  <2>4. ASSUME NEW s \in Sessions
        PROVE  Checked(session[s])'
    BY <2>1, <2>3, ShapeAsWellShaped DEF Checked, WellShaped, SessionState, Reserved, Locked
  <2> QED
    BY <2>2, <2>4, ChecksAsChecked DEF Inv
<1> QED
  BY <1>1, <1>2, <1>3, <1>4, <1>5 DEF Next

(* Every lock has one holder, and what a handler checked under its locks   *)
(* is still true when it commits.                                          *)
THEOREM InvHolds == Spec => []Inv
BY InitInv, NextInv, PTL DEF Spec

(* Type correctness of the handlers. *)
THEOREM TypeCorrect == Spec => []TypeOK
<1>1. Inv => TypeOK
  BY DEF Inv
<1> QED
  BY <1>1, InvHolds, PTL

(* The checks of MemoryService.write cannot be invalidated before commit.  *)
THEOREM ChecksHold == Spec => []ChecksStillHold
<1>1. Inv => ChecksStillHold
  BY DEF Inv
<1> QED
  BY <1>1, InvHolds, PTL

(* The partial unique index on current assessments never has to refuse an  *)
(* insert: two of them would both hold the lock of self.                   *)
THEOREM AxisSlots == Spec => []AxisSlotExclusive
<1>1. Inv => AxisSlotExclusive
  <2> SUFFICES ASSUME Inv, NEW s \in Sessions, NEW t \in Sessions, s # t,
                      session[s].pc = "commit", session[t].pc = "commit",
                      session[s].body.axis # None,
                      session[s].body.axis = session[t].body.axis
               PROVE  FALSE
    BY DEF AxisSlotExclusive
  <2>1. ASSUME NEW u \in Sessions, session[u].pc = "commit", session[u].body.axis # None
        PROVE  Self \in session[u].held
    <3>1. session[u].body \in Bodies /\ LockSet(session[u].body) \subseteq session[u].held
      BY <2>1 DEF Inv, TypeOK, ChecksStillHold
    <3>2. Self \in LockSet(session[u].body)
      BY <2>1, <3>1, BodyShape DEF LockSet, Creates
    <3> QED
      BY <3>1, <3>2
  <2> QED
    BY <2>1, EntitiesAssumption DEF Inv, LocksExclusive, HoldsEntity
<1> QED
  BY <1>1, InvHolds, PTL

(* What a client was told is in the table: no receipt is handed out before *)
(* the commit, and a replay returns the original one.                      *)
THEOREM ReceiptsAreTruthful == Spec => []ReceiptsTruthful
<1>1. Init => ReceiptsTruthful
  BY DEF Init, ReceiptsTruthful
<1>2. ASSUME Inv, ReceiptsTruthful, [Next]_vars
      PROVE  ReceiptsTruthful'
  <2>1. ASSUME NEW r \in Requests, NEW b \in Bodies, AnswerExisting(r, b), changes' = changes
        PROVE  ReceiptsTruthful'
    <3>1. PICK c \in changes : c.request = r
                 /\ receipts' = IF SameContent(c, b)
                                  THEN receipts \cup {Receipt(r, b, c.new)} ELSE receipts
      BY <2>1 DEF AnswerExisting
    <3>2. c = [request |-> c.request, body |-> c.body, new |-> c.new]
      BY <1>2 DEF Inv, TypeOK, TablesOK
    <3> QED
      BY <1>2, <2>1, <3>1, <3>2 DEF ReceiptsTruthful, SameContent, Receipt
  <2>2. ASSUME receipts' = receipts, changes' = changes
        PROVE  ReceiptsTruthful'
    BY <1>2, <2>2 DEF ReceiptsTruthful
  <2>3. ASSUME NEW s \in Sessions, NEW r \in Requests, NEW b \in Bodies, Receive(s, r, b)
        PROVE  ReceiptsTruthful'
    BY <2>1, <2>2, <2>3 DEF Receive, tables
  <2>4. ASSUME NEW s \in Sessions, Reserve(s)
        PROVE  ReceiptsTruthful'
    <3>1. session[s].req \in Requests /\ session[s].body \in Bodies
      BY <1>2, <2>4 DEF Reserve, Inv, SessionShape
    <3> QED
      BY <2>1, <2>2, <2>4, <3>1 DEF Reserve, tables
  <2>5. ASSUME NEW s \in Sessions, Commit(s)
        PROVE  ReceiptsTruthful'
    BY <1>2, <2>5 DEF Commit, ReceiptsTruthful
  <2>6. ASSUME NEW s \in Sessions,
               \/ \E b \in Bodies : ReceiveLegacy(s, b)
               \/ LockOld(s) \/ WriteRecord(s) \/ Abort(s)
               \/ \E e \in Entities : LockActiveEntity(s, e)
        PROVE  ReceiptsTruthful'
    BY <2>2, <2>6 DEF ReceiveLegacy, LockOld, WriteRecord, Abort, LockActiveEntity, tables
  <2>7. ASSUME NEW e \in Entities, EntityHandler(e)
        PROVE  ReceiptsTruthful'
    BY <2>2, <2>7 DEF EntityHandler, DeleteEntity, PatchEntity
  <2>8. CASE UNCHANGED vars
    BY <2>2, <2>8 DEF vars
  <2> QED
    BY <1>2, <2>3, <2>4, <2>5, <2>6, <2>7, <2>8 DEF Next, Advance
<1> QED
  BY <1>1, <1>2, InvHolds, PTL DEF Spec

-----------------------------------------------------------------------------
(* The handlers implement the abstract ledger: with its sessions, locks,   *)
(* rollbacks, resent requests and lost replies, the API behaves as if      *)
(* every accepted write took effect alone and at once.                     *)
THEOREM Refinement == Spec => ImplementsLedger
<1>1. Init => LedgerInit
  BY DEF Init
<1>2. Inv /\ [Next]_vars => [LedgerNext]_tables
  <2> SUFFICES ASSUME Inv, [Next]_vars PROVE [LedgerNext]_tables
    OBVIOUS
  <2>1. ASSUME NEW s \in Sessions, NEW b \in Bodies,
               (\E r \in Requests : Receive(s, r, b)) \/ ReceiveLegacy(s, b)
        PROVE  UNCHANGED tables
    BY <2>1 DEF Receive, ReceiveLegacy
  <2>2. ASSUME NEW s \in Sessions, Advance(s)
        PROVE  LedgerNext \/ UNCHANGED tables
    BY <2>2, CommitIsLedgerStep DEF Advance, Reserve, LockOld, LockActiveEntity, WriteRecord
  <2>3. ASSUME NEW s \in Sessions, Abort(s)
        PROVE  UNCHANGED tables
    BY <2>3 DEF Abort
  <2>4. ASSUME NEW e \in Entities, EntityHandler(e)
        PROVE  LedgerNext
    BY <2>4 DEF EntityHandler, LedgerNext
  <2>5. CASE UNCHANGED vars
    BY <2>5 DEF vars, tables
  <2> QED
    BY <2>1, <2>2, <2>3, <2>4, <2>5 DEF Next
<1> QED
  BY <1>1, <1>2, InvHolds, PTL DEF Spec, ImplementsLedger, Ledger

(* Hence, of the running handlers: a request is applied at most once ...   *)
THEOREM AppliedAtMostOnce == Spec => []UniqueRequest
<1>1. LedgerInv => UniqueRequest
  BY DEF LedgerInv
<1> QED
  BY <1>1, Refinement, LedgerInvariant, PTL DEF ImplementsLedger

(* ... the revisions of a memory form a chain ...                          *)
THEOREM HistoryIsLinear == Spec => []LinearHistory
<1>1. LedgerInv => LinearHistory
  BY DEF LedgerInv
<1> QED
  BY <1>1, Refinement, LedgerInvariant, PTL DEF ImplementsLedger

(* ... a person has one current assessment per axis ...                    *)
THEOREM OneAssessmentPerAxis == Spec => []OneCurrentPerAxis
<1>1. LedgerInv => OneCurrentPerAxis
  BY DEF LedgerInv
<1> QED
  BY <1>1, Refinement, LedgerInvariant, PTL DEF ImplementsLedger

(* ... neither API overwrites a tracked revision ...                       *)
THEOREM TrackedRevisionsFrozen == Spec => HistoryFrozen
BY Refinement, LedgerHistoryFrozen DEF ImplementsLedger

(* ... and a caller never replaces a revision it has not read.             *)
THEOREM UpdatesNotLost == Spec => NoLostUpdate
BY Refinement, LedgerNoLostUpdate DEF ImplementsLedger

(* A row appears only while the entities it is about are active, although  *)
(* they can be deleted or merged at any other moment.                      *)
THEOREM RowsAboutActiveEntities == Spec => NewRowsAboutActive
BY Refinement, LedgerNewRowsAboutActive DEF ImplementsLedger

-----------------------------------------------------------------------------
(* No wait cycle. A handler that is still taking entity locks holds only    *)
(* entities below the next one it asks for, and only finitely many handlers *)
(* are running, whatever number of workers there is.                        *)
AscendingLocks ==
  \A s \in Sessions :
    /\ session[s].pc \notin Locked => session[s].held = {}
    /\ session[s].pc = "lock_entities" =>
         \A e \in session[s].held, f \in LockSet(session[s].body) \ session[s].held : e < f

Running == {s \in Sessions : session[s].pc # "idle"}

LockOrder == AscendingLocks /\ IsFiniteSet(Running)

(* What a handler locks are entities.                                       *)
LEMMA LockSetEntities ==
  ASSUME TypeOK, NEW s \in Sessions, session[s].pc = "lock_entities", Inv
  PROVE  LockSet(session[s].body) \subseteq Entities
<1> DEFINE b == session[s].body
<1>1. b \in Bodies /\ RecordAcceptable(b)
  BY DEF TypeOK, Inv, ChecksStillHold
<1>2. b \in Body /\ (b.old = None <=> b.action \in {"create", "legacy_create"})
  BY <1>1, BodyShape
<1>3. ASSUME NEW row, row.target \in Targets, row.related \in SUBSET Entities
      PROVE  EntitiesOf(row) \subseteq Entities
  BY <1>3 DEF EntitiesOf, Targets
<1>4. CASE Creates(b)
  <2>1. EntitiesOf(b) \subseteq Entities
    BY <1>2, <1>3 DEF Body
  <2> QED
    BY <1>4, <2>1, EntitiesAssumption DEF LockSet, Creates
<1>5. CASE ~Creates(b) /\ b.action = "legacy_patch"
  <2>1. b.old \in Records /\ rec[b.old] \in Row
    BY <1>2, <1>5 DEF Body, TypeOK, TablesOK
  <2>2. EntitiesOf(rec[b.old]) \subseteq Entities
    BY <1>3, <2>1 DEF Row
  <2> QED
    BY <1>5, <2>2 DEF LockSet
<1>6. CASE ~Creates(b) /\ b.action # "legacy_patch"
  BY <1>6 DEF LockSet
<1> QED
  BY <1>4, <1>5, <1>6

(* Nobody else changes what a handler that holds its old record will lock.  *)
LEMMA LockSetStable ==
  ASSUME Inv, [Next]_vars, NEW t \in Sessions, session[t].pc = "lock_entities",
         session'[t] = session[t]
  PROVE  LockSet(session[t].body)' = LockSet(session[t].body)
<1> DEFINE b == session[t].body
<1>1. b \in Bodies /\ RecordAcceptable(b)
  BY DEF Inv, TypeOK, ChecksStillHold
<1>2. ASSUME rec' = rec PROVE LockSet(b)' = LockSet(b)
  <2>1. \A d \in Bodies : LockSet(d)' = LockSet(d)
    BY <1>2, FrameLockSet
  <2> QED
    BY <1>1, <2>1
<1>3. ASSUME NEW s \in Sessions, Commit(s)
      PROVE  LockSet(b)' = LockSet(b)
  <2> DEFINE b2 == session[s].body
             n2 == session[s].new
  <2>1. s # t
    BY <1>3 DEF Commit
  <2>2. /\ b2 \in Bodies /\ n2 \in Records \cup {None} /\ WriteReady(b2, n2)
        /\ rec' = Written(b2, n2)
    BY <1>3, ShapeAsWellShaped DEF Commit, Checked, WellShaped, SessionState
  <2>3. ASSUME b.old # None PROVE rec'[b.old] = rec[b.old]
    <3>1. b.old \in Records /\ b.old # n2
      BY <1>1, <2>2, <2>3, AcceptableShape, NoneAssumption DEF WriteReady
    <3>2. b.old # b2.old
      BY <1>3, <2>1, <3>1 DEF Inv, LocksExclusive, HoldsRecord, Commit
    <3> QED
      BY <2>2, <3>1, <3>2, WrittenShape DEF Inv, TypeOK
  <2>4. \A d \in Bodies : (d.old # None => rec'[d.old] = rec[d.old]) => LockSet(d)' = LockSet(d)
    BY FrameLockSet
  <2> QED
    BY <1>1, <2>3, <2>4
<1>4. CASE \E s \in Sessions : Commit(s)
  BY <1>3, <1>4
<1>5. CASE ~ \E s \in Sessions : Commit(s)
  <2>1. rec' = rec
    BY <1>5 DEF Next, Receive, ReceiveLegacy, Advance, Reserve, LockOld, LockActiveEntity,
                WriteRecord, Abort, EntityHandler, DeleteEntity, PatchEntity, tables, vars
  <2> QED
    BY <1>2, <2>1
<1> QED
  BY <1>4, <1>5

(* The state of the one handler that moves is all there is to look at.      *)
LEMMA OrderAfterMove ==
  ASSUME Inv, LockOrder, [Next]_vars, NEW s \in Sessions, NEW x,
         session' = [session EXCEPT ![s] = x],
         x.pc \notin Locked => x.held = {},
         x.pc = "lock_entities" =>
           \A e \in x.held, f \in LockSet(x.body)' \ x.held : e < f
  PROVE  LockOrder'
<1>1. session'[s] = x /\ \A t \in Sessions \ {s} : session'[t] = session[t]
  BY DEF Inv, TypeOK
<1>2. AscendingLocks'
  <2>1. ASSUME NEW t \in Sessions, t # s, session[t].pc = "lock_entities"
        PROVE  LockSet(session[t].body)' = LockSet(session[t].body)
    BY <1>1, <2>1, LockSetStable
  <2>2. ASSUME NEW t \in Sessions, t # s
        PROVE  /\ session'[t].pc \notin Locked => session'[t].held = {}
               /\ session'[t].pc = "lock_entities" =>
                    \A e \in session'[t].held,
                       f \in LockSet(session[t].body)' \ session'[t].held : e < f
    BY <1>1, <2>1, <2>2 DEF LockOrder, AscendingLocks
  <2>3. LockSet(session[s].body)' = LockSet(x.body)'
    BY <1>1 DEF LockSet, EntitiesOf, Creates
  <2> QED
    BY <1>1, <2>2, <2>3 DEF AscendingLocks
<1>3. IsFiniteSet(Running)'
  <2>1. IsFiniteSet(Running \cup {s})
    BY FS_AddElement DEF LockOrder
  <2>2. Running' \subseteq Running \cup {s}
    BY <1>1 DEF Running
  <2> QED
    BY <2>1, <2>2, FS_Subset
<1> QED
  BY <1>2, <1>3 DEF LockOrder

(* Every step keeps the order of the locks.                                 *)
LEMMA LockOrderStep ==
  ASSUME Inv, LockOrder, [Next]_vars
  PROVE  LockOrder'
<1>1. ASSUME session' = session PROVE LockOrder'
  <2>1. \A t \in Sessions : session[t].pc = "lock_entities" =>
          LockSet(session[t].body)' = LockSet(session[t].body)
    BY <1>1, LockSetStable
  <2> QED
    BY <1>1, <2>1 DEF LockOrder, AscendingLocks, Running
<1>2. ASSUME NEW s \in Sessions, session' = [session EXCEPT ![s] = IdleSession]
      PROVE  LockOrder'
  BY <1>2, OrderAfterMove DEF IdleSession, Locked
<1>3. ASSUME NEW s \in Sessions, NEW r, NEW b, NEW pc,
             session' = [session EXCEPT ![s] = Begin(r, b, pc)]
      PROVE  LockOrder'
  BY <1>3, OrderAfterMove DEF Begin
<1>4. ASSUME NEW s \in Sessions, NEW pc \in PCs, session[s].pc \in {"reserve", "lock_old"},
             session' = [session EXCEPT ![s].pc = pc]
      PROVE  LockOrder'
  <2> DEFINE x == [session[s] EXCEPT !.pc = pc]
  <2>1. x.held = {}
    BY <1>4 DEF LockOrder, AscendingLocks, Locked, Inv, TypeOK, SessionState
  <2>2. session' = [session EXCEPT ![s] = x]
    BY <1>4
  <2> HIDE DEF x
  <2> QED
    BY <2>1, <2>2, OrderAfterMove
<1>5. ASSUME NEW s \in Sessions, NEW e \in Entities, LockActiveEntity(s, e)
      PROVE  LockOrder'
  <2> DEFINE all == LockSet(session[s].body)
  <2> PICK x : x = [session[s] EXCEPT !.held = @ \cup {e}]
    OBVIOUS
  <2>1. /\ session[s] \in SessionState /\ session[s].pc = "lock_entities"
        /\ session' = [session EXCEPT ![s] = x]
        /\ e \in all \ session[s].held /\ \A f \in all \ session[s].held : e <= f
        /\ rec' = rec
    BY <1>5 DEF LockActiveEntity, NextLock, Inv, TypeOK, tables
  <2>2. x.pc = "lock_entities" /\ x.body = session[s].body /\ x.held = session[s].held \cup {e}
    BY <2>1 DEF SessionState
  <2>3. all \subseteq Nat
    BY <2>1, LockSetEntities, EntitiesAssumption DEF Inv
  <2>4. \A g \in session[s].held, f \in all \ session[s].held : g < f
    BY <2>1 DEF LockOrder, AscendingLocks
  <2>5. LockSet(x.body)' = all
    BY <2>1, <2>2 DEF LockSet, EntitiesOf, Creates, Inv, TypeOK
  <2> HIDE DEF all
  <2>6. \A g \in x.held, f \in all \ x.held : g < f
    BY <2>1, <2>2, <2>3, <2>4
  <2> QED
    BY <2>1, <2>2, <2>5, <2>6, OrderAfterMove DEF Locked
<1>6. ASSUME NEW s \in Sessions, WriteRecord(s), session' # [session EXCEPT ![s] = IdleSession]
      PROVE  LockOrder'
  <2>1. PICK n : session' = [session EXCEPT ![s] =
                               [[session[s] EXCEPT !.pc = "commit"] EXCEPT !.new = n]]
    BY <1>6 DEF WriteRecord
  <2>2. [[session[s] EXCEPT !.pc = "commit"] EXCEPT !.new = n].pc = "commit"
    BY DEF Inv, TypeOK, SessionState
  <2> QED
    BY <2>1, <2>2, OrderAfterMove DEF Locked
<1>7. ASSUME NEW s \in Sessions, Advance(s)
      PROVE  LockOrder'
  <2>1. CASE Reserve(s)
    <3>1. AfterReserve(session[s].body) \in PCs
      BY DEF AfterReserve, PCs
    <3> QED
      BY <1>2, <1>4, <2>1, <3>1 DEF Reserve
  <2>2. CASE LockOld(s)
    <3>1. \/ session' = [session EXCEPT ![s] = IdleSession]
          \/ session' = [session EXCEPT ![s].pc = "lock_entities"]
      BY <2>2 DEF LockOld
    <3> QED
      BY <1>2, <1>4, <2>2, <3>1 DEF LockOld, PCs
  <2> QED
    BY <1>2, <1>5, <1>6, <1>7, <2>1, <2>2 DEF Advance, Commit
<1>8. ASSUME NEW s \in Sessions, NEW b \in Bodies,
             (\E r \in Requests : Receive(s, r, b)) \/ ReceiveLegacy(s, b)
      PROVE  LockOrder'
  BY <1>1, <1>3, <1>8 DEF Receive, ReceiveLegacy
<1>9. ASSUME NEW s \in Sessions, Abort(s)
      PROVE  LockOrder'
  BY <1>2, <1>9 DEF Abort
<1>10. CASE (\E e \in Entities : EntityHandler(e)) \/ UNCHANGED vars
  BY <1>1, <1>10 DEF EntityHandler, vars
<1> QED
  BY <1>7, <1>8, <1>9, <1>10 DEF Next

(* A finite set has an element where a numeric function is largest.         *)
LEMMA LargestValue ==
  ASSUME NEW L, L # {}, IsFiniteSet(L), NEW h \in [L -> Int]
  PROVE  \E s \in L : \A t \in L : h[t] <= h[s]
<1> DEFINE Above(s) == {t \in L : h[s] < h[t]}
           Sizes == {Cardinality(Above(s)) : s \in L}
<1>1. \A s \in L : IsFiniteSet(Above(s)) /\ Cardinality(Above(s)) \in Nat
  BY FS_Subset, FS_CardinalityType
<1>2. Sizes \subseteq Nat /\ Sizes # {}
  BY <1>1
<1>3. PICK m \in Sizes : \A k \in Sizes : ~(<<k, m>> \in OpToRel(<, Nat))
  BY <1>2, NatLessThanWellFounded, WFMin, Zenon
<1>4. PICK s \in L : m = Cardinality(Above(s))
  OBVIOUS
<1>5. ASSUME NEW t \in L, h[s] < h[t] PROVE FALSE
  <2>1. Above(t) \subseteq Above(s) /\ t \in Above(s) /\ t \notin Above(t)
    BY <1>5
  <2>2. Cardinality(Above(t)) \in Sizes
    OBVIOUS
  <2>3. Cardinality(Above(t)) < Cardinality(Above(s))
    <3> HIDE DEF Above, Sizes
    <3>1. /\ Cardinality(Above(t)) <= Cardinality(Above(s))
          /\ Cardinality(Above(t)) # Cardinality(Above(s))
      BY <1>1, <2>1, FS_Subset
    <3> QED
      BY <1>1, <3>1
  <2> QED
    BY <1>1, <1>2, <1>3, <1>4, <2>2, <2>3 DEF OpToRel
<1> QED
  BY <1>5

(* Handlers never deadlock: whoever waits waits for one that is further on, *)
(* and among those that take entity locks for one that holds a larger one.  *)
THEOREM HandlersDoNotDeadlock == Spec => []NoWaitCycle
<1>1. Init => LockOrder
  <2> SUFFICES ASSUME Init PROVE LockOrder
    OBVIOUS
  <2>1. \A s \in Sessions : session[s] = IdleSession
    BY DEF Init
  <2>2. Running = {}
    BY <2>1 DEF Running, IdleSession
  <2> QED
    BY <2>1, <2>2, FS_EmptySet DEF LockOrder, AscendingLocks, IdleSession
<1>2. Inv /\ LockOrder /\ [Next]_vars => LockOrder'
  BY LockOrderStep
<1>3. Inv /\ LockOrder => NoWaitCycle
  <2> SUFFICES ASSUME Inv, LockOrder, NEW S \in (SUBSET Sessions) \ {{}},
                      \A s \in S : WaitsFor(s) \cap S # {}
               PROVE  FALSE
    BY DEF NoWaitCycle
  <2> DEFINE L == {s \in S : session[s].pc = "lock_entities"}
  <2>1. ASSUME NEW s \in S, session[s].pc # "lock_entities"
        PROVE  L # {}
    <3>1. ASSUME NEW t \in S, session[t].pc = "lock_old" PROVE L # {}
      BY <3>1 DEF WaitsFor, HoldsRecord
    <3>2. CASE session[s].pc = "reserve"
      BY <3>1, <3>2 DEF WaitsFor, HoldsRequest
    <3> QED
      BY <2>1, <3>1, <3>2 DEF WaitsFor
  <2>2. L # {}
    <3> SUFFICES ASSUME L = {} PROVE FALSE
      OBVIOUS
    <3> QED
      BY <2>1
  <2>3. IsFiniteSet(L)
    <3>1. L \subseteq Running
      BY DEF Running
    <3> QED
      BY <3>1, FS_Subset DEF LockOrder
  <2>4. ASSUME NEW s \in L
        PROVE  \E e \in Int : NextLock(s, e) /\ \E t \in L : e \in session[t].held
    <3>1. PICK t \in S, e \in Entities : NextLock(s, e) /\ e \in session[t].held
      BY DEF WaitsFor, HoldsEntity
    <3>2. session[t].pc \in Locked
      BY <3>1 DEF LockOrder, AscendingLocks
    <3>3. session[t].pc = "lock_entities"
      BY <3>2 DEF Locked, WaitsFor
    <3>4. e \in Int
      BY EntitiesAssumption
    <3> QED
      BY <3>1, <3>3, <3>4
  <2> DEFINE Wants(s, e) == NextLock(s, e) /\ \E t \in L : e \in session[t].held
  <2>5. \E wanted \in [L -> Int] : \A s \in L : Wants(s, wanted[s])
    <3>1. \A s \in L : \E e \in Int : Wants(s, e)
      BY <2>4
    <3> HIDE DEF Wants, L
    <3> DEFINE w == [s \in L |-> CHOOSE e \in Int : Wants(s, e)]
    <3>2. w \in [L -> Int] /\ \A s \in L : Wants(s, w[s])
      BY ONLY <3>1
    <3> QED
      BY <3>2
  <2> HIDE DEF L
  <2> PICK wanted \in [L -> Int] : \A s \in L : Wants(s, wanted[s])
    BY <2>5
  <2>6. PICK s \in L : \A t \in L : wanted[t] <= wanted[s]
    BY <2>2, <2>3, LargestValue
  <2>7. PICK t \in L : wanted[s] \in session[t].held
    BY <2>5
  <2>8. session[t].pc = "lock_entities" /\ t \in Sessions
    BY DEF L
  <2>9. wanted[s] < wanted[t]
    BY <2>5, <2>7, <2>8 DEF LockOrder, AscendingLocks, NextLock
  <2> QED
    BY <2>5, <2>6, <2>9
<1> QED
  BY <1>1, <1>2, <1>3, InvHolds, PTL DEF Spec

=============================================================================
