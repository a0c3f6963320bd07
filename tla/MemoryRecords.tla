--------------------------- MODULE MemoryRecords ---------------------------
(***************************************************************************)
(* The committed tables behind the memory API and the compatibility CRUD   *)
(* API, and what the two APIs require of a write.                          *)
(*                                                                         *)
(* A row of entity_facts, entity_edges or observations is one "record".    *)
(* Its content, confidence and timestamps are abstracted away; its kind,   *)
(* the entities it is about, its relationship axis (when it is an          *)
(* assessment), its status and its revision (updated_at) are kept, because *)
(* every guard of the write path reads only those.                         *)
(***************************************************************************)
EXTENDS Integers, FiniteSets

CONSTANTS
  Records,    \* identities a row may take (uuids of the three tables)
  Entities,   \* entity identifiers; numbers, because locks are sorted by id
  Self,       \* the protected self entity
  Axes,       \* relationship axes of the assessment profile
  Requests,   \* request identifiers that memory clients send
  Bodies,     \* the request bodies that clients may send
  None,       \* absence of a reference, a revision, an axis
  MaxRev      \* bound: the compatibility API does not touch a row beyond it

VARIABLES
  rec,        \* [Records -> Row]: the three record tables
  entity,     \* [Entities -> EntityStatus]: the status column of entities
  changes     \* the rows of memory_changes

tables == <<rec, entity, changes>>

Kinds == {"entity_facts", "entity_edges", "observations"}
EntityStatus == {"active", "merged", "deleted"}
RecordStatus == {"active", "deprecated", "disputed", "superseded", "deleted"}
MemoryActions == {"create", "correct", "retract", "reattribute"}
LegacyActions == {"legacy_create", "legacy_patch", "legacy_delete"}

(* The entities a record is about: one, or the two ends of an edge. *)
Targets == {<<e>> : e \in Entities} \cup (Entities \X Entities)

Row == [status  : RecordStatus \cup {"absent"},
        kind    : Kinds,
        target  : Targets,
        axis    : Axes \cup {None},
        related : SUBSET Entities,
        rev     : Nat]

NoRow == [status |-> "absent", kind |-> "observations", target |-> <<Self>>,
          axis |-> None, related |-> {}, rev |-> 0]

(* One body of POST /api/memories or of a compatibility write. "old" is    *)
(* the record it refers to and "expected" the revision the caller read;    *)
(* "to" is the status a compatibility patch sets.                          *)
Body == [action   : MemoryActions \cup LegacyActions,
         old      : Records \cup {None},
         expected : Nat \cup {None},
         kind     : Kinds,
         target   : Targets,
         axis     : Axes \cup {None},
         related  : SUBSET Entities,
         to       : RecordStatus]

Creates(b) == b.action \notin {"retract", "legacy_patch", "legacy_delete"}
IsMemory(b) == b.action \in MemoryActions

ASSUME EntitiesAssumption == Entities \subseteq Nat /\ Self \in Entities
ASSUME NoneAssumption ==
  None \notin Records /\ None \notin Axes /\ None \notin Nat /\ None \notin Requests
ASSUME MaxRevAssumption == MaxRev \in Nat

(* What the request schema enforces before a handler runs, and, for        *)
(* assessments, validate_profile_shape: an observation about one person    *)
(* other than self, without related entities, never through the            *)
(* compatibility API.                                                      *)
ASSUME BodiesAssumption ==
  /\ Bodies \subseteq Body
  /\ \A b \in Bodies :
       /\ b.old = None <=> b.action \in {"create", "legacy_create"}
       /\ b.expected # None => b.old # None /\ IsMemory(b)
       /\ b.axis # None => /\ IsMemory(b) /\ Creates(b) /\ b.kind = "observations"
                           /\ b.related = {} /\ b.target # <<Self>>
       /\ b.kind # "observations" => b.related = {}
       /\ (b.kind = "entity_edges") <=> (b.target \in Entities \X Entities)

-----------------------------------------------------------------------------
Present(q) == rec[q].status # "absent"
IsCurrent(q) == rec[q].status \in {"active", "disputed"}

(* A record some memory change wrote or replaced. *)
Tracked(q) == \E c \in changes : q = c.body.old \/ q = c.new

EntitiesOf(row) == {row.target[i] : i \in DOMAIN row.target} \cup row.related

(* validate_assessment_change and _validate_targets. *)
TargetsAllowed(b) ==
  LET old == rec[b.old]
  IN /\ old.axis # None => b.kind = "observations" /\ b.axis = old.axis
     /\ b.action = "correct" => b.target = old.target
     /\ b.action = "reattribute" => b.kind = old.kind /\ b.target # old.target

(* Faulty: the caller's expected revision is not compared. *)
OldAcceptable_IgnoresExpected(b) ==
  IsCurrent(b.old) /\ (Creates(b) => TargetsAllowed(b))

(* _lock_old followed by _validate_targets, for a record already locked. *)
OldAcceptable(b) ==
  /\ IsCurrent(b.old)
  /\ b.expected # None => rec[b.old].rev = b.expected
  /\ Creates(b) => TargetsAllowed(b)

(* Faulty: the compatibility API forgets the tracked-record guard. *)
LegacyAcceptable_NoGuard(b) ==
  Present(b.old) /\ rec[b.old].axis = None /\ rec[b.old].rev < MaxRev

(* reject_compatibility_assessment and the tracked-record guard. A row at  *)
(* the bound MaxRev is refused as well.                                    *)
LegacyAcceptable(b) ==
  /\ Present(b.old)
  /\ rec[b.old].axis = None
  /\ ~Tracked(b.old)
  /\ rec[b.old].rev < MaxRev

RecordAcceptable(b) ==
  b.old # None => IF IsMemory(b) THEN OldAcceptable(b) ELSE LegacyAcceptable(b)

(* The entities whose rows the handler locks before it writes; an          *)
(* assessment also locks its perspective, which is always self.            *)
LockSet(b) ==
  CASE Creates(b) -> EntitiesOf(b) \cup (IF b.axis = None THEN {} ELSE {Self})
    [] b.action = "legacy_patch" -> EntitiesOf(rec[b.old])
    [] OTHER -> {}

(* Faulty: only an active assessment occupies its axis, a disputed one does not. *)
AxisFree_IgnoresDisputed(b) ==
  b.axis # None =>
    \A q \in Records \ {b.old} :
      ~(rec[q].status = "active" /\ rec[q].axis = b.axis /\ rec[q].target = b.target)

(* No other current assessment of the same person on the same axis; the    *)
(* replaced one has released its slot inside the same transaction.         *)
AxisFree(b) ==
  b.axis # None =>
    \A q \in Records \ {b.old} :
      ~(IsCurrent(q) /\ rec[q].axis = b.axis /\ rec[q].target = b.target)

EntitiesActive(b) == \A e \in LockSet(b) : entity[e] = "active"

(* What lock_active_entities and validate_assessment_write accept once the *)
(* entity rows are locked.                                                 *)
RecordWritable(b) == EntitiesActive(b) /\ AxisFree(b)

(* Everything that must hold when b is written with n as the identity of   *)
(* the row it adds (None when it adds none).                               *)
WriteReady(b, n) ==
  /\ RecordAcceptable(b)
  /\ RecordWritable(b)
  /\ IF Creates(b) THEN n \in Records /\ ~Present(n) ELSE n = None

NewRow(b) == [status |-> "active", kind |-> b.kind, target |-> b.target,
              axis |-> b.axis, related |-> b.related, rev |-> 0]

(* The status a write leaves on the record it refers to. *)
OldStatus(b) ==
  CASE b.action \in {"retract", "legacy_delete"} -> "deleted"
    [] b.action = "legacy_patch" -> b.to
    [] OTHER -> "superseded"

(* An UPDATE of the status column, which also refreshes updated_at. *)
Updated(row, st) == [[row EXCEPT !.status = st] EXCEPT !.rev = @ + 1]

(* The record tables after b is written, n naming the row it adds.         *)
Written(b, n) ==
  [q \in Records |->
     IF q = n THEN NewRow(b)
     ELSE IF q = b.old
          THEN Updated(rec[q], OldStatus(b))
          ELSE rec[q]]

TablesOK ==
  /\ rec \in [Records -> Row]
  /\ entity \in [Entities -> EntityStatus]
  /\ changes \subseteq [request : Requests, body : Bodies, new : Records \cup {None}]

=============================================================================
