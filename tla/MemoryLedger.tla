---------------------------- MODULE MemoryLedger ----------------------------
(***************************************************************************)
(* What the write path promises: every accepted write behaves as if it     *)
(* happened alone and at once. This is the abstract specification;         *)
(* MemoryWrites is the handler with its transactions, locks, retries and   *)
(* lost replies, and implements it.                                        *)
(***************************************************************************)
EXTENDS MemoryRecords

(* At most one current assessment (active or disputed) of each person on   *)
(* each relationship axis, whatever is created, corrected or reattributed. *)
OneCurrentPerAxis ==
  \A q1, q2 \in Records :
    /\ IsCurrent(q1) /\ IsCurrent(q2)
    /\ rec[q1].axis # None
    /\ rec[q1].axis = rec[q2].axis
    /\ rec[q1].target = rec[q2].target
    => q1 = q2

(* A memory request that has not been applied yet takes effect: it adds    *)
(* its record, retires the old one and leaves its receipt.                 *)
Apply(r, b, n) ==
  /\ IsMemory(b)
  /\ \A c \in changes : c.request # r
  /\ WriteReady(b, n)
  /\ rec' = Written(b, n)
  /\ changes' = changes \cup {[request |-> r, body |-> b, new |-> n]}
  /\ UNCHANGED entity

(* A compatibility write takes effect without a receipt. *)
ApplyLegacy(b, n) ==
  /\ ~IsMemory(b)
  /\ WriteReady(b, n)
  /\ rec' = Written(b, n)
  /\ UNCHANGED <<entity, changes>>

(* delete_entity locks the row, which must be active, and spares self. *)
DeleteEntity(e) ==
  /\ e # Self
  /\ entity[e] = "active"
  /\ entity' = [entity EXCEPT ![e] = "deleted"]
  /\ UNCHANGED <<rec, changes>>

(* patch_entity sets any status on any entity, except deleted on self. *)
PatchEntity(e, st) ==
  /\ ~(e = Self /\ st = "deleted")
  /\ entity' = [entity EXCEPT ![e] = st]
  /\ UNCHANGED <<rec, changes>>

LedgerNext ==
  \/ \E b \in Bodies, n \in Records \cup {None} :
       \/ \E r \in Requests : Apply(r, b, n)
       \/ ApplyLegacy(b, n)
  \/ \E e \in Entities : DeleteEntity(e) \/ \E st \in EntityStatus : PatchEntity(e, st)

CONSTANT InitTables   \* the record tables some earlier history may have left

ASSUME InitAssumption == InitTables \subseteq [Records -> Row]

(* The tables as some earlier history left them, before the first change.  *)
LedgerInit ==
  /\ rec \in InitTables
  /\ OneCurrentPerAxis
  /\ entity \in [Entities -> {"active"}]
  /\ changes = {}

Ledger == LedgerInit /\ [][LedgerNext]_tables

-----------------------------------------------------------------------------
(* A request identifier is applied at most once, whatever is retried or    *)
(* sent twice at the same time.                                            *)
UniqueRequest ==
  \A c1, c2 \in changes : c1.request = c2.request => c1 = c2

(* The revisions of a memory form a chain: a record is replaced or         *)
(* retracted by at most one change, and is then no longer current.         *)
LinearHistory ==
  /\ \A c1, c2 \in changes : c1.body.old = c2.body.old /\ c1.body.old # None => c1 = c2
  /\ \A c \in changes : c.body.old # None => ~IsCurrent(c.body.old)

(* A record that a memory change wrote or replaced changes only by another *)
(* memory change that names it as its old record.                          *)
HistoryFrozen ==
  [][\A q \in Records :
       Tracked(q) /\ rec'[q] # rec[q]
         => \E c \in changes' \ changes : c.body.old = q]_tables

(* A caller that says which revision it read replaces exactly that one.    *)
NoLostUpdate ==
  [][\A c \in changes' \ changes :
       c.body.expected # None => rec[c.body.old].rev = c.body.expected]_tables

(* A row appears only while every entity it is about is active.            *)
NewRowsAboutActive ==
  [][\A q \in Records :
       ~Present(q) /\ Present(q)'
         => \A e \in EntitiesOf(rec'[q]) : entity[e] = "active" /\ entity'[e] = "active"]_tables

=============================================================================
