--------------------------- MODULE FactPromotion ---------------------------
(***************************************************************************)
(* The ledger together with promote_fact, which POST .../promote and the   *)
(* acceptance of a superseding profile field both call: a note about a     *)
(* person becomes a structured fact and is itself superseded. The handlers *)
(* of MemoryLedger are atomic here, as MemoryWrites shows they may be      *)
(* taken to be. promote_fact is not: it reads its source without a lock    *)
(* and locks only the entity.                                              *)
(*                                                                         *)
(* Every fact is taken to be a promotable note; a type that may not be     *)
(* promoted, like an invalid new value, makes the request give up.         *)
(***************************************************************************)
EXTENDS MemoryLedger

CONSTANT Promoters   \* the request workers that promote facts

VARIABLE source      \* [Promoters -> the fact each one has read, or None]

promotionVars == <<rec, entity, changes, source>>

(* The handler reads the fact and its entity and checks both.              *)
ReadSource(p, q) ==
  /\ source[p] = None
  /\ rec[q].status = "active"
  /\ rec[q].kind = "entity_facts"
  /\ \A e \in EntitiesOf(rec[q]) : entity[e] = "active"
  /\ source' = [source EXCEPT ![p] = q]
  /\ UNCHANGED tables

(* create_fact locks the entity and checks it again; the source only gets  *)
(* its new status, whatever became of it since it was read.                *)
Promote(p, n) ==
  LET q == source[p]
  IN /\ q # None
     /\ ~Present(n)
     /\ \A e \in EntitiesOf(rec[q]) : entity[e] = "active"
     /\ rec' = [r \in Records |->
                  CASE r = n -> [[rec[q] EXCEPT !.status = "active"] EXCEPT !.rev = 0]
                    [] r = q -> Updated(rec[q], "superseded")
                    [] OTHER -> rec[r]]
     /\ source' = [source EXCEPT ![p] = None]
     /\ UNCHANGED <<entity, changes>>

(* The entity is no longer active, or the request fails for another reason. *)
GiveUp(p) ==
  /\ source[p] # None
  /\ source' = [source EXCEPT ![p] = None]
  /\ UNCHANGED tables

PromotionNext ==
  \/ LedgerNext /\ UNCHANGED source
  \/ \E p \in Promoters, q \in Records : ReadSource(p, q) \/ Promote(p, q)
  \/ \E p \in Promoters : GiveUp(p)

PromotionSpec ==
  LedgerInit /\ source = [p \in Promoters |-> None] /\ [][PromotionNext]_promotionVars

(* HistoryFrozen is what entity_guards.py says of the compatibility API: it *)
(* never overwrites a revision that the memory API keeps. promote_fact      *)
(* does not call that guard, so it does.                                    *)

=============================================================================
