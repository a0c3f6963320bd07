-------------------------- MODULE MCFactPromotion --------------------------
(***************************************************************************)
(* A fact the memory API creates about person 2, and corrects.             *)
(***************************************************************************)
EXTENDS FactPromotion

CONSTANTS n1, n2, n3

MCBodies ==
  { [action |-> action, old |-> old, expected |-> None, kind |-> "entity_facts",
     target |-> <<2>>, axis |-> None, related |-> {}, to |-> "active"] :
      <<action, old>> \in {<<"create", None>>, <<"correct", n1>>} }

MCInitTables == {[q \in Records |-> NoRow]}

=============================================================================
