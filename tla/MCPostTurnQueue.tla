-------------------------- MODULE MCPostTurnQueue --------------------------
(***************************************************************************)
(* A queue of one place and a memory of one completed turn, so that both   *)
(* limits are reached within a few turns.                                  *)
(***************************************************************************)
EXTENDS PostTurnQueue

=============================================================================
