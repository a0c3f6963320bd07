------------------------- MODULE MCCurationClient -------------------------
(***************************************************************************)
(* Three candidates in windows of two, so that a replay takes two windows; *)
(* the mode changes twice, and one error happens anywhere.                 *)
(***************************************************************************)
EXTENDS CurationClient

=============================================================================
