------------------------ MODULE MCCurationExecution ------------------------
(***************************************************************************)
(* One observation is known. Of two candidates the first may say something *)
(* new: they are consolidated, the first is accepted, the second is edited *)
(* and accepted or archived as a duplicate of the known observation. Or    *)
(* both say what is known, and the older one is kept.                      *)
(***************************************************************************)
EXTENDS CurationExecution, TLC

MCKnown == <<[by |-> 0, source |-> None, says |-> "old", intact |-> TRUE]>>

Decide(action, sources, content, duplicateOf) ==
  [action |-> action, sources |-> sources, says |-> content, duplicateOf |-> duplicateOf]

Consolidate == Decide("consolidate_accept", {1, 2}, "merged", 0)
Accept == Decide("accept_existing", {1}, "new", 0)
Edit == Decide("edit_accept_existing", {2}, "merged", 0)
Archive == Decide("archive_exact_duplicate", {2}, "old", 1)
KeepOldest == Decide("archive_exact_duplicate", {1, 2}, "old", 0)

Window(first, decisions) == [says |-> <<first, "old">>, plan |-> decisions]

OneDecision ==
  { Window("new", <<Consolidate>>), Window("new", <<Accept>>), Window("new", <<Edit>>),
    Window("new", <<Archive>>), Window("old", <<KeepOldest>>) }

TwoDecisions == { Window("new", <<Accept, Archive>>) }

Symmetry == Permutations(Workers)

=============================================================================
