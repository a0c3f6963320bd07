------------------------- MODULE MCCandidateReview -------------------------
(***************************************************************************)
(* Two reviewers, two candidates and two people who may be merged either   *)
(* way.                                                                    *)
(***************************************************************************)
EXTENDS CandidateReview, TLC

Record(e) == [kind |-> "record", about |-> <<e>>]
Merge(e, f) == [kind |-> "merge", about |-> <<e, f>>]

(* Every accept that can collide with another one on a row or an index.    *)
CollidingPayloads == { Record(2), Merge(1, 2), Merge(2, 1) }

(* Every kind of payload. *)
AllPayloads ==
  CollidingPayloads \cup { [kind |-> "new_entity", about |-> <<>>],
                           [kind |-> "conflict", about |-> <<1>>] }

Symmetry == Permutations(Candidates) \cup Permutations(Sessions)

=============================================================================
