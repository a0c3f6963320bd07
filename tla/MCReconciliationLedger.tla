----------------------- MODULE MCReconciliationLedger -----------------------
(***************************************************************************)
(* Two resolutions and two workers. Candidates 1 and 2 may be one new      *)
(* person, 3 is an observation about e1. Only e1 was created by review.    *)
(***************************************************************************)
EXTENDS ReconciliationLedger, TLC

CONSTANTS e1, e2

Ask(action, cands, source, target, related, context) ==
  [action |-> action, cands |-> cands, source |-> source, target |-> target,
   related |-> related, context |-> context]

(* Answers about the same candidates and the same people. *)
AllQuestions ==
  { Ask("reject_candidates", {1}, None, None, {}, FALSE),
    Ask("confirm_new_entity_group", {1, 2}, None, None, {}, FALSE),
    Ask("rename_and_accept_new_entity", {1, 2}, None, None, {}, TRUE),
    Ask("map_to_existing_entity", {2}, None, e1, {}, TRUE),
    Ask("accept_existing_entity_observation_group", {3}, None, e1, {e2}, FALSE),
    Ask("merge_existing_entities", {}, e2, e1, {}, FALSE),
    Ask("archive_existing_entity", {}, e1, None, {}, FALSE) }

(* A merge that also records what the reply says about the person. *)
ContextQuestions == { Ask("merge_existing_entities", {}, e2, e1, {}, TRUE) }

(* The same candidate's person and a person that review did not create. *)
ArchiveQuestions ==
  { Ask("map_to_existing_entity", {1}, None, e2, {}, FALSE),
    Ask("archive_existing_entity", {}, e2, None, {}, FALSE) }

Symmetry == Permutations(Sessions) \cup Permutations(Resolutions)

=============================================================================
