-------------------------- MODULE MCPostTurnMemory --------------------------
(* Two router processes, a turn with two claims about one surface and one   *)
(* that goes to a curated page.                                             *)
EXTENDS PostTurnMemory, TLC
CONSTANTS p1, p2, t1, t2, ann, bob

Base == [work |-> TRUE, relationships |-> TRUE, claims |-> <<>>, subjects |-> TRUE,
         cultural |-> None, thirdParty |-> FALSE, confidence |-> 2, line |-> "a", empty |-> FALSE]
Book == [resolved |-> TRUE, item |-> TRUE, title |-> TRUE, medium |-> TRUE]

(* Two pairs of claims, a context update, and three cultural decisions, of  *)
(* which one may be promoted. *)
MCDecisions ==
  {[Base EXCEPT !.claims = c] : c \in {<<"set", "retract">>, <<"note", "correct">>}} \cup
  {[Base EXCEPT !.relationships = FALSE, !.cultural = k, !.confidence = n] :
     <<k, n>> \in {<<None, 2>>, <<Book, 2>>, <<Book, 0>>, <<[Book EXCEPT !.medium = FALSE], 2>>}}
  \cup {[Base EXCEPT !.work = FALSE]}

MCPolicies ==
  {[postTurn |-> None, gate |-> TRUE, domain |-> domain, default |-> None, target |-> TRUE,
    evidence |-> kept, section |-> kept, candidateLog |-> TRUE, dryRun |-> FALSE] :
     <<domain, kept>> \in {<<TRUE, TRUE>>, <<None, FALSE>>}}

Symmetry == Permutations(Procs) \cup Permutations(People)
=============================================================================
