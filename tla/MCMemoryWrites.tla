--------------------------- MODULE MCMemoryWrites ---------------------------
(***************************************************************************)
(* Small instances of MemoryWrites. Entity 1 is self, 2 and 3 are people.  *)
(* q1 is a current assessment of person 2 (disputed, from an import), q2   *)
(* an ordinary relationship edge that no memory change has touched yet.    *)
(***************************************************************************)
EXTENDS MemoryWrites, TLC

CONSTANTS q1, q2, n1, n2, closeness

MCBody(action, old, expected, kind, target, axis, to) ==
  [action |-> action, old |-> old, expected |-> expected, kind |-> kind,
   target |-> target, axis |-> axis, related |-> {}, to |-> to]

Assess(action, old, person) ==
  MCBody(action, old, None, "observations", <<person>>, closeness, "active")
Edge(action, old, expected, from, to) ==
  MCBody(action, old, expected, "entity_edges", <<from, to>>, None, "disputed")
Note(action, old, person) ==
  MCBody(action, old, None, "observations", <<person>>, None, "active")

MCInitTables ==
  {[q \in Records |->
      CASE q = q1 -> [NoRow EXCEPT !.status = "disputed", !.target = <<2>>, !.axis = closeness]
        [] q = q2 -> [NoRow EXCEPT !.status = "active", !.kind = "entity_edges",
                                   !.target = <<3, 2>>]
        [] OTHER -> NoRow]}

(* Requests, workers and unused row identities are interchangeable. *)
Symmetry ==
  Permutations(Requests) \cup Permutations(Sessions) \cup Permutations({n1, n2})

(* Writes about one assessed person. *)
AssessmentBodies ==
  { Assess("create", None, 2), Assess("correct", q1, 2),
    Assess("reattribute", q1, 3), Note("retract", q1, 2) }

(* The memory API and the compatibility API on one edge. *)
EdgeBodies ==
  { Edge("correct", q2, 0, 3, 2), Edge("reattribute", q2, None, 2, 3),
    Edge("legacy_patch", q2, None, 2, 3), Edge("legacy_delete", q2, None, 2, 3),
    Edge("legacy_create", None, None, 3, 2) }

=============================================================================
