------------------------- MODULE MCEnrichmentLedger -------------------------
(* Two authorizations that share a slot, answered by three resolutions, one *)
(* of which skips what another one answers later.                           *)
EXTENDS EnrichmentLedger, TLC
CONSTANTS a1, a2, s1, s2, r1, r2, r3, q1, q2

MCSlotsOf == a1 :> {s1, s2} @@ a2 :> {s1}
Reply(a, answers) == [auth |-> a, answers |-> answers]
MCBodies ==
  r1 :> {Reply(a1, s1 :> "known"), Reply(a1, (s1 :> "known") @@ (s2 :> "skip"))} @@
  r2 :> {Reply(a1, s1 :> "unknown" @@ s2 :> "known"), Reply(a1, s2 :> "unknown")} @@
  r3 :> {Reply(a2, s1 :> "known")}
Symmetry == Permutations(Requests)
=============================================================================
