------------------------- MODULE MCEnrichmentClient -------------------------
(* Two plans; the reply to a question can be read in two ways.               *)
EXTENDS EnrichmentClient

MCKind == [s \in Submissions |-> s]
=============================================================================
