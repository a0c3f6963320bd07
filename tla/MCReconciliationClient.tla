----------------------- MODULE MCReconciliationClient -----------------------
(* Two anomalies of one person, both written by the first of two runs. For   *)
(* the limit of a list: five, of which only the last was written by a run.   *)
EXTENDS ReconciliationClient

MCPersonOf == [i \in Items |-> 1]
MCRunOf == [i \in Items |-> 1]
CutRunOf == [i \in Items |-> IF i = 5 THEN 1 ELSE Nothing]
MCAnswers == [s \in Submissions |->
  CASE s = "act" -> [i \in {1} |-> "act"]
    [] s = "keep" -> [i \in {1} |-> "keep"]
    [] s = "all" -> [i \in {1, 2} |-> IF i = 1 THEN "act" ELSE "unsure"]
    [] s = "both" -> [i \in {1, 2} |-> "act"]]
=============================================================================
