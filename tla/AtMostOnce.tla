----------------------------- MODULE AtMostOnce -----------------------------
(***************************************************************************)
(* What a client of an API promises about one piece of its work: its       *)
(* effect takes place once, or the work is given up and its effect never   *)
(* takes place. Retries, replays after a crash, late answers and a second  *)
(* process are the client's business and invisible here. PostTurnMemory    *)
(* implements it.                                                          *)
(***************************************************************************)
EXTENDS Naturals

CONSTANT Works

VARIABLES
  effects,   \* [Works -> how often the effect took place]
  givenUp    \* the works that are reported as having no effect

Init ==
  /\ effects = [w \in Works |-> 0]
  /\ givenUp = {}

Perform(w) ==
  /\ effects[w] = 0 /\ w \notin givenUp
  /\ effects' = [effects EXCEPT ![w] = 1]
  /\ UNCHANGED givenUp

GiveUp(w) ==
  /\ effects[w] = 0
  /\ givenUp' = givenUp \cup {w}
  /\ UNCHANGED effects

Next == \E w \in Works : Perform(w) \/ GiveUp(w)

Spec == Init /\ [][Next]_<<effects, givenUp>>

=============================================================================
