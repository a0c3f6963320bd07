SPECIFICATION Spec
CONSTANTS
  None = None
  a1 = a1
  a2 = a2
  s1 = s1
  s2 = s2
  r1 = r1
  r2 = r2
  r3 = r3
  q1 = q1
  q2 = q2
  Auths = {a1, a2}
  Slots = {s1, s2}
  SlotsOf <- MCSlotsOf
  Resolutions = {r1, r2, r3}
  Bodies <- MCBodies
  Requests = {q1, q2}
  MaxChanges = 1
SYMMETRY Symmetry
INVARIANTS SlotsMatchAnswers
PROPERTIES FillsOnlyGaps
CHECK_DEADLOCK FALSE
