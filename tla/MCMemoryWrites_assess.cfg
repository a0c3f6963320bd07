SPECIFICATION LiveSpec
CONSTANTS
  q1 = q1
  q2 = q2
  n1 = n1
  n2 = n2
  closeness = closeness
  None = None
  Records = {q1, n1, n2}
  Entities = {1, 2, 3}
  Self = 1
  Axes = {closeness}
  Requests = {r1, r2}
  Bodies <- AssessmentBodies
  MaxRev = 2
  Sessions = {s1, s2}
  InitTables <- MCInitTables
INVARIANTS
  
  ReceiptsTruthful
PROPERTIES
  EveryRequestEnds
