SPECIFICATION ClientSpec
CONSTANTS
  Nothing = Nothing
  Questions = {1, 2}
  MaxLeases = 1
  Items = {1, 2}
  PersonOf <- MCPersonOf
  Runs = {1, 2}
  RunOf <- MCRunOf
  ItemLimit = 8
  Submissions = {"keep", "both"}
  Answers <- MCAnswers
  Appliers = {a1}
  Dispatchers = {d1}
  Cancellers = {c1}
  Preparers = {p1}
  MaxBusy = 2
  Contended = {1}
  Unsteady = {2}
CHECK_DEADLOCK FALSE
INVARIANTS
  FileIsTruthful
  
  OneOpenQuestion
PROPERTIES
  ShownOnlyWhileStaged
  ReceiptsAreKept
