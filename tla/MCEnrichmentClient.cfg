SPECIFICATION ClientSpec
CONSTANTS
  Nothing = Nothing
  Questions = {1, 2}
  MaxLeases = 1
  Submissions = {"known", "skip"}
  Kind <- MCKind
  Stagers = {g1}
  Dispatchers = {d1}
  Cancellers = {c1}
  Appliers = {a1, a2}
  MaxBusy = 2
  Asks = {1}
CHECK_DEADLOCK FALSE
INVARIANTS
  OneOpenQuestion
  OneAnswerEach
PROPERTIES
  OutcomesAreTrue
