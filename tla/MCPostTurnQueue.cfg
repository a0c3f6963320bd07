SPECIFICATION LiveSpec
CONSTANTS
  NoKey = NoKey
  Stop = Stop
  Keys = {k1, k2}
  Callers = {t1, t2}
  Stoppers = {p1, p2}
  Capacity = 1
  RecentLimit = 1
  MaxTurns = 4
INVARIANTS
  NeverTwiceAtOnce
  PersistedOnce
  ShutdownDrains
PROPERTIES
  AdmittedTurnsEnd
CHECK_DEADLOCK FALSE
