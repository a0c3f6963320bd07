SPECIFICATION Spec
CONSTANTS
  N = 3
  Limit = 2
  Reviewed = {1}
  MaxSwitches = 2
  MaxErrors = 1
INVARIANTS
  NothingSkipped
  DecidedOnce
  NeverWedged
PROPERTIES
  BacklogIsWorkedOff
CHECK_DEADLOCK FALSE
