SPECIFICATION Spec
CONSTANTS
  None = None
  Workers = {w1, w2}
  Candidates = {1, 2}
  Contents = {"merged", "new", "old"}
  Known <- MCKnown
  Windows <- OneDecision
  MaxOthers = 1
SYMMETRY Symmetry
INVARIANTS
  OneRecordPerDecision
PROPERTIES
  ExecutesWhatWasReviewed
  NeverRepeats
CHECK_DEADLOCK FALSE
