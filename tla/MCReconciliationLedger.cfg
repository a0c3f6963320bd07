SPECIFICATION Spec
CONSTANTS
  None = None
  Elsewhere = Elsewhere
  e1 = e1
  e2 = e2
  Resolutions = {r1, r2}
  Sessions = {s1, s2}
  Candidates = {1, 2, 3}
  Observations = {3}
  Entities = {e1, e2}
  Reviewed = {e1}
  Inquiries <- AllQuestions
  MaxBodies = 2
  MaxOthers = 1
SYMMETRY Symmetry
INVARIANTS
  AppliedOnce
  AnswersMatchRequest
PROPERTIES
  ExactSnapshots
  ArchivesOnlyEmpty
