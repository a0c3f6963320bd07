SPECIFICATION Spec
CONSTANTS
  None = None
  Elsewhere = Elsewhere
  e1 = e1
  e2 = e2
  Resolutions = {r1}
  Sessions = {s1, s2}
  Candidates = {1}
  Observations = {}
  Entities = {e1, e2}
  Reviewed = {e1}
  Inquiries <- ContextQuestions
  MaxBodies = 1
  MaxOthers = 2
PROPERTIES
  CommitIsVerifiable
