SPECIFICATION Spec
CONSTANTS
  None = None
  p1 = p1
  p2 = p2
  t1 = t1
  t2 = t2
  ann = ann
  bob = bob
  Procs = {p1, p2}
  Turns = {t1}
  People = {ann, bob}
  Decisions <- MCDecisions
  Policies <- MCPolicies
  Attempts = 2
  MaxItems = 1
  MaxClaims = 2
  MaxLookups = 1
  MaxDeliveries = 2
  MaxCrashes = 1
  MaxOthers = 1
SYMMETRY Symmetry
INVARIANTS  KnowledgeKept
PROPERTIES  PersonAsDecided
CHECK_DEADLOCK FALSE
