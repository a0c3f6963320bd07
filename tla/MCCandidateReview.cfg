SPECIFICATION Spec
CONSTANTS
  None = None
  Candidates = {c1, c2}
  Sessions = {s1, s2}
  Entities = {1, 2}
  Payloads <- CollidingPayloads
  MaxRecords = 2
  Operations = {"accept", "edit_accept", "reject", "clarify"}
SYMMETRY Symmetry
INVARIANTS
  AtMostOneRecord
  AcceptedIsCanonical
  NoWaitCycle
