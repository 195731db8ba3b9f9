SPECIFICATION Spec
CONSTANTS
  Requests = {p1, p2}
  Keys = {k1}
  None = None
  MaxLen = 1
  Retries = 1
CHECK_DEADLOCK FALSE
SYMMETRY Perms
INVARIANTS
  UniqueSequence
  AcceptedIsPublished
