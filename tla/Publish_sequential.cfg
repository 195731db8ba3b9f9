SPECIFICATION SequentialSpec
CONSTANTS
  Requests = {p1, p2, p3}
  Keys = {k1}
  None = None
  MaxLen = 2
  Retries = 1
CHECK_DEADLOCK FALSE
SYMMETRY Perms
INVARIANTS
  
  GapIsReported
