SPECIFICATION SequentialSpec
CONSTANTS
  Requests = {p1, p2}
  Keys = {k1}
  None = None
  MaxLen = 2
  Retries = 0
CHECK_DEADLOCK FALSE
SYMMETRY Perms
INVARIANTS
  OneMessagePerKey
