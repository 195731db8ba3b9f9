SPECIFICATION FairSpec
CONSTANTS
  Tenants = {t1, t2}
  Keys = {k1, k2}
  Conns = {c1, c2}
  SessionIds = {s1, s2}
  None = None
  Window = 2
  MaxSeq = 2
INVARIANTS SessionOfTenant ConnectedIsResumable
PROPERTIES PositionAdvances AbandonedExpires
CHECK_DEADLOCK FALSE
