SPECIFICATION FairCalmSpec
CONSTANTS
  Conns = {c1, c2, c3}
  Ttl = 2
  MaxCrashes = 1
INVARIANTS
  LiveIsMember
  FreshIsOnline
PROPERTIES
  GoneIsOffline
CHECK_DEADLOCK FALSE
