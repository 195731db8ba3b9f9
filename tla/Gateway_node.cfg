SPECIFICATION FairPairedSpec
CONSTANTS
  Conns = {c1, c2, c3}
  Named = {c1}
  TenantLimit = 1
  MaxHandshakes = 2
  MaxFrames = 2
  MaxFaults = 2
  MaxDrops = 1
INVARIANTS
  OneListener
  TenantOvershoot
  NoGhosts
  ListenerForSubscribers
  
PROPERTIES
  WaitingIsServed
  SubscriberIsAttached
CHECK_DEADLOCK FALSE
