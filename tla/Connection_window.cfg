SPECIFICATION Spec
CONSTANTS
  Channels = {c1, c2}
  NoChannel = NoChannel
  Sizes = {1}
  MaxInflight = 2
  QueueMaxMessages = 2
  QueueMaxBytes = 3
  MaxSeq = 3
  MaxPings = 1
  MaxLow = 0
SYMMETRY Perms
INVARIANTS
  WindowBound
  NoLostWakeup
  FifoDelivery
  QueueBound
  NothingFollowsRefused
PROPERTIES
  HeartbeatVerdict
CHECK_DEADLOCK FALSE
