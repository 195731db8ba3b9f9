SPECIFICATION FairSpec
CONSTANTS
  Channels = {c1}
  NoChannel = NoChannel
  Sizes = {1, 2}
  MaxInflight = 1
  QueueMaxMessages = 2
  QueueMaxBytes = 3
  MaxSeq = 2
  MaxPings = 1
  MaxLow = 1
INVARIANTS
  ByteBound
  OnlySmallerFollows
PROPERTIES
  EventuallyWritten
  DeadIsCleanedUp
CHECK_DEADLOCK FALSE
