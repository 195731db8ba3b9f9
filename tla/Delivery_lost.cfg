SPECIFICATION DeliverySpec
CONSTANTS
  c1 = c1
  Messages = 3
  Channels <- OneChannel
  MaxSeq <- EachChannel
  DedupWindow = 2
  MaxLen = 2
  QueueMax = 1
  MaxBreaks = 1
  MaxExpiries = 0
  MaxDrops = 0
  MaxCalls = 1
INVARIANT NothingLost
CHECK_DEADLOCK FALSE
