SPECIFICATION FairSpec
CONSTANTS
  c1 = c1
  Messages = 3
  Channels <- OneChannel
  MaxSeq <- EachChannel
  DedupWindow = 2
  MaxLen = 2
  QueueMax = 1
  MaxBreaks = 2
  MaxExpiries = 1
  MaxDrops = 1
  MaxCalls = 2
INVARIANTS NoSilentSkip  SettledIsComplete
PROPERTIES Implements EventuallyAccounted
CHECK_DEADLOCK FALSE
