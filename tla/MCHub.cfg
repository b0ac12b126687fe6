SPECIFICATION FairSpec
CONSTANTS
  Watchers = {w1, w2}
  Stalled = {w2}
  Pumps = {p1, p2}
  ChanCap = 1
  MaxChunks = 2
INVARIANTS
  NoPanic
  WatcherSeesLog
PROPERTIES
  SubscribedWatcherReleased
  PublishNeverBlocks
CHECK_DEADLOCK FALSE
