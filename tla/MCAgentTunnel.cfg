SPECIFICATION FairSpec
CONSTANTS
  Conns = {k1, k2, k3}
  Dials = {d1}
  NoConn = NoConn
  LostUpdates = FALSE
INVARIANTS
  LatestAgentCurrent
  NoHangingStream
  NoGhostOnline
PROPERTIES
  DeadAgentRemoved
CHECK_DEADLOCK FALSE
