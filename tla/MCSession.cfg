SPECIFICATION Spec
CONSTANTS
  c1 = c1
  c2 = c2
  c3 = c3
  Conns = {c1, c2, c3}
  UserOf <- MCUserOf
  NoConn = NoConn
  NoId = NoId
  Reachable = {c1}
  Limits = TRUE
  LostUpdates = TRUE
INVARIANTS
  LatestHandlerBound
  GraceRunsIffDetached
  OnlyOwnerBound
  LiveSessionReachable
  FinalRowHasNoShell
CHECK_DEADLOCK FALSE
