SPECIFICATION FairSpec
CONSTANTS
  stdout = stdout
  stderr = stderr
  Conns = {c1, c2}
  Pumps = {stdout}
  Nobody = Nobody
  RingCap = 1
  Supply <- MCSupply
INVARIANTS
  NoOutputLost
  ScreenEndsInOrder
PROPERTIES
  BoundIsPainted
CHECK_DEADLOCK FALSE
