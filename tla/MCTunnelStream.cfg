SPECIFICATION FairSpec
CONSTANTS
  Streams = {s1, s2}
  Bounds <- MCBounds
  BufCap = 1
PROPERTIES ImplementsByteStream ChunksArrive HangUpReachesPeer
CHECK_DEADLOCK FALSE
