SPECIFICATION ResponsiveSpec
CONSTANTS
  Hosts = {h1, h2}
  Streams = {s1}
  MaxConcurrency = 1
  ChanCap = 1
INVARIANTS
  NoPanic
  DoneJobHasAllResults
  DoneStreamIsComplete
PROPERTIES
  JobFinishes
  EarlyStreamEnds
CHECK_DEADLOCK FALSE
