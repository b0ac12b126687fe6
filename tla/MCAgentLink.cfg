SPECIFICATION LinkFairSpec
CONSTANTS
  Cves = {"CVE-1", "CVE-2"}
  Score <- MCScore
  MaxScans = 2
  Sem = 2
  Pids = {7, 8}
  MaxEvents = 2
  Bounds <- MCBounds
  Tunnels = {1, 2}
  Cap <- MCCap
  Distros = {"debian"}
  Listings <- MCListings
INVARIANTS
  SeverityIsOwn
  RecordedAtMostOnce
PROPERTIES
  QueuedIsForwarded
CHECK_DEADLOCK FALSE
