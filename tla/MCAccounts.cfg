SPECIFICATION Spec
CONSTANTS
  Names = {"admin", "ann"}
  Window = 1
  Threshold = 2
  QueueCap = 1
  Bounds <- MCBounds
  Reqs = {r1, r2}
  Admin = "admin"
INVARIANTS
  AlertAtEachCrossing
  TokenMatchesRow
  AdminBeforeUsers
  SerialEnrolmentIsSound
SYMMETRY Symmetry
CHECK_DEADLOCK FALSE
