SPECIFICATION AuditSpec
CONSTANTS
  Appenders = {a1, a2}
  Chars = {"x", "|"}
  Bar = "|"
  Contents <- MCContents
  Subjects = {u}
  NoOne = NoOne
  Legacy = 1
  MaxRows = 4
  ReadsFail = TRUE
INVARIANTS
  OwnLogVerifies
  TamperingDetected
CHECK_DEADLOCK FALSE
