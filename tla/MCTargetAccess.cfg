SPECIFICATION Spec
CONSTANTS
  Calls = {c1, c2}
  Users = {u, adm}
  Admins = {adm}
  Requests = {q1}
  Hosts = {h1, h2}
  HostKeys = {k1, k2}
  Secrets = {s1, s2}
  Creds = {p1}
  Kinds = {"shell", "files", "rdp"}
  None = None
  Plain = Plain
  Bounds <- MCBounds
SYMMETRY Symmetry
INVARIANTS ApprovalStands CredentialMeantForHost StoredCASigns
PROPERTIES PinReplacedOnlyByRacer
CHECK_DEADLOCK FALSE
