CONSTANTS
  s1 = s1
  s2 = s2
  s3 = s3
  s4 = s4
  A = A
  B = B
  w1 = w1
  w2 = w2
  full = full
  readOnly = readOnly
  None = None
  SessionIds = {s1, s2, s3}
  IdentityOf <- OneConnection
  Identities = {A}
  OAuth = {A}
  Workspaces = {w1}
  Profiles = {full}
  AutoProfile <- NoAuto
  Overrides = {full}
SPECIFICATION Spec
CHECK_DEADLOCK FALSE
SYMMETRY ThreeSymmetry
INVARIANT RevokedHasNoAccess

