CONSTANTS
  s1 = s1
  s2 = s2
  s3 = s3
  s4 = s4
  A = A
  B = B
  w1 = w1
  w2 = w2
  full = full
  readOnly = readOnly
  None = None
  SessionIds <- Four
  IdentityOf <- TwoIdentities
  Identities = {A, B}
  OAuth = {A}
  Workspaces = {w1}
  Profiles = {full, readOnly}
  AutoProfile <- BAuto
  Overrides = {readOnly}
SPECIFICATION Spec
CHECK_DEADLOCK FALSE
SYMMETRY ThreeSymmetry
INVARIANTS GrantedProfileRules RemovedIsGone CutIsFinal
PROPERTIES ReconnectKeepsAccess
