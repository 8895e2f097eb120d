CONSTANTS
  MaxTickets = 2
  a1 = a1
  a2 = a2
  b1 = b1
  A = A
  c1 = c1
  c2 = c2
  NoConn = NoConn
  Sessions <- Siblings
  ConnOf <- SiblingsConnOf
  Connections = {A}
  Calls = {c1}
  Kinds = {"admission", "hostGrant", "hostAction"}
SPECIFICATION Spec
CHECK_DEADLOCK FALSE
CONSTRAINT OneFamily
SYMMETRY SiblingSymmetry
INVARIANTS ExecutesForOwner OneUsablePendingRequest
