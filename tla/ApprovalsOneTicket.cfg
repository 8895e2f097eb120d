CONSTANTS
  MaxTickets = 1
  a1 = a1
  a2 = a2
  b1 = b1
  A = A
  c1 = c1
  c2 = c2
  NoConn = NoConn
  Sessions <- Strangers
  ConnOf <- MixedConnOf
  Connections = {A}
  Calls = {c1, c2}
  Kinds = {"command", "operation", "capability", "admission", "hostGrant", "hostAction"}
SPECIFICATION FairSpec
CHECK_DEADLOCK FALSE
INVARIANTS AtMostOneExecution
PROPERTIES NoForeignInvalidation StartsWithAuthority ImplementsLifecycle ExecutionEnds
