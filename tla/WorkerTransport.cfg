CONSTANTS
  c1 = c1
  c2 = c2
  Calls = {c1, c2}
  KindsOf <- StreamAndPlain
  Window = 1
  MaxChunks = 2
  MaxConns = 2
  MaxBreaks = 1
SPECIFICATION FairSpec
CHECK_DEADLOCK FALSE
INVARIANTS NothingWaitsOnALostSocket FramesAreAccepted EndMeansWhole
PROPERTIES RequestsKeepTheirTurn CallsSettle
