CONSTANTS
  k1 = k1
  k2 = k2
  k3 = k3
  Calls = {k1, k2, k3}
  MaxProcs = 3
  MaxStops = 1
SPECIFICATION Spec
CHECK_DEADLOCK FALSE
SYMMETRY Requests
INVARIANTS OneWantedPerStart
PROPERTIES RecordedEndIsFinal UncertainIsLeftAlone
