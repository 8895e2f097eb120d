CONSTANTS
  o1 = o1
  o2 = o2
  o3 = o3
  o4 = o4
  Ops = {o1, o2, o3, o4}
  agreed = agreed
  short = short
  first = first
  other = other
  Catalogs = {agreed, short}
  Agreed = agreed
  Short = short
  Configs = {first, other}
  Registered = first
  None = None
SPECIFICATION Spec
CHECK_DEADLOCK FALSE
SYMMETRY Operations
INVARIANTS OnlyAcceptedIsUsed CutOffHolds SessionIsOfTheRow
