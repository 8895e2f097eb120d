SPECIFICATION FairSpec
CONSTANTS
    s1 = s1  s2 = s2  p1 = p1  p2 = p2  None = None
    Ops = {1, 2}
    Keys = {k}
    Sessions = {s1, s2}
    Paths = {p1, p2}
    MaxSets = 1
    Rollbacks = {r}
    Skips <- MCSkips
    Inputs <- EditsAndOthers
INVARIANTS CallsExclude SuccessIsRecorded
PROPERTIES RollbackRestores CallsEnd
CHECK_DEADLOCK FALSE
