SPECIFICATION AgentSpec
CONSTANTS
    t1 = t1  t2 = t2
    Products = {aevra, browser}
    Targets = {t1, t2}
    Commands <- MCCommands
    MaxCreds = 3
    MaxOps = 3
    MaxCrashes = 1
    MaxFaults = 1
    MaxEdits = 1
INVARIANTS LiveIsAccountedFor RegisteredWorks AllOrNothing
PROPERTIES OthersSurvive
SYMMETRY ProductSymmetry
CHECK_DEADLOCK FALSE
