SPECIFICATION FairLockSpec
CONSTANTS
    Procs = {m1, m2, m3}
    MaxLocks = 1
    MaxDeaths = 2
INVARIANTS HolderHasTheName
PROPERTIES DeadLockGoes
