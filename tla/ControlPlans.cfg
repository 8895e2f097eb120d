SPECIFICATION FairSpec
CONSTANTS
    p = p  q = q  x = x  y = y  None = None
    Plans = {p, q}
    Surfaces = {x, y}
    Steps = {1, 2, 3, 4}
    PlanOf <- TwoPlanOf
    SurfaceOf <- TwoSurfaceOf
    DependsOn <- TwoDependsOn
    MaxConcurrency <- TwoAtOnce
INVARIANTS NeverRedispatched JournalIsCurrent OneStepPerSurface CancelledStepsNeverAct
PROPERTIES PlanEnds
