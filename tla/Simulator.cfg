SPECIFICATION Spec
CONSTANTS
    Specs <- MCSpecs
    Schedules <- MCSchedules
    Points <- MCPoints
    Gaps = {0, 1, 3}
    InitialPUs = {100, 700, 1000, 5000}
    MaxTime = 6
INVARIANTS
    ActiveAsScheduled
    
    RangeRespected
    ScaleInOnlyBelowTargets
    ScaledownStepRespected
    
PROPERTY EventsCooledDown
CHECK_DEADLOCK FALSE
