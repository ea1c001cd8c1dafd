SPECIFICATION Spec
CONSTANTS
    Specs <- MCSpecs
    Schedules <- NoSchedules
    CPUReadings = {10}
    Overrides <- MCRampShort
    HistoryLimit = 1
    RejectScaledown = TRUE
    History = {}
    Deletions = TRUE
    Recreations = TRUE
    InitialPUs = {500}
    Restarts = TRUE
    MaxRevision = 3
    MaxVersion = 2
    MaxTime = 2
INVARIANTS
    RangeSuppressed
    
PROPERTIES
    ExpiredNotApplied
    
