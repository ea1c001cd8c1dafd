SPECIFICATION Spec
CONSTANTS
    Specs <- MCSpecs
    Schedules <- NoSchedules
    CPUReadings = {10}
    Overrides <- MCRampShort
    HistoryLimit = 1
    RejectScaledown = FALSE
    History = {1}
    Deletions = TRUE
    Recreations = FALSE
    InitialPUs = {500}
    Restarts = TRUE
    MaxRevision = 4
    MaxVersion = 1
    MaxTime = 2
INVARIANT TypeOK
PROPERTY ExpiredStays
