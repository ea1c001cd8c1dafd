SPECIFICATION Spec
CONSTANTS
    Specs <- MCSpecs
    Schedules <- NoSchedules
    CPUReadings = {10}
    InitialPUs = {900}
    Retries = 1
    MaxVersion = 4
    MaxTime = 3
INVARIANTS
    ScalesOnMeasurements
PROPERTIES
    RecordedCooldown
    AtomicSpec
