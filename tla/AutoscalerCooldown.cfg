SPECIFICATION Spec
CONSTANTS
    Specs <- MCOneSpec
    Schedules <- NoSchedules
    CPUReadings = {10}
    InitialPUs = {900}
    Retries = 1
    MaxVersion = 3
    MaxTime = 3
PROPERTY InstanceCooldown
