SPECIFICATION Spec
CONSTANTS
    Specs <- MCOneSpec
    Schedules <- MCSchedules
    CPUReadings = {10}
    InitialPUs = {900}
    Retries = 2
    MaxVersion = 4
    MaxTime = 3
INVARIANTS
    IndInv
    
PROPERTIES
    NoLostUpdate
    
