SPECIFICATION Spec
CONSTANTS
    None = None
    Autoscalers <- MCAutoscalers
    Patches <- MCPatches
    AlphaPatches <- MCAlphaPatches
    Schedules <- MCSchedules
    Overrides <- MCOverrides
    DefaultIntervals <- MCIntervals
INVARIANTS
    ReAdmissible
    
    CredentialsFetchable
    AlphaReadBack
