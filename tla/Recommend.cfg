SPECIFICATION Spec
CONSTANTS
    Jobs <- MCJobs
    Outcomes <- MCOutcomes
    Flags <- MCFlags
    ActualPUHours = 100
    MaxCombinations = 5
    Procs = 2
INVARIANTS
    TypeOK
    RankingDeterministic
    RecommendationSound
    KeptOnlyWhenNothingBetter
    FurtherNeedsMoreChanges
    
    MinimaCoverWorkload
    CurrentStaysInSearch
