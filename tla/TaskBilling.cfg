\* Every platform, with everything that may fail.
CONSTANTS
    P = P
    Q = Q
    U = U
    Users <- OneUser
    Platforms <- AllPlatforms
    Passes <- TwoPasses
    Quotas <- SmallQuotas
    Actuals <- SmallActuals
    Fundings <- BothFundings
    Sweeps = TRUE
    SettleFails = TRUE
    MaxBilled = 1
    MaxMisses = 1
    MaxFaults = 1
    MaxCrashes = 1
SPECIFICATION Spec
CHECK_DEADLOCK FALSE
INVARIANTS VideoBilledOnce VideoPaysWhatIsDue
PROPERTIES OutcomeIsFinal 
