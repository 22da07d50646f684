\* A taker fallback fill whose emergency close fails once.
SPECIFICATION FairSpec
CONSTANTS
    Q = 2
    MinFill = 2
    MinManaged = 2
    MaxReprices = 0
    TakerFallback = TRUE
    FallbackFits = TRUE
    MaxFaults = 1
    MaxCrashes = 0
    Faults = {}
INVARIANT ExposureOwned
CHECK_DEADLOCK FALSE
