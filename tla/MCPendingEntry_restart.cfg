\* Crashes and failing calls between any two awaits; no repricing.
SPECIFICATION FairSpec
CONSTANTS
    Q = 2
    MinFill = 2
    MinManaged = 1
    MaxReprices = 0
    TakerFallback = FALSE
    FallbackFits = TRUE
    MaxFaults = 2
    MaxCrashes = 2
    Faults = {}
INVARIANTS LiveOrderOwned ExposureOwned FilledIsAccounted
PROPERTY PromotedUnderStop
CHECK_DEADLOCK FALSE
