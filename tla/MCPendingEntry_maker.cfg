\* Maker entry with repricing, failing calls and failing saves; no restart.
SPECIFICATION FairSpec
CONSTANTS
    Q = 2
    MinFill = 2
    MinManaged = 1
    MaxReprices = 2
    TakerFallback = FALSE
    FallbackFits = TRUE
    MaxFaults = 2
    MaxCrashes = 0
    Faults = {"save"}
INVARIANTS TypeOK SingleLiveOrder LiveOrderOwned ExposureOwned NoDoubleFill
PROPERTY PromotedUnderStop
CHECK_DEADLOCK FALSE
