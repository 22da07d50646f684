\* A restart while a repriced order is submitted but not yet persisted.
SPECIFICATION FairSpec
CONSTANTS
    Q = 2
    MinFill = 2
    MinManaged = 2
    MaxReprices = 1
    TakerFallback = FALSE
    FallbackFits = TRUE
    MaxFaults = 0
    MaxCrashes = 1
    Faults = {}
INVARIANT LiveOrderOwned
CHECK_DEADLOCK FALSE
