\* Repricing, fallback, a crash, lost answers and lagging snapshots.
SPECIFICATION FairSpec
CONSTANTS
    Q = 2
    MinFill = 2
    MinManaged = 2
    MaxReprices = 2
    TakerFallback = TRUE
    FallbackFits = TRUE
    MaxFaults = 2
    MaxCrashes = 1
    Faults = {"lost", "lag"}
INVARIANTS SingleLiveOrder ClaimedOnDisk
PROPERTY EntryResolves
CHECK_DEADLOCK FALSE
