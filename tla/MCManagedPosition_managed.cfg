\* Every exit of a managed position, with failing calls and saves and a crash;
\* break-even is further than the profit-memory activation.
SPECIFICATION FairSpec
CONSTANTS
    Cost = 1
    Activation = {5}
    Floor = 4
    MemActivation = {3}
    MemFloor = 1
    TrailActivation = {6}
    TrailDistance = 1
    Q = 2
    Chunk = 1
    PartialAfter = {1}
    StopDistance = 2
    Tight = 1
    MaxGain = 5
    MaxLoss = 1
    MaxFaults = 1
    MaxCrashes = 1
INVARIANTS TypeOK ExitRequestedMeansFlat DecisionsOnDisk FloorBacked
PROPERTIES StopRetained StopNeverLoosens FloorNeverLoosens FirstExitRemembered FlatIsForgotten BareResolved ExitReasonFinal
CHECK_DEADLOCK FALSE
