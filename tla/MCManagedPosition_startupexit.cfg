\* The position is closed while the process is down; no call fails.
SPECIFICATION FairSpec
CONSTANTS
    Cost = 1
    Activation = {5}
    Floor = 4
    MemActivation = {3}
    MemFloor = 1
    TrailActivation = {6}
    TrailDistance = 1
    Q = 2
    Chunk = 1
    PartialAfter = {1}
    StopDistance = 2
    Tight = 1
    MaxGain = 5
    MaxLoss = 1
    MaxFaults = 0
    MaxCrashes = 1
PROPERTY ForgottenIsSent
CHECK_DEADLOCK FALSE
