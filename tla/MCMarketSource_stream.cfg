\* One connection of each kind and the frame loop over one symbol.
SPECIFICATION FairSpec
CONSTANTS
    a = a
    b = b
    Symbols = {a}
    NameBits <- BitsOfName
    DepthHash <- HashOfDepth
    Followed <- OneOfEach
    Universes <- OneSymbol
    CandleLimit = 1
    SeriesLimit = 2
    BootLimit = 1
    RepairLimit = 1
    MaxGen = 2
    MaxId = 3
    MaxBar = 3
INVARIANTS TypeOK ClosedIsFinal FlowIsSound
PROPERTIES BookNeverGoesBack ClosedIsKept SubscriptionsSettle ElapsedIsRepaired DesiredIsServed
CHECK_DEADLOCK FALSE
