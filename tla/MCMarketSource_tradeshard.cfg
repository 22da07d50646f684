\* A trade connection reconnects: which windows does the hub drop?
SPECIFICATION Spec
CONSTANTS
    a = a
    b = b
    Symbols = {a, b}
    NameBits <- BitsOfName
    DepthHash <- HashOfDepth
    Followed <- TradeShards
    Universes <- BothSymbols
    CandleLimit = 1
    SeriesLimit = 1
    BootLimit = 2
    RepairLimit = 2
    MaxGen = 2
    MaxId = 1
    MaxBar = 1
INVARIANTS WindowOfOneConnection
CHECK_DEADLOCK FALSE
