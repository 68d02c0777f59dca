SPECIFICATION FairSpec
CONSTANTS
    StopIds = {1, 2, 3}
    BuyQtys = {16, 17}
    MinQty = 2
    Step = 2
    MaxFaults = 3
    LostReplies = FALSE
    Prices = {1, 2, 3, 4, 5}
    BuyPrices = {2}
    StopDist = 1
    TrailDist = 2
    BeGain = 1
    Gain <- MCGain
    Pct <- MCPct
    MaxTries = 2
    MaxLong = 2
    MaxOthers = 2
    DustPart = 2
    MaxHeld = 18
    Prompt = FALSE
    ResidueSells = FALSE
    NoId = 0
INVARIANTS
    TypeOK
    ArmedMeansLive
PROPERTIES
    HaltOnlyExposed
    DeadPositionCloses
