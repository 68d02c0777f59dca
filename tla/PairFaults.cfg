SPECIFICATION Spec
CONSTANTS
    StopIds = {1, 2, 3}
    BuyQtys = {16, 17}
    MinQty = 2
    Step = 2
    MaxFaults = 1
    LostReplies = TRUE
    Prices = {1, 2, 3, 4, 5}
    BuyPrices = {2}
    StopDist = 1
    TrailDist = 2
    BeGain = 1
    Gain <- MCGain
    Pct <- MCPct
    MaxTries = 2
    MaxLong = 2
    MaxOthers = 0
    DustPart = 2
    MaxHeld = 36
    Prompt = FALSE
    ResidueSells = TRUE
    NoId = 0
INVARIANTS
    AtMostOneStop
    Protected
    NoOrphanStop
    StopAtLeastSoft
PROPERTIES
    BuysOnlyWhenFlat
    EffectiveStopNeverFalls
    ClosesFlat
