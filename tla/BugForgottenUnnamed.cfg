SPECIFICATION RestartSpec
CONSTANTS
    StopIds = {1, 2, 3}
    BuyQtys = {16}
    MinQty = 2
    Step = 2
    MaxFaults = 1
    LostReplies = TRUE
    Prices = {1, 2, 4}
    BuyPrices = {2}
    StopDist = 1
    TrailDist = 2
    BeGain = 1
    Gain <- MCGain
    Pct <- MCPct
    MaxTries = 1
    MaxLong = 2
    MaxOthers = 0
    DustPart = 2
    MaxHeld = 36
    Prompt = FALSE
    ResidueSells = FALSE
    NoId = 0
    MaxCrashes = 1
    MaxSaveFailures = 1
    ReconcileMin = 17
PROPERTIES
    ForgottenIsNamed
