SPECIFICATION FairSpec
CONSTANTS
    Pair = {p1, p2}
    Nobody = Nobody
    MaxLong = 2
    LossPct = 5
    PollEvery = 2
    Capital = 2
    MaxUsdc = 2
    MaxPnl = 0
PROPERTY FillSeenWhenFull
