SPECIFICATION Spec
CONSTANTS
    Pair = {p1, p2}
    Nobody = Nobody
    MaxLong = 1
    LossPct = 5
    PollEvery = 2
    Capital = 2
    MaxUsdc = 2
    MaxPnl = 0
INVARIANT NeverMoreThanMax
