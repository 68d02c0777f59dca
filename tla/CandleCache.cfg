SPECIFICATION Spec
CONSTANTS
    Window = 5
    Lookback = 2
    MinLength = 2
    MaxAge = 4
    LastCandle = 10
    MaxCrashes = 2
INVARIANTS
    TradedIsWhole
PROPERTIES
    OnlyGrows
