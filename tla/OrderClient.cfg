SPECIFICATION FairSpec
CONSTANTS
    Order = {1, 2}
    Kind <- MCKind
    MaxRetries = 3
    StopRetries = 2
    RequestRetries = 2
    Threshold = 2
    MaxFaults = 4
INVARIANTS
    TypeOK
    TwiceOnlyBlind
    RaisedHidesLast
PROPERTIES
    KeepsPromise
    EveryCallEnds
CHECK_DEADLOCK FALSE
