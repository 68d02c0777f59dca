SPECIFICATION Spec
CONSTANTS
    Order = {1, 2}
    Kind <- MCKind
    MaxRetries = 3
    StopRetries = 2
    RequestRetries = 2
    Threshold = 2
    MaxFaults = 3
INVARIANTS
    FoundIsFilled
CHECK_DEADLOCK FALSE
