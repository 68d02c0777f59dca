SPECIFICATION Spec
CONSTANTS
    Pairs <- MCPairs
    Thresholds <- MCThresholds
    Preset = factory
    None = nothing
    MaxCrashes = 1
    p1 = p1
    p2 = p2
    t1 = t1
    t2 = t2
    factory = factory
    nothing = nothing
SYMMETRY Symmetric
INVARIANTS
    GateTypeOK
    BuysPassedTheGate
    NeverLockedOut
