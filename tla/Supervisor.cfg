SPECIFICATION FairSpec
CONSTANTS
    MaxRestarts = 2
    Stale = 7
    LoopWait = 2
    Short = 1
    Timeout = 4
    Threshold = 2
    NetEvery = 2
    None = NoFile
    NoFile = NoFile
INVARIANTS
    SupTypeOK
    PauseIsNotHang
PROPERTIES
    GivesUpLate
    CrashIsNoticed
    HangIsNoticed
