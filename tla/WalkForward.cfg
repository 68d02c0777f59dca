SPECIFICATION Spec
CONSTANTS
    Frames <- MCFrames
    Daily <- MCDaily
    Configs <- MCConfigs
    FrameOf <- MCFrameOf
    Chosen = chosen
    BarCounts = {13, 15, 40}
    MinTrain = 10
    DailyTrain = 7
    MinTest = 4
    NFolds = 3
    Percents = {40, 60, 70}
    StudyPercent = 40
    DailyPercent = 45
    Scores = {0, 9, 20}
    FullScores = {9, 80}
    WinRates = {20, 45}
    SharpeMin = 8
    WinRateMin = 30
    DecayFloor = 5
    DecayMin = 15
    TopN = 3
    hours = hours
    days = days
    c1 = c1
    c2 = c2
    c3 = c3
    c4 = c4
    chosen = chosen
SYMMETRY Symmetric
CHECK_DEADLOCK FALSE
INVARIANTS
    FoldsInOrder
    EveryFrameHeard
    BestHolds
