CONSTANTS
    NavConfigs <- MCConfigs
    Cadences <- MCCadences
    ImuCapacity = 2
    SensorCapacity = 3
    MaxDt = 1
    Horizon = 0
SPECIFICATION SwilSpec
INVARIANT SwilTypeOK
INVARIANT EvenRatesSustained
INVARIANT FinishedMissionIsComplete
PROPERTY JudgedNearItsTime
PROPERTY OwnContextJudged
PROPERTY NoCorrectionLost
CHECK_DEADLOCK FALSE
