CONSTANTS
    NavConfigs <- MCConfigs
    ImuCapacity = 3
    SensorCapacity = 2
    MaxDt = 2
    Horizon = 4
SPECIFICATION NavSpec
INVARIANT NavTypeOK
INVARIANT ImuTimeConserved
INVARIANT CovarianceFollowsState
INVARIANT JudgedAtLatestState
INVARIANT CorrectionsApplied
PROPERTY FinalizeProcessesAll
CHECK_DEADLOCK FALSE
