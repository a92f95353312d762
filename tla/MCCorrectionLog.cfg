CONSTANTS
    NavConfigs <- MCProduct
    Cadences <- MCUnit
    ImuCapacity = 2
    SensorCapacity = 3
    MaxDt = 1
    Horizon = 0
SPECIFICATION SwilSpec
INVARIANT CorrectionLoggedOnce
CHECK_DEADLOCK FALSE
