CONSTANTS
    NavConfigs <- MCProduct
    Cadences <- MCThirds
    ImuCapacity = 2
    SensorCapacity = 3
    MaxDt = 1
    Horizon = 0
SPECIFICATION SwilSpec
INVARIANT MultipleRatesSustained
CHECK_DEADLOCK FALSE
