SPECIFICATION PipelineSpec
CONSTANTS
    NsPerSecond = 100
    MaxSeconds = 12
    MaxIndex = 40
    ImuCapacity = 3
    SensorCapacity = 3
    HistoryCapacity = 2
    PairTolerance = 2
    Setups <- MCSetups
INVARIANT PipelineTypeOK
INVARIANT IncrementsTile
INVARIANT MeasurementsKeepGrid
INVARIANT RateOfNewestIncrement
PROPERTY BuffersAreQueues
CHECK_DEADLOCK FALSE
