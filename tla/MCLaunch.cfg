CONSTANTS
    pad = pad
    boost = boost
    coast = coast
    none = none
    typical = typical
    extreme = extreme
    main = main
    gnc = gnc
    shared = shared
    missing = missing
    Phases <- MCPhases
    Probabilities = {typical, extreme}
    Solvable = {typical}
    None = none
    Missions <- MCMissions
    Files <- MCFiles
    Root = main
    Setups <- MCSetups
    NsPerSecond = 1000
    MaxSeconds = 20
    MaxIndex = 40
SPECIFICATION LaunchSpec
INVARIANT PhasesAgree
INVARIANT ValidatedIsBuildable
CHECK_DEADLOCK FALSE
