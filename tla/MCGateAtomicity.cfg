CONSTANTS
    p1 = p1
    p2 = p2
    p3 = p3
    none = none
    typical = typical
    tight = tight
    extreme = extreme
    Phases <- MCPhases
    None <- none
    Probabilities <- MCProbabilities
    Solvable <- MCSolvable
    Missions <- MCMissions
SPECIFICATION RuntimeSpec
PROPERTY PhaseApplicationIsAtomic
CHECK_DEADLOCK FALSE
