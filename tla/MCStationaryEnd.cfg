CONSTANTS
    p1 = p1
    p2 = p2
    p3 = p3
    none = none
    typical = typical
    extreme = extreme
    Phases <- MCPhases
    None <- none
    Probabilities = {typical, extreme}
    Solvable = {typical}
    Missions <- MCMissions
    Period = 2
    Dynamics = 4
    MaxTime = 9
    Fine = 4
    Sources <- MCFractionalSources
SPECIFICATION AppSpec
INVARIANT SourceCompleteAtEnd
CHECK_DEADLOCK FALSE
