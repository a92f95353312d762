CONSTANTS
    Definitions <- MCDefinitions
    Rates <- MCRates
    Waypoints = 2
    None = None
SPECIFICATION GuidedSpec
INVARIANT ControlStateInPlantFrame
CHECK_DEADLOCK FALSE
