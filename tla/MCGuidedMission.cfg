CONSTANTS
    Definitions <- MCDefinitions
    Rates <- MCRates
    Waypoints = 2
    None = None
SPECIFICATION GuidedSpec
INVARIANT GuidedTypeOK
INVARIANT PhaseNeverSkipped
INVARIANT DueTransitionsTaken
INVARIANT EntryConstantsWindow
INVARIANT OneStepOverlap
INVARIANT GyroAverageFresh
INVARIANT EndsAtLastSample
PROPERTY GuidanceConsumesFreshNavigation
PROPERTY TransitionsOnTime
PROPERTY MissionEnds
CHECK_DEADLOCK FALSE
