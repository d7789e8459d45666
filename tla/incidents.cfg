CONSTANTS
    Services <- Three
    Calls <- Shortcut
    Firing <- MixedFiring
    Lookback = 2
    MaxWindow = 3
    MaxCrashes = 1
    MaxRows = 2
SPECIFICATION Spec
INVARIANTS
    TablesAgree
    BlameIsDeepest
    SuppressedLandedInDerived
    ScoreFollowsDetections
    RootsResolve
PROPERTIES
    IncidentsOnlyGrow
CHECK_DEADLOCK FALSE
