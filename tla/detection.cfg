CONSTANTS
    Loads <- MixedLoads
    MaxWindow = 3
    MaxCrashes = 1
    Lookback = 2
    MinSamples = 3
    ErrorMinSample = 3
    LatencyLimit = 35
    ErrorLimit = 30
    CallRateLimit = 30
SPECIFICATION DetectionSpec
INVARIANTS
    BaselinesLookBack
    DropsAreReal
    SteadyIsJudged
    TopologyAddsUp
    MagnitudeIsMeasured
CHECK_DEADLOCK FALSE
