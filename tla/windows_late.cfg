CONSTANTS
    s1 = s1
    Spans <- OneSpan
    Start <- StartsAtZero
    WindowSeconds = 1
    WatermarkSeconds = 1
    LateCheckInterval = 0
    Inserts = 1
    MaxTime = 4
    MaxIngests = 1
    MaxCrashes = 0
SPECIFICATION FairSpec
PROPERTIES
    LateIsCounted
CHECK_DEADLOCK FALSE
