CONSTANTS
    s1 = s1
    Spans <- OneSpan
    Start <- StartsAtZero
    WindowSeconds = 2
    WatermarkSeconds = 1
    LateCheckInterval = 2
    Inserts = 2
    MaxTime = 7
    MaxIngests = 2
    MaxCrashes = 1
SPECIFICATION FairSpec
INVARIANTS
    CursorSound
    SpansFindAWindow
PROPERTIES
    EveryWindowWritten
CHECK_DEADLOCK FALSE
