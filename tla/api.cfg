CONSTANTS
    Spans <- FiveSpans
    Trace <- TraceOf
    Service <- ServiceOf
    Start <- StartOf
    NoTrace = NoTrace
    WindowTicks = 2
    MinDuration = 1
    Queries <- SomeQueries
    ApiMaxRows = 3
    ApiMaxRange = 2
    MaxCrashes = 1
SPECIFICATION Spec
INVARIANTS
    PagingLosesOnlyTies
    DetailIsCurrent
CHECK_DEADLOCK FALSE
