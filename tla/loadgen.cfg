SPECIFICATION FairSpec
CONSTANTS
    Sites = {"gw", "api"}
    NoSite = "none"
    CallerOf <- GwCallsApi
    ServiceOf <- SameName
    Plans <- OneOrTwo
    Injectors = {"out_of_order", "drop", "late_arrival", "clock_skew"}
    OutOfOrderDelay = 1
    LateDelays = {2}
    Skews = {1}
    MaxRows = 2
    MaxTraces = 2
CHECK_DEADLOCK FALSE
INVARIANTS
    SpansAccounted
    TruthIsComplete
    ShiftsExplained
PROPERTIES
    RunEnds
