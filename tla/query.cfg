CONSTANTS
    d1 = d1
    d2 = d2
    Deps <- TwoDeps
    Polling = TRUE
    MaxEffects = 3
    MaxPolls = 1
SPECIFICATION HookFairSpec
INVARIANTS
    HookInv
PROPERTIES
    PollKeepsGoodData
    LeavesLoading
CHECK_DEADLOCK FALSE
