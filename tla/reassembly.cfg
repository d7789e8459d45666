CONSTANTS
    s1 = s1
    s2 = s2
    s3 = s3
    s4 = s4
    a = a
    b = b
    c = c
    NoParent = NoParent
    Spans <- FourSpans
    Services <- ThreeServices
    MaxStart = 0
    RootService = a
    Skews <- OnOrOff
    OtherWindows = {w1, w2}
    w1 = w1
    w2 = w2
SPECIFICATION Spec
INVARIANTS
    RejectedHaveNoEnd
    TreeIsRight
    CallsConserved
    SkewIsRecovered
    EvaluationIsFair
CHECK_DEADLOCK FALSE
