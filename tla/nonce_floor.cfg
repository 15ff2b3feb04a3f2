SPECIFICATION Spec
CONSTANTS
    i1 = i1
    i2 = i2
    p1 = p1
    p2 = p2
    c1 = c1
    c2 = c2
    NoProc = NoProc
    NoCaller = NoCaller
    Intent <- TwoIntents
    NotAfter <- Validity
    Proc <- TwoProcs
    Caller <- TwoCallers
    Home <- OneEach
    Capacity = 2
    MaxTime = 2
    MaxFaults = 1
    MaxCrashes = 1
    MaxGiveUps = 1
INVARIANTS
    ExactlyOneCommitted
CHECK_DEADLOCK FALSE
