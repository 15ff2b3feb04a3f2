SPECIFICATION FairSpec
CONSTANTS
    c1 = c1
    NoConv = NoConv
    Conv <- OneConv
    NIntents = 3
    NInst = 2
    IntentLimit = 1
    SessionLimit = 2
    ArchiveLimit = 0
    MaxFaults = 1
    MaxCrashes = 2
INVARIANTS
    TypeOK
    AtMostOnce
    CancelFences
    OpenReachable
    OutputKept
PROPERTIES
    SlotsReclaimed
