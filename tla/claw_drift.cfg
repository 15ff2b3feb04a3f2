SPECIFICATION Spec
CONSTANTS
    c1 = c1
    j1 = j1
    j2 = j2
    h1 = h1
    h2 = h2
    NoJob = NoJob
    Claw <- OneClaw
    Supported <- OneClaw
    Job <- OneJob
    Caller <- OneCaller
    MaxFileFaults = 0
    MaxTableFaults = 0
    MaxCrashes = 0
INVARIANTS
    NoTransitionalDrift
CHECK_DEADLOCK FALSE
