SPECIFICATION Spec
CONSTANTS
    c1 = c1
    j1 = j1
    j2 = j2
    h1 = h1
    h2 = h2
    NoJob = NoJob
    Claw <- OneClaw
    Supported <- OneClaw
    Job <- TwoJobs
    Caller <- TwoCallers
    MaxFileFaults = 1
    MaxTableFaults = 1
    MaxCrashes = 1
INVARIANTS
    TypeOK
    StoreMatchesFile
    InstallingNamesJob
    RunningJobHeld
    NoStaleJobRun
SYMMETRY Symmetry
CHECK_DEADLOCK FALSE
