SPECIFICATION FairSpec
CONSTANTS
    r1 = r1
    r2 = r2
    NoReq = NoReq
    Req <- TwoReqs
    MaxFaults = 1
    MaxCrashes = 1
    MaxLost = 1
INVARIANTS
    TypeOK
    RecoveryNeverRefuses
    AckBacked
    OneAckPerInstall
PROPERTIES
    InstallAnswered
    InstallImplemented
