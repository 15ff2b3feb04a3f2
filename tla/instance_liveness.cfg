SPECIFICATION FairSpec
CONSTANTS
    i1 = i1
    i2 = i2
    c1 = c1
    o1 = o1
    Inst <- OneInst
    Claw <- OneClaw
    ClawOf <- SameClaw1
    SlotSized <- OneInst
    Budget = 1
    Op <- NoOp
    Requests <- AllRequests
    Quotas <- LivenessQuotas
PROPERTIES
    JobsImplemented
    JobsSettle
    LeasesSettle
    OrphanWarmLeasesReleased
