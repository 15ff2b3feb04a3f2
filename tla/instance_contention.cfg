SPECIFICATION FairSpec
CONSTANTS
    i1 = i1
    i2 = i2
    c1 = c1
    o1 = o1
    Inst <- TwoInst
    Claw <- OneClaw
    ClawOf <- SameClaw2
    SlotSized <- OneInst
    Budget = 2
    Op <- NoOp
    Requests <- AllRequests
    Quotas <- ContentionQuotas
PROPERTIES
    CreateAnswered
