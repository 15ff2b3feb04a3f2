SPECIFICATION Spec
CONSTANTS
    t1 = t1
    t2 = t2
    t3 = t3
    w1 = w1
    None = None
    Txn <- ThreeTxns
    Worker <- OneWorker
    MaxGen = 2
    MaxEpoch = 3
    Delegation = {1}
    MaxCap = 2
    MaxTerminals = 1
    MaxKeys = 2
    Budgets <- RareEvents
INVARIANTS
    TypeOK
    RecordLoads
    RevokeNeverBlocked
    RelyOnPresentKeys
    KeysTracked
    SigningFenced
    AnswersSurvive
    OneKeyPerGeneration
SYMMETRY Symmetry
CHECK_DEADLOCK FALSE
