SPECIFICATION FairSpec
CONSTANTS
    MaxOps = 2
    MaxWrites = 2
    MaxDeinits = 1
INVARIANTS
    TypeOK
    SyncingHasCallback
    FailureIsFresh
    OutcomeIsOwn
    LoneFlushStores
PROPERTIES
    DoneIsStable
    OpsComplete
CHECK_DEADLOCK FALSE
