SPECIFICATION FairSpec
CONSTANTS
    Slots = {1, 2}
    MaxOps = 2
    MaxSyncs = 1
    MaxParts = 2
    OkStatus = {200}
    OtherStatus = {500}
INVARIANTS
    HeapOwned
    BodyWhole
    StatusMatches
PROPERTIES
    FetchCompletes
CHECK_DEADLOCK FALSE
