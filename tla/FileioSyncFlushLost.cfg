SPECIFICATION Spec
CONSTANTS
    MaxOps = 2
    MaxWrites = 1
    MaxDeinits = 0
INVARIANTS
    FlushStores
CHECK_DEADLOCK FALSE
