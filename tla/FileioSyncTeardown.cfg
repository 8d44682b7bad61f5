SPECIFICATION Spec
CONSTANTS
    MaxOps = 1
    MaxWrites = 0
    MaxDeinits = 1
INVARIANTS
    TeardownNotReady
CHECK_DEADLOCK FALSE
