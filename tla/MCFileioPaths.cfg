SPECIFICATION Spec
CONSTANTS
    Names = {"a", "b", "c"}
    Colon = "c:"
    Mounts <- MCMounts
    Paths <- MCPaths
    Others <- MCOthers
    MaxSegments = 5
    MaxWrites = 3
INVARIANTS
    NormalizeCorrect
    FilesFaithful
PROPERTIES
    Confined
CHECK_DEADLOCK FALSE
