SPECIFICATION Spec
CONSTANTS
    Names = {"tick", "tock"}
    Fns = {"f", "g"}
    NewListener = "new_listener"
    Polite = TRUE
    MaxEntries = 3
    MaxEmits = 3
INVARIANTS
    NoStale
    BridgeMatches
    EmitReachesAll
    OnceOnce
CHECK_DEADLOCK FALSE
