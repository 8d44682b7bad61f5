SPECIFICATION Spec
CONSTANTS
    Names = {"tick", "tock"}
    Fns = {"f"}
    NewListener = "new_listener"
    Polite = FALSE
    MaxEntries = 1
    MaxEmits = 2
INVARIANTS
    OnceOnce
CHECK_DEADLOCK FALSE
