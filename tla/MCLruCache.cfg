SPECIFICATION Spec
CONSTANTS
    Keys = {"a", "b", "c", "d"}
    Data = {"x", "y"}
    Sizes <- MCSizes
    max_bytes = 5
    max_entries = 3
INVARIANTS
    TypeOK
    Linked
    Accounted
PROPERTIES
    ListSpec
