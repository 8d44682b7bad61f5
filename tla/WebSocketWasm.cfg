SPECIFICATION Spec
CONSTANTS
    MaxObjects = 2
    MaxSends = 1
    MaxMessages = 2
INVARIANTS
    NoLateCallback
    SendsHonest
PROPERTIES
    StreamSpec
CHECK_DEADLOCK FALSE
