SPECIFICATION Spec
CONSTANTS
    AllocMayFail = FALSE
    StrictPeer = TRUE
    CloseCodes <- SomeCloseCodes
    PeerCodes <- SomePeerCodes
    SendRoom = 1
    MaxSends = 1
    MaxCloses = 1
    MaxFrames = 1
    MaxSignals = 1
INVARIANTS
    TypeOK
    EventOrder
    SockfdLive
    WireFramed
    EarlyCloseFirst
    CloseCodeHonest
    FreedClean
    DeliveredInOrder
PROPERTIES
    CloseIsFinal
    StreamSpec
