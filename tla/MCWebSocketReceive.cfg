SPECIFICATION Spec
CONSTANTS
    AllocMayFail = FALSE
    StrictPeer = TRUE
    CloseCodes <- NoCodes
    PeerCodes <- SomePeerCodes
    SendRoom = 1
    MaxSends = 0
    MaxCloses = 0
    MaxFrames = 3
    MaxSignals = 0
INVARIANTS
    MessagesIntact
    OrderlyEndLosesNothing
    EndReported
