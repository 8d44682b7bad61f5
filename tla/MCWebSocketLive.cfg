SPECIFICATION FairSpec
CONSTANTS
    AllocMayFail = TRUE
    StrictPeer = FALSE
    CloseCodes <- OneCode
    PeerCodes <- SomePeerCodes
    SendRoom = 1
    MaxSends = 0
    MaxCloses = 0
    MaxFrames = 1
    MaxSignals = 0
PROPERTIES
    DestroyReturns
    CloseDelivered
