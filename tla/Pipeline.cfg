SPECIFICATION FairSpec
CONSTANTS
    PoolSize = 3
    RingCapacity = 3
    FreeCapacity = 3
    StampMod = 5
    EmptyCaptures = FALSE
    HasLimit = FALSE
    ReturnCodes <- ServiceReturnCodes
INVARIANTS
    RingNeverFull
    SentInCaptureOrder
    AtMostOneChunkAbandoned
PROPERTIES
    IsAPipe
    CloseStopsCapture
    AwakeSenderDrains
