SPECIFICATION FairSpec
CONSTANTS
    PoolSize = 2
    RingCapacity = 2
    FreeCapacity = 2
    StampMod = 3
    EmptyCaptures = FALSE
    HasLimit = FALSE
    ReturnCodes <- ServiceReturnCodes
PROPERTIES
    StopEndsWorker
