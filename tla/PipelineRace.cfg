SPECIFICATION Spec
CONSTANTS
    PoolSize = 2
    RingCapacity = 1
    FreeCapacity = 2
    StampMod = 2
    EmptyCaptures = TRUE
    HasLimit = TRUE
    ReturnCodes <- AnyReturnCodes
INVARIANTS
    ChunkConservation
