SPECIFICATION SoundSpec
CONSTANTS
    BufferTarget = 1
    LateWindow = 2
    MaxLosses = 3
    ChannelCapacity = 2
    LastId = 5
    Spread = 2
    MaxLag = 1
    Duplicates = FALSE
    ContextFrames = 2
    TrackFrames = 2
INVARIANTS
    NeverAheadOfClock
    HeardOnce
    HalvesMeet
    ContextInOrder
    TrackInOrder
PROPERTIES
    PlaysForward
    ResyncSettles
