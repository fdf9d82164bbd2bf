SPECIFICATION ServiceSpec
CONSTANTS
    FrameSize = 3
    MaxChunk = 5
    CompactAbove = 7
    MaxTotal = 26
    HeaderSize = 4
    LongLimit = 20
INVARIANTS
    EverySampleOnce
    FramesInOrder
    BufferBounded
    RecordingIsWhole
CHECK_DEADLOCK FALSE
