SPECIFICATION FairSpec
CONSTANTS
    BufferTarget = 1
    LateWindow = 2
    MaxLosses = 2
    ChannelCapacity = 1
    LastId = 4
    Spread = 2
    MaxLag = 1
    Duplicates = TRUE
PROPERTIES
    QuietAtTheEnd
