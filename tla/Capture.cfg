SPECIFICATION FairSpec
CONSTANTS
    Capacity = 22
    SampleBytes = 4
    Channels = 2
    InRate = 3
    OutRate = 2
    Margin = 1
    Packets <- PacketSizes
    MaxWaiting = 3
    MaxHeld = 6
INVARIANT NeverOverflows
PROPERTY SoundKeepsFlowing
CHECK_DEADLOCK FALSE
