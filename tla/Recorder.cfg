SPECIFICATION FairSpec
CONSTANTS
    Sessions = {s1, s2}
    Exclusive = {s2}
    HasLimit = TRUE
INVARIANTS EveryCallIsAccepted
PROPERTY DeviceComesBack
CHECK_DEADLOCK FALSE
