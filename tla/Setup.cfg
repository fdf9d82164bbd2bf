SPECIFICATION SocketsFairSpec
CONSTANTS
    Client = {a, b}
    None = None
    MayFail = TRUE
INVARIANTS
    PortHasItsSession
    PlayingIsServed
    WinsockUp
    NothingLeftOpen
PROPERTIES
    AttemptResolves
CHECK_DEADLOCK FALSE
