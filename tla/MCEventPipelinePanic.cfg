SPECIFICATION Spec
CONSTANTS
    RingCap = 2
    ChanCap = 1
    MaxEvents = 3
    Owners = {"collector", "bridge"}
    Malformed = {}
INVARIANTS
    GracefulShutdown
CHECK_DEADLOCK FALSE
