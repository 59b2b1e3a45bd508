SPECIFICATION FairSpec
CONSTANTS
    RingCap = 2
    ChanCap = 2
    MaxEvents = 3
    Owners = {"collector"}
    Malformed = {}
PROPERTIES
    StopFlushes
CHECK_DEADLOCK FALSE
