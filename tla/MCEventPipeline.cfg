SPECIFICATION FairSpec
CONSTANTS
    RingCap = 2
    ChanCap = 2
    MaxEvents = 5
    Owners = {"collector", "bridge", "stream"}
    Malformed = {2}
INVARIANTS
    TypeOK
    
    FifoOrder
PROPERTIES
    FrozenAfterStop
    ImplementsLossyFifo
    EventuallyRecorded
    ShutdownEnds
    ReadLoopEnds
CHECK_DEADLOCK FALSE
