SPECIFICATION Spec
CONSTANTS
    Programs = {"sched_delay"}
    MaxEntries = 2
    RingCap = 1
    Threads = {}
    Requests = {1, 2, 3, 4}
    Sector <- MCSector
    Tasks = {1, 2}
    Cpus = 1
    Noise = 1
    MaxTime = 3
    Sockets = {}
    IPv4 = {}
    Procs = {}
    MaxFds = 0
INVARIANT MeasuresQueueTime
CHECK_DEADLOCK FALSE
