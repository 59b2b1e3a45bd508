SPECIFICATION Spec
CONSTANTS
    Programs = {"syscall_latency", "disk_io", "sched_delay", "tcp_monitor", "fd_track", "oom_track"}
    MaxEntries = 1
    RingCap = 2
    Threads = {1, 2, 3}
    Requests = {1, 2, 3, 4}
    Tasks = {1, 2}
    Sector <- MCSector
    Cpus = 1
    Noise = 1
    MaxTime = 3
    Sockets = {s4, s6}
    IPv4 = {s4}
    Procs = {p1}
    MaxFds = 2
INVARIANTS
    TypeOK
    FromLatestStart
    
    TimeIsItsOwn
    MissedOnlyWhenFull
    
    StreamTellsConnections
    DeltaNeverOverstates
CHECK_DEADLOCK FALSE
