SPECIFICATION Spec
CONSTANTS
    Keys = {k1, k2, k3, k4}
    KeyCap = 3
    TopN = 2
    Latencies = {0, 1}
    MaxRecords = 5
    Kinds = {"syscall", "fd", "tcp", "sched"}
SYMMETRY KeySymmetry
INVARIANTS
    TypeOK
    LruExact
    EntriesAccountForTotals
PROPERTIES
    SnapshotRegular
    WorstOffendersFirst
