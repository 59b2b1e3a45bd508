SPECIFICATION Spec
CONSTANTS
    Keys = {k1}
    KeyCap = 2
    TopN = 2
    Latencies = {0}
    MaxRecords = 3
    Kinds = {"sched"}
INVARIANTS
    SnapshotIsPointInTime
