SPECIFICATION Spec
CONSTANTS
    Fingerprints = {f1, f2, f3}
    PerMinute = 2
    Interval = 4
    TTL = 1
    CacheLimit = 2
    MaxTime = 6
    None = None
INVARIANTS
    PerMinuteIsMaximum
CHECK_DEADLOCK FALSE
