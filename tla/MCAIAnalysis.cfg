SPECIFICATION Spec
CONSTANTS
    Fingerprints = {f1, f2, f3, f4, f5}
    PerMinute = 2
    Interval = 4
    TTL = 1
    CacheLimit = 2
    MaxTime = 6
    None = None
SYMMETRY Symmetry
INVARIANTS
    TypeOK
    AnalysisIsFresh
    NoRedundantCalls
    CallsAreMetered
    HalfTheBudgetIsUsable
    CacheIsBounded
CHECK_DEADLOCK FALSE
