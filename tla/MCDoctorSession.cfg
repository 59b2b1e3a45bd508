SPECIFICATION FairSpec
CONSTANTS
    Collectors = {"oom", "sched"}
    Options <- MCOptions
    MaxOOMEvents = 2
    MaxHistory = 2
    MaxEvents <- MCMaxEvents
    MaxCycles = 3
INVARIANTS
    TypeOK
    OomLogIsNewest
    ReportIsComplete
    ExitCodeTellsTheTruth
    CleanShutdown
    HistoryIsRecent
PROPERTIES
    EveryCycleReports
CHECK_DEADLOCK FALSE
