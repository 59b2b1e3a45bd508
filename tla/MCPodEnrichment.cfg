SPECIFICATION Spec
CONSTANTS
    Names = {web}
    MaxUid = 2
    Slots = {1}
    MaxBackoff = 2
    Dirs = {0, 1, 2, 3}
    Parent <- MCParent
    PodUid <- MCPodUid
    MaxDepth = 2
    MaxHigh = 2
    Scenarios <- MCScenarios
INVARIANTS
    TypeOK
    LimitsReportedOnce
    
    
    IndexesFollowInformer
PROPERTIES
    LaterPollsAreNamed
CHECK_DEADLOCK FALSE
