SPECIFICATION Spec
CONSTANTS
    Collectors = {"oom"}
    Options <- MCContinuous
    MaxOOMEvents = 2
    MaxHistory = 2
    MaxEvents <- MCMaxEvents
    MaxCycles = 3
INVARIANTS
    KillsAreOfTheWindow
CHECK_DEADLOCK FALSE
