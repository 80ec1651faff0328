SPECIFICATION Spec
CONSTANTS
    MaxProcesses = 6
    QtyReadyLevels = 1
    ProcessBound = 5
    Syscalls = {"create", "exit", "kill", "wait", "yield"}
    AnyArguments = FALSE
INVARIANTS
    LeastFreePid
    CountMatchesTable
    NoLostExit
PROPERTIES
    ReapedByParent
