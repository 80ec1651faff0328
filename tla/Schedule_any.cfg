SPECIFICATION Spec
CONSTANTS
    MaxProcesses = 5
    QtyReadyLevels = 2
    ProcessBound = 5
    Syscalls = {"create", "kill", "block", "unblock", "nice", "wake", "sleep", "wait"}
    AnyArguments = TRUE
INVARIANTS
    TypeOK
    QueuesMatchStatus
    ZombiesReachable
    RunningIsCurrent
PROPERTIES
    DispatchesReady
CHECK_DEADLOCK FALSE
