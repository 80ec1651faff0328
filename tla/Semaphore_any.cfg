SPECIFICATION SemSpec
CONSTANTS
    MaxProcesses = 5
    QtyReadyLevels = 1
    ProcessBound = 4
    Syscalls = {"sleep", "wake", "create", "kill", "unblock", "wait", "semOpen", "semClose", "semWait", "semPost"}
    AnyArguments = TRUE
    s1 = s1
    Sems = {s1}
    MaxValue = 1
    QueueBound = 3
    InitialValues = {0, 1}
    AnyKills = TRUE
    Dangling = Dangling
    None = None
    Freed = Freed
INVARIANTS SleepersQueued
CHECK_DEADLOCK FALSE
