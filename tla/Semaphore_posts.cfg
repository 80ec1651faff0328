SPECIFICATION SemSpec
CONSTANTS
    MaxProcesses = 5
    QtyReadyLevels = 2
    ProcessBound = 4
    Syscalls = {"sleep", "wake", "create", "exit", "kill", "nice", "semOpen", "semWait", "semPost"}
    AnyArguments = TRUE
    s1 = s1
    s2 = s2
    Sems = {s1, s2}
    MaxValue = 1
    QueueBound = 4
    InitialValues = {0, 1}
    AnyKills = FALSE
    Dangling = Dangling
    None = None
    Freed = Freed
INVARIANTS NoLostWakeup

