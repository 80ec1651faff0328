SPECIFICATION UserTestsSpec
CONSTANTS
    MaxProcesses = 7
    QtyReadyLevels = 5
    ProcessBound = 6
    Syscalls = {"sleep", "wake", "kill", "block", "unblock", "nice", "create", "ctrlC", "exit", "wait", "yield", "semOpen", "semClose", "semWait", "semPost"}
    AnyArguments = TRUE
    sem20 = sem20
    Sems = {sem20}
    SEM_ID = sem20
    TOTAL_PAIR_PROCESSES = 1
    Rounds = 2
    MaxValue = 2
    InitialValues = {1}
    QueueBound = 4
    AnyKills = TRUE
    Dangling = Dangling
    None = None
    Freed = Freed
    TOTAL_PROCESSES = 3
    Memory = {0, 1, 2}
    Sizes = {1, 2}
    Programs = {"first", "second"}
    MAX_BLOCKS = 2
    max_memory = 3
INVARIANTS UpdatesKept NoTestError KeepsPriority
PROPERTY TestsReturn
