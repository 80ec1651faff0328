SPECIFICATION FairSpec
CONSTANTS
    MaxProcesses = 5
    QtyReadyLevels = 2
    ProcessBound = 4
    Syscalls = {"create", "kill", "exit", "yield", "ctrlC", "block", "unblock"}
    AnyArguments = FALSE
PROPERTIES
    ReadyRuns
