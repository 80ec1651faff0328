SPECIFICATION Spec
CONSTANTS
    MaxProcesses = 5
    QtyReadyLevels = 2
    ProcessBound = 4
    Syscalls = {"create", "exit", "ctrlC", "wait", "block", "unblock", "sleep", "wake"}
    AnyArguments = FALSE
INVARIANTS
    NoFault
    WaitersResumeSafely
