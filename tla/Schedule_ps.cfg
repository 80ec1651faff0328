SPECIFICATION Spec
CONSTANTS
    MaxProcesses = 4
    QtyReadyLevels = 1
    ProcessBound = 3
    Syscalls = {"create", "block"}
    AnyArguments = FALSE
INVARIANTS
    SnapshotComplete
