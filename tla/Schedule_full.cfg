SPECIFICATION Spec
CONSTANTS
    MaxProcesses = 3
    QtyReadyLevels = 1
    ProcessBound = 3
    Syscalls = {"create", "exit", "kill"}
    AnyArguments = FALSE
INVARIANTS
    NoHang
CHECK_DEADLOCK FALSE
