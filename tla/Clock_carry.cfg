SPECIFICATION Spec
CONSTANTS
    Starts = {59}
    MaxTicks = 2
INVARIANTS
    ShowsActualTime
CHECK_DEADLOCK FALSE
