SPECIFICATION Spec
CONSTANTS
    Pids = {p1, p2}
    HeapSize = 7
    MaxMine = 1
    MaxLost = 1
INVARIANTS
    CreatedWhole
