SPECIFICATION Spec
CONSTANTS
    InitialPhilosophers = 3
    MAX_PHILOSOPHERS = 4
    MIN_PHILOSOPHERS = 3
    MAX_CONSECUTIVE_MEALS = 1
    HUNGER_THRESHOLD = 1
    Inputs = {"a", "r"}
    Pids = {1, 2, 3, 4, 5}
    MaxRuns = 1
INVARIANTS RemoveRemoves
CHECK_DEADLOCK FALSE
