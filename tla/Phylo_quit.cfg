SPECIFICATION Spec
CONSTANTS
    InitialPhilosophers = 3
    MAX_PHILOSOPHERS = 3
    MIN_PHILOSOPHERS = 3
    MAX_CONSECUTIVE_MEALS = 1
    HUNGER_THRESHOLD = 1
    Inputs = {"q"}
    Pids = {1, 2, 3, 4, 5, 6}
    MaxRuns = 2
INVARIANTS QuitStopsAll
CHECK_DEADLOCK FALSE
