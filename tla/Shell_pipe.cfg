SPECIFICATION Spec
CONSTANTS
    Builtins = {}
    Programs = {"ps"}
    Players = {"1"}
    Keys = {"snake", "1", "ps", " ", "|", "enter"}
    Others = {}
    MAX_BUFFER = 6
    MaxLine = 5
INVARIANTS
    AnyTwoPipe
