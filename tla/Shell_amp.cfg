SPECIFICATION Spec
CONSTANTS
    Builtins = {"help"}
    Programs = {"ps", "wc"}
    Players = {}
    Keys = {"ps", "wc", "&", "|", "enter"}
    Others = {}
    MAX_BUFFER = 6
    MaxLine = 4
INVARIANTS
    AmpersandDoesNotWait
