SPECIFICATION Spec
CONSTANTS
    Bits = 9
    HexDigits = 2
    PTR = 2
    MaxArgs = 3
    MaxLen = 2
    MaxText = 4
INVARIANTS
    FiltersOnlyVowels
CHECK_DEADLOCK FALSE
