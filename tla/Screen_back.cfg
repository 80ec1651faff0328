SPECIFICATION Spec
CONSTANTS
    WIDTH = 4
    HEIGHT = 3
    PITCH = 4
    MaxSize = 1
PROPERTIES
    BackspaceErasesEnd
