SPECIFICATION Spec
CONSTANTS
  WIDTH = 4
  HEIGHT = 3
  INITIAL_SNAKE_LENGTH = 3
  Keys = {"w", "a", "s", "d"}
  MaxKeys = 2
  MaxFood = 3

PROPERTY KeySteers
CHECK_DEADLOCK FALSE
