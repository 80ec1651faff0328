SPECIFICATION PartsSpec
CONSTANTS
  MaxRuns = 2
  MaxPuts = 2
  MAX_PHILOSOPHERS = 4
  MIN_PHILOSOPHERS = 2
  MAX_CONSECUTIVE_MEALS = 1
  HUNGER_THRESHOLD = 1
  Pids = {1, 2, 3, 4}
  Builtins = {"help"}
  Programs = {"ps"}
  LineKeys = {"ps", "&", "enter", "backspace", "="}
  Others = {"+"}
  MAX_BUFFER = 3
  MaxLine = 4
  Bits = 9
  HexDigits = 2
  PTR = 2
  MaxArgs = 3
  MaxLen = 2
  MaxText = 4
  WIDTH = 4
  HEIGHT = 3
  INITIAL_SNAKE_LENGTH = 3
  Keys = {"w", "a", "s", "i", "l"}
  MaxKeys = 2
  MaxFood = 1
  Writers = {2}
  Readers = {3}
  Shell = 1
  MAX_PIPES = 2
  PIPE_SIZE = 2
  Byte = {"x", "y"}
  Eof = "eof"
  NoPid = NoPid
  NoPipe = NoPipe
  Lens = {1, 3}
  MaxSent = 4
  MaxGrants = 6
INVARIANTS CellExclusive TableExclusive NoForgottenHunger EchoMatchesBuffer ArgumentsArrive SnakeIsPath SleepersWait
PROPERTIES ChannelsImplemented DataGetsThrough
CHECK_DEADLOCK FALSE
