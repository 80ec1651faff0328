SPECIFICATION Spec
CONSTANTS
  MIN_EXP = 1
  MaxExp = 4
  HeaderSize = 1
  BuddySizes = {1, 2, 5}
  memAmount = 26
  BLOCK_SIZE = 2
  HEADER_SIZE = 2
  HeapSizes = {1, 3, 4, 8}
  Pids = {p1, p2}
  HeapSize = 12
  MaxMine = 1
  MaxLost = 1
  Lists = {l1, l2}
  Nodes = {n1, n2, n3}
  NoNode = NoNode
  KernelSizes = {1, 2}
  CodeSizes = {1, 2, 3, 14}
  DataSizes = {1, 2}
  KernelBss = 2
  UserBss = 2
  Amounts = {146, 160, 208, 209, 255, 4096, 65696}
  KEYBOARD_BUFFER_SIZE = 3
  Keys = {"c", "d"}
  Lens = {1, 3}
  MaxKeys = 3
  MaxPending = 1
  Procs = {q1, q2}
  Killable = {q2}
  Beepers = {q1}
  Delays = {0, 3}
  MsNum = 3
  MsDen = 2
  Half = 5
  MaxLate = 2
  WIDTH = 3
  HEIGHT = 3
  PITCH = 3
  MaxSize = 2
  Starts = {0, 3599, 35999, 36000, 43199, 71999, 75600, 86398}
  MaxTicks = 2
INVARIANTS ServesWhenRoom BlocksHaveOneOwner ModulesIntact CtrlCopiesAgree SpeakerOwned ShowsTheTime
PROPERTIES ImplementsArena ImplementsNodeLists ImplementsChannel SleepsLongEnough WaitsEnd OverprintsNothing
CHECK_DEADLOCK FALSE
