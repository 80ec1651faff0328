CONSTANTS
  Writers = {2}
  Readers = {3}
  Shell = 1
  MAX_PIPES = 2
  PIPE_SIZE = 2
  Byte = {"x"}
  Eof = "eof"
  NoPid = NoPid
  NoPipe = NoPipe
  Lens = {1, 3}
  Calls = {"early","open","close","reuse","kill","unblock"}
  MaxSent = 3
  MaxGrants = 4
SPECIFICATION Spec
CHECK_DEADLOCK FALSE
INVARIANTS CountCoversPool
