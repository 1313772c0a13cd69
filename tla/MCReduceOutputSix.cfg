CONSTANTS
  map_num = 1
  gave_up = 0
  reduce_num = 6
  PIPE_SIZE = 1
  Prints <- MCPrintsSix
  MayFail = {}
  FREE = free
  PIPE = pipe
  LOW = low
  NONE = none

SPECIFICATION Spec

INVARIANT
  AllDataIsDumped
