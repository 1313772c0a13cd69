CONSTANTS
  map_num = 1
  gave_up = 0
  reduce_num = 5
  PIPE_SIZE = 2
  Prints <- MCPrints
  MayFail = {0, 4}
  FREE = free
  PIPE = pipe
  LOW = low
  NONE = none

SPECIFICATION Spec

INVARIANTS
  TypeOK
  StreamIsOpen
  ReversedInBatches
  NoHolesInOutput
  AllDataIsDumped
