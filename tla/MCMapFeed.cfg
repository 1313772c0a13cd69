CONSTANTS
  map_num = 2
  PIPE_SIZE = 2
  Texts = {a, eof}
  EofText = eof
  Blank = blank
  Overlong = overlong
  NoLine = none
  MaxLines = 4

SPECIFICATION Spec

INVARIANTS
  TypeOK
  ChildGetsItsShare
  NothingAfterEnd

PROPERTIES
  MapPhaseEnds
  PipesDrain
