CONSTANTS
  MapNums = {0, 1, 2}
  ReduceNums = {0, 1, 2}
  Inputs <- MCInputs
  Words = {1, 2, 3, 4}
  NotAlpha = 0
  Hash <- MCHash
  Sign <- MCSign
  PIPE_SIZE = 2
  OldFiles <- MCOld
  END_PIPE = END_PIPE
SPECIFICATION Spec
INVARIANTS
  TypeOK
  MemoryOutlivesThreads
  CrashesHaveACause
PROPERTIES
  ImplementsMapReduce
  JobEnds
