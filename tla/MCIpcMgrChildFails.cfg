CONSTANTS
  Maps = {m1, m2}
  Reduces = {r1}
  PARENT = parent
  Capacity = 1
  MaxWritten = 2

SPECIFICATION Spec

INVARIANT
  SurvivesChildFailure
