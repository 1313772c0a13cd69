CONSTANTS
  reduce_num = 2
  Receivers = {r1, r2}
  Keys = {1, 2, 3, 5}
  Values = {"v", "w"}
  Pairs <- MCPairs
  Hash <- MCHash
  Sign <- MCSign
  NoOne = none
  MaxPrinted = 4

SPECIFICATION Spec

INVARIANTS
  TypeOK
  TableMatchesKeyList
  TaskNumCounts
  PairsAreConserved
  KeysAreContiguous
  ValuesKeepTheirOrder

PROPERTIES
  NothingStoredWhileReducing
  JobEnds
