CONSTANTS
  Producers = {p1, p2}
  Consumers = {c1, c2}
  Lines = {a, b}
  NoLine = NoLine
  MaxNum = 3

SPECIFICATION FairSpec

INVARIANTS
  TypeOK
  SlotExclusive
  NoSlotLost
  NoLostWakeup

PROPERTIES
  ImplementsLineQueue
  PushedSlotComesBack
