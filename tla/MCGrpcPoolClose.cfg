CONSTANTS
  Client = {p1}
  Conn = {c1, c2}
  Capacity = 2
  MaxUse = 0
  CountMod = 8
  Nil = Nil
SPECIFICATION FairSpec
CHECK_DEADLOCK FALSE
PROPERTY
  CloseDrains
