CONSTANTS
  Client = {p1}
  Conn = {c1, c2, c3, c4, c5}
  Capacity = 4
  MaxUse = 1
  CountMod = 8
  Nil = Nil
SPECIFICATION Spec
CHECK_DEADLOCK FALSE
INVARIANT
  UnhealthyCountExact
