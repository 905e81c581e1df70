CONSTANTS
  Client = {p1}
  Conn = {c1, c2, c3}
  Capacity = 1
  MaxUse = 1
  CountMod = 8
  Nil = Nil
  Proc = {g1, g2, g3}
  Value = {v1}
  Node = {d, n1, n2}
  Dummy = d
  LenMod = 3
SPECIFICATION ProgressSpec
CHECK_DEADLOCK FALSE
PROPERTIES
  GetReturns
  HealthStops
  LockFree
