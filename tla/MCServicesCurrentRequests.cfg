CONSTANTS
  Request = {r1, r2}
  MaxCounter = 2
  MaxPanic = 1
  MaxSwitch = 2
  Sender = {s1, s2}
  Life = {1, 2, 3}
  Margin = 2
  DefaultTtl = 2
  SearchTtl = 4
  Timeout = 1
  Per = 2
  MaxRows = 5
  MaxDepth = 4
  Value = {1, 2, 3}
  MaxLen = 4
  ByMap = 3
  ByteMod = 4
  Reported = {a, b, c}
  Unreported = {d}
  BulkSize = {0, 1, 2, 3}
  Name = {x, y}
  Depth = 3
  Keys = 3
  Field = y
SPECIFICATION Spec
INVARIANT CurrentRequests
CHECK_DEADLOCK FALSE
