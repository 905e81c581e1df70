CONSTANTS
  Client = {p1, p2}
  Conn = {c1, c2, c3, c4}
  Capacity = 3
  MaxUse = 0
  CountMod = 8
  Nil = Nil
SPECIFICATION Spec
CHECK_DEADLOCK FALSE
SYMMETRY Symmetry
INVARIANTS
  ConnConservation
  NoClosedInQueue
  UseIsHolders
  ClosedOnlyInTheRace
  HealthyRemain
PROPERTIES
  OnlyWornOutReplaced
