CONSTANTS
  Caller = {p1, p2}
  MaxActive = 2
  Elem = {a, b}
  Count = {0, 1, 2}
  Member = {1}
  Score <- Scores
SPECIFICATION Spec
SYMMETRY Symmetry
INVARIANTS
  Accounted
  HandedOutOnce
  ExpiryNotForgotten
