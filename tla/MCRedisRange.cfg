CONSTANTS
  Caller = {p1}
  MaxActive = 1
  Elem = {}
  Count = {}
  Member = {1, 2}
  Score <- Scores
SPECIFICATION Spec
INVARIANT RangeReadWhole
