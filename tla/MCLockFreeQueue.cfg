CONSTANTS
  Proc = {p1, p2, p3}
  Value = {v1, v2}
  d = d
  n1 = n1
  n2 = n2
  n3 = n3
  Node <- MCNode
  Dummy = d
  Nil = Nil
  LenMod = 3
SPECIFICATION Spec
SYMMETRY Symmetry
INVARIANTS
  QueueInv
  NoNilDereference
  LenExact
PROPERTY
  Linearizable
