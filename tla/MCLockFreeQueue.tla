--------------------------- MODULE MCLockFreeQueue ---------------------------
(****************************************************************************)
(* LockFreeQueue for TLC: a few goroutines and nodes.  The goroutines, the  *)
(* values and the nodes other than the dummy are interchangeable, which the *)
(* safety run uses.                                                         *)
(****************************************************************************)
EXTENDS LockFreeQueue, TLC

CONSTANTS d, n1, n2, n3

MCNode == {d, n1, n2, n3}

Symmetry == Permutations(Proc) \cup Permutations(Value) \cup Permutations(MCNode \ {d})
==============================================================================
