---------------------------- MODULE MCRedisClient ----------------------------
(* RedisClient for TLC: the scores of its sorted set, and its symmetry.      *)
EXTENDS RedisClient

Scores == [m \in Member |-> 10 + m]
Symmetry == Permutations(Caller) \cup Permutations(Elem)
==============================================================================
