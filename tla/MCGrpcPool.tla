----------------------------- MODULE MCGrpcPool ------------------------------
(****************************************************************************)
(* GrpcPool for TLC.  Clients and connections are interchangeable.          *)
(****************************************************************************)
EXTENDS GrpcPool, TLC

Symmetry == Permutations(Client) \cup Permutations(Conn)
==============================================================================
