----------------------------- MODULE MCLogRotate -----------------------------
(****************************************************************************)
(* LogRotate for TLC: the records of a run, one of them longer than a file. *)
(****************************************************************************)
EXTENDS LogRotate

Lens == <<2, 3, 1>>
==============================================================================
