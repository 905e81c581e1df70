------------------------------ MODULE LeaseLock -------------------------------
(****************************************************************************)
(* What redis.Lock promises its callers: a lock on lease.                   *)
(*                                                                          *)
(* The lock is granted to one client at a time, and only while it is free.  *)
(* A lease that runs out frees the lock.  That is a lapse when a client has *)
(* the lock, and no lapse when its client died or was never told: from the  *)
(* first lapse on, two clients may have it.                                 *)
(****************************************************************************)
CONSTANT Client

VARIABLES
  taken,    \* the lock is not free
  phase,    \* where each client is: "out", "asking", "granted", "dead"
  lapsed    \* a lease has run out under a client

vars == <<taken, phase, lapsed>>

Granted == {p \in Client : phase[p] = "granted"}

Init ==
  /\ ~ taken
  /\ phase = [p \in Client |-> "out"]
  /\ ~ lapsed

Move(p, from, to) ==
  /\ phase[p] = from
  /\ phase' = [phase EXCEPT ![p] = to]

Ask(p) == Move(p, "out", "asking") /\ UNCHANGED <<taken, lapsed>>

\* The call returns false.  The lock may have been taken for it all the same,
\* if it was free: nobody has it then until the lease runs out.
GiveUp(p) ==
  /\ Move(p, "asking", "out")
  /\ taken => taken'
  /\ UNCHANGED lapsed

\* The lock is taken for a request whose client does not get the answer.
TakeUnheard ==
  /\ ~ taken /\ taken'
  /\ UNCHANGED <<phase, lapsed>>

\* A free lock is granted.  Before a lapse nobody has a free lock.
Acquire(p) ==
  /\ ~ taken /\ taken'
  /\ ~ lapsed => Granted = {}
  /\ Move(p, "asking", "granted")
  /\ UNCHANGED lapsed

\* The client gives back what nobody else has, before a lapse.  If it cannot be
\* told to the lock, the lock stays taken until the lease runs out.
Release(p) ==
  /\ Move(p, "granted", "out")
  /\ ~ lapsed => taken /\ Granted = {p}
  /\ taken' => taken
  /\ UNCHANGED lapsed

Die(p) ==
  /\ phase[p] # "dead"
  /\ phase' = [phase EXCEPT ![p] = "dead"]
  /\ UNCHANGED <<taken, lapsed>>

RunOut ==
  /\ taken /\ ~ taken'
  /\ lapsed' = (lapsed \/ Granted # {})
  /\ UNCHANGED phase

Next ==
  \/ \E p \in Client : Ask(p) \/ GiveUp(p) \/ Acquire(p) \/ Release(p) \/ Die(p)
  \/ TakeUnheard
  \/ RunOut

Spec == Init /\ [][Next]_vars
==============================================================================
