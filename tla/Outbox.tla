-------------------------------- MODULE Outbox --------------------------------
(****************************************************************************)
(* What SendV2 and SendV3 promise their callers: a notification is sent by  *)
(* its caller, or goes through a bounded FIFO outbox, or is dropped because *)
(* the outbox is full, and whatever becomes of it becomes of it once.       *)
(*                                                                          *)
(* Room notifications may wait, and one more that is already off the queue  *)
(* without being begun: a notification may be dropped when Room wait.       *)
(****************************************************************************)
EXTENDS Integers, Sequences

CONSTANTS
  Job,    \* the notifications
  Room

VARIABLES
  outbox,   \* those that wait, oldest first
  fate,     \* per notification: what has become of it
  times     \* per notification: how often it was sent

vars == <<outbox, fate, times>>

Init ==
  /\ outbox = <<>>
  /\ fate = [j \in Job |-> "new"]
  /\ times = [j \in Job |-> 0]

Becomes(j, from, to) ==
  /\ fate[j] \in from
  /\ fate' = [fate EXCEPT ![j] = to]

\* The caller is going to send it itself, or to put it into the outbox.
Call(j) ==
  /\ Becomes(j, {"new"}, "direct") \/ Becomes(j, {"new"}, "offered")
  /\ UNCHANGED <<outbox, times>>

Post(j) ==
  /\ Len(outbox) <= Room
  /\ Becomes(j, {"offered"}, "waiting")
  /\ outbox' = Append(outbox, j)
  /\ UNCHANGED times

Drop(j) ==
  /\ Len(outbox) >= Room
  /\ Becomes(j, {"new", "offered"}, "dropped")
  /\ UNCHANGED <<outbox, times>>

\* The oldest is begun.
Begin ==
  /\ outbox # <<>>
  /\ Becomes(Head(outbox), {"waiting"}, "begun")
  /\ outbox' = Tail(outbox)
  /\ UNCHANGED times

Deliver(j) ==
  /\ Becomes(j, {"direct", "begun"}, "sent")
  /\ times' = [times EXCEPT ![j] = @ + 1]
  /\ UNCHANGED outbox

Next ==
  \/ \E j \in Job : Call(j) \/ Post(j) \/ Drop(j) \/ Deliver(j)
  \/ Begin

Spec == Init /\ [][Next]_vars
==============================================================================
