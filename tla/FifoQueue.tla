------------------------------ MODULE FifoQueue ------------------------------
(****************************************************************************)
(* What pool.Queue promises its callers: a linearizable FIFO queue.         *)
(*                                                                          *)
(* Every call has three moments: the call, the instant at which it takes    *)
(* effect on `items', and the return.  Calls of different goroutines        *)
(* overlap freely; only the instants of effect are ordered.  A dequeue may  *)
(* find the queue empty, be told so, or look again (Retry): what it may     *)
(* never do is answer "empty" without having seen the queue empty during    *)
(* the call.                                                                *)
(****************************************************************************)
EXTENDS Sequences

CONSTANTS
  Proc,     \* goroutines using the queue
  Value,    \* what is queued (never nil: the pool queues *ClientConn)
  Nil

VARIABLES
  items,    \* the queued values, oldest first
  phase,    \* where each goroutine is in its call
  val       \* its argument (Enqueue) or its answer (Dequeue)

vars == <<items, phase, val>>

Phases == {"idle", "enqueue", "enqueued", "dequeue", "empty", "taken"}

TypeOK ==
  /\ items \in Seq(Value)
  /\ phase \in [Proc -> Phases]
  /\ val \in [Proc -> Value \cup {Nil}]

Init ==
  /\ items = <<>>
  /\ phase = [p \in Proc |-> "idle"]
  /\ val = [p \in Proc |-> Nil]

Move(p, from, to) ==
  /\ phase[p] = from
  /\ phase' = [phase EXCEPT ![p] = to]

CallEnqueue(p, v) ==
  /\ Move(p, "idle", "enqueue")
  /\ val' = [val EXCEPT ![p] = v]
  /\ UNCHANGED items

\* The enqueue takes effect.
Add(p) ==
  /\ Move(p, "enqueue", "enqueued")
  /\ items' = Append(items, val[p])
  /\ UNCHANGED val

CallDequeue(p) ==
  /\ Move(p, "idle", "dequeue")
  /\ UNCHANGED <<items, val>>

\* The dequeue takes effect: it removes the oldest item.
Take(p) ==
  /\ Move(p, "dequeue", "taken")
  /\ items # <<>>
  /\ val' = [val EXCEPT ![p] = Head(items)]
  /\ items' = Tail(items)

\* The dequeue sees an empty queue, and may still look again.
SeeEmpty(p) ==
  /\ Move(p, "dequeue", "empty")
  /\ items = <<>>
  /\ UNCHANGED <<items, val>>

Retry(p) ==
  /\ Move(p, "empty", "dequeue")
  /\ UNCHANGED <<items, val>>

Return(p) ==
  /\ phase[p] \in {"enqueued", "empty", "taken"}
  /\ phase' = [phase EXCEPT ![p] = "idle"]
  /\ val' = [val EXCEPT ![p] = Nil]
  /\ UNCHANGED items

Next ==
  \E p \in Proc :
    \/ \E v \in Value : CallEnqueue(p, v)
    \/ Add(p)
    \/ CallDequeue(p)
    \/ Take(p)
    \/ SeeEmpty(p)
    \/ Retry(p)
    \/ Return(p)

Spec == Init /\ [][Next]_vars
==============================================================================
