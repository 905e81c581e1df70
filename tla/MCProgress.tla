------------------------------ MODULE MCProgress -----------------------------
(****************************************************************************)
(* The progress of the two parts of package pool, by one run of TLC: `part` *)
(* says whether a behaviour is about the connections or about the queue     *)
(* below them; the other one stays in its initial state.  Each is taken     *)
(* with the fairness of its own specification.                              *)
(****************************************************************************)
EXTENDS GrpcPool

CONSTANTS Proc, Value, Node, Dummy, LenMod

VARIABLES
  part,
  head, tail, len, next, value, allocated, queuePc, arg, mine, h, t, nx, chain, headAt, tailAt

Q == INSTANCE LockFreeQueue WITH pc <- queuePc

queue == <<head, tail, len, next, value, allocated, queuePc, arg, mine, h, t, nx,
           chain, headAt, tailAt>>
parts == <<part, vars, queue>>

ProgressInit == part \in {"pool", "queue"} /\ Init /\ Q!Init

ProgressNext ==
  /\ UNCHANGED part
  /\ \/ part = "pool" /\ Next /\ UNCHANGED queue
     \/ part = "queue" /\ Q!Next /\ UNCHANGED vars

\* The fairness of FairSpec and that of LockFreeSpec.  Of the part that stays
\* in its initial state only New is enabled.
ProgressSpec ==
  /\ ProgressInit /\ [][ProgressNext]_parts
  /\ WF_vars(part = "pool" /\ New) /\ WF_vars(HealthStep) /\ WF_vars(PoolCloseStep)
  /\ \A p \in Client : WF_vars(GetStep(p)) /\ WF_vars(CloseStep(p))
  /\ WF_queue(\E p \in Proc : Q!Step(p))

\* Lock-freedom of the queue, as LockFreeQueue states it of queue.go: while
\* somebody is inside, calls keep returning.
LockFree == Q!LockFree
==============================================================================
