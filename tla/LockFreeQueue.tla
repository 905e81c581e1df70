---------------------------- MODULE LockFreeQueue ----------------------------
(****************************************************************************)
(* pool/queue.go: the lock-free queue under the gRPC pool.                  *)
(*                                                                          *)
(* Every atomic instruction of Enqueue and Dequeue (a load, a CAS, an add)  *)
(* is one action; the tests of goroutine-local values that follow it belong *)
(* to the same action.  A program counter is named after the instruction    *)
(* the goroutine executes next.                                             *)
(*                                                                          *)
(* Nodes are never reused: the garbage collector frees a node only when no  *)
(* goroutine points to it, so a recycled address is a new node to everyone. *)
(*                                                                          *)
(* chain, headAt and tailAt are history variables.  No guard reads them:    *)
(* they record the order in which nodes were linked and how often head and  *)
(* tail have moved, so that the heap can be compared with a sequence.       *)
(****************************************************************************)
EXTENDS Integers, Sequences, FiniteSets

CONSTANTS
  Proc,     \* goroutines
  Value,    \* values put in the queue, all different from nil
  Node,     \* addresses of nodes; a finite set bounds the number of Enqueues
  Dummy,    \* the node NewQueue allocates
  Nil,
  LenMod    \* len is a uint64: LenMod is 2^64 in the code

ASSUME NodeAssumption == Dummy \in Node /\ Nil \notin Node
ASSUME ValueAssumption == Nil \notin Value
ASSUME LenModAssumption == LenMod \in Nat \ {0}
ASSUME ProcAssumption == IsFiniteSet(Proc)

VARIABLES
  head, tail,   \* the two pointers of the Queue
  len,          \* its counter
  next, value,  \* the fields of every node
  allocated,    \* the nodes that exist
  pc,           \* per goroutine: the next instruction, or "idle"
  arg,          \* per goroutine: Enqueue's argument, then Dequeue's `data'
  mine,         \* per goroutine: the node it is enqueueing
  h, t, nx,     \* per goroutine: the local variables head, tail, next
  chain,        \* history: the nodes in the order they were linked
  headAt,       \* history: 1 + the number of times head moved
  tailAt        \* history: 1 + the number of times tail moved

shared  == <<head, tail, len, next, value, allocated>>
local   == <<arg, mine, h, t, nx>>
history == <<chain, headAt, tailAt>>
vars    == <<shared, pc, local, history>>

EnqueuePC == {"eq_tail", "eq_next", "eq_check", "eq_link", "eq_swing", "eq_help", "eq_len"}
DequeuePC == {"dq_head", "dq_tail", "dq_next", "dq_check", "dq_take", "dq_help", "dq_len"}

TypeOK ==
  /\ head \in Node /\ tail \in Node
  /\ len \in 0..(LenMod - 1)
  /\ next \in [Node -> Node \cup {Nil}]
  /\ value \in [Node -> Value \cup {Nil}]
  /\ allocated \subseteq Node
  /\ pc \in [Proc -> {"idle"} \cup EnqueuePC \cup DequeuePC]
  /\ arg \in [Proc -> Value \cup {Nil}]
  /\ mine \in [Proc -> Node \cup {Nil}]
  /\ h \in [Proc -> Node \cup {Nil}]
  /\ t \in [Proc -> Node \cup {Nil}]
  /\ nx \in [Proc -> Node \cup {Nil}]
  /\ chain \in Seq(Node)
  /\ headAt \in Nat /\ tailAt \in Nat

\* NewQueue
Init ==
  /\ head = Dummy /\ tail = Dummy
  /\ len = 0
  /\ next = [n \in Node |-> Nil]
  /\ value = [n \in Node |-> Nil]
  /\ allocated = {Dummy}
  /\ pc = [p \in Proc |-> "idle"]
  /\ arg = [p \in Proc |-> Nil]
  /\ mine = [p \in Proc |-> Nil]
  /\ h = [p \in Proc |-> Nil]
  /\ t = [p \in Proc |-> Nil]
  /\ nx = [p \in Proc |-> Nil]
  /\ chain = <<Dummy>>
  /\ headAt = 1 /\ tailAt = 1

Goto(p, label) == pc' = [pc EXCEPT ![p] = label]

------------------------------------------------------------------------------
(* Enqueue *)

\* The call: allocate the node.
EnqueueCall(p, v) ==
  /\ pc[p] = "idle"
  /\ \E n \in Node \ allocated :
       /\ allocated' = allocated \cup {n}
       /\ value' = [value EXCEPT ![n] = v]
       /\ mine' = [mine EXCEPT ![p] = n]
  /\ arg' = [arg EXCEPT ![p] = v]
  /\ Goto(p, "eq_tail")
  /\ UNCHANGED <<head, tail, len, next, h, t, nx, history>>

EnqueueLoadTail(p) ==
  /\ pc[p] = "eq_tail"
  /\ t' = [t EXCEPT ![p] = tail]
  /\ Goto(p, "eq_next")
  /\ UNCHANGED <<shared, arg, mine, h, nx, history>>

EnqueueLoadNext(p) ==
  /\ pc[p] = "eq_next"
  /\ nx' = [nx EXCEPT ![p] = next[t[p]]]
  /\ Goto(p, "eq_check")
  /\ UNCHANGED <<shared, arg, mine, h, t, history>>

\* Mutant: on a lagging tail, look again instead of helping.
EnqueueCheckNoHelp(p) ==
  /\ pc[p] = "eq_check"
  /\ Goto(p, IF t[p] # tail \/ nx[p] # Nil THEN "eq_tail" ELSE "eq_link")
  /\ UNCHANGED <<shared, local, history>>

\* if tail == load(&q.tail), and the local test of next
EnqueueCheck(p) ==
  /\ pc[p] = "eq_check"
  /\ Goto(p, IF t[p] # tail THEN "eq_tail"
             ELSE IF nx[p] = Nil THEN "eq_link" ELSE "eq_help")
  /\ UNCHANGED <<shared, local, history>>

\* Mutant: a store instead of the CAS.
EnqueueLinkStore(p) ==
  /\ pc[p] = "eq_link"
  /\ next' = [next EXCEPT ![t[p]] = mine[p]]
  /\ chain' = Append(chain, mine[p])
  /\ Goto(p, "eq_swing")
  /\ UNCHANGED <<head, tail, len, value, allocated, local, headAt, tailAt>>

\* cas(&tail.next, next, n): on success the value is in the queue
EnqueueLink(p) ==
  /\ pc[p] = "eq_link"
  /\ IF next[t[p]] = nx[p]
     THEN /\ next' = [next EXCEPT ![t[p]] = mine[p]]
          /\ chain' = Append(chain, mine[p])
          /\ Goto(p, "eq_swing")
     ELSE /\ Goto(p, "eq_tail")
          /\ UNCHANGED <<next, chain>>
  /\ UNCHANGED <<head, tail, len, value, allocated, local, headAt, tailAt>>

\* cas(&q.tail, old, new), whoever does it
SwingTail(old, new) ==
  IF tail = old
  THEN tail' = new /\ tailAt' = tailAt + 1
  ELSE UNCHANGED <<tail, tailAt>>

EnqueueSwing(p) ==
  /\ pc[p] = "eq_swing"
  /\ SwingTail(t[p], mine[p])
  /\ Goto(p, "eq_len")
  /\ UNCHANGED <<head, len, next, value, allocated, local, chain, headAt>>

EnqueueHelp(p) ==
  /\ pc[p] = "eq_help"
  /\ SwingTail(t[p], nx[p])
  /\ Goto(p, "eq_tail")
  /\ UNCHANGED <<head, len, next, value, allocated, local, chain, headAt>>

\* The frame of the call is gone.
Return(p) ==
  /\ Goto(p, "idle")
  /\ arg' = [arg EXCEPT ![p] = Nil]
  /\ mine' = [mine EXCEPT ![p] = Nil]
  /\ h' = [h EXCEPT ![p] = Nil]
  /\ t' = [t EXCEPT ![p] = Nil]
  /\ nx' = [nx EXCEPT ![p] = Nil]

\* The deferred increment, and the return.
EnqueueReturn(p) ==
  /\ pc[p] = "eq_len"
  /\ len' = (len + 1) % LenMod
  /\ Return(p)
  /\ UNCHANGED <<head, tail, next, value, allocated, history>>

------------------------------------------------------------------------------
(* Dequeue *)

DequeueCall(p) ==
  /\ pc[p] = "idle"
  /\ Goto(p, "dq_head")
  /\ UNCHANGED <<shared, local, history>>

DequeueLoadHead(p) ==
  /\ pc[p] = "dq_head"
  /\ h' = [h EXCEPT ![p] = head]
  /\ Goto(p, "dq_tail")
  /\ UNCHANGED <<shared, arg, mine, t, nx, history>>

DequeueLoadTail(p) ==
  /\ pc[p] = "dq_tail"
  /\ t' = [t EXCEPT ![p] = tail]
  /\ Goto(p, "dq_next")
  /\ UNCHANGED <<shared, arg, mine, h, nx, history>>

DequeueLoadNext(p) ==
  /\ pc[p] = "dq_next"
  /\ nx' = [nx EXCEPT ![p] = next[h[p]]]
  /\ Goto(p, "dq_check")
  /\ UNCHANGED <<shared, arg, mine, h, t, history>>

\* Mutant: head is compared with the tail of now, not with the one loaded.
DequeueCheckNewTail(p) ==
  /\ pc[p] = "dq_check"
  /\ Goto(p, IF h[p] # head THEN "dq_head"
             ELSE IF h[p] # tail THEN "dq_take"
             ELSE IF nx[p] = Nil THEN "dq_len" ELSE "dq_help")
  /\ UNCHANGED <<shared, local, history>>

\* Mutant: head = tail is taken for empty without looking at next.
DequeueCheckNoNext(p) ==
  /\ pc[p] = "dq_check"
  /\ Goto(p, IF h[p] # head THEN "dq_head" ELSE IF h[p] # t[p] THEN "dq_take" ELSE "dq_len")
  /\ UNCHANGED <<shared, local, history>>

\* if head == load(&q.head), and the local tests of head, tail and next
DequeueCheck(p) ==
  /\ pc[p] = "dq_check"
  /\ Goto(p, IF h[p] # head THEN "dq_head"
             ELSE IF h[p] # t[p] THEN "dq_take"
             ELSE IF nx[p] = Nil THEN "dq_len" ELSE "dq_help")
  /\ UNCHANGED <<shared, local, history>>

DequeueHelp(p) ==
  /\ pc[p] = "dq_help"
  /\ SwingTail(t[p], nx[p])
  /\ Goto(p, "dq_head")
  /\ UNCHANGED <<head, len, next, value, allocated, local, chain, headAt>>

\* v := next.value, which no one writes any more, and cas(&q.head, head, next)
DequeueTake(p) ==
  /\ pc[p] = "dq_take"
  /\ IF head = h[p]
     THEN /\ head' = nx[p]
          /\ headAt' = headAt + 1
          /\ arg' = [arg EXCEPT ![p] = value[nx[p]]]
          /\ Goto(p, "dq_len")
     ELSE /\ Goto(p, "dq_head")
          /\ UNCHANGED <<head, headAt, arg>>
  /\ UNCHANGED <<tail, len, next, value, allocated, mine, h, t, nx, chain, tailAt>>

\* Mutant: the decrement does not look at data.
DequeueReturnAlways(p) ==
  /\ pc[p] = "dq_len"
  /\ len' = (len + LenMod - 1) % LenMod
  /\ Return(p)
  /\ UNCHANGED <<head, tail, next, value, allocated, history>>

\* The deferred decrement when data # nil, and the return of data.
DequeueReturn(p) ==
  /\ pc[p] = "dq_len"
  /\ len' = IF arg[p] # Nil THEN (len + LenMod - 1) % LenMod ELSE len
  /\ Return(p)
  /\ UNCHANGED <<head, tail, next, value, allocated, history>>

------------------------------------------------------------------------------
Returns(p) == EnqueueReturn(p) \/ DequeueReturn(p)

\* One instruction of a call in progress.
Step(p) ==
  \/ EnqueueLoadTail(p) \/ EnqueueLoadNext(p) \/ EnqueueCheck(p)
  \/ EnqueueLink(p) \/ EnqueueSwing(p) \/ EnqueueHelp(p)
  \/ DequeueLoadHead(p) \/ DequeueLoadTail(p) \/ DequeueLoadNext(p)
  \/ DequeueCheck(p) \/ DequeueHelp(p) \/ DequeueTake(p)
  \/ Returns(p)

Call(p) == DequeueCall(p) \/ \E v \in Value : EnqueueCall(p, v)

Next == \E p \in Proc : Call(p) \/ Step(p)

Spec == Init /\ [][Next]_vars

\* Some goroutine with a call in progress runs; which one is the scheduler's
\* choice, and it may starve or stop any other for ever.
LockFreeSpec == Spec /\ WF_vars(\E p \in Proc : Step(p))

------------------------------------------------------------------------------
(* Refinement *)

Phase(p) ==
  CASE pc[p] = "idle" -> "idle"
    [] pc[p] \in {"eq_swing", "eq_len"} -> "enqueued"
    [] pc[p] \in EnqueuePC \ {"eq_swing", "eq_len"} -> "enqueue"
    [] pc[p] = "dq_len" -> IF arg[p] = Nil THEN "empty" ELSE "taken"
    [] pc[p] = "dq_check" /\ nx[p] = Nil -> "empty"
    [] OTHER -> "dequeue"

\* The values of the nodes linked behind head.
Items == [i \in 1..(Len(chain) - headAt) |-> value[chain[headAt + i]]]

\* What a caller sees of a call in progress.
F == INSTANCE FifoQueue
       WITH items <- Items, phase <- [p \in Proc |-> Phase(p)], val <- arg

\* The queue of queue.go is a linearizable FIFO queue: no value is lost,
\* duplicated or overtaken, and Dequeue answers nil only if the queue was
\* empty at some instant of the call, for every interleaving of the loads and
\* CASes of Enqueue and Dequeue.
Linearizable == F!Spec

------------------------------------------------------------------------------
(* Safety *)

InChain(n, lo, hi) == \E i \in lo..hi : chain[i] = n

\* The linked list is the chain: `next' leads from each linked node to the
\* one linked after it, and a node that is not linked yet points nowhere.
ListIsChain ==
  /\ \A i, j \in 1..Len(chain) : chain[i] = chain[j] => i = j
  /\ \A i \in 1..(Len(chain) - 1) : next[chain[i]] = chain[i + 1]
  /\ \A n \in Node : (~ InChain(n, 1, Len(chain) - 1)) => next[n] = Nil

\* Head never passes tail, and tail is the last or the last but one node
\* although it is only swung after the link, by the enqueuer or a helper.
PointersInChain ==
  /\ 1 <= headAt /\ headAt <= tailAt
  /\ tailAt <= Len(chain) /\ Len(chain) <= tailAt + 1
  /\ head = chain[headAt] /\ tail = chain[tailAt]

HeapOK == ListIsChain /\ PointersInChain

\* Dequeue dereferences `next' (next.value) without testing it for nil: when
\* head and tail differed, the next of head was already linked.
NoNilDereference ==
  \A p \in Proc : pc[p] = "dq_take" => nx[p] \in Node /\ value[nx[p]] # Nil

\* len counts the queued values, except for the calls that have taken effect
\* and not yet run their deferred add; modulo 2^64, so Len() may transiently
\* read as a huge number.
LenExact ==
  LET toAdd    == {p \in Proc : pc[p] \in {"eq_swing", "eq_len"}}
      toRemove == {p \in Proc : pc[p] = "dq_len" /\ arg[p] # Nil}
  IN  len = (Len(Items) + Cardinality(toRemove) - Cardinality(toAdd)) % LenMod

------------------------------------------------------------------------------
(* What a goroutine may rely on between two instructions *)

\* Before the link, the node of an Enqueue is its own.
OwnNode(p) ==
  pc[p] \in {"eq_tail", "eq_next", "eq_check", "eq_link", "eq_help"} =>
    /\ mine[p] \in allocated
    /\ ~ InChain(mine[p], 1, Len(chain))
    /\ arg[p] \in Value /\ value[mine[p]] = arg[p]
    /\ \A q \in Proc : mine[q] = mine[p] => q = p

\* What Enqueue has loaded was true of the list and, except for a nil, still is.
EnqueueView(p) ==
  /\ pc[p] \in {"eq_next", "eq_check", "eq_link", "eq_swing", "eq_help"} =>
       InChain(t[p], 1, tailAt)
  /\ pc[p] = "eq_check" => nx[p] \in {Nil, next[t[p]]}
  /\ pc[p] = "eq_link" => nx[p] = Nil
  /\ pc[p] = "eq_swing" => mine[p] = next[t[p]] /\ mine[p] # Nil
  /\ pc[p] = "eq_help" => nx[p] = next[t[p]] /\ nx[p] # Nil

\* Likewise for Dequeue.  It loads head before tail, so its tail is never
\* behind its head, and equal to it whenever it saw no next.
DequeueView(p) ==
  /\ pc[p] \in {"idle"} \cup (DequeuePC \ {"dq_len"}) => arg[p] = Nil
  /\ pc[p] = "dq_tail" => InChain(h[p], 1, headAt)
  /\ pc[p] \in {"dq_next", "dq_check", "dq_help", "dq_take"} =>
       \E i \in 1..headAt : chain[i] = h[p] /\ InChain(t[p], i, tailAt)
  /\ pc[p] = "dq_check" =>
       nx[p] \in {Nil, next[h[p]]} /\ (h[p] # t[p] => nx[p] # Nil)
  /\ pc[p] = "dq_help" => h[p] = t[p] /\ nx[p] = next[h[p]] /\ nx[p] # Nil
  /\ pc[p] = "dq_take" => h[p] # t[p] /\ nx[p] = next[h[p]] /\ nx[p] # Nil

NodesOK ==
  /\ \A i \in 1..Len(chain) : chain[i] \in allocated
  /\ \A i \in 2..Len(chain) : value[chain[i]] \in Value
  /\ \A p \in Proc : mine[p] \in allocated \cup {Nil}

\* The inductive invariant: the heap is in order and every goroutine's view
\* of it is one it can act on, whatever the others do meanwhile.
IndInv ==
  /\ HeapOK /\ NodesOK
  /\ \A p \in Proc : OwnNode(p) /\ EnqueueView(p) /\ DequeueView(p)

\* With the types it is inductive: every state of the queue, and every local of
\* a goroutine inside it, is one from which the next instruction is safe.
QueueInv == TypeOK /\ IndInv

------------------------------------------------------------------------------
(* Liveness *)

Quiet == \A p \in Proc : pc[p] = "idle"

\* Lock-freedom: as long as somebody is inside the queue, calls keep
\* returning, whoever the scheduler leaves suspended at whatever instruction
\* (for example between the link and the swing of tail).
LockFree ==
  []<>Quiet \/ []<><<\E p \in Proc : Returns(p)>>_vars
==============================================================================
