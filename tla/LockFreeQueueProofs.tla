------------------------- MODULE LockFreeQueueProofs -------------------------
(****************************************************************************)
(* Proofs about LockFreeQueue, for any number of goroutines, nodes and      *)
(* values and any counter width.                                            *)
(*                                                                          *)
(* The argument is of the rely-guarantee kind.  Grow says what one step may *)
(* do to the list: extend it, move the two pointers forward, write the      *)
(* fields of nodes nobody else can see.  Every step guarantees it, and a    *)
(* goroutine whose own variables did not change keeps its view of the list  *)
(* when others make such steps (lemma ViewsSurvive).                        *)
(****************************************************************************)
EXTENDS LockFreeQueue, SequenceTheorems, FiniteSetTheorems, TLAPS

USE NodeAssumption, ValueAssumption, LenModAssumption DEF EnqueuePC, DequeuePC

------------------------------------------------------------------------------
(* Type correctness *)

LEMMA ModRange ==
  ASSUME NEW a \in Int
  PROVE  a % LenMod \in 0..(LenMod - 1)
  OBVIOUS

\* Pointers a goroutine dereferences are not nil.
LEMMA ViewsAreNodes ==
  ASSUME TypeOK, IndInv, NEW p \in Proc
  PROVE  /\ pc[p] \in {"eq_next", "eq_check", "eq_link", "eq_swing", "eq_help"} => t[p] \in Node
         /\ pc[p] \in {"dq_tail", "dq_next", "dq_check", "dq_help", "dq_take"} => h[p] \in Node
         /\ pc[p] \in {"dq_next", "dq_check", "dq_help", "dq_take"} => t[p] \in Node
         /\ pc[p] \in {"eq_tail", "eq_next", "eq_check", "eq_link", "eq_help"} => mine[p] \in Node
         /\ pc[p] \in {"eq_help", "dq_help", "dq_take"} => nx[p] \in Node
         /\ pc[p] = "eq_swing" => mine[p] \in Node
<1>1. chain \in Seq(Node) /\ \A i \in 1..Len(chain) : chain[i] \in Node
  BY DEF TypeOK
<1>2. /\ headAt \in Nat /\ tailAt \in Nat
      /\ 1 <= headAt /\ headAt <= tailAt /\ tailAt <= Len(chain)
  BY DEF TypeOK, IndInv, HeapOK, PointersInChain
<1>3. Len(chain) \in Nat
  BY <1>1
<1>4. EnqueueView(p) /\ DequeueView(p) /\ OwnNode(p)
  BY DEF IndInv
<1>5. pc[p] \in {"eq_next", "eq_check", "eq_link", "eq_swing", "eq_help"} => t[p] \in Node
  BY <1>1, <1>2, <1>3, <1>4 DEF EnqueueView, InChain
<1>6. pc[p] \in {"dq_tail", "dq_next", "dq_check", "dq_help", "dq_take"} => h[p] \in Node
  BY <1>1, <1>2, <1>3, <1>4 DEF DequeueView, InChain
<1>7. pc[p] \in {"dq_next", "dq_check", "dq_help", "dq_take"} => t[p] \in Node
  BY <1>1, <1>2, <1>3, <1>4 DEF DequeueView, InChain
<1>8. pc[p] \in {"eq_tail", "eq_next", "eq_check", "eq_link", "eq_help"} => mine[p] \in Node
  BY <1>4 DEF OwnNode, TypeOK
<1>9. /\ pc[p] \in {"eq_help", "dq_help", "dq_take"} => nx[p] \in Node
      /\ pc[p] = "eq_swing" => mine[p] \in Node
  BY <1>4 DEF EnqueueView, DequeueView, TypeOK
<1> QED
  BY <1>5, <1>6, <1>7, <1>8, <1>9

LEMMA TypeStep ==
  ASSUME TypeOK, IndInv, [Next]_vars
  PROVE  TypeOK'
<1> USE DEF TypeOK, Goto
<1>1. ASSUME NEW p \in Proc, NEW v \in Value, EnqueueCall(p, v)
      PROVE  TypeOK'
  BY <1>1 DEF EnqueueCall, history
<1>2. ASSUME NEW p \in Proc, EnqueueLoadTail(p)
      PROVE  TypeOK'
  BY <1>2 DEF EnqueueLoadTail, shared, history
<1>3. ASSUME NEW p \in Proc, EnqueueLoadNext(p)
      PROVE  TypeOK'
  BY <1>3, ViewsAreNodes DEF EnqueueLoadNext, shared, history
<1>4. ASSUME NEW p \in Proc, EnqueueCheck(p)
      PROVE  TypeOK'
  BY <1>4 DEF EnqueueCheck, shared, local, history
<1>5. ASSUME NEW p \in Proc, EnqueueLink(p)
      PROVE  TypeOK'
  <2>1. t[p] \in Node /\ mine[p] \in Node
    BY <1>5, ViewsAreNodes DEF EnqueueLink
  <2>2. chain' \in Seq(Node)
    <3>1. Append(chain, mine[p]) \in Seq(Node)
      BY <2>1, AppendProperties
    <3>2. chain' \in {chain, Append(chain, mine[p])}
      BY <1>5 DEF EnqueueLink
    <3> QED
      BY <3>1, <3>2
  <2>3. next' \in [Node -> Node \cup {Nil}]
    BY <1>5, <2>1 DEF EnqueueLink
  <2> QED
    BY <1>5, <2>2, <2>3 DEF EnqueueLink, local
<1>6. ASSUME NEW p \in Proc, EnqueueSwing(p)
      PROVE  TypeOK'
  BY <1>6, ViewsAreNodes DEF EnqueueSwing, SwingTail, local
<1>7. ASSUME NEW p \in Proc, EnqueueHelp(p)
      PROVE  TypeOK'
  BY <1>7, ViewsAreNodes DEF EnqueueHelp, SwingTail, local
<1>8. ASSUME NEW p \in Proc, EnqueueReturn(p)
      PROVE  TypeOK'
  <2>1. len + 1 \in Int
    OBVIOUS
  <2>2. (len + 1) % LenMod \in 0..(LenMod - 1)
    BY <2>1, ModRange
  <2> QED
    BY <1>8, <2>2 DEF EnqueueReturn, Return, history
<1>9. ASSUME NEW p \in Proc, DequeueCall(p)
      PROVE  TypeOK'
  BY <1>9 DEF DequeueCall, shared, local, history
<1>10. ASSUME NEW p \in Proc, DequeueLoadHead(p)
       PROVE  TypeOK'
  BY <1>10 DEF DequeueLoadHead, shared, history
<1>11. ASSUME NEW p \in Proc, DequeueLoadTail(p)
       PROVE  TypeOK'
  BY <1>11 DEF DequeueLoadTail, shared, history
<1>12. ASSUME NEW p \in Proc, DequeueLoadNext(p)
       PROVE  TypeOK'
  BY <1>12, ViewsAreNodes DEF DequeueLoadNext, shared, history
<1>13. ASSUME NEW p \in Proc, DequeueCheck(p)
       PROVE  TypeOK'
  BY <1>13 DEF DequeueCheck, shared, local, history
<1>14. ASSUME NEW p \in Proc, DequeueHelp(p)
       PROVE  TypeOK'
  BY <1>14, ViewsAreNodes DEF DequeueHelp, SwingTail, local
<1>15. ASSUME NEW p \in Proc, DequeueTake(p)
       PROVE  TypeOK'
  BY <1>15, ViewsAreNodes DEF DequeueTake
<1>16. ASSUME NEW p \in Proc, DequeueReturn(p)
       PROVE  TypeOK'
  <2>1. len + LenMod - 1 \in Int
    OBVIOUS
  <2>2. (len + LenMod - 1) % LenMod \in 0..(LenMod - 1)
    BY <2>1, ModRange
  <2> QED
    BY <1>16, <2>2 DEF DequeueReturn, Return, history
<1>17. CASE UNCHANGED vars
  BY <1>17 DEF vars, shared, local, history
<1> QED
  BY <1>1, <1>2, <1>3, <1>4, <1>5, <1>6, <1>7, <1>8, <1>9, <1>10, <1>11, <1>12,
     <1>13, <1>14, <1>15, <1>16, <1>17 DEF Next, Call, Step, Returns

------------------------------------------------------------------------------
(* What a step of goroutine p guarantees to the others *)

Grow ==
  /\ Len(chain) <= Len(chain')
  /\ \A i \in 1..Len(chain) : chain'[i] = chain[i]
  /\ headAt <= headAt' /\ tailAt <= tailAt'
  /\ \A n \in Node : next[n] # Nil => next'[n] = next[n]

Kept(q) ==
  /\ pc'[q] = pc[q] /\ arg'[q] = arg[q] /\ mine'[q] = mine[q]
  /\ h'[q] = h[q] /\ t'[q] = t[q] /\ nx'[q] = nx[q]

Guarantee(p) ==
  /\ Grow
  /\ \A q \in Proc \ {p} : Kept(q)
  /\ chain' \in {chain, Append(chain, mine[p])}
  /\ allocated \subseteq allocated'
  /\ \A n \in allocated : value'[n] = value[n]
  /\ mine'[p] \in {mine[p], Nil} \/ mine'[p] \notin allocated

\* Bounds every proof below needs.
LEMMA Bounds ==
  ASSUME TypeOK, HeapOK
  PROVE  /\ Len(chain) \in Nat /\ headAt \in Nat /\ tailAt \in Nat
         /\ 1 <= headAt /\ headAt <= tailAt
         /\ tailAt <= Len(chain) /\ Len(chain) <= tailAt + 1
         /\ \A i \in 1..Len(chain) : chain[i] \in Node
  BY DEF TypeOK, HeapOK, PointersInChain

\* A goroutine that did not run keeps its view of the list.
LEMMA ViewsSurvive ==
  ASSUME TypeOK, TypeOK', IndInv, Grow, NEW q \in Proc, Kept(q)
  PROVE  EnqueueView(q)' /\ DequeueView(q)'
<1>1. HeapOK /\ EnqueueView(q) /\ DequeueView(q)
  BY DEF IndInv
<1>2. /\ Len(chain) \in Nat /\ headAt \in Nat /\ tailAt \in Nat
      /\ 1 <= headAt /\ headAt <= tailAt /\ tailAt <= Len(chain)
      /\ headAt' \in Nat /\ tailAt' \in Nat
  BY <1>1, Bounds DEF TypeOK
<1>3. \A n, i : i \in 1..Len(chain) /\ InChain(n, i, tailAt) => InChain(n, i, tailAt)'
  BY <1>2 DEF Grow, InChain
<1>4. \A n : InChain(n, 1, headAt) => InChain(n, 1, headAt)'
  BY <1>2 DEF Grow, InChain
<1>5. EnqueueView(q)'
  BY <1>1, <1>2, <1>3, ViewsAreNodes DEF EnqueueView, Kept, Grow, InChain
<1>6. DequeueView(q)'
  BY <1>1, <1>2, <1>3, <1>4, ViewsAreNodes DEF DequeueView, Kept, Grow, InChain
<1> QED
  BY <1>5, <1>6

\* It also keeps its node to itself.
LEMMA OwnNodeSurvives ==
  ASSUME TypeOK, TypeOK', IndInv, NEW p \in Proc, Guarantee(p),
         NEW q \in Proc \ {p}
  PROVE  OwnNode(q)'
<1> SUFFICES ASSUME pc[q] \in {"eq_tail", "eq_next", "eq_check", "eq_link", "eq_help"}
             PROVE  OwnNode(q)'
  BY DEF OwnNode, Guarantee, Kept
<1>1. /\ mine[q] \in allocated
      /\ ~ InChain(mine[q], 1, Len(chain))
      /\ arg[q] \in Value /\ value[mine[q]] = arg[q]
      /\ \A r \in Proc : mine[r] = mine[q] => r = q
  BY DEF IndInv, OwnNode
<1>2. Kept(q)
  BY DEF Guarantee
<1>3. mine[q] # mine[p] /\ mine[q] # Nil
  BY <1>1 DEF TypeOK
<1>4. \A i \in 1..Len(chain') : chain'[i] # mine[q]
  <2>1. CASE chain' = chain
    BY <2>1, <1>1 DEF InChain
  <2>2. CASE chain' = Append(chain, mine[p])
    <3>1. Len(chain') = Len(chain) + 1 /\ chain'[Len(chain) + 1] = mine[p]
      BY <2>2 DEF TypeOK
    <3>2. \A i \in 1..Len(chain) : chain'[i] = chain[i]
      BY DEF Guarantee, Grow
    <3>3. Len(chain) \in Nat
      BY DEF TypeOK
    <3> QED
      BY <3>1, <3>2, <3>3, <1>1, <1>2, <1>3 DEF InChain, Kept
  <2> QED
    BY <2>1, <2>2 DEF Guarantee
<1>5. \A r \in Proc : mine'[r] = mine[q] => r = q
  BY <1>1, <1>3 DEF Guarantee, Kept
<1> QED
  BY <1>1, <1>2, <1>4, <1>5 DEF OwnNode, Kept, Guarantee, InChain

\* So a step of p needs a proof about the heap and about p only.
LEMMA Assemble ==
  ASSUME TypeOK, TypeOK', IndInv, NEW p \in Proc, Guarantee(p),
         HeapOK', NodesOK', OwnNode(p)', EnqueueView(p)', DequeueView(p)'
  PROVE  IndInv'
<1>1. ASSUME NEW q \in Proc \ {p}
      PROVE  OwnNode(q)' /\ EnqueueView(q)' /\ DequeueView(q)'
  BY <1>1, OwnNodeSurvives, ViewsSurvive DEF Guarantee
<1> QED
  BY <1>1 DEF IndInv

\* A step that leaves the list alone.
LEMMA ListKept ==
  ASSUME TypeOK, IndInv, UNCHANGED <<head, tail, next, value, allocated, history>>,
         NEW p \in Proc, mine'[p] \in {mine[p], Nil}, \A q \in Proc \ {p} : Kept(q)
  PROVE  Guarantee(p) /\ HeapOK' /\ NodesOK'
<1>1. HeapOK' /\ NodesOK'
  BY DEF IndInv, HeapOK, ListIsChain, PointersInChain, NodesOK, InChain, history, Kept
<1>2. Guarantee(p)
  BY DEF Guarantee, Grow, history, TypeOK
<1> QED
  BY <1>1, <1>2

------------------------------------------------------------------------------
(* Every step preserves the inductive invariant *)

\* The instructions that only read the list, or touch only len.
LEMMA ReadersStep ==
  ASSUME TypeOK, TypeOK', IndInv, NEW p \in Proc,
         \/ EnqueueLoadTail(p) \/ EnqueueLoadNext(p) \/ EnqueueCheck(p)
         \/ EnqueueReturn(p) \/ DequeueCall(p) \/ DequeueLoadHead(p)
         \/ DequeueLoadTail(p) \/ DequeueLoadNext(p) \/ DequeueCheck(p)
         \/ DequeueReturn(p)
  PROVE  IndInv'
<1> USE DEF Goto
<1>1. /\ UNCHANGED <<head, tail, next, value, allocated, history>>
      /\ mine'[p] \in {mine[p], Nil}
      /\ \A q \in Proc \ {p} : Kept(q)
  BY DEF EnqueueLoadTail, EnqueueLoadNext, EnqueueCheck, EnqueueReturn, DequeueCall,
         DequeueLoadHead, DequeueLoadTail, DequeueLoadNext, DequeueCheck, DequeueReturn,
         Return, Kept, shared, local, TypeOK
<1>2. Guarantee(p) /\ HeapOK' /\ NodesOK'
  BY <1>1, ListKept
<1>3. HeapOK /\ OwnNode(p) /\ EnqueueView(p) /\ DequeueView(p)
  BY DEF IndInv
<1>4. /\ Len(chain) \in Nat /\ headAt \in Nat /\ tailAt \in Nat
      /\ 1 <= headAt /\ headAt <= tailAt /\ tailAt <= Len(chain)
      /\ head = chain[headAt] /\ tail = chain[tailAt]
  BY <1>3, Bounds DEF HeapOK, PointersInChain
<1>5. OwnNode(p)'
  <2>1. \/ /\ UNCHANGED <<value, allocated, chain, arg, mine>>
           /\ pc'[p] \in {"eq_tail", "eq_next", "eq_check", "eq_link", "eq_help"} =>
                pc[p] \in {"eq_tail", "eq_next", "eq_check"}
        \/ pc'[p] = "idle"
    BY DEF EnqueueLoadTail, EnqueueLoadNext, EnqueueCheck, EnqueueReturn, DequeueCall,
           DequeueLoadHead, DequeueLoadTail, DequeueLoadNext, DequeueCheck, DequeueReturn,
           Return, shared, local, history, TypeOK
  <2> QED
    BY <2>1, <1>3 DEF OwnNode, InChain
<1>6. EnqueueView(p)' /\ DequeueView(p)'
  <2>1. ASSUME EnqueueLoadTail(p)
        PROVE  EnqueueView(p)' /\ DequeueView(p)'
    BY <2>1, <1>4 DEF EnqueueLoadTail, EnqueueView, DequeueView, InChain, shared, history, TypeOK
  <2>2. ASSUME EnqueueLoadNext(p)
        PROVE  EnqueueView(p)' /\ DequeueView(p)'
    BY <2>2, <1>3 DEF EnqueueLoadNext, EnqueueView, DequeueView, InChain, shared, history, TypeOK
  <2>3. ASSUME EnqueueCheck(p)
        PROVE  EnqueueView(p)' /\ DequeueView(p)'
    BY <2>3, <1>3 DEF EnqueueCheck, EnqueueView, DequeueView, InChain, shared, local, history, TypeOK
  <2>4. ASSUME EnqueueReturn(p) \/ DequeueReturn(p) \/ DequeueCall(p)
        PROVE  EnqueueView(p)' /\ DequeueView(p)'
    BY <2>4, <1>3 DEF EnqueueReturn, DequeueReturn, DequeueCall, Return, EnqueueView, DequeueView,
                      local, TypeOK
  <2>5. ASSUME DequeueLoadHead(p)
        PROVE  EnqueueView(p)' /\ DequeueView(p)'
    BY <2>5, <1>3, <1>4 DEF DequeueLoadHead, EnqueueView, DequeueView, InChain, shared, history, TypeOK
  <2>6. ASSUME DequeueLoadTail(p)
        PROVE  EnqueueView(p)' /\ DequeueView(p)'
    <3>1. PICK i \in 1..headAt : chain[i] = h[p]
      BY <2>6, <1>3 DEF DequeueLoadTail, DequeueView, InChain
    <3>2. chain[i] = h[p] /\ InChain(tail, i, tailAt)
      BY <3>1, <1>4 DEF InChain
    <3>3. pc'[p] = "dq_next" /\ t'[p] = tail /\ h' = h /\ UNCHANGED <<chain, headAt, tailAt>>
      BY <2>6 DEF DequeueLoadTail, history, TypeOK
    <3>4. i \in 1..headAt' /\ chain'[i] = h'[p] /\ InChain(t[p], i, tailAt)'
      BY <3>1, <3>2, <3>3 DEF InChain
    <3>5. arg'[p] = Nil
      BY <2>6, <1>3 DEF DequeueLoadTail, DequeueView
    <3> QED
      BY <3>3, <3>4, <3>5 DEF EnqueueView, DequeueView
  <2>7. ASSUME DequeueLoadNext(p)
        PROVE  EnqueueView(p)' /\ DequeueView(p)'
    <3>1. PICK i \in 1..headAt : chain[i] = h[p] /\ InChain(t[p], i, tailAt)
      BY <2>7, <1>3 DEF DequeueLoadNext, DequeueView
    <3>2. h[p] # t[p] => next[h[p]] # Nil
      <4>1. ASSUME h[p] # t[p]
            PROVE  i < Len(chain)
        BY <3>1, <4>1, <1>4 DEF InChain
      <4>2. ASSUME i < Len(chain)
            PROVE  next[chain[i]] = chain[i + 1] /\ chain[i + 1] \in Node
        BY <4>2, <3>1, <1>3, <1>4, Bounds DEF HeapOK, ListIsChain
      <4> QED
        BY <4>1, <4>2, <3>1
    <3>3. /\ pc'[p] = "dq_check" /\ nx'[p] = next[h[p]] /\ h' = h /\ t' = t
          /\ UNCHANGED <<chain, headAt, tailAt, next>>
      BY <2>7 DEF DequeueLoadNext, shared, history, TypeOK
    <3>4. i \in 1..headAt' /\ chain'[i] = h'[p] /\ InChain(t[p], i, tailAt)'
      BY <3>1, <3>3 DEF InChain
    <3>5. arg'[p] = Nil
      BY <2>7, <1>3 DEF DequeueLoadNext, DequeueView
    <3> QED
      BY <3>2, <3>3, <3>4, <3>5 DEF EnqueueView, DequeueView
  <2>8. ASSUME DequeueCheck(p)
        PROVE  EnqueueView(p)' /\ DequeueView(p)'
    BY <2>8, <1>3 DEF DequeueCheck, EnqueueView, DequeueView, InChain, shared, local, history, TypeOK
  <2> QED
    BY <2>1, <2>2, <2>3, <2>4, <2>5, <2>6, <2>7, <2>8
<1> QED
  BY <1>2, <1>5, <1>6, Assemble

\* A new node is nobody else's.
LEMMA EnqueueCallStep ==
  ASSUME TypeOK, TypeOK', IndInv, NEW p \in Proc, NEW v \in Value, EnqueueCall(p, v)
  PROVE  IndInv'
<1> USE DEF Goto
<1>1. PICK n \in Node \ allocated :
        /\ allocated' = allocated \cup {n}
        /\ value' = [value EXCEPT ![n] = v]
        /\ mine' = [mine EXCEPT ![p] = n]
  BY DEF EnqueueCall
<1>2. /\ UNCHANGED <<head, tail, next, h, t, nx, chain, headAt, tailAt>>
      /\ arg' = [arg EXCEPT ![p] = v] /\ pc' = [pc EXCEPT ![p] = "eq_tail"]
  BY DEF EnqueueCall, history
<1>3. HeapOK /\ NodesOK
  BY DEF IndInv
<1>4. HeapOK'
  BY <1>2, <1>3 DEF HeapOK, ListIsChain, PointersInChain, InChain
<1>5. NodesOK'
  BY <1>1, <1>2, <1>3 DEF NodesOK, TypeOK
<1>6. Guarantee(p)
  BY <1>1, <1>2 DEF Guarantee, Grow, Kept, TypeOK
<1>7. OwnNode(p)'
  BY <1>1, <1>2, <1>3 DEF OwnNode, NodesOK, InChain, TypeOK
<1>8. EnqueueView(p)' /\ DequeueView(p)'
  BY <1>2 DEF EnqueueView, DequeueView, TypeOK
<1> QED
  BY <1>4, <1>5, <1>6, <1>7, <1>8, Assemble

\* cas(&q.tail, old, nx) with nx the node after old: it moves tail along the
\* chain or does nothing.
LEMMA SwingLemma ==
  ASSUME TypeOK, HeapOK, NEW old \in Node, InChain(old, 1, tailAt), next[old] # Nil,
         SwingTail(old, next[old])
  PROVE  /\ tailAt <= tailAt' /\ headAt <= tailAt'
         /\ tailAt' <= Len(chain) /\ Len(chain) <= tailAt' + 1
         /\ tail' = chain[tailAt']
<1>1. /\ Len(chain) \in Nat /\ headAt \in Nat /\ tailAt \in Nat
      /\ 1 <= headAt /\ headAt <= tailAt
      /\ tailAt <= Len(chain) /\ Len(chain) <= tailAt + 1
      /\ tail = chain[tailAt]
  BY Bounds DEF HeapOK, PointersInChain
<1>2. CASE tail # old
  BY <1>1, <1>2 DEF SwingTail
<1>3. CASE tail = old
  <2>1. tailAt # Len(chain)
    <3> SUFFICES ASSUME tailAt = Len(chain)
                 PROVE  FALSE
      OBVIOUS
    <3>1. ~ InChain(old, 1, Len(chain) - 1)
      <4> SUFFICES ASSUME NEW i \in 1..(Len(chain) - 1), chain[i] = old
                   PROVE  FALSE
        BY DEF InChain
      <4>1. i \in 1..Len(chain) /\ Len(chain) \in 1..Len(chain) /\ i # Len(chain)
        BY <1>1
      <4>2. chain[i] # chain[Len(chain)]
        BY <4>1 DEF HeapOK, ListIsChain
      <4> QED
        BY <4>2, <1>1, <1>3
    <3>2. next[old] = Nil
      BY <3>1 DEF HeapOK, ListIsChain
    <3> QED
      BY <3>2
  <2>2. next[old] = chain[tailAt + 1]
    <3>1. tailAt \in 1..(Len(chain) - 1)
      BY <1>1, <2>1
    <3> QED
      BY <3>1, <1>1, <1>3 DEF HeapOK, ListIsChain
  <2> QED
    BY <1>1, <1>3, <2>1, <2>2 DEF SwingTail
<1> QED
  BY <1>2, <1>3

\* The three instructions that swing tail.
LEMMA SwingStep ==
  ASSUME TypeOK, TypeOK', IndInv, NEW p \in Proc,
         EnqueueSwing(p) \/ EnqueueHelp(p) \/ DequeueHelp(p)
  PROVE  IndInv'
<1> USE DEF Goto
<1>1. HeapOK /\ NodesOK /\ OwnNode(p) /\ EnqueueView(p) /\ DequeueView(p)
  BY DEF IndInv
<1>2. /\ Len(chain) \in Nat /\ headAt \in Nat /\ tailAt \in Nat
      /\ 1 <= headAt /\ headAt <= tailAt
  BY <1>1, Bounds
<1>3. /\ t[p] \in Node /\ InChain(t[p], 1, tailAt) /\ next[t[p]] # Nil
      /\ SwingTail(t[p], next[t[p]])
  <2>1. CASE EnqueueSwing(p) \/ EnqueueHelp(p)
    BY <2>1, <1>1, ViewsAreNodes DEF EnqueueSwing, EnqueueHelp, EnqueueView
  <2>2. CASE DequeueHelp(p)
    BY <2>2, <1>1, <1>2, ViewsAreNodes DEF DequeueHelp, DequeueView, InChain
  <2> QED
    BY <2>1, <2>2
<1>4. /\ tailAt <= tailAt' /\ headAt <= tailAt'
      /\ tailAt' <= Len(chain) /\ Len(chain) <= tailAt' + 1
      /\ tail' = chain[tailAt']
  BY <1>1, <1>3, SwingLemma
<1>5. /\ UNCHANGED <<head, next, value, allocated, arg, mine, h, t, nx, chain, headAt>>
      /\ pc'[p] \in {"eq_len", "eq_tail", "dq_head"}
      /\ pc'[p] = "eq_tail" => pc[p] = "eq_help"
      /\ pc'[p] = "dq_head" => pc[p] = "dq_help"
      /\ \A q \in Proc \ {p} : Kept(q)
  BY DEF EnqueueSwing, EnqueueHelp, DequeueHelp, local, Kept, TypeOK
<1>6. HeapOK'
  BY <1>1, <1>4, <1>5 DEF HeapOK, ListIsChain, PointersInChain, InChain
<1>7. NodesOK'
  BY <1>1, <1>5 DEF NodesOK
<1>8. Guarantee(p)
  BY <1>2, <1>4, <1>5 DEF Guarantee, Grow
<1>9. OwnNode(p)' /\ EnqueueView(p)' /\ DequeueView(p)'
  BY <1>1, <1>5 DEF OwnNode, EnqueueView, DequeueView, InChain
<1> QED
  BY <1>6, <1>7, <1>8, <1>9, Assemble

LEMMA LinkStep ==
  ASSUME TypeOK, TypeOK', IndInv, NEW p \in Proc, EnqueueLink(p)
  PROVE  IndInv'
<1> USE DEF Goto
<1>1. HeapOK /\ NodesOK /\ OwnNode(p) /\ EnqueueView(p) /\ DequeueView(p)
  BY DEF IndInv
<1>2. /\ pc[p] = "eq_link" /\ nx[p] = Nil
      /\ t[p] \in Node /\ mine[p] \in Node /\ InChain(t[p], 1, tailAt)
  BY <1>1, ViewsAreNodes DEF EnqueueLink, EnqueueView
<1>3. /\ UNCHANGED <<head, tail, value, allocated, arg, mine, h, t, nx, headAt, tailAt>>
      /\ \A q \in Proc \ {p} : Kept(q)
  BY DEF EnqueueLink, local, Kept, TypeOK
<1>4. CASE next[t[p]] # nx[p]
  <2>1. UNCHANGED <<next, chain>> /\ pc'[p] = "eq_tail"
    BY <1>4 DEF EnqueueLink, TypeOK
  <2>2. Guarantee(p) /\ HeapOK' /\ NodesOK'
    BY <1>3, <2>1, ListKept DEF history
  <2>3. OwnNode(p)' /\ EnqueueView(p)' /\ DequeueView(p)'
    BY <1>1, <1>2, <1>3, <2>1 DEF OwnNode, EnqueueView, DequeueView, InChain
  <2> QED
    BY <2>2, <2>3, Assemble
<1>5. CASE next[t[p]] = nx[p]
  <2> DEFINE L == Len(chain)
  <2>1. /\ L \in Nat /\ headAt \in Nat /\ tailAt \in Nat
        /\ 1 <= headAt /\ headAt <= tailAt /\ tailAt <= L
        /\ \A i \in 1..L : chain[i] \in Node
    BY <1>1, Bounds
  <2>2. /\ next' = [next EXCEPT ![t[p]] = mine[p]] /\ chain' = Append(chain, mine[p])
        /\ pc'[p] = "eq_swing"
    BY <1>5 DEF EnqueueLink, TypeOK
  <2>3. /\ Len(chain') = L + 1 /\ chain'[L + 1] = mine[p]
        /\ \A i \in 1..L : chain'[i] = chain[i]
    BY <1>2, <2>2, AppendProperties DEF TypeOK
  \* t[p] has no successor, so it is the last node, and tail points to it.
  <2>4. t[p] = chain[L] /\ tailAt = L
    <3>1. PICK i \in 1..tailAt : chain[i] = t[p]
      BY <1>2 DEF InChain
    <3>2. i = L
      <4> SUFFICES ASSUME i < L
                   PROVE  FALSE
        BY <2>1, <3>1
      <4>1. next[chain[i]] = chain[i + 1] /\ chain[i + 1] \in Node
        BY <1>1, <2>1, <3>1 DEF HeapOK, ListIsChain
      <4> QED
        BY <4>1, <3>1, <1>5, <1>2
    <3> QED
      BY <2>1, <3>1, <3>2
  <2>5. \A i \in 1..L : chain[i] # mine[p]
    BY <1>1, <1>2 DEF OwnNode, InChain
  <2>6. ListIsChain'
    <3>1. \A i, j \in 1..Len(chain') : chain'[i] = chain'[j] => i = j
      <4> SUFFICES ASSUME NEW i \in 1..(L + 1), NEW j \in 1..(L + 1),
                          chain'[i] = chain'[j]
                   PROVE  i = j
        BY <2>3
      <4>1. CASE i \in 1..L /\ j \in 1..L
        BY <4>1, <1>1, <2>3 DEF HeapOK, ListIsChain
      <4>2. CASE i = L + 1 \/ j = L + 1
        BY <4>2, <2>1, <2>3, <2>5
      <4> QED
        BY <4>1, <4>2, <2>1
    <3>2. ASSUME NEW i \in 1..(Len(chain') - 1)
          PROVE  next'[chain'[i]] = chain'[i + 1]
      <4>1. CASE i = L
        BY <4>1, <1>2, <2>1, <2>2, <2>3, <2>4 DEF TypeOK
      <4>2. CASE i # L
        <5>1. i \in 1..(L - 1) /\ i \in 1..L /\ i + 1 \in 1..L
          BY <4>2, <2>1, <2>3
        <5>2. chain[i] # chain[L] /\ next[chain[i]] = chain[i + 1]
          BY <5>1, <4>2, <1>1, <2>1 DEF HeapOK, ListIsChain
        <5> QED
          BY <5>1, <5>2, <2>1, <2>2, <2>3, <2>4 DEF TypeOK
      <4> QED
        BY <4>1, <4>2
    <3>3. ASSUME NEW n \in Node, ~ InChain(n, 1, Len(chain) - 1)'
          PROVE  next'[n] = Nil
      <4>1. \A i \in 1..L : chain[i] # n
        BY <3>3, <2>1, <2>3 DEF InChain
      <4>2. next[n] = Nil /\ n # t[p]
        BY <4>1, <1>1, <2>1, <2>4 DEF HeapOK, ListIsChain, InChain
      <4> QED
        BY <4>2, <2>2 DEF TypeOK
    <3> QED
      BY <3>1, <3>2, <3>3 DEF ListIsChain
  <2>7. PointersInChain'
    BY <1>1, <1>3, <2>1, <2>3, <2>4 DEF HeapOK, PointersInChain
  <2>8. NodesOK'
    BY <1>1, <1>2, <1>3, <2>1, <2>3 DEF NodesOK, OwnNode
  <2>9. Guarantee(p)
    <3>1. \A n \in Node : next[n] # Nil => next'[n] = next[n]
      BY <1>2, <1>5, <2>2 DEF TypeOK
    <3> QED
      BY <1>3, <2>1, <2>2, <2>3, <3>1 DEF Guarantee, Grow
  <2>10. OwnNode(p)' /\ EnqueueView(p)' /\ DequeueView(p)'
    <3>1. InChain(t[p], 1, tailAt)'
      BY <1>2, <1>3, <2>1, <2>3 DEF InChain
    <3>2. mine'[p] = next'[t'[p]] /\ mine'[p] # Nil
      BY <1>2, <1>3, <2>2 DEF TypeOK
    <3> QED
      BY <2>2, <3>1, <3>2 DEF OwnNode, EnqueueView, DequeueView
  <2> QED
    BY <2>6, <2>7, <2>8, <2>9, <2>10, Assemble DEF HeapOK
<1> QED
  BY <1>4, <1>5

LEMMA TakeStep ==
  ASSUME TypeOK, TypeOK', IndInv, NEW p \in Proc, DequeueTake(p)
  PROVE  IndInv'
<1> USE DEF Goto
<1>1. HeapOK /\ NodesOK /\ OwnNode(p) /\ EnqueueView(p) /\ DequeueView(p)
  BY DEF IndInv
<1>2. /\ pc[p] = "dq_take" /\ h[p] # t[p] /\ nx[p] = next[h[p]]
      /\ \E i \in 1..headAt : chain[i] = h[p] /\ InChain(t[p], i, tailAt)
  BY <1>1 DEF DequeueTake, DequeueView
<1>3. /\ UNCHANGED <<tail, next, value, allocated, mine, h, t, nx, chain, tailAt>>
      /\ \A q \in Proc \ {p} : Kept(q)
      /\ pc'[p] = "dq_len" \/ (pc'[p] = "dq_head" /\ arg' = arg)
  BY DEF DequeueTake, Kept, TypeOK
<1>4. /\ Len(chain) \in Nat /\ headAt \in Nat /\ tailAt \in Nat
      /\ 1 <= headAt /\ headAt <= tailAt /\ tailAt <= Len(chain)
  BY <1>1, Bounds
<1>5. headAt <= headAt' /\ headAt' <= tailAt /\ head' = chain[headAt'] /\ headAt' \in Nat
  <2>1. CASE head # h[p]
    BY <2>1, <1>1, <1>4 DEF DequeueTake, HeapOK, PointersInChain
  <2>2. CASE head = h[p]
    <3>1. headAt < tailAt
      BY <2>2, <1>1, <1>2, <1>4 DEF HeapOK, ListIsChain, PointersInChain, InChain
    <3>2. nx[p] = chain[headAt + 1]
      <4>1. headAt \in 1..(Len(chain) - 1) /\ h[p] = chain[headAt]
        BY <2>2, <3>1, <1>1, <1>4 DEF HeapOK, PointersInChain
      <4> QED
        BY <4>1, <1>1, <1>2 DEF HeapOK, ListIsChain
    <3>3. head' = nx[p] /\ headAt' = headAt + 1
      BY <2>2 DEF DequeueTake
    <3> QED
      BY <3>1, <3>2, <3>3, <1>4
  <2> QED
    BY <2>1, <2>2
<1>6. HeapOK'
  <2>1. UNCHANGED <<tail, next, chain, tailAt>>
    BY <1>3
  <2>2. ListIsChain'
    BY <2>1, <1>1 DEF HeapOK, ListIsChain, InChain
  <2>3. PointersInChain'
    BY <2>1, <1>1, <1>4, <1>5 DEF HeapOK, PointersInChain
  <2> QED
    BY <2>2, <2>3 DEF HeapOK
<1>7. NodesOK'
  BY <1>1, <1>3 DEF NodesOK
<1>8. Guarantee(p)
  BY <1>3, <1>4, <1>5 DEF Guarantee, Grow
<1>9. OwnNode(p)' /\ EnqueueView(p)' /\ DequeueView(p)'
  <2>1. arg[p] = Nil
    BY <1>1, <1>2 DEF DequeueView
  <2> QED
    BY <2>1, <1>3 DEF OwnNode, EnqueueView, DequeueView
<1> QED
  BY <1>6, <1>7, <1>8, <1>9, Assemble

LEMMA StutterStep ==
  ASSUME TypeOK, IndInv, UNCHANGED vars
  PROVE  IndInv'
<1> USE DEF vars, shared, local, history
<1>1. HeapOK'
  BY DEF IndInv, HeapOK, ListIsChain, PointersInChain, InChain
<1>2. NodesOK'
  BY DEF IndInv, NodesOK
<1>3. ASSUME NEW p \in Proc
      PROVE  OwnNode(p)' /\ EnqueueView(p)' /\ DequeueView(p)'
  <2>1. OwnNode(p)'
    BY DEF IndInv, OwnNode, InChain
  <2>2. EnqueueView(p)'
    BY DEF IndInv, EnqueueView, InChain
  <2>3. DequeueView(p)'
    BY DEF IndInv, DequeueView, InChain
  <2> QED
    BY <2>1, <2>2, <2>3
<1> QED
  BY <1>1, <1>2, <1>3 DEF IndInv

LEMMA IndInvStep ==
  ASSUME TypeOK, IndInv, [Next]_vars
  PROVE  IndInv'
<1>1. TypeOK'
  BY TypeStep
<1>2. CASE UNCHANGED vars
  BY <1>2, StutterStep
<1>3. ASSUME NEW p \in Proc, Call(p) \/ Step(p)
      PROVE  IndInv'
  BY <1>1, <1>3, ReadersStep, EnqueueCallStep, SwingStep, LinkStep, TakeStep
     DEF Call, Step, Returns
<1> QED
  BY <1>2, <1>3 DEF Next

LEMMA InitOK ==
  ASSUME Init
  PROVE  TypeOK /\ IndInv
<1>1. TypeOK
  BY DEF Init, TypeOK
<1>2. chain = <<Dummy>> /\ Len(chain) = 1 /\ chain[1] = Dummy
  BY DEF Init
<1>3. HeapOK /\ NodesOK
  BY <1>2 DEF Init, HeapOK, ListIsChain, PointersInChain, NodesOK, InChain
<1>4. ASSUME NEW p \in Proc
      PROVE  OwnNode(p) /\ EnqueueView(p) /\ DequeueView(p)
  BY DEF Init, OwnNode, EnqueueView, DequeueView
<1> QED
  BY <1>1, <1>3, <1>4 DEF IndInv

------------------------------------------------------------------------------
(* The theorems *)

\* The inductive invariant of queue.go: the types, the list, the pointers and
\* every goroutine's view of them, preserved by every atomic instruction of
\* Enqueue and Dequeue in any interleaving.
THEOREM QueueInvariant == Spec => []QueueInv
<1>1. Init => QueueInv
  BY InitOK DEF QueueInv
<1>2. QueueInv /\ [Next]_vars => QueueInv'
  <2> SUFFICES ASSUME TypeOK, IndInv, [Next]_vars PROVE TypeOK' /\ IndInv'
    BY DEF QueueInv
  <2> QED
    BY TypeStep, IndInvStep
<1> QED
  BY <1>1, <1>2, PTL DEF Spec

\* Every field and local variable keeps its type: in particular no goroutine
\* ever stores the nil it loaded into head or tail (the CASes of Enqueue and
\* Dequeue, queue.go:23-69).
THEOREM TypeCorrect == Spec => []TypeOK
<1>1. QueueInv => TypeOK
  BY DEF QueueInv
<1> QED
  BY <1>1, QueueInvariant, PTL

\* Of these, the list and the views.
THEOREM Inductive == Spec => []IndInv
<1>1. QueueInv => IndInv
  BY DEF QueueInv
<1> QED
  BY <1>1, QueueInvariant, PTL

\* The linked list is always the nodes in the order of their links, tail is
\* one of the last two of them and head is not behind tail.
THEOREM HeapCorrect == Spec => []HeapOK
<1>1. IndInv => HeapOK
  BY DEF IndInv
<1> QED
  BY <1>1, Inductive, PTL

\* next.value (queue.go:62) never dereferences nil.
THEOREM NoNilDereferenced == Spec => []NoNilDereference
<1>1. ASSUME TypeOK, IndInv, NEW p \in Proc, pc[p] = "dq_take"
      PROVE  nx[p] \in Node /\ value[nx[p]] # Nil
  <2>1. PICK i \in 1..headAt : chain[i] = h[p] /\ InChain(t[p], i, tailAt)
    BY <1>1 DEF IndInv, DequeueView
  <2>2. h[p] # t[p] /\ nx[p] = next[h[p]] /\ nx[p] \in Node
    BY <1>1, ViewsAreNodes DEF IndInv, DequeueView
  <2>3. i \in 1..(Len(chain) - 1) /\ i + 1 \in 2..Len(chain)
    BY <1>1, <2>1, <2>2, Bounds DEF IndInv, InChain
  <2>4. nx[p] = chain[i + 1] /\ value[chain[i + 1]] \in Value
    BY <1>1, <2>1, <2>2, <2>3 DEF IndInv, HeapOK, ListIsChain, NodesOK
  <2> QED
    BY <2>2, <2>4
<1>2. TypeOK /\ IndInv => NoNilDereference
  BY <1>1 DEF NoNilDereference
<1> QED
  BY <1>2, TypeCorrect, Inductive, PTL

------------------------------------------------------------------------------
(* Refinement: LockFreeQueue implements FifoQueue *)

ItemsAreValues ==
  /\ Items \in Seq(Value) /\ Len(Items) = Len(chain) - headAt
  /\ \A i \in 1..(Len(chain) - headAt) : Items[i] = value[chain[headAt + i]]

\* Stated as an implication, so that it can be used of the next state too.
LEMMA ItemsType == TypeOK /\ IndInv => ItemsAreValues
<1> SUFFICES ASSUME TypeOK, IndInv
             PROVE  ItemsAreValues
  OBVIOUS
<1>1. /\ Len(chain) \in Nat /\ headAt \in Nat
      /\ 1 <= headAt /\ headAt <= Len(chain)
  BY Bounds DEF IndInv
<1>2. \A i \in 1..(Len(chain) - headAt) : value[chain[headAt + i]] \in Value
  BY <1>1 DEF IndInv, NodesOK
<1>3. Items \in [1..(Len(chain) - headAt) -> Value]
  BY <1>2 DEF Items
<1>4. Items \in Seq(Value)
  BY <1>1, <1>3, SeqDef
<1>5. Len(Items) = Len(chain) - headAt
  BY <1>1, <1>3, <1>4, LenProperties
<1> QED
  BY <1>4, <1>5 DEF Items, ItemsAreValues

\* A step that does not link and does not take changes no item.
LEMMA ItemsKept ==
  ASSUME TypeOK, IndInv, UNCHANGED <<chain, headAt>>,
         \A n \in allocated : value'[n] = value[n]
  PROVE  Items' = Items
<1>1. /\ Len(chain) \in Nat /\ headAt \in Nat
      /\ 1 <= headAt /\ headAt <= Len(chain)
  BY Bounds DEF IndInv
<1>2. \A i \in 1..(Len(chain) - headAt) : value'[chain[headAt + i]] = value[chain[headAt + i]]
  BY <1>1 DEF IndInv, NodesOK
<1> QED
  BY <1>1, <1>2 DEF Items

\* The link appends the value.
LEMMA LinkAppends ==
  ASSUME TypeOK, TypeOK', IndInv, IndInv', NEW p \in Proc,
         OwnNode(p), pc[p] = "eq_link", UNCHANGED <<value, headAt>>,
         chain' = Append(chain, mine[p])
  PROVE  Items' = Append(Items, arg[p])
<1> DEFINE n == Len(chain) - headAt
<1>1. /\ Len(chain) \in Nat /\ headAt \in Nat
      /\ 1 <= headAt /\ headAt <= Len(chain)
  BY Bounds DEF IndInv
<1>2. mine[p] \in Node /\ arg[p] \in Value /\ value[mine[p]] = arg[p]
  BY DEF OwnNode, TypeOK
<1>3. /\ Len(chain') = Len(chain) + 1 /\ chain'[Len(chain) + 1] = mine[p]
      /\ \A i \in 1..Len(chain) : chain'[i] = chain[i]
  BY <1>2, AppendProperties DEF TypeOK
<1>4. /\ Items \in Seq(Value) /\ Len(Items) = n
      /\ \A i \in 1..n : Items[i] = value[chain[headAt + i]]
  BY ItemsType DEF ItemsAreValues
<1>5. /\ Items' \in Seq(Value) /\ Len(Items') = n + 1
      /\ \A i \in 1..(n + 1) : Items'[i] = value[chain'[headAt + i]]
  <2>1. /\ Items' \in Seq(Value) /\ Len(Items') = Len(chain') - headAt'
        /\ \A i \in 1..(Len(chain') - headAt') : Items'[i] = value'[chain'[headAt' + i]]
    <3>1. ItemsAreValues'
      BY ItemsType, PTL
    <3> QED
      BY <3>1 DEF ItemsAreValues
  <2>2. Len(chain') - headAt' = n + 1
    BY <1>1, <1>3
  <2> QED
    BY <2>1, <2>2
<1>6. /\ Append(Items, arg[p]) \in Seq(Value) /\ Len(Append(Items, arg[p])) = n + 1
      /\ \A i \in 1..n : Append(Items, arg[p])[i] = Items[i]
      /\ Append(Items, arg[p])[n + 1] = arg[p]
  BY <1>2, <1>4, AppendProperties
<1>7. \A i \in 1..(n + 1) : Items'[i] = Append(Items, arg[p])[i]
  <2> SUFFICES ASSUME NEW i \in 1..(n + 1)
               PROVE  Items'[i] = Append(Items, arg[p])[i]
    OBVIOUS
  <2>1. CASE i = n + 1
    <3>1. headAt + i = Len(chain) + 1
      BY <2>1, <1>1
    <3> QED
      BY <3>1, <2>1, <1>2, <1>3, <1>5, <1>6
  <2>2. CASE i \in 1..n
    <3>1. headAt + i \in 1..Len(chain) /\ i \in 1..(n + 1)
      BY <2>2, <1>1
    <3>2. Items'[i] = value[chain[headAt + i]]
      BY <3>1, <1>3, <1>5
    <3> QED
      BY <3>2, <2>2, <1>4, <1>6
  <2>3. n \in Nat
    BY <1>1
  <2>4. i = n + 1 \/ i \in 1..n
    BY <2>3
  <2> QED
    BY <2>1, <2>2, <2>4
<1> HIDE DEF n
<1> QED
  BY <1>5, <1>6, <1>7, SeqEqual

\* The successful CAS on head takes the first item.
LEMMA TakeRemoves ==
  ASSUME TypeOK, TypeOK', IndInv, IndInv', NEW p \in Proc,
         DequeueTake(p), head = h[p]
  PROVE  Items # <<>> /\ arg'[p] = Head(Items) /\ Items' = Tail(Items)
<1> DEFINE n == Len(chain) - headAt
<1>1. /\ Len(chain) \in Nat /\ headAt \in Nat
      /\ 1 <= headAt /\ headAt <= Len(chain)
  BY Bounds DEF IndInv
<1>2. /\ headAt' = headAt + 1 /\ UNCHANGED <<chain, value>>
      /\ head' = nx[p] /\ arg'[p] = value[nx[p]]
  BY DEF DequeueTake, TypeOK
<1>3. /\ Items \in Seq(Value) /\ Len(Items) = n
      /\ \A i \in 1..n : Items[i] = value[chain[headAt + i]]
  BY ItemsType DEF ItemsAreValues
<1>4. headAt + 1 <= Len(chain) /\ nx[p] = chain[headAt + 1]
  <2>1. headAt' <= Len(chain') /\ head' = chain'[headAt']
    BY DEF IndInv, HeapOK, PointersInChain, TypeOK
  <2> QED
    BY <2>1, <1>2
<1>5. n \in Nat /\ n >= 1
  BY <1>1, <1>4
<1>6. Items # <<>> /\ Head(Items) = Items[1]
  BY <1>3, <1>5, EmptySeq
<1>7. arg'[p] = Head(Items)
  BY <1>2, <1>3, <1>4, <1>5, <1>6
<1>8. /\ Items' \in Seq(Value) /\ Len(Items') = n - 1
      /\ \A i \in 1..(n - 1) : Items'[i] = value[chain[headAt + 1 + i]]
  <2>1. ItemsAreValues'
    BY ItemsType, PTL
  <2>2. Len(chain') - headAt' = n - 1
    BY <1>1, <1>2
  <2> QED
    BY <2>1, <2>2, <1>2 DEF ItemsAreValues
<1>9. /\ Tail(Items) \in Seq(Value) /\ Len(Tail(Items)) = n - 1
      /\ \A i \in 1..(n - 1) : Tail(Items)[i] = Items[i + 1]
  BY <1>3, <1>6, HeadTailProperties
<1>10. \A i \in 1..(n - 1) : Items'[i] = Tail(Items)[i]
  <2> SUFFICES ASSUME NEW i \in 1..(n - 1)
               PROVE  Items'[i] = Tail(Items)[i]
    OBVIOUS
  <2>1. i + 1 \in 1..n /\ headAt + (i + 1) = headAt + 1 + i
    BY <1>1, <1>5
  <2> QED
    BY <2>1, <1>3, <1>8, <1>9
<1> HIDE DEF n
<1> QED
  BY <1>6, <1>7, <1>8, <1>9, <1>10, SeqEqual

\* A head without successor is the last node: the queue is empty.
LEMMA NoNextIsEmpty ==
  ASSUME TypeOK, IndInv, NEW p \in Proc, pc[p] = "dq_next", next[h[p]] = Nil
  PROVE  Items = <<>>
<1>1. /\ Len(chain) \in Nat /\ headAt \in Nat
      /\ 1 <= headAt /\ headAt <= Len(chain)
      /\ \A i \in 1..Len(chain) : chain[i] \in Node
  BY Bounds DEF IndInv
<1>2. PICK i \in 1..headAt : chain[i] = h[p]
  BY DEF IndInv, DequeueView
<1>3. i = Len(chain)
  <2> SUFFICES ASSUME i < Len(chain)
               PROVE  FALSE
    BY <1>1, <1>2
  <2>1. i \in 1..(Len(chain) - 1) /\ i + 1 \in 1..Len(chain)
    BY <1>1, <1>2
  <2>2. next[chain[i]] = chain[i + 1]
    BY <2>1 DEF IndInv, HeapOK, ListIsChain
  <2> QED
    BY <2>1, <2>2, <1>1, <1>2
<1>4. Len(Items) = 0 /\ Items \in Seq(Value)
  BY <1>1, <1>2, <1>3, ItemsType DEF ItemsAreValues
<1> QED
  BY <1>4, EmptySeq

\* The phases, as the refinement mapping sees them.
PhaseOf == [p \in Proc |-> Phase(p)]

LEMMA PhaseMoves ==
  ASSUME NEW p \in Proc, \A q \in Proc \ {p} : Kept(q)
  PROVE  PhaseOf' = [PhaseOf EXCEPT ![p] = Phase(p)']
<1>1. \A q \in Proc \ {p} : Phase(q)' = Phase(q)
  BY DEF Phase, Kept
<1> QED
  BY <1>1 DEF PhaseOf

\* An instruction that takes no effect and does not change the phase.
LEMMA InnerStutters ==
  ASSUME NEW p \in Proc, \A q \in Proc \ {p} : Kept(q),
         Items' = Items, arg' = arg, Phase(p)' = Phase(p)
  PROVE  UNCHANGED F!vars
<1>1. PhaseOf' = PhaseOf
  BY PhaseMoves DEF PhaseOf
<1> QED
  BY <1>1 DEF PhaseOf, F!vars

\* An instruction that only changes the phase of p from a to b.
LEMMA PhaseStep ==
  ASSUME NEW p \in Proc, \A q \in Proc \ {p} : Kept(q),
         NEW a, NEW b, Phase(p) = a, Phase(p)' = b
  PROVE  F!Move(p, a, b)
<1>1. PhaseOf' = [PhaseOf EXCEPT ![p] = b] /\ PhaseOf[p] = a
  BY PhaseMoves DEF PhaseOf
<1> QED
  BY <1>1 DEF PhaseOf, F!Move

LEMMA EnqueueRefines ==
  ASSUME TypeOK, TypeOK', IndInv, IndInv', NEW p \in Proc,
         \/ \E v \in Value : EnqueueCall(p, v)
         \/ EnqueueLoadTail(p) \/ EnqueueLoadNext(p) \/ EnqueueCheck(p)
         \/ EnqueueLink(p) \/ EnqueueSwing(p) \/ EnqueueHelp(p) \/ EnqueueReturn(p)
  PROVE  F!Next \/ UNCHANGED F!vars
<1> USE DEF Goto
<1>1. \A q \in Proc \ {p} : Kept(q)
  BY DEF EnqueueCall, EnqueueLoadTail, EnqueueLoadNext, EnqueueCheck, EnqueueLink,
         EnqueueSwing, EnqueueHelp, EnqueueReturn, Return, Kept, local, TypeOK
<1>2. ASSUME NEW v \in Value, EnqueueCall(p, v)
      PROVE  F!Next
  <2>1. Items' = Items
    BY <1>2, ItemsKept DEF EnqueueCall, history, TypeOK
  <2>2. Phase(p) = "idle" /\ Phase(p)' = "enqueue"
    BY <1>2 DEF EnqueueCall, Phase, TypeOK
  <2>3. F!CallEnqueue(p, v)
    BY <1>1, <1>2, <2>1, <2>2, PhaseStep DEF EnqueueCall, F!CallEnqueue
  <2> QED
    BY <2>3 DEF F!Next
<1>3. ASSUME \/ EnqueueLoadTail(p) \/ EnqueueLoadNext(p) \/ EnqueueCheck(p)
             \/ EnqueueHelp(p) \/ (EnqueueLink(p) /\ next[t[p]] # nx[p])
      PROVE  UNCHANGED F!vars
  <2>1. UNCHANGED <<chain, headAt, value, arg>>
    BY <1>3 DEF EnqueueLoadTail, EnqueueLoadNext, EnqueueCheck, EnqueueHelp, EnqueueLink,
                shared, local, history
  <2>2. Phase(p) = "enqueue" /\ Phase(p)' = "enqueue"
    <3>1. /\ pc[p] \in {"eq_tail", "eq_next", "eq_check", "eq_link", "eq_help"}
          /\ pc'[p] \in {"eq_tail", "eq_next", "eq_check", "eq_link", "eq_help"}
      BY <1>3 DEF EnqueueLoadTail, EnqueueLoadNext, EnqueueCheck, EnqueueHelp, EnqueueLink, TypeOK
    <3> QED
      BY <3>1 DEF Phase
  <2> QED
    BY <1>1, <2>1, <2>2, ItemsKept, InnerStutters
<1>4. ASSUME EnqueueLink(p), next[t[p]] = nx[p]
      PROVE  F!Next
  <2>1. /\ pc[p] = "eq_link" /\ pc'[p] = "eq_swing" /\ UNCHANGED <<value, headAt, arg>>
        /\ chain' = Append(chain, mine[p])
    BY <1>4 DEF EnqueueLink, local, TypeOK
  <2>2. Items' = Append(Items, arg[p])
    BY <2>1, LinkAppends DEF IndInv
  <2>3. Phase(p) = "enqueue" /\ Phase(p)' = "enqueued"
    BY <2>1 DEF Phase
  <2>4. F!Add(p)
    BY <1>1, <2>1, <2>2, <2>3, PhaseStep DEF F!Add
  <2> QED
    BY <2>4 DEF F!Next
<1>5. ASSUME EnqueueSwing(p)
      PROVE  UNCHANGED F!vars
  <2>1. UNCHANGED <<chain, headAt, value, arg>>
    BY <1>5 DEF EnqueueSwing, local
  <2>2. Phase(p) = "enqueued" /\ Phase(p)' = "enqueued"
    BY <1>5 DEF EnqueueSwing, Phase, TypeOK
  <2> QED
    BY <1>1, <2>1, <2>2, ItemsKept, InnerStutters
<1>6. ASSUME EnqueueReturn(p)
      PROVE  F!Next
  <2>1. Items' = Items
    BY <1>6, ItemsKept DEF EnqueueReturn, history
  <2>2. Phase(p) = "enqueued" /\ Phase(p)' = "idle"
    BY <1>6 DEF EnqueueReturn, Return, Phase, TypeOK
  <2>3. F!Return(p)
    BY <1>1, <1>6, <2>1, <2>2, PhaseStep DEF EnqueueReturn, Return, F!Return, F!Move
  <2> QED
    BY <2>3 DEF F!Next
<1>7. CASE EnqueueLink(p)
  BY <1>3, <1>4, <1>7
<1> QED
  BY <1>2, <1>3, <1>5, <1>6, <1>7

LEMMA DequeueRefines ==
  ASSUME TypeOK, TypeOK', IndInv, IndInv', NEW p \in Proc,
         \/ DequeueCall(p) \/ DequeueLoadHead(p) \/ DequeueLoadTail(p)
         \/ DequeueLoadNext(p) \/ DequeueCheck(p) \/ DequeueHelp(p)
         \/ DequeueTake(p) \/ DequeueReturn(p)
  PROVE  F!Next \/ UNCHANGED F!vars
<1> USE DEF Goto
<1>1. \A q \in Proc \ {p} : Kept(q)
  BY DEF DequeueCall, DequeueLoadHead, DequeueLoadTail, DequeueLoadNext, DequeueCheck,
         DequeueHelp, DequeueTake, DequeueReturn, Return, Kept, local, TypeOK
<1>2. ASSUME DequeueCall(p)
      PROVE  F!Next
  <2>1. UNCHANGED <<chain, headAt, value, arg>>
    BY <1>2 DEF DequeueCall, shared, local, history
  <2>2. Phase(p) = "idle" /\ Phase(p)' = "dequeue"
    BY <1>2 DEF DequeueCall, Phase, TypeOK
  <2>3. F!CallDequeue(p)
    BY <1>1, <2>1, <2>2, ItemsKept, PhaseStep DEF F!CallDequeue
  <2> QED
    BY <2>3 DEF F!Next
<1>3. ASSUME DequeueLoadHead(p) \/ DequeueLoadTail(p) \/ DequeueHelp(p)
             \/ (DequeueTake(p) /\ head # h[p])
      PROVE  UNCHANGED F!vars
  <2>1. UNCHANGED <<chain, headAt, value, arg>>
    BY <1>3 DEF DequeueLoadHead, DequeueLoadTail, DequeueHelp, DequeueTake,
                shared, local, history
  <2>2. Phase(p) = "dequeue" /\ Phase(p)' = "dequeue"
    <3>1. /\ pc[p] \in {"dq_head", "dq_tail", "dq_help", "dq_take"}
          /\ pc'[p] \in {"dq_head", "dq_tail", "dq_next"}
      BY <1>3 DEF DequeueLoadHead, DequeueLoadTail, DequeueHelp, DequeueTake, TypeOK
    <3> QED
      BY <3>1 DEF Phase
  <2> QED
    BY <1>1, <2>1, <2>2, ItemsKept, InnerStutters
<1>4. ASSUME DequeueLoadNext(p)
      PROVE  F!Next \/ UNCHANGED F!vars
  <2>1. /\ UNCHANGED <<chain, headAt, value, arg>> /\ nx'[p] = next[h[p]]
        /\ pc[p] = "dq_next" /\ pc'[p] = "dq_check"
    BY <1>4 DEF DequeueLoadNext, shared, history, TypeOK
  <2>2. Items' = Items /\ Phase(p) = "dequeue"
    BY <2>1, ItemsKept DEF Phase
  <2>3. CASE next[h[p]] = Nil
    <3>1. Phase(p)' = "empty" /\ Items = <<>>
      BY <2>1, <2>3, NoNextIsEmpty DEF Phase
    <3>2. F!SeeEmpty(p)
      BY <1>1, <2>1, <2>2, <3>1, PhaseStep DEF F!SeeEmpty
    <3> QED
      BY <3>2 DEF F!Next
  <2>4. CASE next[h[p]] # Nil
    <3>1. Phase(p)' = "dequeue"
      BY <2>1, <2>4 DEF Phase
    <3> QED
      BY <1>1, <2>1, <2>2, <3>1, InnerStutters
  <2> QED
    BY <2>3, <2>4
<1>5. ASSUME DequeueCheck(p)
      PROVE  F!Next \/ UNCHANGED F!vars
  <2>1. /\ UNCHANGED <<chain, headAt, value, arg, nx>> /\ pc[p] = "dq_check"
        /\ arg[p] = Nil /\ (h[p] # t[p] => nx[p] # Nil)
    BY <1>5 DEF DequeueCheck, shared, local, history, IndInv, DequeueView
  <2>2. Items' = Items
    BY <2>1, ItemsKept
  <2>3. CASE nx[p] # Nil
    <3>1. pc'[p] \in {"dq_head", "dq_take", "dq_help"}
      BY <1>5, <2>3 DEF DequeueCheck, TypeOK
    <3>2. Phase(p) = "dequeue" /\ Phase(p)' = "dequeue"
      BY <2>1, <2>3, <3>1 DEF Phase
    <3> QED
      BY <1>1, <2>1, <2>2, <3>2, InnerStutters
  <2>4. CASE nx[p] = Nil /\ h[p] # head
    <3>1. pc'[p] = "dq_head"
      BY <1>5, <2>4 DEF DequeueCheck, TypeOK
    <3>2. Phase(p) = "empty" /\ Phase(p)' = "dequeue"
      BY <2>1, <2>4, <3>1 DEF Phase
    <3>3. F!Retry(p)
      BY <1>1, <2>1, <2>2, <3>2, PhaseStep DEF F!Retry
    <3> QED
      BY <3>3 DEF F!Next
  <2>5. CASE nx[p] = Nil /\ h[p] = head
    <3>1. pc'[p] = "dq_len" /\ arg'[p] = Nil
      BY <1>5, <2>1, <2>5 DEF DequeueCheck, TypeOK
    <3>2. Phase(p) = "empty" /\ Phase(p)' = "empty"
      BY <2>1, <2>5, <3>1 DEF Phase
    <3> QED
      BY <1>1, <2>1, <2>2, <3>2, InnerStutters
  <2> QED
    BY <2>3, <2>4, <2>5
<1>6. ASSUME DequeueTake(p), head = h[p]
      PROVE  F!Next
  <2>1. Items # <<>> /\ arg'[p] = Head(Items) /\ Items' = Tail(Items)
    BY <1>6, TakeRemoves
  <2>2. /\ pc[p] = "dq_take" /\ pc'[p] = "dq_len"
        /\ arg' = [arg EXCEPT ![p] = arg'[p]]
    BY <1>6 DEF DequeueTake, TypeOK
  <2>3. arg'[p] # Nil
    <3>1. Items \in Seq(Value)
      BY ItemsType DEF ItemsAreValues
    <3> QED
      BY <3>1, <2>1, HeadTailProperties
  <2>4. Phase(p) = "dequeue" /\ Phase(p)' = "taken"
    BY <2>2, <2>3 DEF Phase
  <2>5. F!Take(p)
    BY <1>1, <2>1, <2>2, <2>4, PhaseStep DEF F!Take
  <2> QED
    BY <2>5 DEF F!Next
<1>7. ASSUME DequeueReturn(p)
      PROVE  F!Next
  <2>1. Items' = Items
    BY <1>7, ItemsKept DEF DequeueReturn, history
  <2>2. Phase(p) \in {"empty", "taken"} /\ Phase(p)' = "idle"
    BY <1>7 DEF DequeueReturn, Return, Phase, TypeOK
  <2>3. F!Return(p)
    BY <1>1, <1>7, <2>1, <2>2, PhaseStep DEF DequeueReturn, Return, F!Return, F!Move
  <2> QED
    BY <2>3 DEF F!Next
<1>8. CASE DequeueCall(p) \/ DequeueReturn(p)
  BY <1>2, <1>7, <1>8
<1>9. CASE DequeueLoadHead(p) \/ DequeueLoadTail(p) \/ DequeueHelp(p)
  BY <1>3, <1>9
<1>10. CASE DequeueLoadNext(p) \/ DequeueCheck(p)
  BY <1>4, <1>5, <1>10
<1>11. CASE DequeueTake(p)
  BY <1>3, <1>6, <1>11
<1> QED
  BY <1>8, <1>9, <1>10, <1>11

LEMMA RefinementStep ==
  ASSUME TypeOK, TypeOK', IndInv, IndInv', [Next]_vars
  PROVE  F!Next \/ UNCHANGED F!vars
<1>1. CASE UNCHANGED vars
  <2>1. Items' = Items
    BY <1>1, ItemsKept DEF vars, history, shared
  <2>2. PhaseOf' = PhaseOf
    BY <1>1 DEF PhaseOf, Phase, vars, local
  <2> QED
    BY <1>1, <2>1, <2>2 DEF F!vars, PhaseOf, vars, local
<1>2. ASSUME NEW p \in Proc, Call(p) \/ Step(p)
      PROVE  F!Next \/ UNCHANGED F!vars
  BY <1>2, EnqueueRefines, DequeueRefines DEF Call, Step, Returns
<1> QED
  BY <1>1, <1>2 DEF Next

LEMMA RefinementInit ==
  ASSUME Init
  PROVE  F!Init
<1>1. Len(chain) = 1 /\ headAt = 1
  BY DEF Init
<1>2. Items = <<>>
  <2>1. TypeOK /\ IndInv
    BY InitOK
  <2>2. Items \in Seq(Value) /\ Len(Items) = 0
    BY <1>1, <2>1, ItemsType DEF ItemsAreValues
  <2> QED
    BY <2>2, EmptySeq
<1>3. \A p \in Proc : Phase(p) = "idle"
  BY DEF Init, Phase
<1> QED
  BY <1>2, <1>3 DEF Init, F!Init

\* Enqueue and Dequeue (queue.go:23-69) implement the linearizable FIFO queue,
\* for any number of goroutines, calls and values: initial states map to
\* initial states, every instruction to a step of FifoQueue or a stutter.
THEOREM QueueIsLinearizable == Spec => Linearizable
<1>1. Init => F!Init
  BY RefinementInit
<1>2. TypeOK /\ TypeOK' /\ IndInv /\ IndInv' /\ [Next]_vars => [F!Next]_F!vars
  BY RefinementStep
<1> QED
  BY <1>1, <1>2, TypeCorrect, Inductive, PTL DEF Spec, Linearizable, F!Spec

------------------------------------------------------------------------------
(* The counter *)

\* A remainder is unique.
LEMMA UniqueRemainder ==
  ASSUME NEW x \in Int, NEW d \in Nat, d > 0, NEW q \in Int, NEW r \in 0..d - 1, x = d * q + r
  PROVE  x % d = r
BY Z3

\* An increment and a decrement modulo LenMod follow those of the exact number.
LEMMA CounterFollows ==
  ASSUME NEW x \in Int
  PROVE  /\ ((x % LenMod) + 1) % LenMod = (x + 1) % LenMod
         /\ ((x % LenMod) + LenMod - 1) % LenMod = (x - 1) % LenMod
<1> DEFINE d == LenMod
           r == x % LenMod
           q == x \div LenMod
<1>1. d \in Nat /\ d > 0 /\ q \in Int /\ r \in 0..d - 1 /\ x = d * q + r
  OBVIOUS
<1> HIDE DEF d, r, q
<1>2. (r + 1) % d = (x + 1) % d
  <2>1. CASE r + 1 < d
    <3>1. /\ x + 1 \in Int /\ r + 1 \in Int /\ 0 \in Int /\ r + 1 \in 0..d - 1
          /\ x + 1 = d * q + (r + 1) /\ r + 1 = d * 0 + (r + 1)
      BY <1>1, <2>1
    <3>2. (x + 1) % d = r + 1 /\ (r + 1) % d = r + 1
      BY <1>1, <3>1, UniqueRemainder, Zenon
    <3> QED
      BY <3>2
  <2>2. CASE r + 1 = d
    <3>1. /\ x + 1 \in Int /\ r + 1 \in Int /\ 1 \in Int /\ 0 \in 0..d - 1 /\ q + 1 \in Int
          /\ x + 1 = d * (q + 1) + 0 /\ r + 1 = d * 1 + 0
      BY <1>1, <2>2
    <3>2. (x + 1) % d = 0 /\ (r + 1) % d = 0
      BY <1>1, <3>1, UniqueRemainder, Zenon
    <3> QED
      BY <3>2
  <2> QED
    BY <1>1, <2>1, <2>2
<1>3. (r + d - 1) % d = (x - 1) % d
  <2>1. CASE r > 0
    <3>1. /\ x - 1 \in Int /\ r + d - 1 \in Int /\ 1 \in Int /\ r - 1 \in 0..d - 1
          /\ x - 1 = d * q + (r - 1) /\ r + d - 1 = d * 1 + (r - 1)
      BY <1>1, <2>1
    <3>2. (x - 1) % d = r - 1 /\ (r + d - 1) % d = r - 1
      BY <1>1, <3>1, UniqueRemainder, Zenon
    <3> QED
      BY <3>2
  <2>2. CASE r = 0
    <3>1. /\ x - 1 \in Int /\ r + d - 1 \in Int /\ 0 \in Int /\ d - 1 \in 0..d - 1 /\ q - 1 \in Int
          /\ x - 1 = d * (q - 1) + (d - 1) /\ r + d - 1 = d * 0 + (d - 1)
      BY <1>1, <2>2
    <3>2. (x - 1) % d = d - 1 /\ (r + d - 1) % d = d - 1
      BY <1>1, <3>1, UniqueRemainder, Zenon
    <3> QED
      BY <3>2
  <2> QED
    BY <1>1, <2>1, <2>2
<1> QED
  BY <1>2, <1>3 DEF d, r

\* The calls that have linked or taken a node and not yet counted it.
Adding == {p \in Proc : pc[p] \in {"eq_swing", "eq_len"}}
Taking == {p \in Proc : pc[p] = "dq_len" /\ arg[p] # Nil}

Exact  == Len(chain) - headAt + Cardinality(Taking) - Cardinality(Adding)
LenInv == len = Exact % LenMod

LEMMA AddingCount ==
  ASSUME NEW p \in Proc, \A q \in Proc \ {p} : Kept(q)
  PROVE  /\ Cardinality(Adding) \in Nat /\ Cardinality(Adding') \in Nat
         /\ (p \in Adding <=> p \in Adding') => Cardinality(Adding') = Cardinality(Adding)
         /\ p \notin Adding /\ p \in Adding' => Cardinality(Adding') = Cardinality(Adding) + 1
         /\ p \in Adding /\ p \notin Adding' => Cardinality(Adding') = Cardinality(Adding) - 1
<1>1. IsFiniteSet(Adding) /\ IsFiniteSet(Adding')
  <2>1. Adding \subseteq Proc /\ Adding' \subseteq Proc
    BY DEF Adding
  <2> QED
    BY <2>1, ProcAssumption, FS_Subset
<1>2. \A q \in Proc \ {p} : q \in Adding <=> q \in Adding'
  BY DEF Adding, Kept
<1>3. Adding \subseteq Proc /\ Adding' \subseteq Proc
  BY DEF Adding
<1>4. /\ (p \in Adding <=> p \in Adding') => Adding' = Adding
      /\ p \notin Adding /\ p \in Adding' => Adding' = Adding \cup {p}
      /\ p \in Adding /\ p \notin Adding' => Adding' = Adding \ {p}
  BY <1>2, <1>3
<1> QED
  BY <1>1, <1>4, FS_CardinalityType, FS_AddElement, FS_RemoveElement

LEMMA TakingCount ==
  ASSUME NEW p \in Proc, \A q \in Proc \ {p} : Kept(q)
  PROVE  /\ Cardinality(Taking) \in Nat /\ Cardinality(Taking') \in Nat
         /\ (p \in Taking <=> p \in Taking') => Cardinality(Taking') = Cardinality(Taking)
         /\ p \notin Taking /\ p \in Taking' => Cardinality(Taking') = Cardinality(Taking) + 1
         /\ p \in Taking /\ p \notin Taking' => Cardinality(Taking') = Cardinality(Taking) - 1
<1>1. IsFiniteSet(Taking) /\ IsFiniteSet(Taking')
  <2>1. Taking \subseteq Proc /\ Taking' \subseteq Proc
    BY DEF Taking
  <2> QED
    BY <2>1, ProcAssumption, FS_Subset
<1>2. \A q \in Proc \ {p} : q \in Taking <=> q \in Taking'
  BY DEF Taking, Kept
<1>3. Taking \subseteq Proc /\ Taking' \subseteq Proc
  BY DEF Taking
<1>4. /\ (p \in Taking <=> p \in Taking') => Taking' = Taking
      /\ p \notin Taking /\ p \in Taking' => Taking' = Taking \cup {p}
      /\ p \in Taking /\ p \notin Taking' => Taking' = Taking \ {p}
  BY <1>2, <1>3
<1> QED
  BY <1>1, <1>4, FS_CardinalityType, FS_AddElement, FS_RemoveElement

\* An instruction after which as many calls have yet to count.
LEMMA ExactKept ==
  ASSUME NEW p \in Proc, \A q \in Proc \ {p} : Kept(q), UNCHANGED <<len, chain, headAt>>,
         p \in Adding <=> p \in Adding', p \in Taking <=> p \in Taking', LenInv
  PROVE  LenInv'
<1>1. Cardinality(Adding') = Cardinality(Adding) /\ Cardinality(Taking') = Cardinality(Taking)
  BY AddingCount, TakingCount
<1>2. Exact' = Exact
  BY <1>1 DEF Exact
<1> QED
  BY <1>2 DEF LenInv

LEMMA LenReaders ==
  ASSUME TypeOK, IndInv, LenInv, NEW p \in Proc,
         \/ \E v \in Value : EnqueueCall(p, v)
         \/ EnqueueLoadTail(p) \/ EnqueueLoadNext(p) \/ EnqueueCheck(p)
         \/ EnqueueSwing(p) \/ EnqueueHelp(p)
         \/ DequeueCall(p) \/ DequeueLoadHead(p) \/ DequeueLoadTail(p) \/ DequeueLoadNext(p)
         \/ DequeueCheck(p) \/ DequeueHelp(p)
  PROVE  LenInv'
<1> USE DEF Goto
<1>1. \A q \in Proc \ {p} : Kept(q)
  BY DEF EnqueueCall, EnqueueLoadTail, EnqueueLoadNext, EnqueueCheck, EnqueueSwing, EnqueueHelp,
         DequeueCall, DequeueLoadHead, DequeueLoadTail, DequeueLoadNext, DequeueCheck, DequeueHelp,
         Kept, local, TypeOK
<1>2. UNCHANGED <<len, chain, headAt>>
  BY DEF EnqueueCall, EnqueueLoadTail, EnqueueLoadNext, EnqueueCheck, EnqueueSwing, EnqueueHelp,
         DequeueCall, DequeueLoadHead, DequeueLoadTail, DequeueLoadNext, DequeueCheck, DequeueHelp,
         shared, history
<1>3. p \in Adding <=> p \in Adding'
  BY DEF EnqueueCall, EnqueueLoadTail, EnqueueLoadNext, EnqueueCheck, EnqueueSwing, EnqueueHelp,
         DequeueCall, DequeueLoadHead, DequeueLoadTail, DequeueLoadNext, DequeueCheck, DequeueHelp,
         Adding, TypeOK
<1>4. p \in Taking <=> p \in Taking'
  <2>1. pc[p] = "dq_check" => arg[p] = Nil
    BY DEF IndInv, DequeueView
  <2>2. CASE DequeueCheck(p)
    <3>1. arg'[p] = Nil /\ pc[p] = "dq_check"
      BY <2>1, <2>2 DEF DequeueCheck, local
    <3> QED
      BY <3>1 DEF Taking
  <2>3. CASE ~ DequeueCheck(p)
    <3>1. pc[p] # "dq_len" /\ pc'[p] # "dq_len"
      BY <2>3 DEF EnqueueCall, EnqueueLoadTail, EnqueueLoadNext, EnqueueCheck, EnqueueSwing, EnqueueHelp,
             DequeueCall, DequeueLoadHead, DequeueLoadTail, DequeueLoadNext, DequeueHelp, TypeOK
    <3> QED
      BY <3>1 DEF Taking
  <2> QED
    BY <2>2, <2>3
<1> QED
  BY <1>1, <1>2, <1>3, <1>4, ExactKept

\* Sizes that Exact is made of.
LEMMA ExactTypes ==
  ASSUME TypeOK, NEW p \in Proc, \A q \in Proc \ {p} : Kept(q)
  PROVE  /\ Len(chain) \in Nat /\ headAt \in Nat /\ Exact \in Int
         /\ Cardinality(Adding) \in Nat /\ Cardinality(Taking) \in Nat
<1>1. Len(chain) \in Nat /\ headAt \in Nat
  BY DEF TypeOK
<1>2. Cardinality(Adding) \in Nat /\ Cardinality(Taking) \in Nat
  BY AddingCount, TakingCount
<1> QED
  BY <1>1, <1>2 DEF Exact

\* The link: one more node, and one more call to count it.
LEMMA LenLink ==
  ASSUME TypeOK, TypeOK', IndInv, LenInv, NEW p \in Proc, EnqueueLink(p)
  PROVE  LenInv'
<1>1. \A q \in Proc \ {p} : Kept(q)
  BY DEF EnqueueLink, Goto, Kept, local, TypeOK
<1>2. p \notin Taking /\ p \notin Taking' /\ p \notin Adding
  BY DEF EnqueueLink, Goto, Taking, Adding, TypeOK
<1>3. CASE next[t[p]] = nx[p]
  <2>1. /\ chain' = Append(chain, mine[p]) /\ headAt' = headAt /\ len' = len
        /\ pc'[p] = "eq_swing"
    BY <1>3 DEF EnqueueLink, Goto, TypeOK
  <2>2. Len(chain') = Len(chain) + 1
    BY <2>1 DEF TypeOK
  <2>3. p \in Adding'
    BY <2>1 DEF Adding
  <2>4. /\ Cardinality(Adding') = Cardinality(Adding) + 1
        /\ Cardinality(Taking') = Cardinality(Taking)
    BY <1>1, <1>2, <2>3, AddingCount, TakingCount
  <2>5. Exact' = Exact
    <3>1. /\ Len(chain) \in Nat /\ headAt \in Nat
          /\ Cardinality(Adding) \in Nat /\ Cardinality(Taking) \in Nat
      BY <1>1, ExactTypes
    <3>2. headAt' = headAt
      BY <2>1
    <3> QED
      BY ONLY <2>2, <2>4, <3>1, <3>2, SMTT(20) DEF Exact
  <2> QED
    BY <2>1, <2>5 DEF LenInv
<1>4. CASE next[t[p]] # nx[p]
  <2>1. UNCHANGED <<chain, headAt, len>> /\ pc'[p] = "eq_tail"
    BY <1>4 DEF EnqueueLink, Goto, TypeOK
  <2>2. p \notin Adding'
    BY <2>1 DEF Adding
  <2> QED
    BY <1>1, <1>2, <2>1, <2>2, ExactKept
<1> QED
  BY <1>3, <1>4

\* The CAS of head: one node less, and one more call to count that.
LEMMA LenTake ==
  ASSUME TypeOK, TypeOK', IndInv, IndInv', LenInv, NEW p \in Proc, DequeueTake(p)
  PROVE  LenInv'
<1>1. \A q \in Proc \ {p} : Kept(q)
  BY DEF DequeueTake, Goto, Kept, TypeOK
<1>2. p \notin Taking /\ p \notin Adding /\ p \notin Adding'
  BY DEF DequeueTake, Goto, Taking, Adding, TypeOK
<1>3. CASE head = h[p]
  <2>1. chain' = chain /\ headAt' = headAt + 1 /\ len' = len /\ pc'[p] = "dq_len"
    BY <1>3 DEF DequeueTake, Goto, TypeOK
  <2>2. arg'[p] # Nil
    <3>1. Items # <<>> /\ arg'[p] = Head(Items)
      BY <1>3, TakeRemoves
    <3>2. Items \in Seq(Value)
      BY ItemsType DEF ItemsAreValues
    <3>3. Head(Items) \in Value
      BY <3>1, <3>2, HeadTailProperties
    <3> QED
      BY <3>1, <3>3
  <2>3. p \in Taking'
    BY <2>1, <2>2 DEF Taking
  <2>4. /\ Cardinality(Adding') = Cardinality(Adding)
        /\ Cardinality(Taking') = Cardinality(Taking) + 1
    BY <1>1, <1>2, <2>3, AddingCount, TakingCount
  <2>5. Exact' = Exact
    <3>1. /\ Len(chain) \in Nat /\ headAt \in Nat
          /\ Cardinality(Adding) \in Nat /\ Cardinality(Taking) \in Nat
      BY <1>1, ExactTypes
    <3>2. chain' = chain /\ headAt' = headAt + 1
      BY <2>1
    <3> QED
      BY ONLY <2>4, <3>1, <3>2, SMTT(20) DEF Exact
  <2> QED
    BY <2>1, <2>5 DEF LenInv
<1>4. CASE head # h[p]
  <2>1. UNCHANGED <<chain, headAt, len>> /\ pc'[p] = "dq_head"
    BY <1>4 DEF DequeueTake, Goto, TypeOK
  <2>2. p \notin Taking'
    BY <2>1 DEF Taking
  <2> QED
    BY <1>1, <1>2, <2>1, <2>2, ExactKept
<1> QED
  BY <1>3, <1>4

\* The deferred increment and decrement.
LEMMA LenReturns ==
  ASSUME TypeOK, IndInv, LenInv, NEW p \in Proc, Returns(p)
  PROVE  LenInv'
<1>1. \A q \in Proc \ {p} : Kept(q)
  BY DEF Returns, EnqueueReturn, DequeueReturn, Return, Goto, Kept, TypeOK
<1>2. UNCHANGED <<chain, headAt>> /\ p \notin Adding' /\ p \notin Taking'
  BY DEF Returns, EnqueueReturn, DequeueReturn, Return, Goto, Adding, Taking, TypeOK, history
<1>3. CASE EnqueueReturn(p)
  <2>1. p \in Adding /\ p \notin Taking /\ len' = (len + 1) % LenMod
    BY <1>3 DEF EnqueueReturn, Adding, Taking
  <2>2. /\ Cardinality(Adding') = Cardinality(Adding) - 1
        /\ Cardinality(Taking') = Cardinality(Taking)
    BY <1>1, <1>2, <2>1, AddingCount, TakingCount
  <2>3. Exact \in Int /\ Exact' = Exact + 1
    BY <1>1, <1>2, <2>2, ExactTypes DEF Exact
  <2>4. ((Exact % LenMod) + 1) % LenMod = (Exact + 1) % LenMod
    BY <2>3, CounterFollows
  <2> QED
    BY <2>1, <2>3, <2>4, Zenon DEF LenInv
<1>4. CASE DequeueReturn(p) /\ arg[p] # Nil
  <2>1. p \notin Adding /\ p \in Taking /\ len' = (len + LenMod - 1) % LenMod
    BY <1>4 DEF DequeueReturn, Adding, Taking
  <2>2. /\ Cardinality(Adding') = Cardinality(Adding)
        /\ Cardinality(Taking') = Cardinality(Taking) - 1
    BY <1>1, <1>2, <2>1, AddingCount, TakingCount
  <2>3. Exact \in Int /\ Exact' = Exact - 1
    BY <1>1, <1>2, <2>2, ExactTypes DEF Exact
  <2>4. ((Exact % LenMod) + LenMod - 1) % LenMod = (Exact - 1) % LenMod
    BY <2>3, CounterFollows
  <2> QED
    BY <2>1, <2>3, <2>4, Zenon DEF LenInv
<1>5. CASE DequeueReturn(p) /\ arg[p] = Nil
  <2>1. p \notin Adding /\ p \notin Taking /\ len' = len
    BY <1>5 DEF DequeueReturn, Adding, Taking
  <2> QED
    BY <1>1, <1>2, <2>1, ExactKept
<1> QED
  BY <1>3, <1>4, <1>5 DEF Returns

LEMMA LenStep ==
  ASSUME TypeOK, TypeOK', IndInv, IndInv', LenInv, [Next]_vars
  PROVE  LenInv'
<1>1. ASSUME NEW p \in Proc, Call(p) \/ Step(p)
      PROVE  LenInv'
  BY <1>1, LenReaders, LenLink, LenTake, LenReturns DEF Call, Step
<1>2. CASE UNCHANGED vars
  BY <1>2 DEF vars, shared, local, history, LenInv, Exact, Adding, Taking
<1> QED
  BY <1>1, <1>2 DEF Next

LEMMA LenInit == Init => LenInv
<1> SUFFICES ASSUME Init PROVE LenInv
  OBVIOUS
<1>1. Adding = {} /\ Taking = {} /\ Len(chain) = 1 /\ headAt = 1 /\ len = 0
  BY DEF Init, Adding, Taking
<1>2. Exact = 0
  BY <1>1, FS_EmptySet DEF Exact
<1>3. 0 \in Int /\ 0 \in 0..LenMod - 1 /\ 0 = LenMod * 0 + 0
  OBVIOUS
<1>4. 0 % LenMod = 0
  BY <1>3, UniqueRemainder
<1> QED
  BY <1>1, <1>2, <1>4 DEF LenInv

\* The counter of queue.go, an unsigned integer of any width, is the number of
\* queued values, less the Enqueues and plus the Dequeues that have not run
\* their deferred add (queue.go:25, queue.go:48): it never drifts.
THEOREM LenNeverDrifts == Spec => []LenExact
<1>1. Init => LenInv
  BY LenInit
<1>2. TypeOK /\ TypeOK' /\ IndInv /\ IndInv' /\ LenInv /\ [Next]_vars => LenInv'
  BY LenStep
<1>3. TypeOK /\ IndInv /\ LenInv => LenExact
  <2> SUFFICES ASSUME TypeOK, IndInv, LenInv PROVE LenExact
    OBVIOUS
  <2>1. Len(Items) = Len(chain) - headAt
    BY ItemsType DEF ItemsAreValues
  <2>2. len = (Len(Items) + Cardinality(Taking) - Cardinality(Adding)) % LenMod
    BY <2>1, Zenon DEF LenInv, Exact
  <2> QED
    BY <2>2, Zenon DEF LenExact, Adding, Taking
<1> QED
  BY <1>1, <1>2, <1>3, TypeCorrect, Inductive, PTL DEF Spec
==============================================================================
