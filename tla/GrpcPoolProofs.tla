--------------------------- MODULE GrpcPoolProofs ---------------------------
(****************************************************************************)
(* The safety of pool/grpc.go for any finite set of callers, any set of     *)
(* connections, any capacity and limit of use: nothing is lost from the     *)
(* pool or put back twice, nothing closed is in the queue, use counts the   *)
(* holders, a connection is closed under a caller only in the race of Get   *)
(* with the health goroutine, and enough connections remain healthy.        *)
(****************************************************************************)
EXTENDS GrpcPool, FiniteSetTheorems, TLAPS

------------------------------------------------------------------------------
(* The inductive invariant *)

\* The types, but the bound on use, which is a consequence of UseIsHolders.
PoolTypes ==
  /\ stage \in {"new", "failed", "up"}
  /\ clients \in Seq(Conn)
  /\ closed \in BOOLEAN
  /\ unHealthyCount \in 0..(CountMod - 1)
  /\ socket \in [Conn -> {"none", "open", "recycled", "drained"}]
  /\ use \in [Conn -> Int]
  /\ useCount \in [Conn -> 0..(MaxUse + 1)]
  /\ unhealthy \in [Conn -> BOOLEAN]
  /\ expired \in [Conn -> BOOLEAN]
  /\ pc \in [Client -> {"idle", "holding"} \cup GetPC \cup ClosePC]
  /\ conn \in [Client -> Conn \cup {Nil}]
  /\ done \in [Client -> BOOLEAN]
  /\ hpc \in {"off", "loop", "take", "test", "shut", "dec", "put"}
  /\ hconn \in Conn \cup {Nil}
  /\ kpc \in {"idle", "take", "shut", "returned"}
  /\ kconn \in Conn \cup {Nil}
  /\ racers \subseteq Client

\* Until the pool is up nobody is at work in it, and who is at a place where
\* a connection is needed has one.
PlaceInv ==
  /\ stage # "up" => hpc = "off" /\ kpc = "idle" /\ \A p \in Client : pc[p] = "idle"
  /\ \A p \in Client : conn[p] = Nil <=> pc[p] \in {"idle", "get_take"}
  /\ hconn = Nil <=> hpc \in {"off", "loop", "take"}
  /\ kconn = Nil <=> kpc # "shut"

Holders(c) == {p \in Client : conn[p] = c /\ pc[p] \in {"get_count", "holding"}}

Carriers == {p \in Client : InHand(p)}

\* A connection of the pool is in one place: once in the queue, or with one
\* Get, or with the health goroutine, or with Close.
DistinctInv ==
  /\ \A i, j \in DOMAIN clients : clients[i] = clients[j] => i = j
  /\ \A i \in DOMAIN clients, p \in Carriers : clients[i] # conn[p]
  /\ \A p, q \in Carriers : conn[p] = conn[q] => p = q
  /\ \A i \in DOMAIN clients : clients[i] # hconn /\ clients[i] # kconn
  /\ \A p \in Carriers : conn[p] # hconn /\ conn[p] # kconn
  /\ hconn = kconn => hconn = Nil

CountsInv ==
  /\ stage = "new" => Len(clients) < Cap /\ Cardinality(Pooled) = Len(clients)
  /\ IsFiniteSet(Pooled)
  /\ ConnConservation

\* What is closed is not in the queue and will not be put there: the health
\* goroutine replaces what it closed first.
SocketInv ==
  /\ NoClosedInQueue
  /\ \A p \in Carriers : socket[conn[p]] = "open"
  /\ hpc \in {"test", "shut", "put"} => socket[hconn] = "open"
  /\ hpc = "dec" => socket[hconn] = "recycled"
  /\ kpc = "shut" => socket[kconn] \in {"open", "drained"}
  /\ \A p \in Client : conn[p] # Nil => socket[conn[p]] # "none"
  /\ \A c \in Conn : socket[c] = "none" => ~ unhealthy[c]

\* The health goroutine has decided to close c, or has closed it.
Condemned(c) == socket[c] = "recycled" \/ (hpc = "shut" /\ hconn = c)

\* A condemned connection stays unhealthy, so no Get passes its test later, and
\* who passed it before without incrementing use was found by the test of use.
RaceInv ==
  \A c \in Conn : Condemned(c) =>
    /\ unhealthy[c]
    /\ \A p \in Client :
         conn[p] = c /\ pc[p] \in {"get_use", "get_count", "holding"} => p \in racers

Marked    == {c \in Pooled : unhealthy[c]}
Deciding  == {p \in Client : pc[p] \in {"life_set", "count_set"}}
Counting  == {p \in Client : pc[p] \in {"life_inc", "count_inc"}}

\* The count without its wrapping, n: it may be below 0, when a connection is
\* replaced before whoever marked it has counted it.
Unwrapped(n) ==
  /\ n \in Int
  /\ unHealthyCount = IF n < 0 THEN n + CountMod ELSE n
  /\ Cardinality(Marked) <= n + Cardinality(Counting)
  /\ n + Cardinality(Counting) + Cardinality(Deciding) < (Cap \div 2) + Cardinality(Client)

CountInv == \E n \in Int : Unwrapped(n)

PoolInv ==
  /\ PoolTypes /\ PlaceInv /\ DistinctInv /\ CountsInv /\ SocketInv
  /\ UseIsHolders /\ RaceInv /\ CountInv

------------------------------------------------------------------------------
(* Sequences, and a count modulo CountMod *)

\* What a Dequeue leaves of the queue.
LEMMA Dequeued ==
  ASSUME NEW s \in Seq(Conn), s # <<>>
  PROVE  /\ Head(s) \in Conn /\ Head(s) = s[1] /\ 1 \in DOMAIN s
         /\ Tail(s) \in Seq(Conn) /\ Len(Tail(s)) = Len(s) - 1
         /\ \A i \in DOMAIN Tail(s) : i + 1 \in DOMAIN s /\ i + 1 # 1 /\ Tail(s)[i] = s[i + 1]
         /\ ToSet(s) = ToSet(Tail(s)) \cup {Head(s)}
<1>1. Head(s) \in Conn /\ Head(s) = s[1] /\ 1 \in DOMAIN s
  OBVIOUS
<1>2. Tail(s) \in Seq(Conn) /\ Len(Tail(s)) = Len(s) - 1
  OBVIOUS
<1>3. \A i \in DOMAIN Tail(s) : i + 1 \in DOMAIN s /\ i + 1 # 1 /\ Tail(s)[i] = s[i + 1]
  OBVIOUS
<1>4. ToSet(s) = ToSet(Tail(s)) \cup {Head(s)}
  <2>1. \A i \in DOMAIN s : i = 1 \/ (i - 1 \in DOMAIN Tail(s) /\ Tail(s)[i - 1] = s[i])
    OBVIOUS
  <2> QED
    <3>1. ToSet(s) \subseteq ToSet(Tail(s)) \cup {Head(s)}
      BY <1>1, <2>1 DEF ToSet
    <3>2. ToSet(Tail(s)) \cup {Head(s)} \subseteq ToSet(s)
      BY <1>1, <1>3 DEF ToSet
    <3> QED
      BY <3>1, <3>2
<1> QED
  BY <1>1, <1>2, <1>3, <1>4, Zenon

\* What an Enqueue makes of it.
LEMMA Enqueued ==
  ASSUME NEW s \in Seq(Conn), NEW c \in Conn
  PROVE  /\ Append(s, c) \in Seq(Conn) /\ Len(Append(s, c)) = Len(s) + 1
         /\ \A i \in DOMAIN Append(s, c) :
              \/ i \in DOMAIN s /\ Append(s, c)[i] = s[i]
              \/ i = Len(s) + 1 /\ Append(s, c)[i] = c
         /\ ToSet(Append(s, c)) = ToSet(s) \cup {c}
<1>1. /\ Append(s, c) \in Seq(Conn) /\ Len(Append(s, c)) = Len(s) + 1
      /\ \A i \in DOMAIN Append(s, c) :
           \/ i \in DOMAIN s /\ Append(s, c)[i] = s[i]
           \/ i = Len(s) + 1 /\ Append(s, c)[i] = c
  OBVIOUS
<1>2. \A i \in DOMAIN s : i \in DOMAIN Append(s, c) /\ Append(s, c)[i] = s[i]
  OBVIOUS
<1>3. Len(s) + 1 \in DOMAIN Append(s, c) /\ Append(s, c)[Len(s) + 1] = c
  OBVIOUS
<1> QED
  BY <1>1, <1>2, <1>3 DEF ToSet

LEMMA CountUp ==
  ASSUME NEW x \in 0..CountMod - 1
  PROVE  (x + 1) % CountMod = IF x + 1 = CountMod THEN 0 ELSE x + 1
BY CountModAssumption, Z3

LEMMA CountDown ==
  ASSUME NEW x \in 0..CountMod - 1
  PROVE  (x + CountMod - 1) % CountMod = IF x = 0 THEN CountMod - 1 ELSE x - 1
BY CountModAssumption, Z3

LEMMA CapType == Cap \in Nat /\ Cap >= 2 /\ Limit \in Nat /\ Limit >= 1 /\ Limit = Cap \div 2
BY CapacityAssumption DEF Cap, Limit

\* Sets of clients are finite, and grow and shrink one by one.
LEMMA ClientSets ==
  ASSUME NEW S \in SUBSET Client
  PROVE  IsFiniteSet(S) /\ Cardinality(S) \in 0..Cardinality(Client)
BY ClientAssumption, FS_Subset, FS_CardinalityType

LEMMA Joined ==
  ASSUME NEW S \in SUBSET Client, NEW p \in Client, p \notin S
  PROVE  Cardinality(S \cup {p}) = Cardinality(S) + 1
BY ClientSets, FS_AddElement

LEMMA Left ==
  ASSUME NEW S \in SUBSET Client, NEW p \in S
  PROVE  Cardinality(S \ {p}) = Cardinality(S) - 1
BY ClientSets, FS_RemoveElement

\* Somebody outside a set of clients is not counted in it.
LEMMA Outsider ==
  ASSUME NEW S \in SUBSET Client, NEW T \in SUBSET Client, NEW p \in Client,
         S \cap T = {}, p \notin S, p \notin T
  PROVE  Cardinality(S) + Cardinality(T) < Cardinality(Client)
<1>1. IsFiniteSet(S) /\ IsFiniteSet(T) /\ Cardinality(S) \in Nat /\ Cardinality(T) \in Nat
  BY ClientSets
<1>2. Cardinality(S \cup T) = Cardinality(S) + Cardinality(T)
  <2>1. Cardinality(S \cup T) = Cardinality(S) + Cardinality(T) - Cardinality(S \cap T)
    BY <1>1, FS_Union
  <2>2. Cardinality(S \cap T) = 0
    BY FS_EmptySet
  <2> QED
    BY <1>1, <2>1, <2>2
<1>3. Cardinality((S \cup T) \cup {p}) = Cardinality(S \cup T) + 1
  BY Joined
<1>4. Cardinality((S \cup T) \cup {p}) \in 0..Cardinality(Client)
  BY ClientSets
<1>5. Cardinality(Client) \in Nat
  BY ClientAssumption, FS_CardinalityType
<1> QED
  BY <1>1, <1>2, <1>3, <1>4, <1>5

------------------------------------------------------------------------------
(* The initial state *)

LEMMA PoolInitInv == Init => PoolInv
<1> SUFFICES ASSUME Init PROVE PoolInv
  OBVIOUS
<1>1. PoolTypes
  <2>1. closed \in BOOLEAN /\ unhealthy \in [Conn -> BOOLEAN] /\ expired \in [Conn -> BOOLEAN]
        /\ done \in [Client -> BOOLEAN]
    BY Zenon DEF Init
  <2> QED
    BY <2>1, CountModAssumption, MaxUseAssumption DEF Init, PoolTypes
<1>2. PlaceInv
  BY DEF Init, PlaceInv
<1>3. Carriers = {} /\ Deciding = {} /\ Counting = {} /\ Pooled = {} /\ Marked = {}
  BY DEF Init, Carriers, Deciding, Counting, Pooled, Marked, InHand, ToSet
<1>4. DistinctInv
  BY <1>3 DEF Init, DistinctInv
<1>5. CountsInv
  BY <1>3, CapType, FS_EmptySet DEF Init, CountsInv, ConnConservation, Conserved
<1>6. SocketInv
  BY <1>3 DEF Init, SocketInv, NoClosedInQueue
<1>7. UseIsHolders
  <2> SUFFICES ASSUME NEW c \in Conn PROVE use[c] = Cardinality(Holders(c))
    BY DEF UseIsHolders, Holders
  <2>1. Holders(c) = {}
    BY DEF Init, Holders
  <2> QED
    BY <2>1, FS_EmptySet DEF Init
<1>8. RaceInv
  BY DEF Init, RaceInv, Condemned
<1>9. CountInv
  <2>1. Cardinality(Client) \in Nat
    BY ClientAssumption, FS_CardinalityType
  <2>2. Unwrapped(0)
    BY <1>3, <2>1, CapType, FS_EmptySet DEF Init, Unwrapped
  <2> QED
    BY <2>2 DEF CountInv
<1> QED
  BY <1>1, <1>2, <1>4, <1>5, <1>6, <1>7, <1>8, <1>9 DEF PoolInv

------------------------------------------------------------------------------
(* What a step leaves alone *)

\* The queue and what is taken out of it.
LEMMA PlacesKept ==
  ASSUME DistinctInv, CountsInv, UNCHANGED <<stage, clients, hconn, kconn>>,
         Carriers' = Carriers, \A p \in Carriers : conn'[p] = conn[p]
  PROVE  DistinctInv' /\ CountsInv' /\ Pooled' = Pooled
<1>1. DistinctInv'
  BY DEF DistinctInv
<1>2. Pooled' = Pooled
  <2>1. {conn[p] : p \in Carriers}' = {conn[p] : p \in Carriers}
    OBVIOUS
  <2> QED
    BY <2>1 DEF Pooled, Carriers
<1>3. CountsInv'
  BY <1>2 DEF CountsInv, ConnConservation, Conserved, Carriers
<1> QED
  BY <1>1, <1>2, <1>3

\* The sockets.
LEMMA SocketsKept ==
  ASSUME SocketInv, UNCHANGED <<clients, socket, hpc, hconn, kpc, kconn>>,
         Carriers' = Carriers, \A p \in Carriers : conn'[p] = conn[p],
         \A p \in Client : conn'[p] \in {conn[p], Nil},
         \A c \in Conn : unhealthy'[c] = unhealthy[c]
  PROVE  SocketInv'
BY DEF SocketInv, NoClosedInQueue

\* use and those it counts.
LEMMA UseKept ==
  ASSUME UseIsHolders, UNCHANGED use, \A c \in Conn : Holders(c)' = Holders(c)
  PROVE  UseIsHolders'
BY DEF UseIsHolders, Holders

\* The count and what it is about.
LEMMA CountKept ==
  ASSUME CountInv, UNCHANGED unHealthyCount, Marked' = Marked,
         Counting' = Counting, Deciding' = Deciding
  PROVE  CountInv'
BY DEF CountInv, Unwrapped

------------------------------------------------------------------------------
(* Get and ClientConn.Close *)

\* A call takes nothing yet.
LEMMA GetCallInv ==
  ASSUME PoolInv, NEW p \in Client, GetCall(p)
  PROVE  PoolInv' /\ Pooled' = Pooled
<1>0. /\ PoolTypes /\ PlaceInv /\ DistinctInv /\ CountsInv /\ SocketInv
      /\ UseIsHolders /\ RaceInv /\ CountInv
  BY DEF PoolInv
<1>1. PoolTypes'
  BY <1>0 DEF PoolTypes, GetPC, ClosePC, GetCall, Goto, Leave, pool, fields, client, health, closer
<1>2. PlaceInv'
  BY <1>0, NilAssumption DEF PoolTypes, PlaceInv, GetCall, Goto, Leave, pool, fields, client, health, closer
<1>3. DistinctInv' /\ CountsInv' /\ Pooled' = Pooled
  <2>1. Carriers' = Carriers /\ \A q \in Carriers : conn'[q] = conn[q]
    BY <1>0 DEF PoolTypes, PlaceInv, Carriers, InHand, GetCall, Goto, Leave, pool, fields, client, health, closer
  <2>2. UNCHANGED <<stage, clients, hconn, kconn>>
    BY DEF GetCall, Goto, Leave, pool, fields, client, health, closer
  <2> QED
    BY <1>0, <2>1, <2>2, PlacesKept
<1>4. SocketInv'
  <2>1. Carriers' = Carriers /\ \A q \in Carriers : conn'[q] = conn[q]
    BY <1>0 DEF PoolTypes, PlaceInv, Carriers, InHand, GetCall, Goto, Leave, pool, fields, client, health, closer
  <2>2. \A q \in Client : conn'[q] \in {conn[q], Nil}
    BY <1>0 DEF PoolTypes, GetCall, Goto, Leave, pool, fields, client, health, closer
  <2>3. UNCHANGED <<clients, socket, unhealthy, hpc, hconn, kpc, kconn>>
    BY DEF GetCall, Goto, Leave, pool, fields, client, health, closer
  <2> QED
    BY <1>0, <2>1, <2>2, <2>3, SocketsKept
<1>5. UseIsHolders'
  <2>1. UNCHANGED use
    BY DEF GetCall, Goto, Leave, pool, fields, client, health, closer
  <2>2. ASSUME NEW c \in Conn PROVE Holders(c)' = Holders(c)
    BY <1>0, NilAssumption DEF PoolTypes, PlaceInv, Holders, GetCall, Goto, Leave, pool, fields, client, health, closer
  <2> QED
    BY <1>0, <2>1, <2>2, UseKept
<1>6. RaceInv'
  BY <1>0, NilAssumption DEF PoolTypes, PlaceInv, SocketInv, RaceInv, Condemned, GetCall, Goto, Leave, pool, fields, client, health, closer
<1>7. CountInv'
  <2>1. Counting' = Counting /\ Deciding' = Deciding
    BY <1>0 DEF PoolTypes, Counting, Deciding, GetCall, Goto, Leave, pool, fields, client, health, closer
  <2>2. UNCHANGED <<unHealthyCount, unhealthy>>
    BY DEF GetCall, Goto, Leave, pool, fields, client, health, closer
  <2>3. Marked' = Marked
    BY <1>3, <2>2 DEF Marked
  <2> QED
    BY <1>0, <2>1, <2>2, <2>3, CountKept
<1> QED
  BY <1>1, <1>2, <1>3, <1>4, <1>5, <1>6, <1>7 DEF PoolInv

\* Nor does one that returns.
LEMMA GetTimeoutInv ==
  ASSUME PoolInv, NEW p \in Client, GetTimeout(p)
  PROVE  PoolInv' /\ Pooled' = Pooled
<1>0. /\ PoolTypes /\ PlaceInv /\ DistinctInv /\ CountsInv /\ SocketInv
      /\ UseIsHolders /\ RaceInv /\ CountInv
  BY DEF PoolInv
<1>1. PoolTypes'
  BY <1>0 DEF PoolTypes, GetPC, ClosePC, GetTimeout, Goto, Leave, pool, fields, client, health, closer
<1>2. PlaceInv'
  BY <1>0, NilAssumption DEF PoolTypes, PlaceInv, GetTimeout, Goto, Leave, pool, fields, client, health, closer
<1>3. DistinctInv' /\ CountsInv' /\ Pooled' = Pooled
  <2>1. Carriers' = Carriers /\ \A q \in Carriers : conn'[q] = conn[q]
    BY <1>0 DEF PoolTypes, PlaceInv, Carriers, InHand, GetTimeout, Goto, Leave, pool, fields, client, health, closer
  <2>2. UNCHANGED <<stage, clients, hconn, kconn>>
    BY DEF GetTimeout, Goto, Leave, pool, fields, client, health, closer
  <2> QED
    BY <1>0, <2>1, <2>2, PlacesKept
<1>4. SocketInv'
  <2>1. Carriers' = Carriers /\ \A q \in Carriers : conn'[q] = conn[q]
    BY <1>0 DEF PoolTypes, PlaceInv, Carriers, InHand, GetTimeout, Goto, Leave, pool, fields, client, health, closer
  <2>2. \A q \in Client : conn'[q] \in {conn[q], Nil}
    BY <1>0 DEF PoolTypes, GetTimeout, Goto, Leave, pool, fields, client, health, closer
  <2>3. UNCHANGED <<clients, socket, unhealthy, hpc, hconn, kpc, kconn>>
    BY DEF GetTimeout, Goto, Leave, pool, fields, client, health, closer
  <2> QED
    BY <1>0, <2>1, <2>2, <2>3, SocketsKept
<1>5. UseIsHolders'
  <2>1. UNCHANGED use
    BY DEF GetTimeout, Goto, Leave, pool, fields, client, health, closer
  <2>2. ASSUME NEW c \in Conn PROVE Holders(c)' = Holders(c)
    BY <1>0, NilAssumption DEF PoolTypes, PlaceInv, Holders, GetTimeout, Goto, Leave, pool, fields, client, health, closer
  <2> QED
    BY <1>0, <2>1, <2>2, UseKept
<1>6. RaceInv'
  BY <1>0, NilAssumption DEF PoolTypes, PlaceInv, SocketInv, RaceInv, Condemned, GetTimeout, Goto, Leave, pool, fields, client, health, closer
<1>7. CountInv'
  <2>1. Counting' = Counting /\ Deciding' = Deciding
    BY <1>0 DEF PoolTypes, Counting, Deciding, GetTimeout, Goto, Leave, pool, fields, client, health, closer
  <2>2. UNCHANGED <<unHealthyCount, unhealthy>>
    BY DEF GetTimeout, Goto, Leave, pool, fields, client, health, closer
  <2>3. Marked' = Marked
    BY <1>3, <2>2 DEF Marked
  <2> QED
    BY <1>0, <2>1, <2>2, <2>3, CountKept
<1> QED
  BY <1>1, <1>2, <1>3, <1>4, <1>5, <1>6, <1>7 DEF PoolInv

\* Nobody passes the test of a condemned connection.
LEMMA GetTestInv ==
  ASSUME PoolInv, NEW p \in Client, GetTest(p)
  PROVE  PoolInv' /\ Pooled' = Pooled
<1>0. /\ PoolTypes /\ PlaceInv /\ DistinctInv /\ CountsInv /\ SocketInv
      /\ UseIsHolders /\ RaceInv /\ CountInv
  BY DEF PoolInv
<1>1. PoolTypes'
  BY <1>0 DEF PoolTypes, GetPC, ClosePC, GetTest, Goto, Leave, pool, fields, client, health, closer
<1>2. PlaceInv'
  BY <1>0, NilAssumption DEF PoolTypes, PlaceInv, GetTest, Goto, Leave, pool, fields, client, health, closer
<1>3. DistinctInv' /\ CountsInv' /\ Pooled' = Pooled
  <2>1. Carriers' = Carriers /\ \A q \in Carriers : conn'[q] = conn[q]
    BY <1>0 DEF PoolTypes, PlaceInv, Carriers, InHand, GetTest, Goto, Leave, pool, fields, client, health, closer
  <2>2. UNCHANGED <<stage, clients, hconn, kconn>>
    BY DEF GetTest, Goto, Leave, pool, fields, client, health, closer
  <2> QED
    BY <1>0, <2>1, <2>2, PlacesKept
<1>4. SocketInv'
  <2>1. Carriers' = Carriers /\ \A q \in Carriers : conn'[q] = conn[q]
    BY <1>0 DEF PoolTypes, PlaceInv, Carriers, InHand, GetTest, Goto, Leave, pool, fields, client, health, closer
  <2>2. \A q \in Client : conn'[q] \in {conn[q], Nil}
    BY <1>0 DEF PoolTypes, GetTest, Goto, Leave, pool, fields, client, health, closer
  <2>3. UNCHANGED <<clients, socket, unhealthy, hpc, hconn, kpc, kconn>>
    BY DEF GetTest, Goto, Leave, pool, fields, client, health, closer
  <2> QED
    BY <1>0, <2>1, <2>2, <2>3, SocketsKept
<1>5. UseIsHolders'
  <2>1. UNCHANGED use
    BY DEF GetTest, Goto, Leave, pool, fields, client, health, closer
  <2>2. ASSUME NEW c \in Conn PROVE Holders(c)' = Holders(c)
    BY <1>0, NilAssumption DEF PoolTypes, PlaceInv, Holders, GetTest, Goto, Leave, pool, fields, client, health, closer
  <2> QED
    BY <1>0, <2>1, <2>2, UseKept
<1>6. RaceInv'
  BY <1>0, NilAssumption DEF PoolTypes, PlaceInv, SocketInv, RaceInv, Condemned, GetTest, Goto, Leave, pool, fields, client, health, closer
<1>7. CountInv'
  <2>1. Counting' = Counting /\ Deciding' = Deciding
    BY <1>0 DEF PoolTypes, Counting, Deciding, GetTest, Goto, Leave, pool, fields, client, health, closer
  <2>2. UNCHANGED <<unHealthyCount, unhealthy>>
    BY DEF GetTest, Goto, Leave, pool, fields, client, health, closer
  <2>3. Marked' = Marked
    BY <1>3, <2>2 DEF Marked
  <2> QED
    BY <1>0, <2>1, <2>2, <2>3, CountKept
<1> QED
  BY <1>1, <1>2, <1>3, <1>4, <1>5, <1>6, <1>7 DEF PoolInv

\* The end of a context changes nothing else.
LEMMA CtxDoneInv ==
  ASSUME PoolInv, NEW p \in Client, CtxDone(p)
  PROVE  PoolInv' /\ Pooled' = Pooled
<1>0. /\ PoolTypes /\ PlaceInv /\ DistinctInv /\ CountsInv /\ SocketInv
      /\ UseIsHolders /\ RaceInv /\ CountInv
  BY DEF PoolInv
<1>1. PoolTypes'
  BY <1>0 DEF PoolTypes, GetPC, ClosePC, CtxDone, Goto, Leave, pool, fields, client, health, closer
<1>2. PlaceInv'
  BY <1>0, NilAssumption DEF PoolTypes, PlaceInv, CtxDone, Goto, Leave, pool, fields, client, health, closer
<1>3. DistinctInv' /\ CountsInv' /\ Pooled' = Pooled
  <2>1. Carriers' = Carriers /\ \A q \in Carriers : conn'[q] = conn[q]
    BY <1>0 DEF PoolTypes, PlaceInv, Carriers, InHand, CtxDone, Goto, Leave, pool, fields, client, health, closer
  <2>2. UNCHANGED <<stage, clients, hconn, kconn>>
    BY DEF CtxDone, Goto, Leave, pool, fields, client, health, closer
  <2> QED
    BY <1>0, <2>1, <2>2, PlacesKept
<1>4. SocketInv'
  <2>1. Carriers' = Carriers /\ \A q \in Carriers : conn'[q] = conn[q]
    BY <1>0 DEF PoolTypes, PlaceInv, Carriers, InHand, CtxDone, Goto, Leave, pool, fields, client, health, closer
  <2>2. \A q \in Client : conn'[q] \in {conn[q], Nil}
    BY <1>0 DEF PoolTypes, CtxDone, Goto, Leave, pool, fields, client, health, closer
  <2>3. UNCHANGED <<clients, socket, unhealthy, hpc, hconn, kpc, kconn>>
    BY DEF CtxDone, Goto, Leave, pool, fields, client, health, closer
  <2> QED
    BY <1>0, <2>1, <2>2, <2>3, SocketsKept
<1>5. UseIsHolders'
  <2>1. UNCHANGED use
    BY DEF CtxDone, Goto, Leave, pool, fields, client, health, closer
  <2>2. ASSUME NEW c \in Conn PROVE Holders(c)' = Holders(c)
    BY <1>0, NilAssumption DEF PoolTypes, PlaceInv, Holders, CtxDone, Goto, Leave, pool, fields, client, health, closer
  <2> QED
    BY <1>0, <2>1, <2>2, UseKept
<1>6. RaceInv'
  BY <1>0, NilAssumption DEF PoolTypes, PlaceInv, SocketInv, RaceInv, Condemned, CtxDone, Goto, Leave, pool, fields, client, health, closer
<1>7. CountInv'
  <2>1. Counting' = Counting /\ Deciding' = Deciding
    BY <1>0 DEF PoolTypes, Counting, Deciding, CtxDone, Goto, Leave, pool, fields, client, health, closer
  <2>2. UNCHANGED <<unHealthyCount, unhealthy>>
    BY DEF CtxDone, Goto, Leave, pool, fields, client, health, closer
  <2>3. Marked' = Marked
    BY <1>3, <2>2 DEF Marked
  <2> QED
    BY <1>0, <2>1, <2>2, <2>3, CountKept
<1> QED
  BY <1>1, <1>2, <1>3, <1>4, <1>5, <1>6, <1>7 DEF PoolInv

\* The count of uses is of no concern to the invariant.
LEMMA GetCountInv ==
  ASSUME PoolInv, NEW p \in Client, GetCount(p)
  PROVE  PoolInv' /\ Pooled' = Pooled
<1>0. /\ PoolTypes /\ PlaceInv /\ DistinctInv /\ CountsInv /\ SocketInv
      /\ UseIsHolders /\ RaceInv /\ CountInv
  BY DEF PoolInv
<1>1. PoolTypes'
  <2>1. useCount' \in [Conn -> 0..(MaxUse + 1)]
    <3> DEFINE up(n) == IF n > MaxUse THEN n ELSE n + 1
    <3>1. useCount' = [useCount EXCEPT ![conn[p]] = up(@)]
      BY DEF GetCount
    <3>2. \A n \in 0..(MaxUse + 1) : up(n) \in 0..(MaxUse + 1)
      BY MaxUseAssumption
    <3> HIDE DEF up
    <3> QED
      BY <1>0, <3>1, <3>2 DEF PoolTypes
  <2>2. pc' \in [Client -> {"idle", "holding"} \cup GetPC \cup ClosePC] /\ done' \in [Client -> BOOLEAN]
    BY <1>0 DEF PoolTypes, GetPC, ClosePC, GetCount, Goto
  <2> QED
    BY <1>0, <2>1, <2>2 DEF PoolTypes, GetCount, pool, health, closer
<1>2. PlaceInv'
  BY <1>0, NilAssumption DEF PoolTypes, PlaceInv, GetCount, Goto, Leave, pool, fields, client, health, closer
<1>3. DistinctInv' /\ CountsInv' /\ Pooled' = Pooled
  <2>1. Carriers' = Carriers /\ \A q \in Carriers : conn'[q] = conn[q]
    BY <1>0 DEF PoolTypes, PlaceInv, Carriers, InHand, GetCount, Goto, Leave, pool, fields, client, health, closer
  <2>2. UNCHANGED <<stage, clients, hconn, kconn>>
    BY DEF GetCount, Goto, Leave, pool, fields, client, health, closer
  <2> QED
    BY <1>0, <2>1, <2>2, PlacesKept
<1>4. SocketInv'
  <2>1. Carriers' = Carriers /\ \A q \in Carriers : conn'[q] = conn[q]
    BY <1>0 DEF PoolTypes, PlaceInv, Carriers, InHand, GetCount, Goto, Leave, pool, fields, client, health, closer
  <2>2. \A q \in Client : conn'[q] \in {conn[q], Nil}
    BY <1>0 DEF PoolTypes, GetCount, Goto, Leave, pool, fields, client, health, closer
  <2>3. UNCHANGED <<clients, socket, unhealthy, hpc, hconn, kpc, kconn>>
    BY DEF GetCount, Goto, Leave, pool, fields, client, health, closer
  <2> QED
    BY <1>0, <2>1, <2>2, <2>3, SocketsKept
<1>5. UseIsHolders'
  <2>1. UNCHANGED use
    BY DEF GetCount, Goto, Leave, pool, fields, client, health, closer
  <2>2. ASSUME NEW c \in Conn PROVE Holders(c)' = Holders(c)
    BY <1>0, NilAssumption DEF PoolTypes, PlaceInv, Holders, GetCount, Goto, Leave, pool, fields, client, health, closer
  <2> QED
    BY <1>0, <2>1, <2>2, UseKept
<1>6. RaceInv'
  BY <1>0, NilAssumption DEF PoolTypes, PlaceInv, SocketInv, RaceInv, Condemned, GetCount, Goto, Leave, pool, fields, client, health, closer
<1>7. CountInv'
  <2>1. Counting' = Counting /\ Deciding' = Deciding
    BY <1>0 DEF PoolTypes, Counting, Deciding, GetCount, Goto, Leave, pool, fields, client, health, closer
  <2>2. UNCHANGED <<unHealthyCount, unhealthy>>
    BY DEF GetCount, Goto, Leave, pool, fields, client, health, closer
  <2>3. Marked' = Marked
    BY <1>3, <2>2 DEF Marked
  <2> QED
    BY <1>0, <2>1, <2>2, <2>3, CountKept
<1> QED
  BY <1>1, <1>2, <1>3, <1>4, <1>5, <1>6, <1>7 DEF PoolInv

\* use grows with those who hold the connection.
LEMMA GetUseInv ==
  ASSUME PoolInv, NEW p \in Client, GetUse(p)
  PROVE  PoolInv' /\ Pooled' = Pooled
<1>0. /\ PoolTypes /\ PlaceInv /\ DistinctInv /\ CountsInv /\ SocketInv
      /\ UseIsHolders /\ RaceInv /\ CountInv
  BY DEF PoolInv
<1>1. PoolTypes'
  <2>1. conn[p] \in Conn
    BY <1>0 DEF PoolTypes, PlaceInv, GetUse
  <2>2. use' \in [Conn -> Int]
    BY <1>0, <2>1 DEF PoolTypes, GetUse
  <2>3. pc' \in [Client -> {"idle", "holding"} \cup GetPC \cup ClosePC] /\ racers' \subseteq Client
    BY <1>0 DEF PoolTypes, GetPC, ClosePC, GetUse, Goto
  <2> QED
    BY <1>0, <2>2, <2>3 DEF PoolTypes, GetUse, pool, client, health, closer
<1>2. PlaceInv'
  BY <1>0, NilAssumption DEF PoolTypes, PlaceInv, GetUse, Goto, Leave, pool, fields, client, health, closer
<1>3. DistinctInv' /\ CountsInv' /\ Pooled' = Pooled
  <2>1. Carriers' = Carriers /\ \A q \in Carriers : conn'[q] = conn[q]
    BY <1>0 DEF PoolTypes, PlaceInv, Carriers, InHand, GetUse, Goto, Leave, pool, fields, client, health, closer
  <2>2. UNCHANGED <<stage, clients, hconn, kconn>>
    BY DEF GetUse, Goto, Leave, pool, fields, client, health, closer
  <2> QED
    BY <1>0, <2>1, <2>2, PlacesKept
<1>4. SocketInv'
  <2>1. Carriers' = Carriers /\ \A q \in Carriers : conn'[q] = conn[q]
    BY <1>0 DEF PoolTypes, PlaceInv, Carriers, InHand, GetUse, Goto, Leave, pool, fields, client, health, closer
  <2>2. \A q \in Client : conn'[q] \in {conn[q], Nil}
    BY <1>0 DEF PoolTypes, GetUse, Goto, Leave, pool, fields, client, health, closer
  <2>3. UNCHANGED <<clients, socket, unhealthy, hpc, hconn, kpc, kconn>>
    BY DEF GetUse, Goto, Leave, pool, fields, client, health, closer
  <2> QED
    BY <1>0, <2>1, <2>2, <2>3, SocketsKept
<1>5. UseIsHolders'
  <2>1. conn[p] \in Conn
    BY <1>0 DEF PoolTypes, PlaceInv, GetUse
  <2> SUFFICES ASSUME NEW c \in Conn PROVE use'[c] = Cardinality(Holders(c)')
    BY DEF UseIsHolders, Holders
  <2>2. use[c] = Cardinality(Holders(c)) /\ Holders(c) \in SUBSET Client
    BY <1>0 DEF UseIsHolders, Holders
  <2>3. CASE c = conn[p]
    <3>1. Holders(c)' = Holders(c) \cup {p} /\ p \notin Holders(c)
      BY <1>0, <2>3 DEF PoolTypes, Holders, GetUse, Goto, pool, client, health, closer
    <3> QED
      BY <1>0, <2>1, <2>2, <2>3, <3>1, Joined DEF PoolTypes, GetUse
  <2>4. CASE c # conn[p]
    <3>1. Holders(c)' = Holders(c)
      BY <1>0, <2>4 DEF PoolTypes, Holders, GetUse, Goto, pool, client, health, closer
    <3> QED
      BY <1>0, <2>1, <2>2, <2>4, <3>1 DEF PoolTypes, GetUse
  <2> QED
    BY <2>3, <2>4
<1>6. RaceInv'
  BY <1>0, NilAssumption DEF PoolTypes, PlaceInv, SocketInv, RaceInv, Condemned, GetUse, Goto, Leave, pool, fields, client, health, closer
<1>7. CountInv'
  <2>1. Counting' = Counting /\ Deciding' = Deciding
    BY <1>0 DEF PoolTypes, Counting, Deciding, GetUse, Goto, Leave, pool, fields, client, health, closer
  <2>2. UNCHANGED <<unHealthyCount, unhealthy>>
    BY DEF GetUse, Goto, Leave, pool, fields, client, health, closer
  <2>3. Marked' = Marked
    BY <1>3, <2>2 DEF Marked
  <2> QED
    BY <1>0, <2>1, <2>2, <2>3, CountKept
<1> QED
  BY <1>1, <1>2, <1>3, <1>4, <1>5, <1>6, <1>7 DEF PoolInv

\* And it shrinks with them.
LEMMA CloseCallInv ==
  ASSUME PoolInv, NEW p \in Client, CloseCall(p)
  PROVE  PoolInv' /\ Pooled' = Pooled
<1>0. /\ PoolTypes /\ PlaceInv /\ DistinctInv /\ CountsInv /\ SocketInv
      /\ UseIsHolders /\ RaceInv /\ CountInv
  BY DEF PoolInv
<1>1. PoolTypes'
  <2>1. conn[p] \in Conn
    BY <1>0 DEF PoolTypes, PlaceInv, CloseCall
  <2>2. use' \in [Conn -> Int]
    BY <1>0, <2>1 DEF PoolTypes, CloseCall
  <2>3. pc' \in [Client -> {"idle", "holding"} \cup GetPC \cup ClosePC] /\ racers' \subseteq Client
    BY <1>0 DEF PoolTypes, GetPC, ClosePC, CloseCall, Goto
  <2> QED
    BY <1>0, <2>2, <2>3 DEF PoolTypes, CloseCall, pool, client, health, closer
<1>2. PlaceInv'
  BY <1>0, NilAssumption DEF PoolTypes, PlaceInv, CloseCall, Goto, Leave, pool, fields, client, health, closer
<1>3. DistinctInv' /\ CountsInv' /\ Pooled' = Pooled
  <2>1. Carriers' = Carriers /\ \A q \in Carriers : conn'[q] = conn[q]
    BY <1>0 DEF PoolTypes, PlaceInv, Carriers, InHand, CloseCall, Goto, Leave, pool, fields, client, health, closer
  <2>2. UNCHANGED <<stage, clients, hconn, kconn>>
    BY DEF CloseCall, Goto, Leave, pool, fields, client, health, closer
  <2> QED
    BY <1>0, <2>1, <2>2, PlacesKept
<1>4. SocketInv'
  <2>1. Carriers' = Carriers /\ \A q \in Carriers : conn'[q] = conn[q]
    BY <1>0 DEF PoolTypes, PlaceInv, Carriers, InHand, CloseCall, Goto, Leave, pool, fields, client, health, closer
  <2>2. \A q \in Client : conn'[q] \in {conn[q], Nil}
    BY <1>0 DEF PoolTypes, CloseCall, Goto, Leave, pool, fields, client, health, closer
  <2>3. UNCHANGED <<clients, socket, unhealthy, hpc, hconn, kpc, kconn>>
    BY DEF CloseCall, Goto, Leave, pool, fields, client, health, closer
  <2> QED
    BY <1>0, <2>1, <2>2, <2>3, SocketsKept
<1>5. UseIsHolders'
  <2>1. conn[p] \in Conn
    BY <1>0 DEF PoolTypes, PlaceInv, CloseCall
  <2> SUFFICES ASSUME NEW c \in Conn PROVE use'[c] = Cardinality(Holders(c)')
    BY DEF UseIsHolders, Holders
  <2>2. use[c] = Cardinality(Holders(c)) /\ Holders(c) \in SUBSET Client
    BY <1>0 DEF UseIsHolders, Holders
  <2>3. CASE c = conn[p]
    <3>1. Holders(c)' = Holders(c) \ {p} /\ p \in Holders(c)
      BY <1>0, <2>3 DEF PoolTypes, Holders, CloseCall, Goto, pool, client, health, closer
    <3> QED
      BY <1>0, <2>1, <2>2, <2>3, <3>1, Left DEF PoolTypes, CloseCall
  <2>4. CASE c # conn[p]
    <3>1. Holders(c)' = Holders(c)
      BY <1>0, <2>4 DEF PoolTypes, Holders, CloseCall, Goto, pool, client, health, closer
    <3> QED
      BY <1>0, <2>1, <2>2, <2>4, <3>1 DEF PoolTypes, CloseCall
  <2> QED
    BY <2>3, <2>4
<1>6. RaceInv'
  BY <1>0, NilAssumption DEF PoolTypes, PlaceInv, SocketInv, RaceInv, Condemned, CloseCall, Goto, Leave, pool, fields, client, health, closer
<1>7. CountInv'
  <2>1. Counting' = Counting /\ Deciding' = Deciding
    BY <1>0 DEF PoolTypes, Counting, Deciding, CloseCall, Goto, Leave, pool, fields, client, health, closer
  <2>2. UNCHANGED <<unHealthyCount, unhealthy>>
    BY DEF CloseCall, Goto, Leave, pool, fields, client, health, closer
  <2>3. Marked' = Marked
    BY <1>3, <2>2 DEF Marked
  <2> QED
    BY <1>0, <2>1, <2>2, <2>3, CountKept
<1> QED
  BY <1>1, <1>2, <1>3, <1>4, <1>5, <1>6, <1>7 DEF PoolInv

\* Close tests whether to mark its connection, marks it, and counts it.
Tests(p) ==
  /\ pc[p] \in {"close_life", "close_count"} /\ UNCHANGED <<unHealthyCount, unhealthy>>
  /\ \/ unHealthyCount < Limit /\ pc'[p] \in {"life_set", "count_set"} /\ conn'[p] = conn[p]
     \/ pc'[p] = "close_count" /\ conn'[p] = conn[p]
     \/ pc'[p] = "idle" /\ conn'[p] = Nil

Marks(p) ==
  /\ pc[p] \in {"life_set", "count_set"} /\ pc'[p] \in {"life_inc", "count_inc"}
  /\ unhealthy' = [unhealthy EXCEPT ![conn[p]] = TRUE]
  /\ conn'[p] = conn[p] /\ UNCHANGED unHealthyCount

Counts(p) ==
  /\ pc[p] \in {"life_inc", "count_inc"}
  /\ unHealthyCount' = (unHealthyCount + 1) % CountMod
  /\ \/ pc'[p] = "close_count" /\ conn'[p] = conn[p]
     \/ pc'[p] = "idle" /\ conn'[p] = Nil
  /\ UNCHANGED unhealthy

\* What a step of Close is, from either of its two tests.
CloseIs(p) ==
  /\ UNCHANGED <<stage, clients, closed, socket, use, useCount, health, closer, racers>>
  /\ pc' \in [Client -> {"idle", "holding"} \cup GetPC \cup ClosePC]
  /\ conn' \in [Client -> Conn \cup {Nil}]
  /\ done' \in [Client -> BOOLEAN]
  /\ \A q \in Client \ {p} : pc'[q] = pc[q] /\ conn'[q] = conn[q]
  /\ Tests(p) \/ Marks(p) \/ Counts(p)

LEMMA CloseLifeIs ==
  ASSUME PoolTypes, PlaceInv, NEW p \in Client, CloseLife(p)
  PROVE  CloseIs(p) /\ expired' \in [Conn -> BOOLEAN]
<1>1. PICK late \in BOOLEAN :
        /\ Unhealthy(p, late, "close_life", "life_set", "life_inc", "close_count")
        /\ expired' = [expired EXCEPT ![conn[p]] = late]
  BY DEF CloseLife
<1>2. expired' \in [Conn -> BOOLEAN]
  BY <1>1 DEF PoolTypes
<1> USE DEF PoolTypes, CloseIs, Goto, After, GetPC, ClosePC
<1>3. CASE pc[p] = "close_life"
  BY <1>1, <1>2, <1>3 DEF Unhealthy, Tests, pool, client, health, closer
<1>4. CASE pc[p] = "life_set"
  BY <1>1, <1>2, <1>4 DEF Unhealthy, Marks, pool, client, health, closer
<1>5. CASE pc[p] = "life_inc"
  BY <1>1, <1>2, <1>5 DEF Unhealthy, Counts, pool, client, health, closer
<1> QED
  BY <1>1, <1>3, <1>4, <1>5 DEF Unhealthy

LEMMA CloseCountIs ==
  ASSUME PoolTypes, PlaceInv, NEW p \in Client, CloseCount(p)
  PROVE  CloseIs(p) /\ expired' \in [Conn -> BOOLEAN]
<1>2. expired' \in [Conn -> BOOLEAN]
  BY DEF PoolTypes, CloseCount
<1> USE DEF PoolTypes, CloseCount, CloseIs, Goto, After, Leave, GetPC, ClosePC
<1>3. CASE pc[p] = "close_count"
  BY <1>2, <1>3 DEF Unhealthy, Tests, pool, client, health, closer
<1>4. CASE pc[p] = "count_set"
  BY <1>2, <1>4 DEF Unhealthy, Marks, pool, client, health, closer
<1>5. CASE pc[p] = "count_inc"
  BY <1>2, <1>5 DEF Unhealthy, Counts, pool, client, health, closer
<1> QED
  BY <1>3, <1>4, <1>5 DEF Unhealthy

\* Marking a connection gives it to those counted; before that, whoever decides
\* has seen a count below the limit.
LEMMA CloseStepInv ==
  ASSUME PoolInv, NEW p \in Client, CloseStep(p)
  PROVE  PoolInv' /\ Pooled' = Pooled
<1>0. /\ PoolTypes /\ PlaceInv /\ DistinctInv /\ CountsInv /\ SocketInv
      /\ UseIsHolders /\ RaceInv /\ CountInv
  BY DEF PoolInv
<1>a. CloseIs(p) /\ expired' \in [Conn -> BOOLEAN]
  BY <1>0, CloseLifeIs, CloseCountIs DEF CloseStep
<1>b. /\ UNCHANGED <<stage, clients, closed, socket, use, useCount, hpc, hconn, kpc, kconn, racers>>
      /\ \A q \in Client \ {p} : pc'[q] = pc[q] /\ conn'[q] = conn[q]
      /\ pc[p] \in ClosePC /\ pc'[p] \in ClosePC \cup {"idle"}
      /\ conn'[p] = IF pc'[p] = "idle" THEN Nil ELSE conn[p]
  BY <1>a DEF CloseIs, Tests, Marks, Counts, ClosePC, health, closer
<1>c. conn[p] \in Conn /\ conn[p] # Nil
  BY <1>0, <1>b, NilAssumption DEF PlaceInv, PoolTypes, ClosePC
<1>1. PoolTypes'
  <2>1. unHealthyCount' \in 0..(CountMod - 1)
    BY <1>0, <1>a, CountUp, CountModAssumption DEF PoolTypes, CloseIs, Tests, Marks, Counts
  <2>2. unhealthy' \in [Conn -> BOOLEAN]
    BY <1>0, <1>a DEF PoolTypes, CloseIs, Tests, Marks, Counts
  <2> QED
    BY <1>0, <1>a, <1>b, <2>1, <2>2 DEF PoolTypes, CloseIs
<1>2. PlaceInv'
  BY <1>0, <1>b, <1>c DEF PlaceInv, ClosePC
<1>3. DistinctInv' /\ CountsInv' /\ Pooled' = Pooled
  <2>1. Carriers' = Carriers /\ \A q \in Carriers : conn'[q] = conn[q]
    BY <1>b DEF Carriers, InHand, ClosePC
  <2> QED
    BY <1>0, <1>b, <2>1, PlacesKept
<1>4. SocketInv'
  <2>1. \A q \in Client : conn'[q] # Nil => conn'[q] = conn[q]
    BY <1>b
  <2>2. Carriers' = Carriers /\ \A q \in Carriers : conn'[q] = conn[q]
    BY <1>b DEF Carriers, InHand, ClosePC
  <2>3. \A c \in Conn : c # conn[p] => unhealthy'[c] = unhealthy[c]
    BY <1>0, <1>a DEF PoolTypes, CloseIs, Tests, Marks, Counts
  <2>4. socket[conn[p]] # "none"
    BY <1>0, <1>c DEF SocketInv
  <2> QED
    BY <1>0, <1>b, <2>1, <2>2, <2>3, <2>4 DEF SocketInv, NoClosedInQueue
<1>5. UseIsHolders'
  <2>1. ASSUME NEW c \in Conn PROVE Holders(c)' = Holders(c)
    BY <1>b DEF Holders, ClosePC
  <2> QED
    BY <1>0, <1>b, <2>1, UseKept
<1>6. RaceInv'
  <2> SUFFICES ASSUME NEW c \in Conn, Condemned(c)'
               PROVE  /\ unhealthy'[c]
                      /\ \A q \in Client :
                           conn'[q] = c /\ pc'[q] \in {"get_use", "get_count", "holding"} => q \in racers'
    BY DEF RaceInv
  <2>1. Condemned(c)
    BY <1>b DEF Condemned
  <2>2. unhealthy[c] => unhealthy'[c]
    BY <1>0, <1>a DEF PoolTypes, CloseIs, Tests, Marks, Counts
  <2> QED
    BY <1>0, <1>b, <2>1, <2>2 DEF RaceInv, ClosePC
<1>7. CountInv'
  <2>1. PICK n \in Int : Unwrapped(n)
    BY <1>0 DEF CountInv, Unwrapped
  <2>2. /\ Counting \in SUBSET Client /\ Deciding \in SUBSET Client
        /\ Counting \cap Deciding = {}
        /\ Cardinality(Counting) \in Nat /\ Cardinality(Deciding) \in Nat
        /\ IsFiniteSet(Marked) /\ Cardinality(Marked) \in Nat
        /\ Cardinality(Client) \in Nat
    <3>1. Counting \in SUBSET Client /\ Deciding \in SUBSET Client /\ Counting \cap Deciding = {}
      BY DEF Counting, Deciding
    <3>2. IsFiniteSet(Marked) /\ Cardinality(Marked) \in Nat
      BY <1>0, FS_Subset, FS_CardinalityType DEF Marked, CountsInv
    <3> QED
      BY <3>1, <3>2, ClientSets, ClientAssumption, FS_CardinalityType
  <2>3. CASE Tests(p)
    <3>1. Counting' = Counting /\ Marked' = Marked /\ p \notin Counting /\ p \notin Deciding
      BY <1>3, <1>b, <2>3 DEF Tests, Counting, Deciding, Marked
    <3>2. CASE pc'[p] \in {"life_set", "count_set"}
      <4>1. Deciding' = Deciding \cup {p} /\ unHealthyCount < Limit
        BY <1>b, <2>3, <3>2 DEF Tests, Deciding
      <4>2. Cardinality(Deciding') = Cardinality(Deciding) + 1
        BY <2>2, <3>1, <4>1, Joined
      <4>3. Cardinality(Counting) + Cardinality(Deciding) < Cardinality(Client)
        BY <2>2, <3>1, Outsider
      <4>4. n < Limit
        BY <1>0, <2>1, <4>1, CapType DEF Unwrapped, PoolTypes
      <4>5. Unwrapped(n)'
        BY <2>1, <2>2, <2>3, <3>1, <4>2, <4>3, <4>4, CapType DEF Unwrapped, Tests
      <4> QED
        BY <4>5 DEF CountInv
    <3>3. CASE pc'[p] \notin {"life_set", "count_set"}
      <4>1. Deciding' = Deciding
        BY <1>b, <2>3, <3>3 DEF Tests, Deciding
      <4> QED
        BY <1>0, <2>3, <3>1, <4>1, CountKept DEF Tests
    <3> QED
      BY <3>2, <3>3
  <2>4. CASE Marks(p)
    <3>1. Counting' = Counting \cup {p} /\ p \notin Counting /\ Deciding' = Deciding \ {p} /\ p \in Deciding
      BY <1>b, <2>4 DEF Marks, Counting, Deciding
    <3>2. Cardinality(Counting') = Cardinality(Counting) + 1
      BY <2>2, <3>1, Joined
    <3>3. Cardinality(Deciding') = Cardinality(Deciding) - 1
      BY <2>2, <3>1, Left
    <3>4. Cardinality(Marked') \in Nat /\ Cardinality(Marked') <= Cardinality(Marked) + 1
      <4>1. Marked' \in SUBSET (Marked \cup {conn[p]})
        BY <1>0, <1>3, <2>4 DEF Marks, Marked, PoolTypes
      <4>2. /\ IsFiniteSet(Marked \cup {conn[p]})
            /\ Cardinality(Marked \cup {conn[p]}) <= Cardinality(Marked) + 1
        BY <2>2, FS_AddElement
      <4>3. Cardinality(Marked') <= Cardinality(Marked \cup {conn[p]}) /\ Cardinality(Marked') \in Nat
        BY <4>1, <4>2, FS_Subset, FS_CardinalityType
      <4> QED
        BY <2>2, <4>2, <4>3, FS_CardinalityType
    <3>5. Unwrapped(n)'
      <4>1. unHealthyCount' = unHealthyCount
        BY <2>4 DEF Marks
      <4>2. /\ Cardinality(Marked') <= n + Cardinality(Counting')
            /\ n + Cardinality(Counting') + Cardinality(Deciding') < (Cap \div 2) + Cardinality(Client)
        BY <2>1, <2>2, <3>2, <3>3, <3>4, CapType DEF Unwrapped
      <4> QED
        BY <2>1, <4>1, <4>2 DEF Unwrapped
    <3> QED
      BY <3>5 DEF CountInv
  <2>5. CASE Counts(p)
    <3>1. Counting' = Counting \ {p} /\ p \in Counting /\ Deciding' = Deciding /\ Marked' = Marked
      BY <1>3, <1>b, <2>5 DEF Counts, Counting, Deciding, Marked
    <3>2. Cardinality(Counting') = Cardinality(Counting) - 1
      BY <2>2, <3>1, Left
    <3>3. n + 1 < CountMod
      BY <2>1, <2>2, <3>1, <3>2, CountFits, CountModAssumption, CapType, ClientSets DEF Unwrapped
    <3>4. unHealthyCount' = IF n + 1 < 0 THEN n + 1 + CountMod ELSE n + 1
      <4>1. unHealthyCount \in 0..CountMod - 1 /\ unHealthyCount' = (unHealthyCount + 1) % CountMod
        BY <1>0, <2>5 DEF Counts, PoolTypes
      <4>2. unHealthyCount' = IF unHealthyCount + 1 = CountMod THEN 0 ELSE unHealthyCount + 1
        BY <4>1, CountUp
      <4>3. unHealthyCount = IF n < 0 THEN n + CountMod ELSE n
        BY <2>1 DEF Unwrapped
      <4> QED
        BY <2>1, <3>3, <4>1, <4>2, <4>3, CountModAssumption
    <3>5. Unwrapped(n + 1)'
      BY <2>1, <2>2, <3>1, <3>2, <3>4 DEF Unwrapped
    <3> QED
      BY <3>5 DEF CountInv
  <2> QED
    BY <1>a, <2>3, <2>4, <2>5 DEF CloseIs
<1> QED
  BY <1>1, <1>2, <1>3, <1>4, <1>5, <1>6, <1>7 DEF PoolInv


\* A step that changes nothing.
LEMMA PoolStutter ==
  ASSUME PoolInv, UNCHANGED vars
  PROVE  PoolInv' /\ Pooled' = Pooled
<1>0. /\ PoolTypes /\ PlaceInv /\ DistinctInv /\ CountsInv /\ SocketInv
      /\ UseIsHolders /\ RaceInv /\ CountInv
  BY DEF PoolInv
<1> USE DEF vars, pool, fields, client, health, closer
<1>1. Carriers' = Carriers /\ Counting' = Counting /\ Deciding' = Deciding
  BY DEF Carriers, InHand, Counting, Deciding
<1>2. DistinctInv' /\ CountsInv' /\ Pooled' = Pooled
  BY <1>0, <1>1, PlacesKept
<1>3. SocketInv'
  BY <1>0, <1>1, SocketsKept
<1>4. UseIsHolders'
  BY <1>0, UseKept DEF Holders
<1>5. CountInv'
  <2>1. Marked' = Marked
    BY <1>2 DEF Marked
  <2> QED
    BY <1>0, <1>1, <2>1, CountKept
<1>6. PoolTypes' /\ PlaceInv' /\ RaceInv'
  BY <1>0 DEF PoolTypes, PlaceInv, RaceInv, Condemned
<1> QED
  BY <1>0, <1>2, <1>3, <1>4, <1>5, <1>6 DEF PoolInv

\* Nobody carries anything, or has a step to make, before the pool is up.
LEMMA AtWork ==
  ASSUME PlaceInv, hpc # "off" \/ kpc # "idle" \/ \E p \in Client : pc[p] # "idle"
  PROVE  stage = "up"
BY DEF PlaceInv

\* Get takes the first connection of the queue.
LEMMA GetTakeInv ==
  ASSUME PoolInv, NEW p \in Client, GetTake(p)
  PROVE  PoolInv' /\ Pooled' = Pooled
<1>0. /\ PoolTypes /\ PlaceInv /\ DistinctInv /\ CountsInv /\ SocketInv
      /\ UseIsHolders /\ RaceInv /\ CountInv
  BY DEF PoolInv
<1>a. CASE clients = <<>>
  <2>1. UNCHANGED vars
    BY <1>a DEF GetTake, vars, pool, fields, client, health, closer
  <2> QED
    BY <2>1, PoolStutter
<1>b. CASE clients # <<>>
  <2> DEFINE c == Head(clients)
  <2>1. /\ clients' = Tail(clients)
        /\ conn' = [conn EXCEPT ![p] = c] /\ pc' = [pc EXCEPT ![p] = "get_put"]
        /\ pc[p] = "get_take"
        /\ UNCHANGED <<stage, closed, unHealthyCount, socket, use, useCount, unhealthy, expired,
                       done, hpc, hconn, kpc, kconn, racers>>
    BY <1>b DEF GetTake, Goto, fields, health, closer
  <2>2. /\ c \in Conn /\ c = clients[1] /\ 1 \in DOMAIN clients
        /\ clients' \in Seq(Conn) /\ Len(clients') = Len(clients) - 1
        /\ \A i \in DOMAIN clients' : i + 1 \in DOMAIN clients /\ i + 1 # 1 /\ clients'[i] = clients[i + 1]
        /\ ToSet(clients) = ToSet(clients') \cup {c}
    BY <1>0, <1>b, <2>1, Dequeued DEF PoolTypes
  <2> HIDE DEF c
  <2>3. /\ p \notin Carriers /\ Carriers' = Carriers \cup {p} /\ conn'[p] = c /\ conn[p] = Nil
        /\ \A q \in Client \ {p} : conn'[q] = conn[q] /\ pc'[q] = pc[q]
        /\ pc'[p] = "get_put" /\ Carriers \subseteq Client
    BY <1>0, <2>1 DEF PoolTypes, PlaceInv, Carriers, InHand
  <2>4. PoolTypes'
    BY <1>0, <2>1, <2>2 DEF PoolTypes, GetPC
  <2>5. PlaceInv' /\ stage = "up"
    BY <1>0, <2>1, <2>2, <2>3, NilAssumption DEF PlaceInv
  <2>6. DistinctInv'
    <3>1. c # hconn /\ c # kconn /\ \A q \in Carriers : c # conn[q]
      BY <1>0, <2>2 DEF DistinctInv
    <3>2. \A i \in DOMAIN clients' : clients'[i] # c
      BY <1>0, <2>2 DEF DistinctInv
    <3>3. \A i, j \in DOMAIN clients' : clients'[i] = clients'[j] => i = j
      <4> SUFFICES ASSUME NEW i \in DOMAIN clients', NEW j \in DOMAIN clients', clients'[i] = clients'[j]
                   PROVE  i = j
        OBVIOUS
      <4>1. i + 1 = j + 1
        BY <1>0, <2>2 DEF DistinctInv
      <4> QED
        BY <2>2, <4>1
    <3>4. \A i \in DOMAIN clients', q \in Carriers' : clients'[i] # conn'[q]
      BY <1>0, <2>2, <2>3, <3>2 DEF DistinctInv
    <3>5. \A i \in DOMAIN clients' : clients'[i] # hconn /\ clients'[i] # kconn
      BY <1>0, <2>2 DEF DistinctInv
    <3>6. \A q, r \in Carriers' : conn'[q] = conn'[r] => q = r
      BY <1>0, <2>3, <3>1 DEF DistinctInv
    <3>7. \A q \in Carriers' : conn'[q] # hconn /\ conn'[q] # kconn
      BY <1>0, <2>3, <3>1 DEF DistinctInv
    <3> QED
      BY <1>0, <2>1, <3>3, <3>4, <3>5, <3>6, <3>7 DEF DistinctInv
  <2>7. Pooled' = Pooled
    <3>1. {conn[q] : q \in Carriers}' = {conn[q] : q \in Carriers} \cup {c}
      BY <2>3
    <3> QED
      BY <2>1, <2>2, <3>1 DEF Pooled, Carriers
  <2>8. CountsInv'
    <3>1. Cardinality(Carriers') = Cardinality(Carriers) + 1 /\ Cardinality(Carriers) \in Nat
      BY <2>3, Joined, ClientSets
    <3>2. Conserved'
      BY <1>0, <2>1, <2>2, <2>5, <3>1 DEF CountsInv, ConnConservation, Conserved, PoolTypes, Carriers
    <3> QED
      BY <1>0, <2>1, <2>5, <2>7, <3>2 DEF CountsInv, ConnConservation
  <2>9. SocketInv'
    BY <1>0, <2>1, <2>2, <2>3 DEF SocketInv, NoClosedInQueue
  <2>10. UseIsHolders'
    <3>1. \A d \in Conn : Holders(d)' = Holders(d)
      BY <2>1, <2>3 DEF Holders
    <3> QED
      BY <1>0, <2>1, <3>1, UseKept
  <2>11. RaceInv'
    BY <1>0, <2>1, <2>3 DEF RaceInv, Condemned
  <2>12. CountInv'
    <3>1. Counting' = Counting /\ Deciding' = Deciding /\ Marked' = Marked
      BY <2>1, <2>3, <2>7 DEF Counting, Deciding, Marked
    <3> QED
      BY <1>0, <2>1, <3>1, CountKept
  <2> QED
    BY <2>4, <2>5, <2>6, <2>7, <2>8, <2>9, <2>10, <2>11, <2>12 DEF PoolInv
<1> QED
  BY <1>a, <1>b

\* And puts it back at its end.
LEMMA GetPutInv ==
  ASSUME PoolInv, NEW p \in Client, GetPut(p)
  PROVE  PoolInv' /\ Pooled' = Pooled
<1>0. /\ PoolTypes /\ PlaceInv /\ DistinctInv /\ CountsInv /\ SocketInv
      /\ UseIsHolders /\ RaceInv /\ CountInv
  BY DEF PoolInv
<1> DEFINE c == conn[p]
<1>1. /\ clients' = Append(clients, c)
      /\ pc' = [pc EXCEPT ![p] = "get_test"] /\ pc[p] = "get_put"
      /\ UNCHANGED <<stage, closed, unHealthyCount, socket, use, useCount, unhealthy, expired,
                     conn, done, hpc, hconn, kpc, kconn, racers>>
  BY DEF GetPut, Goto, fields, health, closer
<1>2. c \in Conn
  BY <1>0, <1>1 DEF PoolTypes, PlaceInv
<1>3. /\ clients' \in Seq(Conn) /\ Len(clients') = Len(clients) + 1
      /\ \A i \in DOMAIN clients' :
           \/ i \in DOMAIN clients /\ clients'[i] = clients[i]
           \/ i = Len(clients) + 1 /\ clients'[i] = c
      /\ ToSet(clients') = ToSet(clients) \cup {c}
  BY <1>0, <1>1, <1>2, Enqueued DEF PoolTypes
<1>4. /\ p \in Carriers /\ Carriers' = Carriers \ {p}
      /\ \A q \in Client \ {p} : pc'[q] = pc[q]
      /\ pc'[p] = "get_test" /\ Carriers \subseteq Client
  BY <1>0, <1>1 DEF PoolTypes, Carriers, InHand
<1>5. PoolTypes'
  BY <1>0, <1>1, <1>3 DEF PoolTypes, GetPC
<1>6. PlaceInv' /\ stage = "up"
  BY <1>0, <1>1, <1>4 DEF PlaceInv
<1>7. DistinctInv'
  <2>1. c # hconn /\ c # kconn /\ \A i \in DOMAIN clients : clients[i] # c
    BY <1>0, <1>4 DEF DistinctInv
  <2>2. \A i, j \in DOMAIN clients' : clients'[i] = clients'[j] => i = j
    BY <1>0, <1>3, <2>1 DEF DistinctInv
  <2>3. \A q \in Carriers' : conn[q] # c
    BY <1>0, <1>4 DEF DistinctInv
  <2>4. \A i \in DOMAIN clients', q \in Carriers' : clients'[i] # conn'[q]
    BY <1>0, <1>1, <1>3, <1>4, <2>3 DEF DistinctInv
  <2>5. \A i \in DOMAIN clients' : clients'[i] # hconn /\ clients'[i] # kconn
    BY <1>0, <1>3, <2>1 DEF DistinctInv
  <2> QED
    BY <1>0, <1>1, <1>4, <2>2, <2>4, <2>5 DEF DistinctInv
<1>8. Pooled' = Pooled
  <2>1. {conn[q] : q \in Carriers} = {conn[q] : q \in Carriers}' \cup {c}
    BY <1>1, <1>4
  <2> QED
    BY <1>1, <1>3, <2>1 DEF Pooled, Carriers
<1>9. CountsInv'
  <2>1. Cardinality(Carriers') = Cardinality(Carriers) - 1 /\ Cardinality(Carriers) \in Nat
    BY <1>4, Left, ClientSets
  <2>2. Conserved'
    BY <1>0, <1>1, <1>3, <1>6, <2>1 DEF CountsInv, ConnConservation, Conserved, PoolTypes, Carriers
  <2> QED
    BY <1>0, <1>1, <1>6, <1>8, <2>2 DEF CountsInv, ConnConservation
<1>10. SocketInv'
  BY <1>0, <1>1, <1>3, <1>4 DEF SocketInv, NoClosedInQueue
<1>11. UseIsHolders'
  <2>1. \A d \in Conn : Holders(d)' = Holders(d)
    BY <1>1, <1>4 DEF Holders
  <2> QED
    BY <1>0, <1>1, <2>1, UseKept
<1>12. RaceInv'
  BY <1>0, <1>1, <1>4 DEF RaceInv, Condemned
<1>13. CountInv'
  <2>1. Counting' = Counting /\ Deciding' = Deciding /\ Marked' = Marked
    BY <1>1, <1>4, <1>8 DEF Counting, Deciding, Marked
  <2> QED
    BY <1>0, <1>1, <2>1, CountKept
<1> QED
  BY <1>5, <1>6, <1>7, <1>8, <1>9, <1>10, <1>11, <1>12, <1>13 DEF PoolInv

------------------------------------------------------------------------------
(* The constructor *)

LEMMA NewDialInv ==
  ASSUME PoolInv, NewDial
  PROVE  PoolInv'
<1>0. /\ PoolTypes /\ PlaceInv /\ DistinctInv /\ CountsInv /\ SocketInv
      /\ UseIsHolders /\ RaceInv /\ CountInv
  BY DEF PoolInv
<1>1. PICK c \in Fresh : socket' = [socket EXCEPT ![c] = "open"] /\ clients' = Append(clients, c)
  BY DEF NewDial
<1>2. /\ stage = "new" /\ Len(clients) < Cap
      /\ IF Len(clients) + 1 = Cap THEN stage' = "up" /\ hpc' = "loop" ELSE UNCHANGED <<stage, hpc>>
      /\ UNCHANGED <<closed, unHealthyCount, use, useCount, unhealthy, expired,
                     pc, conn, done, hconn, kpc, kconn, racers>>
  BY DEF NewDial, client, closer
<1>3. c \in Conn /\ c # Nil /\ socket[c] = "none"
  BY NilAssumption DEF Fresh
<1>4. /\ clients' \in Seq(Conn) /\ Len(clients') = Len(clients) + 1
      /\ \A i \in DOMAIN clients' :
           \/ i \in DOMAIN clients /\ clients'[i] = clients[i]
           \/ i = Len(clients) + 1 /\ clients'[i] = c
      /\ ToSet(clients') = ToSet(clients) \cup {c}
  BY <1>0, <1>1, <1>3, Enqueued DEF PoolTypes
<1>5. /\ hconn = Nil /\ kconn = Nil /\ \A q \in Client : pc[q] = "idle" /\ conn[q] = Nil
      /\ Carriers = {} /\ Carriers' = {} /\ Counting' = Counting /\ Deciding' = Deciding
  BY <1>0, <1>2 DEF PlaceInv, Carriers, InHand, Counting, Deciding
<1>6. PoolTypes'
  BY <1>0, <1>1, <1>2, <1>3, <1>4 DEF PoolTypes
<1>7. PlaceInv'
  BY <1>0, <1>2, <1>5 DEF PlaceInv
<1>8. \A i \in DOMAIN clients : clients[i] # c /\ clients[i] \in Conn
  BY <1>0, <1>3 DEF SocketInv, NoClosedInQueue, PoolTypes
<1>9. DistinctInv'
  <2>1. \A i, j \in DOMAIN clients' : clients'[i] = clients'[j] => i = j
    BY <1>0, <1>4, <1>8 DEF DistinctInv
  <2>2. \A i \in DOMAIN clients' : clients'[i] # Nil
    BY <1>3, <1>4, <1>8, NilAssumption
  <2> QED
    BY <1>2, <1>5, <2>1, <2>2 DEF DistinctInv
<1>10. Pooled' = Pooled \cup {c} /\ c \notin Pooled
  <2>1. Pooled = ToSet(clients) /\ Pooled' = ToSet(clients')
    BY <1>2, <1>5 DEF Pooled, Carriers
  <2>2. c \notin ToSet(clients)
    BY <1>8 DEF ToSet
  <2> QED
    BY <1>4, <2>1, <2>2
<1>11. CountsInv'
  <2>1. IsFiniteSet(Pooled') /\ Cardinality(Pooled') = Cardinality(Pooled) + 1
    BY <1>0, <1>10, FS_AddElement DEF CountsInv
  <2>2. Cardinality(Pooled) = Len(clients)
    BY <1>0, <1>2 DEF CountsInv
  <2>3. Cardinality(Carriers') = 0
    BY <1>5, FS_EmptySet
  <2>4. stage' # "new" => stage' = "up" /\ Len(clients') = Cap
    BY <1>2, <1>4
  <2>5. stage' = "new" => Len(clients') < Cap
    <3>1. Len(clients) \in Nat
      BY <1>0 DEF PoolTypes
    <3>2. stage' = "new" => Len(clients) + 1 # Cap
      BY <1>2
    <3> QED
      BY <1>2, <1>4, <3>1, <3>2, CapType
  <2>6. Conserved'
    BY <1>2, <1>4, <1>5, <2>3, <2>4, CapType DEF Conserved, Carriers
  <2>7. stage' = "up" => Cardinality(Pooled') = Cap
    BY <1>2, <1>4, <2>1, <2>2
  <2>8. stage' = "new" => Cardinality(Pooled') = Len(clients')
    BY <1>4, <2>1, <2>2
  <2> QED
    BY <2>1, <2>5, <2>6, <2>7, <2>8 DEF CountsInv, ConnConservation
<1>12. SocketInv'
  BY <1>0, <1>1, <1>2, <1>3, <1>4, <1>5, <1>7, <1>8 DEF SocketInv, NoClosedInQueue, PoolTypes, PlaceInv
<1>13. UseIsHolders'
  BY <1>0, <1>2, UseKept DEF Holders
<1>14. RaceInv'
  BY <1>0, <1>1, <1>2, <1>5, <1>7 DEF RaceInv, Condemned, PoolTypes, PlaceInv
<1>15. CountInv'
  <2>1. ~ unhealthy[c]
    BY <1>0, <1>3 DEF SocketInv
  <2>2. Marked' = Marked
    BY <1>2, <1>10, <2>1 DEF Marked
  <2> QED
    BY <1>0, <1>2, <1>5, <2>2, CountKept
<1> QED
  BY <1>6, <1>7, <1>9, <1>11, <1>12, <1>13, <1>14, <1>15 DEF PoolInv

\* Steps that do not touch the callers.
LEMMA ClientsKept ==
  ASSUME UNCHANGED <<pc, conn>>
  PROVE  /\ Carriers' = Carriers /\ \A p \in Carriers : conn'[p] = conn[p]
         /\ Counting' = Counting /\ Deciding' = Deciding
         /\ \A c \in Conn : Holders(c)' = Holders(c)
BY DEF Carriers, InHand, Counting, Deciding, Holders

LEMMA NewFailsInv ==
  ASSUME PoolInv, NewFails
  PROVE  PoolInv' /\ Pooled' = Pooled
<1>0. /\ PoolTypes /\ PlaceInv /\ DistinctInv /\ CountsInv /\ SocketInv
      /\ UseIsHolders /\ RaceInv /\ CountInv
  BY DEF PoolInv
<1>1. /\ stage = "new" /\ stage' = "failed"
      /\ UNCHANGED <<clients, closed, unHealthyCount, socket, use, useCount, unhealthy, expired,
                     pc, conn, done, hpc, hconn, kpc, kconn, racers>>
  BY DEF NewFails, fields, client, health, closer
<1>2. /\ Carriers' = Carriers /\ \A p \in Carriers : conn'[p] = conn[p]
      /\ Counting' = Counting /\ Deciding' = Deciding
      /\ \A c \in Conn : Holders(c)' = Holders(c)
  BY <1>1, ClientsKept
<1>3. Pooled' = Pooled
  BY <1>1 DEF Pooled, InHand
<1>4. PoolTypes' /\ PlaceInv'
  BY <1>0, <1>1 DEF PoolTypes, PlaceInv
<1>5. DistinctInv'
  BY <1>0, <1>1, <1>2 DEF DistinctInv
<1>6. CountsInv'
  BY <1>0, <1>1, <1>3 DEF CountsInv, ConnConservation, Conserved
<1>7. SocketInv'
  BY <1>0, <1>1, <1>2, SocketsKept
<1>8. UseIsHolders'
  BY <1>0, <1>1, <1>2, UseKept
<1>9. RaceInv'
  BY <1>0, <1>1 DEF RaceInv, Condemned
<1>10. CountInv'
  <2>1. Marked' = Marked
    BY <1>1, <1>3 DEF Marked
  <2> QED
    BY <1>0, <1>1, <1>2, <2>1, CountKept
<1> QED
  BY <1>3, <1>4, <1>5, <1>6, <1>7, <1>8, <1>9, <1>10 DEF PoolInv

------------------------------------------------------------------------------
(* The health goroutine *)

LEMMA HealthLoopInv ==
  ASSUME PoolInv, HealthLoop
  PROVE  PoolInv' /\ Pooled' = Pooled
<1>0. /\ PoolTypes /\ PlaceInv /\ DistinctInv /\ CountsInv /\ SocketInv
      /\ UseIsHolders /\ RaceInv /\ CountInv
  BY DEF PoolInv
<1>1. /\ hpc = "loop" /\ hpc' \in {"off", "take"}
      /\ UNCHANGED <<stage, clients, closed, unHealthyCount, socket, use, useCount, unhealthy, expired,
                     pc, conn, done, hconn, kpc, kconn, racers>>
  BY DEF HealthLoop, pool, fields, client, closer
<1>2. /\ Carriers' = Carriers /\ \A p \in Carriers : conn'[p] = conn[p]
      /\ Counting' = Counting /\ Deciding' = Deciding
      /\ \A c \in Conn : Holders(c)' = Holders(c)
  BY <1>1, ClientsKept
<1>3. DistinctInv' /\ CountsInv' /\ Pooled' = Pooled
  BY <1>0, <1>1, <1>2, PlacesKept
<1>4. PoolTypes'
  BY <1>0, <1>1 DEF PoolTypes
<1>5. PlaceInv'
  BY <1>0, <1>1 DEF PlaceInv
<1>6. SocketInv'
  BY <1>0, <1>1, <1>2 DEF SocketInv, NoClosedInQueue
<1>7. UseIsHolders'
  BY <1>0, <1>1, <1>2, UseKept
<1>8. RaceInv'
  BY <1>0, <1>1 DEF RaceInv, Condemned
<1>9. CountInv'
  <2>1. Marked' = Marked
    BY <1>1, <1>3 DEF Marked
  <2> QED
    BY <1>0, <1>1, <1>2, <2>1, CountKept
<1> QED
  BY <1>3, <1>4, <1>5, <1>6, <1>7, <1>8, <1>9 DEF PoolInv

\* The health goroutine and Close take from the queue as Get does: into the
\* hand `mine', which was empty, with `yours' the hand of the other.
LEMMA TakenOut ==
  ASSUME PoolTypes, DistinctInv, CountsInv, clients # <<>>, stage = "up", stage' = "up",
         clients' = Tail(clients), UNCHANGED <<pc, conn>>,
         \/ hconn = Nil /\ hconn' = Head(clients) /\ kconn' = kconn
         \/ kconn = Nil /\ kconn' = Head(clients) /\ hconn' = hconn
  PROVE  /\ DistinctInv' /\ CountsInv' /\ Pooled' = Pooled
         /\ clients' \in Seq(Conn) /\ Head(clients) \in Conn /\ Head(clients) = clients[1] /\ 1 \in DOMAIN clients
         /\ \A i \in DOMAIN clients' : i + 1 \in DOMAIN clients /\ clients'[i] = clients[i + 1]
<1> DEFINE c == Head(clients)
<1>1. /\ c \in Conn /\ c = clients[1] /\ 1 \in DOMAIN clients
      /\ clients' \in Seq(Conn) /\ Len(clients') = Len(clients) - 1
      /\ \A i \in DOMAIN clients' : i + 1 \in DOMAIN clients /\ i + 1 # 1 /\ clients'[i] = clients[i + 1]
      /\ ToSet(clients) = ToSet(clients') \cup {c}
  BY Dequeued DEF PoolTypes
<1> HIDE DEF c
<1>2. Carriers' = Carriers /\ \A p \in Carriers : conn'[p] = conn[p]
  BY ClientsKept
<1>3. \/ hconn = Nil /\ hconn' = c /\ kconn' = kconn
      \/ kconn = Nil /\ kconn' = c /\ hconn' = hconn
  BY DEF c
<1>4. c # hconn /\ c # kconn /\ c # Nil /\ \A q \in Carriers : c # conn[q]
  BY <1>1, NilAssumption DEF DistinctInv
<1>5. \A i \in DOMAIN clients' : clients'[i] # c /\ clients'[i] # hconn /\ clients'[i] # kconn
  BY <1>1 DEF DistinctInv
<1>6. DistinctInv'
  <2>1. \A i, j \in DOMAIN clients' : clients'[i] = clients'[j] => i = j
    <3> SUFFICES ASSUME NEW i \in DOMAIN clients', NEW j \in DOMAIN clients', clients'[i] = clients'[j]
                 PROVE  i = j
      OBVIOUS
    <3>1. i + 1 = j + 1
      BY <1>1 DEF DistinctInv
    <3> QED
      BY <1>1, <3>1
  <2>2. \A i \in DOMAIN clients', q \in Carriers' : clients'[i] # conn'[q]
    BY <1>1, <1>2 DEF DistinctInv
  <2> QED
    BY <1>2, <1>3, <1>4, <1>5, <2>1, <2>2 DEF DistinctInv
<1>7. Pooled' = Pooled
  <2>1. {conn[q] : q \in Carriers}' = {conn[q] : q \in Carriers}
    BY <1>2
  <2> QED
    BY <1>1, <1>3, <1>4, <2>1 DEF Pooled, Carriers
<1>8. CountsInv'
  <2>1. Cardinality(Carriers) \in Nat
    BY ClientSets DEF Carriers
  <2>2. Len(clients) + Cardinality(Carriers)
          + (IF hconn = Nil THEN 0 ELSE 1) + (IF kconn = Nil THEN 0 ELSE 1) = Cap
    BY DEF CountsInv, ConnConservation, Conserved, Carriers
  <2>3. Len(clients) \in Nat
    BY DEF PoolTypes
  <2>4. Len(clients') + Cardinality(Carriers')
          + (IF hconn' = Nil THEN 0 ELSE 1) + (IF kconn' = Nil THEN 0 ELSE 1) = Cap
    <3>1. CASE hconn = Nil /\ hconn' = c /\ kconn' = kconn
      BY <1>1, <1>2, <1>4, <2>1, <2>2, <2>3, <3>1, CapType
    <3>2. CASE kconn = Nil /\ kconn' = c /\ hconn' = hconn
      BY <1>1, <1>2, <1>4, <2>1, <2>2, <2>3, <3>2, CapType
    <3> QED
      BY <1>3, <3>1, <3>2
  <2>5. Conserved'
    BY <2>4 DEF Conserved, Carriers
  <2> QED
    BY <1>7, <2>5 DEF CountsInv, ConnConservation
<1> QED
  BY <1>1, <1>6, <1>7, <1>8 DEF c

LEMMA HealthTakeInv ==
  ASSUME PoolInv, HealthTake
  PROVE  PoolInv' /\ Pooled' = Pooled
<1>0. /\ PoolTypes /\ PlaceInv /\ DistinctInv /\ CountsInv /\ SocketInv
      /\ UseIsHolders /\ RaceInv /\ CountInv
  BY DEF PoolInv
<1>1. /\ hpc = "take" /\ hpc' \in {"loop", "test"}
      /\ UNCHANGED <<stage, closed, unHealthyCount, socket, use, useCount, unhealthy, expired,
                     pc, conn, done, kpc, kconn, racers>>
  BY DEF HealthTake, HealthUnchanged, fields, client, closer
<1>2. /\ Carriers' = Carriers /\ \A p \in Carriers : conn'[p] = conn[p]
      /\ Counting' = Counting /\ Deciding' = Deciding
      /\ \A c \in Conn : Holders(c)' = Holders(c)
  BY <1>1, ClientsKept
<1>3. stage = "up" /\ stage' = "up" /\ hconn = Nil
  BY <1>0, <1>1, AtWork DEF PlaceInv
<1>7. UseIsHolders'
  BY <1>0, <1>1, <1>2, UseKept
<1>8. RaceInv'
  BY <1>0, <1>1 DEF RaceInv, Condemned
<1>a. CASE clients = <<>>
  <2>1. UNCHANGED <<clients, hconn>> /\ hpc' = "loop"
    BY <1>a DEF HealthTake
  <2>2. DistinctInv' /\ CountsInv' /\ Pooled' = Pooled
    BY <1>0, <1>1, <1>2, <2>1, PlacesKept
  <2>3. PoolTypes' /\ PlaceInv'
    BY <1>0, <1>1, <2>1 DEF PoolTypes, PlaceInv
  <2>4. SocketInv'
    BY <1>0, <1>1, <1>2, <2>1 DEF SocketInv, NoClosedInQueue
  <2>5. Marked' = Marked
    BY <1>1, <2>2 DEF Marked
  <2>6. CountInv'
    BY <1>0, <1>1, <1>2, <2>5, CountKept
  <2> QED
    BY <1>7, <1>8, <2>2, <2>3, <2>4, <2>6 DEF PoolInv
<1>b. CASE clients # <<>>
  <2>1. hconn' = Head(clients) /\ clients' = Tail(clients) /\ hpc' = "test"
    BY <1>b DEF HealthTake
  <2>2. /\ DistinctInv' /\ CountsInv' /\ Pooled' = Pooled
        /\ clients' \in Seq(Conn) /\ Head(clients) \in Conn /\ Head(clients) = clients[1] /\ 1 \in DOMAIN clients
        /\ \A i \in DOMAIN clients' : i + 1 \in DOMAIN clients /\ clients'[i] = clients[i + 1]
    BY <1>0, <1>1, <1>3, <1>b, <2>1, TakenOut
  <2>3. PoolTypes'
    BY <1>0, <1>1, <2>1, <2>2 DEF PoolTypes
  <2>4. PlaceInv'
    BY <1>0, <1>1, <1>3, <2>1, <2>2, NilAssumption DEF PlaceInv
  <2>5. SocketInv'
    BY <1>0, <1>1, <1>2, <2>1, <2>2 DEF SocketInv, NoClosedInQueue
  <2>6. Marked' = Marked
    BY <1>1, <2>2 DEF Marked
  <2>7. CountInv'
    BY <1>0, <1>1, <1>2, <2>6, CountKept
  <2> QED
    BY <1>7, <1>8, <2>2, <2>3, <2>4, <2>5, <2>7 DEF PoolInv
<1> QED
  BY <1>a, <1>b

\* Whoever was counted by use was found by the test; the others are racers.
LEMMA HealthTestInv ==
  ASSUME PoolInv, HealthTest
  PROVE  PoolInv' /\ Pooled' = Pooled
<1>0. /\ PoolTypes /\ PlaceInv /\ DistinctInv /\ CountsInv /\ SocketInv
      /\ UseIsHolders /\ RaceInv /\ CountInv
  BY DEF PoolInv
<1>1. /\ hpc = "test" /\ hpc' \in {"put", "shut"}
      /\ UNCHANGED <<stage, clients, closed, unHealthyCount, socket, use, useCount, unhealthy, expired,
                     pc, conn, done, hconn, kpc, kconn>>
      /\ racers \subseteq racers' /\ racers' \subseteq racers \cup Client
  BY DEF HealthTest, HealthUnchanged, fields, client, closer
<1>2. /\ Carriers' = Carriers /\ \A p \in Carriers : conn'[p] = conn[p]
      /\ Counting' = Counting /\ Deciding' = Deciding
      /\ \A c \in Conn : Holders(c)' = Holders(c)
  BY <1>1, ClientsKept
<1>3. DistinctInv' /\ CountsInv' /\ Pooled' = Pooled
  BY <1>0, <1>1, <1>2, PlacesKept
<1>4. PoolTypes'
  BY <1>0, <1>1 DEF PoolTypes
<1>5. PlaceInv'
  BY <1>0, <1>1 DEF PlaceInv
<1>6. SocketInv'
  BY <1>0, <1>1, <1>2 DEF SocketInv, NoClosedInQueue
<1>7. UseIsHolders'
  BY <1>0, <1>1, <1>2, UseKept
<1>8. RaceInv'
  <2> SUFFICES ASSUME NEW c \in Conn, Condemned(c)'
               PROVE  /\ unhealthy[c]
                      /\ \A p \in Client :
                           conn[p] = c /\ pc[p] \in {"get_use", "get_count", "holding"} => p \in racers'
    BY <1>1 DEF RaceInv
  <2>1. CASE Condemned(c)
    BY <1>0, <1>1, <2>1 DEF RaceInv
  <2>2. CASE hpc' = "shut" /\ hconn = c
    <3>1. unhealthy[c] /\ use[c] = 0
      BY <1>1, <2>2 DEF HealthTest
    <3>2. racers' = racers \cup {p \in Client : pc[p] = "get_use" /\ conn[p] = c}
      BY <2>2, <3>1 DEF HealthTest
    <3>3. Holders(c) = {}
      <4>1. Holders(c) \in SUBSET Client /\ Cardinality(Holders(c)) = 0
        BY <1>0, <3>1 DEF UseIsHolders, Holders
      <4> QED
        BY <4>1, ClientSets, FS_EmptySet
    <3> QED
      BY <3>1, <3>2, <3>3 DEF Holders
  <2> QED
    BY <1>1, <2>1, <2>2 DEF Condemned
<1>9. CountInv'
  <2>1. Marked' = Marked
    BY <1>1, <1>3 DEF Marked
  <2> QED
    BY <1>0, <1>1, <1>2, <2>1, CountKept
<1> QED
  BY <1>3, <1>4, <1>5, <1>6, <1>7, <1>8, <1>9 DEF PoolInv

LEMMA HealthShutInv ==
  ASSUME PoolInv, HealthShut
  PROVE  PoolInv' /\ Pooled' = Pooled
<1>0. /\ PoolTypes /\ PlaceInv /\ DistinctInv /\ CountsInv /\ SocketInv
      /\ UseIsHolders /\ RaceInv /\ CountInv
  BY DEF PoolInv
<1>1. /\ hpc = "shut" /\ hpc' = "dec" /\ socket' = [socket EXCEPT ![hconn] = "recycled"]
      /\ UNCHANGED <<stage, clients, closed, unHealthyCount, use, useCount, unhealthy, expired,
                     pc, conn, done, hconn, kpc, kconn, racers>>
  BY DEF HealthShut, HealthUnchanged, client, closer
<1>2. /\ Carriers' = Carriers /\ \A p \in Carriers : conn'[p] = conn[p]
      /\ Counting' = Counting /\ Deciding' = Deciding
      /\ \A c \in Conn : Holders(c)' = Holders(c)
  BY <1>1, ClientsKept
<1>3. DistinctInv' /\ CountsInv' /\ Pooled' = Pooled
  BY <1>0, <1>1, <1>2, PlacesKept
<1>a. hconn \in Conn /\ hconn # Nil /\ hconn # kconn
  BY <1>0, <1>1 DEF PoolTypes, PlaceInv, DistinctInv
<1>b. socket'[hconn] = "recycled" /\ \A c \in Conn : c # hconn => socket'[c] = socket[c]
  BY <1>0, <1>1, <1>a DEF PoolTypes
<1>4. PoolTypes'
  BY <1>0, <1>1, <1>a DEF PoolTypes
<1>5. PlaceInv'
  BY <1>0, <1>1 DEF PlaceInv
<1>6. SocketInv'
  <2>1. NoClosedInQueue'
    BY <1>0, <1>1, <1>b DEF SocketInv, NoClosedInQueue, DistinctInv, PoolTypes
  <2>2. \A p \in Carriers' : socket'[conn'[p]] = "open"
    <3> SUFFICES ASSUME NEW p \in Carriers PROVE socket'[conn[p]] = "open"
      BY <1>1, <1>2
    <3>1. conn[p] \in Conn /\ conn[p] # hconn
      BY <1>0 DEF DistinctInv, Carriers, InHand, PlaceInv, PoolTypes
    <3> QED
      BY <1>0, <1>b, <3>1 DEF SocketInv
  <2>3. kpc' = "shut" => socket'[kconn'] \in {"open", "drained"}
    BY <1>0, <1>1, <1>a, <1>b DEF SocketInv, PlaceInv, PoolTypes
  <2>4. \A p \in Client : conn'[p] # Nil => socket'[conn'[p]] # "none"
    BY <1>0, <1>1, <1>b DEF SocketInv, PoolTypes
  <2> QED
    BY <1>0, <1>1, <1>b, <2>1, <2>2, <2>3, <2>4 DEF SocketInv
<1>7. UseIsHolders'
  BY <1>0, <1>1, <1>2, UseKept
<1>8. RaceInv'
  BY <1>0, <1>1, <1>b DEF RaceInv, Condemned
<1>9. CountInv'
  <2>1. Marked' = Marked
    BY <1>1, <1>3 DEF Marked
  <2> QED
    BY <1>0, <1>1, <1>2, <2>1, CountKept
<1> QED
  BY <1>3, <1>4, <1>5, <1>6, <1>7, <1>8, <1>9 DEF PoolInv

\* A connection that was marked leaves the pool, and one that is not comes.
LEMMA HealthDecInv ==
  ASSUME PoolInv, HealthDec
  PROVE  /\ PoolInv'
         /\ hconn \in Pooled /\ socket[hconn] = "recycled"
         /\ \E c \in Fresh : /\ socket' = [socket EXCEPT ![c] = "open"]
                           /\ Pooled' = (Pooled \ {hconn}) \cup {c}
<1>0. /\ PoolTypes /\ PlaceInv /\ DistinctInv /\ CountsInv /\ SocketInv
      /\ UseIsHolders /\ RaceInv /\ CountInv
  BY DEF PoolInv
<1>1. /\ hpc = "dec" /\ hpc' = "put" /\ unHealthyCount' = (unHealthyCount + CountMod - 1) % CountMod
      /\ UNCHANGED <<stage, clients, closed, use, useCount, unhealthy, expired,
                     pc, conn, done, kpc, kconn, racers>>
  BY DEF HealthDec, HealthUnchanged, client, closer
<1>2. PICK c \in Fresh : hconn' = c /\ socket' = [socket EXCEPT ![c] = "open"]
  BY DEF HealthDec
<1>3. /\ Carriers' = Carriers /\ \A p \in Carriers : conn'[p] = conn[p]
      /\ Counting' = Counting /\ Deciding' = Deciding
      /\ \A d \in Conn : Holders(d)' = Holders(d)
  BY <1>1, ClientsKept
<1>4. /\ c \in Conn /\ c # Nil /\ socket[c] = "none" /\ socket'[c] = "open"
      /\ \A d \in Conn : d # c => socket'[d] = socket[d]
  BY <1>0, <1>2, NilAssumption DEF Fresh, PoolTypes
<1>5. hconn \in Conn /\ hconn # Nil /\ hconn # kconn /\ socket[hconn] = "recycled" /\ stage = "up"
  BY <1>0, <1>1, AtWork DEF PoolTypes, PlaceInv, DistinctInv, SocketInv
<1>6. \A p \in Carriers : conn[p] \in Conn /\ conn[p] # c /\ conn[p] # hconn
  BY <1>0, <1>4 DEF DistinctInv, SocketInv, Carriers, InHand, PlaceInv, PoolTypes
<1>7. \A i \in DOMAIN clients : clients[i] \in Conn /\ clients[i] # c /\ clients[i] # hconn
  BY <1>0, <1>4 DEF DistinctInv, SocketInv, NoClosedInQueue, PoolTypes
<1>8. kconn # c
  BY <1>0, <1>4 DEF SocketInv, PlaceInv
<1>9. PoolTypes'
  <2>1. unHealthyCount' \in 0..CountMod - 1
    BY <1>0, <1>1, CountDown, CountModAssumption DEF PoolTypes
  <2> QED
    BY <1>0, <1>1, <1>2, <1>4, <2>1 DEF PoolTypes
<1>10. PlaceInv'
  BY <1>0, <1>1, <1>2, <1>4, <1>5 DEF PlaceInv
<1>11. DistinctInv'
  BY <1>0, <1>1, <1>2, <1>3, <1>6, <1>7, <1>8 DEF DistinctInv
<1>12. hconn \in Pooled /\ c \notin Pooled /\ Pooled' = (Pooled \ {hconn}) \cup {c}
  <2>1. {conn[p] : p \in Carriers}' = {conn[p] : p \in Carriers}
    BY <1>3
  <2>2. hconn \notin {conn[p] : p \in Carriers} /\ c \notin {conn[p] : p \in Carriers}
    BY <1>6
  <2>3. ToSet(clients') = ToSet(clients) /\ hconn \notin ToSet(clients) /\ c \notin ToSet(clients)
    BY <1>1, <1>7 DEF ToSet
  <2>4. Pooled = ToSet(clients) \cup {conn[p] : p \in Carriers} \cup ({hconn, kconn} \ {Nil})
    BY DEF Pooled, Carriers
  <2>5. Pooled' = ToSet(clients) \cup {conn[p] : p \in Carriers} \cup ({c, kconn} \ {Nil})
    BY <1>1, <1>2, <2>1, <2>3 DEF Pooled, Carriers
  <2>6. c # hconn
    BY <1>4, <1>5
  <2> HIDE DEF Pooled
  <2> QED
    BY <1>4, <1>5, <1>8, <2>2, <2>3, <2>4, <2>5, <2>6
<1>13. CountsInv'
  <2>1. /\ IsFiniteSet(Pooled \ {hconn})
        /\ Cardinality(Pooled \ {hconn}) = Cardinality(Pooled) - 1
    BY <1>0, <1>12, FS_RemoveElement DEF CountsInv
  <2>2. /\ IsFiniteSet(Pooled')
        /\ Cardinality(Pooled') = Cardinality(Pooled \ {hconn}) + 1
    BY <1>12, <2>1, FS_AddElement
  <2>3. Cardinality(Pooled) \in Nat
    BY <1>0, FS_CardinalityType DEF CountsInv
  <2>4. Cardinality(Pooled') = Cardinality(Pooled)
    BY <2>1, <2>2, <2>3
  <2>5. Conserved'
    BY <1>0, <1>1, <1>2, <1>3, <1>4, <1>5 DEF CountsInv, ConnConservation, Conserved, Carriers
  <2> QED
    BY <1>0, <1>1, <1>5, <2>2, <2>4, <2>5 DEF CountsInv, ConnConservation
<1>14. SocketInv'
  <2>1. NoClosedInQueue' /\ \A p \in Carriers' : socket'[conn'[p]] = "open"
    BY <1>0, <1>1, <1>3, <1>4, <1>6, <1>7 DEF SocketInv, NoClosedInQueue
  <2>2. kpc' = "shut" => socket'[kconn'] \in {"open", "drained"}
    BY <1>0, <1>1, <1>4, <1>8 DEF SocketInv, PlaceInv, PoolTypes
  <2>3. \A p \in Client : conn'[p] # Nil => socket'[conn'[p]] # "none"
    BY <1>0, <1>1, <1>4 DEF SocketInv, PoolTypes
  <2> QED
    BY <1>0, <1>1, <1>2, <1>4, <2>1, <2>2, <2>3 DEF SocketInv
<1>15. UseIsHolders'
  BY <1>0, <1>1, <1>3, UseKept
<1>16. RaceInv'
  BY <1>0, <1>1, <1>4 DEF RaceInv, Condemned
<1>17. CountInv'
  <2>1. PICK n \in Int : Unwrapped(n)
    BY <1>0 DEF CountInv, Unwrapped
  <2>2. hconn \in Marked /\ Marked' = Marked \ {hconn}
    <3>1. unhealthy[hconn] /\ ~ unhealthy[c]
      BY <1>0, <1>4, <1>5 DEF RaceInv, Condemned, SocketInv
    <3> QED
      BY <1>1, <1>12, <3>1 DEF Marked
  <2>3. IsFiniteSet(Marked) /\ Cardinality(Marked) \in Nat
    BY <1>0, FS_Subset, FS_CardinalityType DEF Marked, CountsInv
  <2>4. Cardinality(Marked') = Cardinality(Marked) - 1 /\ Cardinality(Marked') \in Nat
    <3>1. IsFiniteSet(Marked') /\ Cardinality(Marked') = Cardinality(Marked) - 1
      BY <2>2, <2>3, FS_RemoveElement
    <3> QED
      BY <3>1, FS_CardinalityType
  <2>5. /\ Cardinality(Counting) \in 0..Cardinality(Client) /\ Cardinality(Client) \in Nat
        /\ Cardinality(Deciding) \in 0..Cardinality(Client)
    BY ClientSets, ClientAssumption, FS_CardinalityType DEF Counting, Deciding
  <2>6. n > - CountMod
    BY <2>1, <2>3, <2>4, <2>5, CapType, CountFits, CountModAssumption DEF Unwrapped
  <2>7. unHealthyCount' = IF n - 1 < 0 THEN n - 1 + CountMod ELSE n - 1
    <3>1. unHealthyCount \in 0..CountMod - 1
      BY <1>0 DEF PoolTypes
    <3>2. unHealthyCount' = IF unHealthyCount = 0 THEN CountMod - 1 ELSE unHealthyCount - 1
      BY <1>1, <3>1, CountDown
    <3>3. unHealthyCount = IF n < 0 THEN n + CountMod ELSE n
      BY <2>1 DEF Unwrapped
    <3> QED
      BY <2>1, <2>6, <3>1, <3>2, <3>3, CountModAssumption
  <2>8. Unwrapped(n - 1)'
    <3>1. /\ Cardinality(Marked') <= n - 1 + Cardinality(Counting')
          /\ n - 1 + Cardinality(Counting') + Cardinality(Deciding') < (Cap \div 2) + Cardinality(Client)
      BY <1>3, <2>1, <2>3, <2>4, <2>5, CapType DEF Unwrapped
    <3> QED
      BY <2>1, <2>7, <3>1 DEF Unwrapped
  <2> QED
    BY <2>8 DEF CountInv
<1>18. \E d \in Fresh : /\ socket' = [socket EXCEPT ![d] = "open"]
                        /\ Pooled' = (Pooled \ {hconn}) \cup {d}
  BY <1>2, <1>12
<1> QED
  BY <1>5, <1>9, <1>10, <1>11, <1>12, <1>13, <1>14, <1>15, <1>16, <1>17, <1>18 DEF PoolInv

LEMMA HealthPutInv ==
  ASSUME PoolInv, HealthPut
  PROVE  PoolInv' /\ Pooled' = Pooled
<1>0. /\ PoolTypes /\ PlaceInv /\ DistinctInv /\ CountsInv /\ SocketInv
      /\ UseIsHolders /\ RaceInv /\ CountInv
  BY DEF PoolInv
<1>1. /\ hpc = "put" /\ hpc' = "loop" /\ hconn' = Nil /\ clients' = Append(clients, hconn)
      /\ UNCHANGED <<stage, closed, unHealthyCount, socket, use, useCount, unhealthy, expired,
                     pc, conn, done, kpc, kconn, racers>>
  BY DEF HealthPut, HealthUnchanged, fields, client, closer
<1>2. /\ Carriers' = Carriers /\ \A p \in Carriers : conn'[p] = conn[p]
      /\ Counting' = Counting /\ Deciding' = Deciding
      /\ \A d \in Conn : Holders(d)' = Holders(d)
  BY <1>1, ClientsKept
<1>3. hconn \in Conn /\ hconn # Nil /\ hconn # kconn /\ socket[hconn] = "open" /\ stage = "up"
  BY <1>0, <1>1, AtWork DEF PoolTypes, PlaceInv, DistinctInv, SocketInv
<1>4. /\ clients' \in Seq(Conn) /\ Len(clients') = Len(clients) + 1
      /\ \A i \in DOMAIN clients' :
           \/ i \in DOMAIN clients /\ clients'[i] = clients[i]
           \/ i = Len(clients) + 1 /\ clients'[i] = hconn
      /\ ToSet(clients') = ToSet(clients) \cup {hconn}
  BY <1>0, <1>1, <1>3, Enqueued DEF PoolTypes
<1>5. PoolTypes' /\ PlaceInv'
  BY <1>0, <1>1, <1>3, <1>4 DEF PoolTypes, PlaceInv
<1>6. DistinctInv'
  <2>1. \A i \in DOMAIN clients' : clients'[i] \in Conn /\ clients'[i] # Nil
    BY <1>4, NilAssumption
  <2>2. \A p \in Carriers : conn[p] # Nil
    BY <1>0 DEF Carriers, InHand, PlaceInv
  <2>3. \A i, j \in DOMAIN clients' : clients'[i] = clients'[j] => i = j
    BY <1>0, <1>4 DEF DistinctInv
  <2>4. \A i \in DOMAIN clients', p \in Carriers' : clients'[i] # conn'[p]
    BY <1>0, <1>2, <1>4 DEF DistinctInv
  <2>5. \A i \in DOMAIN clients' : clients'[i] # kconn
    BY <1>0, <1>3, <1>4 DEF DistinctInv
  <2> QED
    BY <1>0, <1>1, <1>2, <2>1, <2>2, <2>3, <2>4, <2>5 DEF DistinctInv
<1>7. Pooled' = Pooled
  <2>1. {conn[p] : p \in Carriers}' = {conn[p] : p \in Carriers}
    BY <1>2
  <2> QED
    BY <1>1, <1>3, <1>4, <2>1 DEF Pooled, Carriers
<1>8. CountsInv'
  <2>1. Len(clients) \in Nat /\ Cardinality(Carriers) \in Nat
    BY <1>0, ClientSets DEF PoolTypes, Carriers
  <2>2. Len(clients) + Cardinality(Carriers) + 1 + (IF kconn = Nil THEN 0 ELSE 1) = Cap
    BY <1>0, <1>3 DEF CountsInv, ConnConservation, Conserved, Carriers
  <2>3. Len(clients') + Cardinality(Carriers') + 0 + (IF kconn' = Nil THEN 0 ELSE 1) = Cap
    BY <1>1, <1>2, <1>4, <2>1, <2>2, CapType
  <2>4. Conserved'
    BY <1>1, <2>3 DEF Conserved, Carriers
  <2> QED
    BY <1>0, <1>1, <1>3, <1>7, <2>4 DEF CountsInv, ConnConservation
<1>9. SocketInv'
  BY <1>0, <1>1, <1>2, <1>3, <1>4 DEF SocketInv, NoClosedInQueue
<1>10. UseIsHolders'
  BY <1>0, <1>1, <1>2, UseKept
<1>11. RaceInv'
  BY <1>0, <1>1 DEF RaceInv, Condemned
<1>12. CountInv'
  <2>1. Marked' = Marked
    BY <1>1, <1>7 DEF Marked
  <2> QED
    BY <1>0, <1>1, <1>2, <2>1, CountKept
<1> QED
  BY <1>5, <1>6, <1>7, <1>8, <1>9, <1>10, <1>11, <1>12 DEF PoolInv

------------------------------------------------------------------------------
(* Pool.Close *)

LEMMA PoolCloseInv ==
  ASSUME PoolInv, PoolClose
  PROVE  PoolInv' /\ Pooled' = Pooled
<1>0. /\ PoolTypes /\ PlaceInv /\ DistinctInv /\ CountsInv /\ SocketInv
      /\ UseIsHolders /\ RaceInv /\ CountInv
  BY DEF PoolInv
<1>1. /\ stage = "up" /\ kpc = "idle" /\ kpc' = "take" /\ closed' = TRUE
      /\ UNCHANGED <<stage, clients, unHealthyCount, socket, use, useCount, unhealthy, expired,
                     pc, conn, done, hpc, hconn, kconn, racers>>
  BY DEF PoolClose, fields, client, health
<1>2. /\ Carriers' = Carriers /\ \A p \in Carriers : conn'[p] = conn[p]
      /\ Counting' = Counting /\ Deciding' = Deciding
      /\ \A c \in Conn : Holders(c)' = Holders(c)
  BY <1>1, ClientsKept
<1>3. DistinctInv' /\ CountsInv' /\ Pooled' = Pooled
  BY <1>0, <1>1, <1>2, PlacesKept
<1>4. PoolTypes' /\ PlaceInv'
  BY <1>0, <1>1 DEF PoolTypes, PlaceInv
<1>5. SocketInv'
  BY <1>0, <1>1, <1>2 DEF SocketInv, NoClosedInQueue
<1>6. UseIsHolders'
  BY <1>0, <1>1, <1>2, UseKept
<1>7. RaceInv'
  BY <1>0, <1>1 DEF RaceInv, Condemned
<1>8. CountInv'
  <2>1. Marked' = Marked
    BY <1>1, <1>3 DEF Marked
  <2> QED
    BY <1>0, <1>1, <1>2, <2>1, CountKept
<1> QED
  BY <1>3, <1>4, <1>5, <1>6, <1>7, <1>8 DEF PoolInv

LEMMA PoolCloseTakeInv ==
  ASSUME PoolInv, PoolCloseTake
  PROVE  PoolInv' /\ Pooled' = Pooled
<1>0. /\ PoolTypes /\ PlaceInv /\ DistinctInv /\ CountsInv /\ SocketInv
      /\ UseIsHolders /\ RaceInv /\ CountInv
  BY DEF PoolInv
<1>1. /\ kpc = "take" /\ kpc' \in {"returned", "shut"}
      /\ UNCHANGED <<stage, closed, unHealthyCount, socket, use, useCount, unhealthy, expired,
                     pc, conn, done, hpc, hconn, racers>>
  BY DEF PoolCloseTake, fields, client, health
<1>2. /\ Carriers' = Carriers /\ \A p \in Carriers : conn'[p] = conn[p]
      /\ Counting' = Counting /\ Deciding' = Deciding
      /\ \A c \in Conn : Holders(c)' = Holders(c)
  BY <1>1, ClientsKept
<1>3. stage = "up" /\ stage' = "up" /\ kconn = Nil
  BY <1>0, <1>1, AtWork DEF PlaceInv
<1>4. UseIsHolders'
  BY <1>0, <1>1, <1>2, UseKept
<1>5. RaceInv'
  BY <1>0, <1>1 DEF RaceInv, Condemned
<1>a. CASE clients = <<>>
  <2>1. UNCHANGED <<clients, kconn>> /\ kpc' = "returned"
    BY <1>a DEF PoolCloseTake
  <2>2. DistinctInv' /\ CountsInv' /\ Pooled' = Pooled
    BY <1>0, <1>1, <1>2, <2>1, PlacesKept
  <2>3. PoolTypes' /\ PlaceInv'
    BY <1>0, <1>1, <2>1 DEF PoolTypes, PlaceInv
  <2>4. SocketInv'
    BY <1>0, <1>1, <1>2, <2>1 DEF SocketInv, NoClosedInQueue
  <2>5. Marked' = Marked
    BY <1>1, <2>2 DEF Marked
  <2>6. CountInv'
    BY <1>0, <1>1, <1>2, <2>5, CountKept
  <2> QED
    BY <1>4, <1>5, <2>2, <2>3, <2>4, <2>6 DEF PoolInv
<1>b. CASE clients # <<>>
  <2>1. kconn' = Head(clients) /\ clients' = Tail(clients) /\ kpc' = "shut"
    BY <1>b DEF PoolCloseTake
  <2>2. /\ DistinctInv' /\ CountsInv' /\ Pooled' = Pooled
        /\ clients' \in Seq(Conn) /\ Head(clients) \in Conn /\ Head(clients) = clients[1] /\ 1 \in DOMAIN clients
        /\ \A i \in DOMAIN clients' : i + 1 \in DOMAIN clients /\ clients'[i] = clients[i + 1]
    BY <1>0, <1>1, <1>3, <1>b, <2>1, TakenOut
  <2>3. PoolTypes'
    BY <1>0, <1>1, <2>1, <2>2 DEF PoolTypes
  <2>4. PlaceInv'
    BY <1>0, <1>1, <1>3, <2>1, <2>2, NilAssumption DEF PlaceInv
  <2>5. SocketInv'
    BY <1>0, <1>1, <1>2, <2>1, <2>2 DEF SocketInv, NoClosedInQueue
  <2>6. Marked' = Marked
    BY <1>1, <2>2 DEF Marked
  <2>7. CountInv'
    BY <1>0, <1>1, <1>2, <2>6, CountKept
  <2> QED
    BY <1>4, <1>5, <2>2, <2>3, <2>4, <2>5, <2>7 DEF PoolInv
<1> QED
  BY <1>a, <1>b

LEMMA PoolCloseShutInv ==
  ASSUME PoolInv, PoolCloseShut
  PROVE  PoolInv' /\ Pooled' = Pooled
<1>0. /\ PoolTypes /\ PlaceInv /\ DistinctInv /\ CountsInv /\ SocketInv
      /\ UseIsHolders /\ RaceInv /\ CountInv
  BY DEF PoolInv
<1>1. /\ kpc = "shut" /\ socket' = [socket EXCEPT ![kconn] = "drained"]
      /\ UNCHANGED <<stage, clients, closed, unHealthyCount, use, useCount, unhealthy, expired,
                     pc, conn, done, hpc, hconn, kpc, kconn, racers>>
  BY DEF PoolCloseShut, pool, client, health, closer
<1>2. /\ Carriers' = Carriers /\ \A p \in Carriers : conn'[p] = conn[p]
      /\ Counting' = Counting /\ Deciding' = Deciding
      /\ \A c \in Conn : Holders(c)' = Holders(c)
  BY <1>1, ClientsKept
<1>3. DistinctInv' /\ CountsInv' /\ Pooled' = Pooled
  BY <1>0, <1>1, <1>2, PlacesKept
<1>a. kconn \in Conn /\ kconn # Nil /\ hconn # kconn
  BY <1>0, <1>1 DEF PoolTypes, PlaceInv, DistinctInv
<1>b. socket'[kconn] = "drained" /\ \A c \in Conn : c # kconn => socket'[c] = socket[c]
  BY <1>0, <1>1, <1>a DEF PoolTypes
<1>4. PoolTypes' /\ PlaceInv'
  BY <1>0, <1>1, <1>a DEF PoolTypes, PlaceInv
<1>5. SocketInv'
  <2>1. NoClosedInQueue'
    BY <1>0, <1>1, <1>b DEF SocketInv, NoClosedInQueue, DistinctInv, PoolTypes
  <2>2. \A p \in Carriers' : socket'[conn'[p]] = "open"
    <3> SUFFICES ASSUME NEW p \in Carriers PROVE socket'[conn[p]] = "open"
      BY <1>1, <1>2
    <3>1. conn[p] \in Conn /\ conn[p] # kconn
      BY <1>0 DEF DistinctInv, Carriers, InHand, PlaceInv, PoolTypes
    <3> QED
      BY <1>0, <1>b, <3>1 DEF SocketInv
  <2>3. hconn # Nil => hconn \in Conn /\ socket'[hconn] = socket[hconn]
    BY <1>0, <1>a, <1>b DEF PoolTypes
  <2>4. \A p \in Client : conn'[p] # Nil => socket'[conn'[p]] # "none"
    BY <1>0, <1>1, <1>b DEF SocketInv, PoolTypes
  <2>5. \A c \in Conn : socket'[c] = "none" => ~ unhealthy'[c]
    BY <1>0, <1>1, <1>b DEF SocketInv
  <2>6. hpc \in {"test", "shut", "dec", "put"} => hconn # Nil
    BY <1>0 DEF PlaceInv
  <2> QED
    BY <1>0, <1>1, <1>b, <2>1, <2>2, <2>3, <2>4, <2>5, <2>6 DEF SocketInv
<1>6. UseIsHolders'
  BY <1>0, <1>1, <1>2, UseKept
<1>7. RaceInv'
  BY <1>0, <1>1, <1>b DEF RaceInv, Condemned
<1>8. CountInv'
  <2>1. Marked' = Marked
    BY <1>1, <1>3 DEF Marked
  <2> QED
    BY <1>0, <1>1, <1>2, <2>1, CountKept
<1> QED
  BY <1>3, <1>4, <1>5, <1>6, <1>7, <1>8 DEF PoolInv

------------------------------------------------------------------------------
(* The theorems *)

LEMMA PoolNextInv == PoolInv /\ [Next]_vars => PoolInv'
<1> SUFFICES ASSUME PoolInv, [Next]_vars PROVE PoolInv'
  OBVIOUS
<1>1. ASSUME New PROVE PoolInv'
  BY <1>1, NewDialInv, NewFailsInv DEF New
<1>2. ASSUME NEW p \in Client, GetCall(p) \/ CloseCall(p) \/ CtxDone(p) PROVE PoolInv'
  BY <1>2, GetCallInv, CloseCallInv, CtxDoneInv
<1>3. ASSUME NEW p \in Client, GetStep(p) PROVE PoolInv'
  BY <1>3, GetTimeoutInv, GetTakeInv, GetPutInv, GetTestInv, GetUseInv, GetCountInv DEF GetStep
<1>4. ASSUME NEW p \in Client, CloseStep(p) PROVE PoolInv'
  BY <1>4, CloseStepInv
<1>5. ASSUME HealthStep PROVE PoolInv'
  BY <1>5, HealthLoopInv, HealthTakeInv, HealthTestInv, HealthShutInv, HealthDecInv, HealthPutInv
     DEF HealthStep
<1>6. ASSUME PoolClose \/ PoolCloseStep PROVE PoolInv'
  BY <1>6, PoolCloseInv, PoolCloseTakeInv, PoolCloseShutInv DEF PoolCloseStep
<1>7. ASSUME UNCHANGED vars PROVE PoolInv'
  BY <1>7, PoolStutter
<1> QED
  BY <1>1, <1>2, <1>3, <1>4, <1>5, <1>6, <1>7 DEF Next

\* The invariant of pool/grpc.go: every step of the constructor, of the callers
\* of Get and ClientConn.Close, of the health goroutine and of Pool.Close
\* preserves it, in any interleaving.
THEOREM PoolInvariant == Spec => []PoolInv
<1>1. Init => PoolInv
  BY PoolInitInv
<1>2. PoolInv /\ [Next]_vars => PoolInv'
  BY PoolNextInv
<1> QED
  BY <1>1, <1>2, PTL DEF Spec

\* Every field of the pool and of its connections has its type; use stays within
\* the number of callers, so that the decrement of ClientConn.Close never takes
\* it below zero.
THEOREM PoolTypeCorrect == Spec => []TypeOK
<1>1. PoolInv => TypeOK
  <2> SUFFICES ASSUME PoolInv PROVE TypeOK
    OBVIOUS
  <2>1. PoolTypes /\ UseIsHolders
    BY DEF PoolInv
  <2>2. \A c \in Conn : use[c] \in 0..Cardinality(Client)
    BY <2>1, ClientSets DEF UseIsHolders
  <2>3. use \in [Conn -> 0..Cardinality(Client)]
    BY <2>1, <2>2 DEF PoolTypes
  <2> QED
    BY <2>1, <2>3 DEF PoolTypes, TypeOK
<1> QED
  BY <1>1, PoolInvariant, PTL

\* Get, the health goroutine and Close, which take connections out of one queue
\* and put them back concurrently, neither lose one nor put one back twice.
THEOREM PoolConserves == Spec => []ConnConservation
<1>1. PoolInv => ConnConservation
  BY DEF PoolInv, CountsInv
<1> QED
  BY <1>1, PoolInvariant, PTL

\* A connection that the health goroutine or Pool.Close has closed is not in the
\* queue, so no later Get is given it.
THEOREM QueueHasOpenOnes == Spec => []NoClosedInQueue
<1>1. PoolInv => NoClosedInQueue
  BY DEF PoolInv, SocketInv
<1> QED
  BY <1>1, PoolInvariant, PTL

\* use is exactly the number of callers between Get's increment and their Close.
THEOREM UseCountsHolders == Spec => []UseIsHolders
<1>1. PoolInv => UseIsHolders
  BY DEF PoolInv
<1> QED
  BY <1>1, PoolInvariant, PTL

\* The health goroutine closes a connection under a caller only if that caller's
\* Get was between its health test and its increment of use at the goroutine's
\* test of use.
THEOREM ClosedUnderRacersOnly == Spec => []ClosedOnlyInTheRace
<1>1. PoolInv => ClosedOnlyInTheRace
  <2> SUFFICES ASSUME PoolInv, NEW p \in Client,
                      pc[p] \in {"get_count", "holding"}, socket[conn[p]] = "recycled"
               PROVE  p \in racers
    BY DEF ClosedOnlyInTheRace
  <2>1. conn[p] \in Conn
    BY DEF PoolInv, PoolTypes, PlaceInv
  <2> QED
    BY <2>1 DEF PoolInv, RaceInv, Condemned
<1> QED
  BY <1>1, PoolInvariant, PTL

\* At most half of the pool, and one for each caller but one that races another
\* through the test of unHealthyCount, are unhealthy.
THEOREM EnoughRemainHealthy == Spec => []HealthyRemain
<1>1. PoolInv => HealthyRemain
  <2> SUFFICES ASSUME PoolInv PROVE HealthyRemain
    OBVIOUS
  <2>1. PICK n \in Int : Unwrapped(n)
    BY DEF PoolInv, CountInv, Unwrapped
  <2>2. Cardinality(Marked) \in Nat
    BY FS_Subset, FS_CardinalityType DEF PoolInv, CountsInv, Marked
  <2>3. /\ Cardinality(Counting) \in Nat /\ Cardinality(Deciding) \in Nat /\ Cardinality(Client) \in Nat
    BY ClientSets, ClientAssumption, FS_CardinalityType DEF Counting, Deciding
  <2>4. Cardinality(Marked) <= (Cap \div 2) + Cardinality(Client) - 1
    BY <2>1, <2>2, <2>3, CapType DEF Unwrapped
  <2> QED
    BY <2>4 DEF HealthyRemain, Marked
<1> QED
  BY <1>1, PoolInvariant, PTL

------------------------------------------------------------------------------
(* What a step does to the connections of the pool *)

\* Nobody but the goroutine that has closed the pool empties it.
CloserInv == kpc # "idle" => closed

LEMMA CloserNextInv == CloserInv /\ [Next]_vars => CloserInv'
<1> SUFFICES ASSUME CloserInv, [Next]_vars PROVE CloserInv'
  OBVIOUS
<1>1. ASSUME New PROVE CloserInv'
  BY <1>1 DEF New, NewDial, NewFails, CloserInv, closer
<1>2. ASSUME NEW p \in Client, GetCall(p) \/ CloseCall(p) \/ GetStep(p) \/ CtxDone(p) PROVE CloserInv'
  BY <1>2 DEF GetCall, CloseCall, GetStep, GetTimeout, GetTake, GetPut, GetTest, GetUse, GetCount,
              CtxDone, CloserInv, closer, pool
<1>3. ASSUME NEW p \in Client, CloseStep(p) PROVE CloserInv'
  BY <1>3 DEF CloseStep, CloseLife, CloseCount, Unhealthy, CloserInv, closer, pool
<1>4. ASSUME HealthStep PROVE CloserInv'
  BY <1>4 DEF HealthStep, HealthLoop, HealthTake, HealthTest, HealthShut, HealthDec, HealthPut,
              HealthUnchanged, CloserInv, closer, pool
<1>5. ASSUME PoolClose \/ PoolCloseStep PROVE CloserInv'
  BY <1>5 DEF PoolClose, PoolCloseStep, PoolCloseTake, PoolCloseShut, CloserInv, closer, pool
<1>6. ASSUME UNCHANGED vars PROVE CloserInv'
  BY <1>6 DEF vars, closer, pool, CloserInv
<1> QED
  BY <1>1, <1>2, <1>3, <1>4, <1>5, <1>6 DEF Next

\* Only four actions touch a socket.
LEMMA OthersKeepSockets ==
  ASSUME PoolInv,
         \/ NewFails \/ PoolClose \/ PoolCloseTake \/ UNCHANGED vars
         \/ HealthLoop \/ HealthTake \/ HealthTest \/ HealthPut
         \/ \E p \in Client : GetCall(p) \/ CloseCall(p) \/ GetStep(p) \/ CloseStep(p) \/ CtxDone(p)
  PROVE  Pooled' = Pooled /\ socket' = socket
<1>1. CASE NewFails \/ PoolClose \/ PoolCloseTake
  BY <1>1, NewFailsInv, PoolCloseInv, PoolCloseTakeInv
     DEF NewFails, PoolClose, PoolCloseTake, fields
<1>2. CASE HealthLoop \/ HealthTake \/ HealthTest \/ HealthPut
  BY <1>2, HealthLoopInv, HealthTakeInv, HealthTestInv, HealthPutInv
     DEF HealthLoop, HealthTake, HealthTest, HealthPut, fields
<1>3. CASE \E p \in Client : GetCall(p) \/ CloseCall(p) \/ GetStep(p) \/ CloseStep(p) \/ CtxDone(p)
  <2>1. PICK p \in Client : GetCall(p) \/ CloseCall(p) \/ GetStep(p) \/ CloseStep(p) \/ CtxDone(p)
    BY <1>3
  <2>2. CASE GetCall(p) \/ CloseCall(p) \/ CtxDone(p)
    BY <2>2, GetCallInv, CloseCallInv, CtxDoneInv DEF GetCall, CloseCall, CtxDone, fields
  <2>3. CASE GetStep(p)
    BY <2>3, GetTimeoutInv, GetTakeInv, GetPutInv, GetTestInv, GetUseInv, GetCountInv
       DEF GetStep, GetTimeout, GetTake, GetPut, GetTest, GetUse, GetCount, fields
  <2>4. CASE CloseStep(p)
    BY <2>4, CloseStepInv DEF CloseStep, CloseLife, CloseCount, Unhealthy
  <2> QED
    BY <2>1, <2>2, <2>3, <2>4
<1>4. CASE UNCHANGED vars
  BY <1>4, PoolStutter DEF vars, fields
<1> QED
  BY <1>1, <1>2, <1>3, <1>4

LEMMA PoolStep == PoolInv /\ CloserInv /\ [Next]_vars => MembersStep /\ SocketStep
<1> SUFFICES ASSUME PoolInv, CloserInv, [Next]_vars PROVE MembersStep /\ SocketStep
  OBVIOUS
<1>0. PoolTypes /\ PlaceInv /\ SocketInv /\ RaceInv
  BY DEF PoolInv
<1>1. CASE Pooled' = Pooled /\ socket' = socket
  BY <1>1 DEF MembersStep, SocketStep
<1>2. CASE NewDial
  <2>1. PICK c \in Fresh : socket' = [socket EXCEPT ![c] = "open"]
    BY <1>2 DEF NewDial
  <2>2. stage = "new"
    BY <1>2 DEF NewDial
  <2> QED
    BY <1>0, <2>1, <2>2 DEF MembersStep, SocketStep, Fresh, PoolTypes
<1>3. CASE HealthShut
  <2>1. hpc = "shut" /\ socket' = [socket EXCEPT ![hconn] = "recycled"]
    BY <1>3 DEF HealthShut
  <2>2. hconn \in Conn /\ hconn # Nil /\ socket[hconn] = "open"
    BY <1>0, <2>1 DEF PlaceInv, SocketInv, PoolTypes
  <2>3. hconn \in Pooled
    BY <2>2 DEF Pooled
  <2>4. Condemned(hconn)
    BY <2>1 DEF Condemned
  <2>5. unhealthy[hconn] /\ Racing(hconn)
    BY <1>0, <2>2, <2>4 DEF RaceInv, Racing
  <2>6. \A c \in Conn : socket'[c] # socket[c] => c = hconn /\ socket'[c] = "recycled"
    BY <1>0, <2>1, <2>2 DEF PoolTypes
  <2>7. SocketStep
    BY <2>2, <2>3, <2>5, <2>6 DEF SocketStep
  <2> QED
    BY <1>3, <2>7, HealthShutInv DEF MembersStep
<1>4. CASE HealthDec
  <2>1. /\ hconn \in Pooled /\ socket[hconn] = "recycled"
        /\ \E c \in Fresh : /\ socket' = [socket EXCEPT ![c] = "open"]
                          /\ Pooled' = (Pooled \ {hconn}) \cup {c}
    BY <1>4, HealthDecInv
  <2>2. PICK c \in Fresh : /\ socket' = [socket EXCEPT ![c] = "open"]
                          /\ Pooled' = (Pooled \ {hconn}) \cup {c}
    BY <2>1
  <2>3. socket[c] = "none" /\ socket'[c] = "open" /\ \A d \in Conn : d # c => socket'[d] = socket[d]
    BY <1>0, <2>2 DEF Fresh, PoolTypes
  <2>4. SocketStep
    BY <2>3 DEF SocketStep
  <2>5. MembersStep
    BY <2>1, <2>2, <2>3 DEF MembersStep
  <2> QED
    BY <2>4, <2>5
<1>5. CASE PoolCloseShut
  <2>1. kpc = "shut" /\ socket' = [socket EXCEPT ![kconn] = "drained"]
    BY <1>5 DEF PoolCloseShut
  <2>2. kconn \in Conn /\ kconn # Nil /\ socket[kconn] \in {"open", "drained"}
    BY <1>0, <2>1 DEF PlaceInv, SocketInv, PoolTypes
  <2>3. kconn \in Pooled /\ closed
    BY <2>1, <2>2 DEF Pooled, CloserInv
  <2>4. \A c \in Conn : socket'[c] # socket[c] => c = kconn /\ socket'[c] = "drained" /\ socket[c] = "open"
    BY <1>0, <2>1, <2>2 DEF PoolTypes
  <2>5. SocketStep
    BY <2>3, <2>4 DEF SocketStep
  <2> QED
    BY <1>5, <2>5, PoolCloseShutInv DEF MembersStep
<1> QED
  BY <1>1, <1>2, <1>3, <1>4, <1>5, OthersKeepSockets
     DEF Next, New, HealthStep, PoolCloseStep

\* No step takes a connection out of the pool but to replace a closed one by one
\* just dialled; no connection is dialled or closed twice; Pool.Close alone closes
\* a connection that is healthy, and the health goroutine one that is in use only
\* where its test of use could not see it.
THEOREM PoolReplacesWornOut == Spec => OnlyWornOutReplaced
<1>1. Init => CloserInv
  BY DEF Init, CloserInv
<1>2. CloserInv /\ [Next]_vars => CloserInv'
  BY CloserNextInv
<1>3. PoolInv /\ CloserInv /\ [Next]_vars => [MembersStep /\ SocketStep]_vars
  BY PoolStep
<1> QED
  BY <1>1, <1>2, <1>3, PoolInvariant, PTL DEF Spec, OnlyWornOutReplaced
=============================================================================
