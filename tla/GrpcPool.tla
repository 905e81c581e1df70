------------------------------ MODULE GrpcPool -------------------------------
(****************************************************************************)
(* pool/grpc.go: a pool of gRPC connections shared by client goroutines, a  *)
(* health goroutine that replaces worn-out connections, and Close.          *)
(*                                                                          *)
(* The free list is the atomic FIFO that LockFreeQueue implements.  Every   *)
(* access to a field several goroutines share (close, unHealthyCount, use,  *)
(* useCount, unhealthy) is an action of its own, except that a read of a    *)
(* value that only ever grows (expired, useCount, unhealthy) is joined with *)
(* the read that follows it: one read gives what the two could give.        *)
(*                                                                          *)
(* racers is a history variable: no guard reads it.                         *)
(****************************************************************************)
EXTENDS Integers, Sequences, FiniteSets, SequencesExt

CONSTANTS
  Client,     \* goroutines that call Get and ClientConn.Close
  Conn,       \* connections; a finite set bounds how many are ever dialled
  Capacity,   \* the argument of New
  MaxUse,     \* maxUseCount; 0 is no limit
  CountMod,   \* unHealthyCount is a uint64: 2^64 in the code
  Nil

ASSUME CapacityAssumption == Capacity \in Int
ASSUME MaxUseAssumption == MaxUse \in Nat
ASSUME CountModAssumption == CountMod \in Nat \ {0}
ASSUME NilAssumption == Nil \notin Conn
ASSUME ClientAssumption == IsFiniteSet(Client)

\* NewWithContext: default cap 2
Cap == IF Capacity < 2 THEN 2 ELSE Capacity

\* unHealthyCount counts every goroutine at once without wrapping.
ASSUME CountFits == Cap \div 2 + Cardinality(Client) <= CountMod

VARIABLES
  stage,          \* of the constructor: "new", "failed" or "up"
  clients,        \* Pool.clients, the free list
  closed,         \* Pool.close = 1
  unHealthyCount,
  socket,         \* per connection: "none", "open", or who closed it
  use, useCount,  \* per connection
  unhealthy,      \* per connection
  expired,        \* per connection: maxLifeDuration has passed since it was made
  pc, conn,       \* per client: next instruction, the ClientConn it has
  done,           \* per client: the context of its Get is done
  hpc, hconn,     \* the health goroutine
  kpc, kconn,     \* the goroutine in Pool.Close
  racers          \* history: clients between the health test and use + 1 of a
                  \* connection at the time the health goroutine condemned it

pool    == <<stage, clients, closed, unHealthyCount>>
fields  == <<socket, use, useCount, unhealthy, expired>>
client  == <<pc, conn, done>>
health  == <<hpc, hconn>>
closer  == <<kpc, kconn>>
vars    == <<pool, fields, client, health, closer, racers>>

GetPC   == {"get_take", "get_put", "get_test", "get_use", "get_count"}
ClosePC == {"close_life", "life_set", "life_inc", "close_count", "count_set", "count_inc"}

TypeOK ==
  /\ stage \in {"new", "failed", "up"}
  /\ clients \in Seq(Conn)
  /\ closed \in BOOLEAN
  /\ unHealthyCount \in 0..(CountMod - 1)
  /\ socket \in [Conn -> {"none", "open", "recycled", "drained"}]
  /\ use \in [Conn -> 0..Cardinality(Client)]
  /\ useCount \in [Conn -> 0..(MaxUse + 1)]
  /\ unhealthy \in [Conn -> BOOLEAN]
  /\ expired \in [Conn -> BOOLEAN]
  /\ pc \in [Client -> {"idle", "holding"} \cup GetPC \cup ClosePC]
  /\ conn \in [Client -> Conn \cup {Nil}]
  /\ done \in [Client -> BOOLEAN]
  /\ hpc \in {"off", "loop", "take", "test", "shut", "dec", "put"}
  /\ hconn \in Conn \cup {Nil}
  /\ kpc \in {"idle", "take", "shut", "returned"}
  /\ kconn \in Conn \cup {Nil}
  /\ racers \subseteq Client

Init ==
  /\ stage = "new"
  /\ clients = <<>>
  /\ closed = FALSE
  /\ unHealthyCount = 0
  /\ socket = [c \in Conn |-> "none"]
  /\ use = [c \in Conn |-> 0] /\ useCount = [c \in Conn |-> 0]
  /\ unhealthy = [c \in Conn |-> FALSE] /\ expired = [c \in Conn |-> FALSE]
  /\ pc = [p \in Client |-> "idle"]
  /\ conn = [p \in Client |-> Nil]
  /\ done = [p \in Client |-> FALSE]
  /\ hpc = "off" /\ hconn = Nil
  /\ kpc = "idle" /\ kconn = Nil
  /\ racers = {}

Fresh == {c \in Conn : socket[c] = "none"}

------------------------------------------------------------------------------
(* NewWithContext: Cap connections, or the error of the first that fails *)

NewDial ==
  /\ stage = "new" /\ Len(clients) < Cap
  /\ \E c \in Fresh :
       /\ socket' = [socket EXCEPT ![c] = "open"]
       /\ clients' = Append(clients, c)
       /\ IF Len(clients) + 1 = Cap
          THEN stage' = "up" /\ hpc' = "loop"
          ELSE UNCHANGED <<stage, hpc>>
  /\ UNCHANGED <<closed, unHealthyCount, use, useCount, unhealthy, expired,
                 client, hconn, closer, racers>>

NewFails ==
  /\ stage = "new"
  /\ stage' = "failed"
  /\ UNCHANGED <<clients, closed, unHealthyCount, fields, client, health, closer, racers>>

------------------------------------------------------------------------------
(* Pool.Get *)

Goto(p, label) == pc' = [pc EXCEPT ![p] = label]

\* The call returns, or ClientConn.Close does.
Leave(p) ==
  /\ Goto(p, "idle")
  /\ conn' = [conn EXCEPT ![p] = Nil]
  /\ done' = [done EXCEPT ![p] = FALSE]

\* The call, and if p.IsClosed() { return nil, ErrClosed }
GetCall(p) ==
  /\ stage = "up" /\ pc[p] = "idle"
  /\ IF closed THEN UNCHANGED pc ELSE Goto(p, "get_take")
  /\ UNCHANGED <<pool, fields, conn, done, health, closer, racers>>

\* Mutant: the context is looked at only while the free list is empty.
GetTimeoutEmpty(p) ==
  /\ pc[p] = "get_take" /\ done[p] /\ clients = <<>>
  /\ Leave(p)
  /\ UNCHANGED <<pool, fields, health, closer, racers>>

\* case <-ctx.Done(): return nil, ErrTimeout
GetTimeout(p) ==
  /\ pc[p] = "get_take" /\ done[p]
  /\ Leave(p)
  /\ UNCHANGED <<pool, fields, health, closer, racers>>

\* default: Dequeue.  A context that ends between the two is seen next time
\* round, as one that ends just after the Dequeue.
GetTake(p) ==
  /\ pc[p] = "get_take" /\ ~ done[p]
  /\ IF clients = <<>>
     THEN UNCHANGED <<clients, pc, conn>>
     ELSE /\ conn' = [conn EXCEPT ![p] = Head(clients)]
          /\ clients' = Tail(clients)
          /\ Goto(p, "get_put")
  /\ UNCHANGED <<stage, closed, unHealthyCount, fields, done, health, closer, racers>>

\* Mutant: an unhealthy connection is not put back.
GetPutHealthy(p) ==
  /\ pc[p] = "get_put"
  /\ clients' = IF unhealthy[conn[p]] THEN clients ELSE Append(clients, conn[p])
  /\ Goto(p, "get_test")
  /\ UNCHANGED <<stage, closed, unHealthyCount, fields, conn, done, health, closer, racers>>

GetPut(p) ==
  /\ pc[p] = "get_put"
  /\ clients' = Append(clients, conn[p])
  /\ Goto(p, "get_test")
  /\ UNCHANGED <<stage, closed, unHealthyCount, fields, conn, done, health, closer, racers>>

\* if conn.IsHealthy(): an unhealthy one is dropped and the loop starts over
GetTest(p) ==
  /\ pc[p] = "get_test"
  /\ IF unhealthy[conn[p]]
     THEN Goto(p, "get_take") /\ conn' = [conn EXCEPT ![p] = Nil]
     ELSE Goto(p, "get_use") /\ UNCHANGED conn
  /\ UNCHANGED <<pool, fields, done, health, closer, racers>>

\* Mutant: use is not incremented.
GetUseNot(p) ==
  /\ pc[p] = "get_use"
  /\ Goto(p, "get_count")
  /\ UNCHANGED <<pool, fields, conn, done, health, closer, racers>>

GetUse(p) ==
  /\ pc[p] = "get_use"
  /\ use' = [use EXCEPT ![conn[p]] = @ + 1]
  /\ Goto(p, "get_count")
  /\ UNCHANGED <<pool, socket, useCount, unhealthy, expired, conn, done, health, closer, racers>>

\* useCount is only ever compared with MaxUse: it stops at MaxUse + 1.
GetCount(p) ==
  /\ pc[p] = "get_count"
  /\ useCount' = [useCount EXCEPT ![conn[p]] = IF @ > MaxUse THEN @ ELSE @ + 1]
  /\ Goto(p, "holding")
  /\ done' = [done EXCEPT ![p] = FALSE]
  /\ UNCHANGED <<pool, socket, use, unhealthy, expired, conn, health, closer, racers>>

------------------------------------------------------------------------------
(* ClientConn.Close *)

\* The call: use is decremented.
CloseCall(p) ==
  /\ pc[p] = "holding"
  /\ use' = [use EXCEPT ![conn[p]] = @ - 1]
  /\ Goto(p, "close_life")
  /\ racers' = racers \ {p}
  /\ UNCHANGED <<pool, socket, useCount, unhealthy, expired, conn, done, health, closer>>

\* Mutant: the whole pool.
LimitAll == Cap

\* uint64(c.pool.cap/2): as many may be unhealthy at a time
Limit == Cap \div 2

\* Close goes on at a label, or returns.
After(p, label) ==
  IF label = "idle" THEN Leave(p) ELSE Goto(p, label) /\ UNCHANGED <<conn, done>>

\* Unhealthy() from either of its two calls in Close, which is made when
\* `cond': it tests unHealthyCount, sets the flag, increments the count.  The
\* labels are those of that call and of what follows it.
Unhealthy(p, cond, test, set, inc, after) ==
  \/ /\ pc[p] = test
     /\ After(p, IF cond /\ unHealthyCount < Limit THEN set ELSE after)
     /\ UNCHANGED <<pool, socket, use, useCount, unhealthy, health, closer, racers>>
  \/ /\ pc[p] = set
     /\ unhealthy' = [unhealthy EXCEPT ![conn[p]] = TRUE]
     /\ Goto(p, inc)
     /\ UNCHANGED <<pool, socket, use, useCount, conn, done, health, closer, racers>>
  \/ /\ pc[p] = inc
     /\ unHealthyCount' = (unHealthyCount + 1) % CountMod
     /\ After(p, after)
     /\ UNCHANGED <<stage, clients, closed, socket, use, useCount, unhealthy, health, closer, racers>>

\* The clock is read when the lifetime is tested: a connection that has
\* expired stays expired.
CloseLife(p) ==
  \E late \in BOOLEAN :
    /\ Unhealthy(p, late, "close_life", "life_set", "life_inc", "close_count")
    /\ expired[conn[p]] => late
    /\ expired' = [expired EXCEPT ![conn[p]] = late]

CloseCount(p) ==
  /\ Unhealthy(p, MaxUse > 0 /\ useCount[conn[p]] > MaxUse,
               "close_count", "count_set", "count_inc", "idle")
  /\ UNCHANGED expired

------------------------------------------------------------------------------
(* The health goroutine *)

HealthUnchanged == UNCHANGED <<stage, closed, client, closer>>

\* Mutant: for { }
HealthLoopForever ==
  /\ hpc = "loop"
  /\ hpc' = "take"
  /\ UNCHANGED <<pool, fields, client, hconn, closer, racers>>

\* for !p.IsClosed(), after the sleep
HealthLoop ==
  /\ hpc = "loop"
  /\ hpc' = IF closed THEN "off" ELSE "take"
  /\ UNCHANGED <<pool, fields, client, hconn, closer, racers>>

HealthTake ==
  /\ hpc = "take"
  /\ IF clients = <<>>
     THEN hpc' = "loop" /\ UNCHANGED <<clients, hconn>>
     ELSE /\ hconn' = Head(clients)
          /\ clients' = Tail(clients)
          /\ hpc' = "test"
  /\ HealthUnchanged
  /\ UNCHANGED <<unHealthyCount, fields, racers>>

\* Mutant: use is not looked at.
HealthTestUnused ==
  /\ hpc = "test"
  /\ IF unhealthy[hconn]
     THEN /\ hpc' \in IF Fresh = {} THEN {"put"} ELSE {"put", "shut"}
          /\ racers' = racers \cup {p \in Client : pc[p] = "get_use" /\ conn[p] = hconn}
     ELSE hpc' = "put" /\ UNCHANGED racers
  /\ HealthUnchanged
  /\ UNCHANGED <<clients, unHealthyCount, fields, hconn>>

\* !conn.IsHealthy() && conn.use == 0, and p.factory: it may fail, and does
\* when Conn has no connection left.
HealthTest ==
  /\ hpc = "test"
  /\ IF unhealthy[hconn] /\ use[hconn] = 0
     THEN /\ hpc' \in IF Fresh = {} THEN {"put"} ELSE {"put", "shut"}
          /\ racers' = racers \cup {p \in Client : pc[p] = "get_use" /\ conn[p] = hconn}
     ELSE hpc' = "put" /\ UNCHANGED racers
  /\ HealthUnchanged
  /\ UNCHANGED <<clients, unHealthyCount, fields, hconn>>

HealthShut ==
  /\ hpc = "shut"
  /\ socket' = [socket EXCEPT ![hconn] = "recycled"]
  /\ hpc' = "dec"
  /\ HealthUnchanged
  /\ UNCHANGED <<clients, unHealthyCount, use, useCount, unhealthy, expired, hconn, racers>>

\* Mutant: the closed connection stays in conn.
HealthDecKeep ==
  /\ hpc = "dec"
  /\ unHealthyCount' = (unHealthyCount + CountMod - 1) % CountMod
  /\ hpc' = "put"
  /\ HealthUnchanged
  /\ UNCHANGED <<clients, fields, hconn, racers>>

\* The decrement, and conn = newClientConn(p, c): until it is in the queue the
\* health goroutine alone knows the connection it dialled.
HealthDec ==
  /\ hpc = "dec"
  /\ unHealthyCount' = (unHealthyCount + CountMod - 1) % CountMod
  /\ \E c \in Fresh : hconn' = c /\ socket' = [socket EXCEPT ![c] = "open"]
  /\ hpc' = "put"
  /\ HealthUnchanged
  /\ UNCHANGED <<clients, use, useCount, unhealthy, expired, racers>>

HealthPut ==
  /\ hpc = "put"
  /\ clients' = Append(clients, hconn)
  /\ hconn' = Nil
  /\ hpc' = "loop"
  /\ HealthUnchanged
  /\ UNCHANGED <<unHealthyCount, fields, racers>>

------------------------------------------------------------------------------
(* Pool.Close *)

\* Only the call that wins the CAS does anything: one closer is enough.
PoolClose ==
  /\ stage = "up" /\ kpc = "idle" /\ ~ closed
  /\ closed' = TRUE
  /\ kpc' = "take"
  /\ UNCHANGED <<stage, clients, unHealthyCount, fields, client, health, kconn, racers>>

\* for v := p.clients.Dequeue(): the loop's only Dequeue
PoolCloseTake ==
  /\ kpc = "take"
  /\ IF clients = <<>>
     THEN kpc' = "returned" /\ UNCHANGED <<clients, kconn>>
     ELSE /\ kconn' = Head(clients)
          /\ clients' = Tail(clients)
          /\ kpc' = "shut"
  /\ UNCHANGED <<stage, closed, unHealthyCount, fields, client, health, racers>>

\* v != nil: close v, and again
PoolCloseShut ==
  /\ kpc = "shut"
  /\ socket' = [socket EXCEPT ![kconn] = "drained"]
  /\ UNCHANGED <<pool, use, useCount, unhealthy, expired, client, health, closer, racers>>

------------------------------------------------------------------------------
(* The callers' contexts *)

\* The caller's context is cancelled or times out during Get.
CtxDone(p) ==
  /\ pc[p] \in GetPC /\ ~ done[p]
  /\ done' = [done EXCEPT ![p] = TRUE]
  /\ UNCHANGED <<pool, fields, pc, conn, health, closer, racers>>

------------------------------------------------------------------------------
New == NewDial \/ NewFails

GetStep(p) ==
  \/ GetTimeout(p) \/ GetTake(p) \/ GetPut(p)
  \/ GetTest(p) \/ GetUse(p) \/ GetCount(p)

CloseStep(p) == CloseLife(p) \/ CloseCount(p)

HealthStep ==
  \/ HealthLoop \/ HealthTake \/ HealthTest
  \/ HealthShut \/ HealthDec \/ HealthPut

PoolCloseStep == PoolCloseTake \/ PoolCloseShut

Next ==
  \/ New
  \/ \E p \in Client : GetCall(p) \/ CloseCall(p) \/ GetStep(p) \/ CloseStep(p) \/ CtxDone(p)
  \/ HealthStep
  \/ PoolClose \/ PoolCloseStep

Spec == Init /\ [][Next]_vars

\* Goroutines that can run do run.  When to call, to close, and to end a
\* context is up to the callers.
FairSpec ==
  /\ Spec
  /\ WF_vars(New) /\ WF_vars(HealthStep) /\ WF_vars(PoolCloseStep)
  /\ \A p \in Client : WF_vars(GetStep(p)) /\ WF_vars(CloseStep(p))

------------------------------------------------------------------------------
(* Safety *)

\* The connections of the pool: in the free list, or for a moment in the
\* hands of a Get, of the health goroutine or of Close.
InHand(p) == pc[p] = "get_put"

Conserved ==
  stage = "up" =>
    Len(clients) + Cardinality({p \in Client : InHand(p)})
      + (IF hconn = Nil THEN 0 ELSE 1) + (IF kconn = Nil THEN 0 ELSE 1) = Cap

Pooled ==
  ToSet(clients) \cup {conn[p] : p \in {q \in Client : InHand(q)}} \cup ({hconn, kconn} \ {Nil})

\* No connection of the pool is lost or put back twice by Get, the health
\* goroutine and Close, which all take connections out of the same queue and
\* put them back concurrently.
ConnConservation ==
  Conserved /\ (stage = "up" => Cardinality(Pooled) = Cap)

\* A connection somebody closed is never in the free list, so a Get that
\* starts later cannot be given it.
NoClosedInQueue ==
  \A i \in DOMAIN clients : socket[clients[i]] = "open"

\* use is the number of callers that hold the connection: it cannot underflow
\* and the health goroutine can trust it.
UseIsHolders ==
  \A c \in Conn :
    use[c] = Cardinality({p \in Client : conn[p] = c /\ pc[p] \in {"get_count", "holding"}})

\* The health goroutine closes a connection under a caller only if that Get
\* had passed its health test and not yet incremented use when use was tested:
\* a caller that Get has returned to, and one that starts Get later, is safe.
ClosedOnlyInTheRace ==
  \A p \in Client :
    pc[p] \in {"get_count", "holding"} /\ socket[conn[p]] = "recycled" => p \in racers

\* Unhealthy() leaves Cap - Cap/2 connections alone, less one for every caller
\* that races another through its test of unHealthyCount.
HealthyRemain ==
  Cardinality({c \in Pooled : unhealthy[c]}) <= (Cap \div 2) + Cardinality(Client) - 1

\* Once the pool is up, its connections change in one way: a closed one makes
\* room for one that was just dialled.
MembersStep ==
  stage = "up" /\ Pooled' # Pooled =>
    \E c \in Pooled, d \in Fresh :
      /\ socket[c] = "recycled" /\ socket'[d] = "open"
      /\ Pooled' = (Pooled \ {c}) \cup {d}

\* Who may get a connection from c, or has one: those the test of use saw.
Racing(c) ==
  {p \in Client : conn[p] = c /\ pc[p] \in {"get_use", "get_count", "holding"}} \subseteq racers

\* A connection is dialled once and closed at most once: by the health
\* goroutine when it is worn out, by Close when the pool is closed.
SocketStep ==
  \A c \in Conn : socket'[c] # socket[c] =>
    \/ socket[c] = "none" /\ socket'[c] = "open"
    \/ /\ socket[c] = "open" /\ c \in Pooled
       /\ \/ socket'[c] = "recycled" /\ unhealthy[c] /\ Racing(c)
          \/ socket'[c] = "drained" /\ closed

\* A step never takes a connection out of the pool but to replace it, and the
\* health goroutine closes none that is healthy, or is in use and the test of
\* use could have shown it.
OnlyWornOutReplaced == [][MembersStep /\ SocketStep]_vars

------------------------------------------------------------------------------
(* What comments of grpc.go say of the pool *)

\* No Close, and no replacement, is under way.
Settled == hpc \in {"off", "loop", "take"} /\ \A p \in Client : pc[p] \notin ClosePC

\* unHealthyCount, the number of unhealthy clients in the pool (grpc.go:41)
UnhealthyCountExact ==
  Settled => unHealthyCount = Cardinality({c \in Pooled : unhealthy[c]})

\* Close goes through the connections in the queue and closes them (grpc.go:182)
CloseDrains == closed ~> clients = <<>>

------------------------------------------------------------------------------
(* Liveness *)

\* A Get whose context is done returns, whatever the state of the pool.
GetReturns ==
  \A p \in Client : (pc[p] \in GetPC /\ done[p]) ~> (pc[p] \notin GetPC)

\* The health goroutine of a closed pool ends.
HealthStops == closed ~> hpc = "off"
==============================================================================
