------------------------------ MODULE RedisLock ------------------------------
(****************************************************************************)
(* redis/lock.go: a lock that is a Redis key with a time to live, set by    *)
(* whoever finds it absent, renewed by a goroutine while it is held, and    *)
(* deleted by the unlock function.                                          *)
(*                                                                          *)
(* Time passes in seconds (Tick), between any two steps of anybody: a       *)
(* reply, a renewal or a delete may come any number of seconds late.  The   *)
(* value of the key is the same for everybody, so nothing reads who set it; *)
(* owner, owed, overdue and lapsed are history variables.                   *)
(****************************************************************************)
EXTENDS Integers, FiniteSets

CONSTANTS
  Client,   \* goroutines, of one or of several processes, one Lock call each at a time
  TTL,      \* expire
  Try,      \* the argument try
  Nobody

ASSUME TTLAssumption == TTL \in Nat /\ TTL >= 2
ASSUME TryAssumption == Try \in Int
ASSUME NobodyAssumption == Nobody \notin Client

\* start: the ticker ticks every ttl / 2 seconds, in whole seconds
Interval == TTL \div 2

VARIABLES
  ttl,       \* of the key, 0 if there is none
  pc,        \* per client: in Lock, holding, in unlock, or crashed
  i,         \* per client: the loop variable of Lock
  renewer,   \* per client: its goroutine: "off", "starting", "on", "cancelled"
  timer,     \* per client: seconds to the next tick
  due,       \* per client: a tick is waiting in the channel
  owner,     \* history: who set the key
  owed,      \* history: per client: a tick has come and no EXPIRE has succeeded since
  overdue,   \* history: per client: for how many seconds the renewal has been late
  lapsed     \* history: a key has expired under a client that relied on it

key   == <<ttl, owner>>
timed == <<timer, due, owed, overdue>>
lockVars == <<key, pc, i, renewer, timed, lapsed>>

LockTypeOK ==
  /\ ttl \in 0..TTL /\ owner \in Client \cup {Nobody}
  /\ ttl = 0 <=> owner = Nobody
  /\ pc \in [Client -> {"idle", "set", "sleep", "reply", "holding", "del", "crashed"}]
  /\ i \in [Client -> Nat]
  /\ renewer \in [Client -> {"off", "starting", "on", "cancelled"}]
  /\ timer \in [Client -> 0..Interval]
  /\ due \in [Client -> BOOLEAN]
  /\ owed \in [Client -> BOOLEAN]
  /\ overdue \in [Client -> 0..TTL]
  /\ lapsed \in BOOLEAN

LockInit ==
  /\ ttl = 0 /\ owner = Nobody
  /\ pc = [p \in Client |-> "idle"]
  /\ i = [p \in Client |-> 0]
  /\ renewer = [p \in Client |-> "off"]
  /\ timer = [p \in Client |-> 0]
  /\ due = [p \in Client |-> FALSE]
  /\ owed = [p \in Client |-> FALSE]
  /\ overdue = [p \in Client |-> 0]
  /\ lapsed = FALSE

Goto(p, label) == pc' = [pc EXCEPT ![p] = label]

\* The clients that believe the key is theirs, or will when the reply comes.
Relying == {p \in Client : pc[p] \in {"reply", "holding", "del"}}

------------------------------------------------------------------------------
(* Lock *)

\* A client that locks again while its cancelled goroutine lingers is another
\* member of Client.
LockCall(p) ==
  /\ pc[p] = "idle" /\ renewer[p] = "off"
  /\ i' = [i EXCEPT ![p] = 0]
  /\ IF Try >= 0 THEN Goto(p, "set") ELSE UNCHANGED pc
  /\ UNCHANGED <<key, renewer, timed, lapsed>>

\* Mutant: the loop does not count its attempts.
TryForever(p) ==
  IF i[p] = Try
  THEN Goto(p, "idle") /\ i' = [i EXCEPT ![p] = 0]
  ELSE Goto(p, "sleep") /\ UNCHANGED i

\* The attempt failed: return false after the last one, else sleep.
TryFailed(p) ==
  IF i[p] = Try
  THEN Goto(p, "idle") /\ i' = [i EXCEPT ![p] = 0]
  ELSE Goto(p, "sleep") /\ i' = [i EXCEPT ![p] = @ + 1]

\* Mutant: SET without nx.
SetAnyway(p) ==
  /\ pc[p] = "set"
  /\ ttl' = TTL /\ owner' = p
  /\ Goto(p, "reply")
  /\ overdue' = [overdue EXCEPT ![p] = 0]
  /\ UNCHANGED <<i, renewer, timer, due, owed, lapsed>>

\* SET key lock ex 3 nx finds no key, and the reply will reach the client.
SetKey(p) ==
  /\ pc[p] = "set" /\ ttl = 0
  /\ ttl' = TTL /\ owner' = p
  /\ Goto(p, "reply")
  /\ overdue' = [overdue EXCEPT ![p] = 0]
  /\ UNCHANGED <<i, renewer, timer, due, owed, lapsed>>

\* Mutant: the reply is not compared with OK.
SetUnchecked(p) ==
  /\ pc[p] = "set"
  /\ Goto(p, "reply")
  /\ UNCHANGED <<key, i, renewer, timed, lapsed>>

\* There is a key; or the request is lost; or it sets the key and its reply
\* is lost.  err # nil or a nil reply, it is all one to Lock.
SetFails(p) ==
  /\ pc[p] = "set"
  /\ TryFailed(p)
  /\ \/ UNCHANGED key
     \/ ttl = 0 /\ ttl' = TTL /\ owner' = p
  /\ UNCHANGED <<renewer, timed, lapsed>>

Wake(p) ==
  /\ pc[p] = "sleep"
  /\ Goto(p, "set")
  /\ UNCHANGED <<key, i, renewer, timed, lapsed>>

\* err == nil && ok == "OK": go start(...), return the unlock function, true
LockReturn(p) ==
  /\ pc[p] = "reply"
  /\ Goto(p, "holding")
  /\ i' = [i EXCEPT ![p] = 0]
  /\ renewer' = [renewer EXCEPT ![p] = "starting"]
  /\ UNCHANGED <<key, timed, lapsed>>

------------------------------------------------------------------------------
(* start: the goroutine that maintains the ttl *)

\* time.Tick
RenewStart(p) ==
  /\ renewer[p] = "starting"
  /\ renewer' = [renewer EXCEPT ![p] = "on"]
  /\ timer' = [timer EXCEPT ![p] = Interval]
  /\ UNCHANGED <<key, pc, i, due, owed, overdue, lapsed>>

\* A renewal of p that succeeds, or may as well have.
Renewed(p) ==
  /\ renewer[p] \in {"on", "cancelled"} /\ due[p]
  /\ due' = [due EXCEPT ![p] = FALSE]
  /\ owed' = [owed EXCEPT ![p] = FALSE]
  /\ overdue' = [overdue EXCEPT ![p] = 0]
  /\ UNCHANGED <<pc, i, renewer, timer, lapsed>>

\* Mutant: the tick never leads to an EXPIRE.
RenewNever(p) == Renewed(p) /\ UNCHANGED key

\* case <-tick, which select may choose after the cancel too: EXPIRE sets the
\* ttl of the key, whoever set it, if there is one.
Renew(p) ==
  /\ Renewed(p)
  /\ ttl' = IF ttl = 0 THEN 0 ELSE TTL
  /\ UNCHANGED owner

\* The EXPIRE fails: the error is logged, the next tick tries again.
RenewFails(p) ==
  /\ renewer[p] \in {"on", "cancelled"} /\ due[p]
  /\ due' = [due EXCEPT ![p] = FALSE]
  /\ UNCHANGED <<key, pc, i, renewer, timer, owed, overdue, lapsed>>

\* Mutant: the goroutine does not listen to ctx.Done().
RenewGoesOn(p) == renewer[p] = "cancelled" /\ UNCHANGED lockVars

\* case <-ctx.Done()
RenewEnds(p) ==
  /\ renewer[p] = "cancelled"
  /\ renewer' = [renewer EXCEPT ![p] = "off"]
  /\ due' = [due EXCEPT ![p] = FALSE]
  /\ timer' = [timer EXCEPT ![p] = 0]
  /\ owed' = [owed EXCEPT ![p] = FALSE]
  /\ overdue' = [overdue EXCEPT ![p] = 0]
  /\ UNCHANGED <<key, pc, i, lapsed>>

------------------------------------------------------------------------------
(* The unlock function, called once *)

\* cancel()
Unlock(p) ==
  /\ pc[p] = "holding"
  /\ Goto(p, "del")
  /\ renewer' = [renewer EXCEPT ![p] = "cancelled"]
  /\ UNCHANGED <<key, i, timed, lapsed>>

\* DEL, whoever set the key; if it fails the error is logged.
Del(p) ==
  /\ pc[p] = "del"
  /\ Goto(p, "idle")
  /\ \/ ttl' = 0 /\ owner' = Nobody
     \/ UNCHANGED key
  /\ UNCHANGED <<i, renewer, timed, lapsed>>

------------------------------------------------------------------------------
(* The environment *)

\* The process of p dies, with its goroutines.
Crash(p) ==
  /\ pc[p] # "crashed"
  /\ Goto(p, "crashed")
  /\ i' = [i EXCEPT ![p] = 0]
  /\ renewer' = [renewer EXCEPT ![p] = "off"]
  /\ timer' = [timer EXCEPT ![p] = 0]
  /\ due' = [due EXCEPT ![p] = FALSE]
  /\ owed' = [owed EXCEPT ![p] = FALSE]
  /\ overdue' = [overdue EXCEPT ![p] = 0]
  /\ UNCHANGED <<key, lapsed>>

Ticking(p) == renewer[p] \in {"on", "cancelled"}

\* The renewal of p is late: it is owed, or its ticker has not started yet.
Late(p) == owed[p] \/ pc[p] = "reply" \/ renewer[p] = "starting"

\* One second passes.  The key may expire, tickers may tick: the channel of a
\* ticker holds one tick, more are dropped.
Tick ==
  LET fired(p) == Ticking(p) /\ timer[p] <= 1 IN
  /\ ttl' = IF ttl = 0 THEN 0 ELSE ttl - 1
  /\ owner' = IF ttl' = 0 THEN Nobody ELSE owner
  /\ lapsed' = (lapsed \/ (ttl = 1 /\ owner \in Relying))
  /\ timer' = [p \in Client |->
       IF fired(p) THEN Interval ELSE IF Ticking(p) THEN timer[p] - 1 ELSE timer[p]]
  /\ due' = [p \in Client |-> due[p] \/ fired(p)]
  /\ owed' = [p \in Client |-> owed[p] \/ fired(p)]
  /\ overdue' = [p \in Client |->
       IF Late(p) /\ overdue[p] < TTL THEN overdue[p] + 1 ELSE overdue[p]]
  /\ UNCHANGED <<pc, i, renewer>>

------------------------------------------------------------------------------
ClientStep(p) ==
  \/ SetKey(p) \/ SetFails(p) \/ Wake(p) \/ LockReturn(p) \/ Del(p)

RenewStep(p) == RenewStart(p) \/ Renew(p) \/ RenewFails(p) \/ RenewEnds(p)

LockNext ==
  \/ \E p \in Client : LockCall(p) \/ ClientStep(p) \/ RenewStep(p) \/ Unlock(p) \/ Crash(p)
  \/ Tick

\* Time passes and goroutines run, and select does not ignore a ready
\* ctx.Done() for ever; nobody has to lock, unlock or crash.
LockSpec ==
  /\ LockInit /\ [][LockNext]_lockVars
  /\ WF_lockVars(Tick)
  /\ \A p \in Client :
       WF_lockVars(ClientStep(p)) /\ WF_lockVars(RenewStep(p)) /\ WF_lockVars(RenewEnds(p))

------------------------------------------------------------------------------
(* Properties *)

\* As long as no key has expired under a client that relied on it, whoever
\* holds the lock owns the key, and so at most one client holds it, whatever
\* replies are lost, deletes fail, late EXPIREs arrive and processes crash.
HolderOwnsKey ==
  ~ lapsed => \A p \in Client : pc[p] = "holding" => owner = p

\* The key of a live holder expires only after the renewal has been late, or
\* has failed, for TTL - Interval seconds: the slack the tick of ttl/2 leaves.
RenewalSlack ==
  \A p \in Client :
    owner = p /\ pc[p] \in {"reply", "holding"} => ttl + overdue[p] >= TTL - Interval

\* What makes the two inductive.  Whoever relies on the key owns it until a
\* lapse, from the reply on.
OwnerInv == ~ lapsed => \A p \in Client : p \in Relying => owner = p

\* Where the goroutine of a client is when the client is somewhere.
RenewerInv(p) ==
  /\ pc[p] \in {"set", "sleep", "reply"} => renewer[p] = "off"
  /\ pc[p] = "holding" => renewer[p] \in {"starting", "on"}
  /\ renewer[p] = "on" => timer[p] >= 1

\* Until its ticker runs, and from a tick on until the EXPIRE, the time that
\* the key loses is counted as lateness; in between it is on the timer.
SlackInv(p) ==
  owner = p /\ pc[p] \in {"reply", "holding"} =>
    /\ renewer[p] # "on" => ttl + overdue[p] >= TTL
    /\ renewer[p] = "on" /\ ~ owed[p] => ttl + overdue[p] >= TTL - Interval + timer[p]
    /\ ttl + overdue[p] >= TTL - Interval

LockInv == LockTypeOK /\ OwnerInv /\ \A p \in Client : RenewerInv(p) /\ SlackInv(p)

\* Where a client is, as its caller sees it.
Phase(p) ==
  CASE pc[p] = "idle"             -> "out"
    [] pc[p] \in {"set", "sleep"} -> "asking"
    [] pc[p] = "crashed"          -> "dead"
    [] OTHER                      -> "granted"

L == INSTANCE LeaseLock WITH taken <- ttl > 0, phase <- [p \in Client |-> Phase(p)]

\* The lock of lock.go is a lock on lease: it is granted to one client at a
\* time, only while it is free, until a key expires under a client, whatever
\* requests and replies are lost, however late the renewals come and whoever
\* crashes.
GrantedOnLease == L!Spec

\* A crashed holder does not keep the lock, except that another client which
\* lost the key in a lapse may go on renewing it, not knowing it is not its own.
CrashFrees ==
  \A p \in Client :
    (pc[p] = "crashed" /\ owner = p) ~>
      (owner # p \/ \E q \in Client : pc[q] = "holding")

\* Lock returns.
LockReturns ==
  \A p \in Client : (pc[p] = "set") ~> (pc[p] \in {"idle", "holding", "crashed"})
==============================================================================
