-------------------------- MODULE RedisClientProofs --------------------------
(****************************************************************************)
(* Accounted for any number of callers, connections and elements: a command *)
(* of redis.go that has gone past its defer neither keeps its connection    *)
(* nor gives it back twice.  AccessInv is inductive: it says that a live    *)
(* connection is always of one of the kinds that Accounted counts.          *)
(****************************************************************************)
EXTENDS RedisClient, FiniteSetTheorems, TLAPS

Live(c) == {p \in Caller : c[p] = "live"}

\* One caller's Connect changes: the number of live ones follows.
LEMMA LiveCount ==
  ASSUME NEW c, NEW d, NEW p \in Caller,
         \A q \in Caller \ {p} : d[q] = c[q]
  PROVE  /\ Cardinality(Live(c)) \in Nat /\ Cardinality(Live(d)) \in Nat
         /\ c[p] # "live" /\ d[p] = "live" => Cardinality(Live(d)) = Cardinality(Live(c)) + 1
         /\ c[p] = "live" /\ d[p] # "live" => Cardinality(Live(d)) = Cardinality(Live(c)) - 1
         /\ (c[p] = "live" <=> d[p] = "live") => Cardinality(Live(d)) = Cardinality(Live(c))
<1>1. IsFiniteSet(Live(c)) /\ IsFiniteSet(Live(d))
  BY CallerAssumption, FS_Subset DEF Live
<1>2. Cardinality(Live(c)) \in Nat /\ Cardinality(Live(d)) \in Nat
  BY <1>1, FS_CardinalityType
<1>3. ASSUME c[p] # "live", d[p] = "live"
      PROVE  Cardinality(Live(d)) = Cardinality(Live(c)) + 1
  <2>1. Live(d) = Live(c) \cup {p} /\ p \notin Live(c)
    BY <1>3 DEF Live
  <2> QED
    BY <1>1, <2>1, FS_AddElement
<1>4. ASSUME c[p] = "live", d[p] # "live"
      PROVE  Cardinality(Live(d)) = Cardinality(Live(c)) - 1
  <2>1. Live(d) = Live(c) \ {p} /\ p \in Live(c)
    BY <1>4 DEF Live
  <2> QED
    BY <1>1, <2>1, FS_RemoveElement
<1>5. ASSUME c[p] = "live" <=> d[p] = "live"
      PROVE  Cardinality(Live(d)) = Cardinality(Live(c))
  <2>1. Live(d) = Live(c)
    BY <1>5 DEF Live
  <2> QED
    BY <2>1
<1> QED
  BY <1>2, <1>3, <1>4, <1>5

Running(r) == IF r = "running" THEN 1 ELSE 0

\* Whoever has a live connection holds it as Holding says.
Explained == \A p \in Caller : conn[p] = "live" => p \in Holding

LEMMA HoldingLive == Explained => Holding = Live(conn)
BY DEF Explained, Holding, Live

LEMMA AccountedIs ==
  ASSUME Explained
  PROVE  Accounted <=> /\ borrowed = Cardinality(Live(conn)) + leaked + Running(ready)
                       /\ borrowed \in 0..MaxActive
BY HoldingLive DEF Accounted, Running

\* The same of the next state.
LEMMA AccountedIsNext ==
  ASSUME Explained'
  PROVE  Accounted' <=> /\ borrowed' = Cardinality(Live(conn')) + leaked' + Running(ready')
                        /\ borrowed' \in 0..MaxActive
<1>1. Holding' = Live(conn')
  BY DEF Explained, Holding, Live
<1> QED
  BY <1>1 DEF Accounted, Running

LEMMA InitAccess == Init => AccessInv
<1> SUFFICES ASSUME Init PROVE AccessInv
  OBVIOUS
<1>1. Live(conn) = {}
  BY DEF Init, Live
<1>2. Cardinality(Live(conn)) = 0
  BY <1>1, FS_EmptySet
<1>3. Explained
  BY DEF Init, Explained
<1>4. Accounted
  BY <1>2, <1>3, AccountedIs, MaxActiveAssumption DEF Init, Running
<1> QED
  BY <1>3, <1>4 DEF Init, AccessInv, Explained

\* A step that leaves the pool alone, and after which no connection is left
\* without a reason.
LEMMA PoolUntouched ==
  ASSUME AccessInv, UNCHANGED <<ready, borrowed, conn, leaked>>, Explained',
         pc' \in [Caller -> {"idle", "init", "expire", "inner", "receive", "close"}],
         \A p \in Caller : pc'[p] = "init" => pc[p] = "init"
  PROVE  AccessInv'
<1>1. Explained
  BY DEF AccessInv, Explained
<1>2. borrowed' = Cardinality(Live(conn')) + leaked' + Running(ready') /\ borrowed' \in 0..MaxActive
  BY <1>1, AccountedIs DEF AccessInv
<1>3. Accounted'
  BY <1>2, AccountedIsNext
<1> QED
  BY <1>3 DEF AccessInv, Explained

LEMMA CommandUntouched ==
  ASSUME AccessInv, NEW p \in Caller, NEW next \in {"close", "expire", "receive"}, Command(p, next)
  PROVE  AccessInv'
<1>1. /\ UNCHANGED <<ready, borrowed, conn, leaked>> /\ pc' = [pc EXCEPT ![p] = next]
      /\ fresh' = fresh \ {p} /\ refused' = refused \ {p}
  BY DEF Command, Goto
<1>2. /\ pc' \in [Caller -> {"idle", "init", "expire", "inner", "receive", "close"}]
      /\ \A q \in Caller : pc'[q] = "init" => pc[q] = "init"
  BY <1>1 DEF AccessInv
<1>3. Explained'
  BY <1>1 DEF AccessInv, Explained, Holding
<1> QED
  BY <1>1, <1>2, <1>3, PoolUntouched

LEMMA RefuseUntouched ==
  ASSUME AccessInv, NEW p \in Caller, Refuse(p)
  PROVE  AccessInv'
<1>1. /\ UNCHANGED <<ready, borrowed, pc, conn, leaked>>
      /\ fresh' = fresh \ {p} /\ refused' = refused \cup {p}
  BY DEF Refuse
<1>2. Explained'
  BY <1>1 DEF AccessInv, Explained, Holding
<1> QED
  BY <1>1, <1>2, PoolUntouched DEF AccessInv

LEMMA InitRedisAccess ==
  ASSUME AccessInv, NEW p \in Caller, InitRedis(p)
  PROVE  AccessInv'
<1> USE MaxActiveAssumption
<1>0. Explained
  BY DEF AccessInv, Explained
<1>1. Cardinality(Live(conn)) \in Nat /\ Cardinality(Live(conn')) = Cardinality(Live(conn))
  <2>1. conn' = conn
    BY DEF InitRedis
  <2> QED
    BY <2>1, LiveCount
<1>2. CASE pc[p] = "idle" /\ ready = "no" /\ ready' = "running" /\ borrowed' = borrowed + 1 /\ Goto(p, "init")
  <2>1. leaked = 0 /\ Live(conn) = {}
    BY <1>2 DEF AccessInv, Live
  <2>2. borrowed = 0
    BY <1>0, <1>2, <2>1, AccountedIs, FS_EmptySet DEF AccessInv, Running
  <2>3. leaked' = leaked /\ conn' = conn
    BY DEF InitRedis
  <2>4. \A q \in Caller : pc[q] # "init" /\ conn'[q] # "live"
    BY <1>2, <2>3 DEF AccessInv
  <2>5. Explained'
    BY <2>4 DEF Explained
  <2>6. Accounted'
    BY <1>2, <2>1, <2>2, <2>3, <2>5, AccountedIsNext, FS_EmptySet DEF Running
  <2> QED
    BY <1>2, <2>2, <2>3, <2>4, <2>5, <2>6 DEF AccessInv, Explained, Goto
<1>3. CASE pc[p] = "init" /\ ready' = "yes" /\ borrowed' = borrowed - 1 /\ Goto(p, "idle")
  <2>1. ready = "running" /\ leaked' = leaked /\ conn' = conn
    BY <1>3 DEF InitRedis, AccessInv
  <2>2. /\ borrowed = Cardinality(Live(conn)) + leaked + 1
        /\ borrowed \in 0..MaxActive /\ leaked \in Nat
    BY <1>0, <2>1, AccountedIs DEF AccessInv, Running
  <2>3. borrowed' = Cardinality(Live(conn)) + leaked /\ borrowed' \in 0..MaxActive /\ borrowed' \in Nat
    BY <1>1, <1>3, <2>2
  <2>4. \A q \in Caller : pc'[q] # "init" /\ conn'[q] # "live"
    BY <1>3, <2>1 DEF AccessInv, Goto
  <2>5. Explained'
    BY <2>4 DEF Explained
  <2>6. Accounted'
    BY <1>1, <1>3, <2>1, <2>3, <2>5, AccountedIsNext DEF Running
  <2> QED
    BY <1>3, <2>1, <2>3, <2>4, <2>5, <2>6 DEF AccessInv, Explained, Goto
<1> QED
  BY <1>2, <1>3 DEF InitRedis

LEMMA ConnAccess ==
  ASSUME AccessInv, NEW p \in Caller, Conn(p)
  PROVE  AccessInv'
<1> USE MaxActiveAssumption
<1>0. Explained
  BY DEF AccessInv, Explained
<1>1. /\ ready = "yes" /\ ready' = "yes" /\ pc' = pc
      /\ leaked' = leaked + (IF conn[p] = "live" THEN 1 ELSE 0)
      /\ leaked \in Nat /\ borrowed \in Nat
  <2>1. conn[p] = "live" => p \in refused
    BY <1>0 DEF Explained, Holding, Conn
  <2> QED
    BY <2>1 DEF Conn, AccessInv
<1>2. borrowed = Cardinality(Live(conn)) + leaked /\ borrowed \in 0..MaxActive
  <2>1. Running(ready) = 0
    BY <1>1 DEF Running
  <2>2. borrowed = Cardinality(Live(conn)) + leaked + 0 /\ borrowed \in 0..MaxActive
    BY <1>0, <2>1, AccountedIs DEF AccessInv
  <2>3. Cardinality(Live(conn)) \in Nat
    BY LiveCount
  <2> QED
    BY <1>1, <2>2, <2>3
<1>3. PICK c \in {"live", "error"} : /\ conn' = [conn EXCEPT ![p] = c]
                                     /\ borrowed' = borrowed + (IF c = "live" THEN 1 ELSE 0)
                                     /\ c = "live" => borrowed < MaxActive /\ p \in fresh'
                                     /\ fresh \subseteq fresh'
  BY <1>1 DEF Conn
<1>4. conn \in [Caller -> {"none", "live", "error", "closed"}]
  BY DEF AccessInv
<1>5. conn'[p] = c /\ \A q \in Caller \ {p} : conn'[q] = conn[q]
  BY <1>3, <1>4
<1>6. /\ Cardinality(Live(conn)) \in Nat /\ Cardinality(Live(conn')) \in Nat
      /\ Cardinality(Live(conn')) = Cardinality(Live(conn))
           + (IF c = "live" THEN 1 ELSE 0) - (IF conn[p] = "live" THEN 1 ELSE 0)
  <2> DEFINE before == Cardinality(Live(conn))
             after  == Cardinality(Live(conn'))
  <2>1. /\ before \in Nat /\ after \in Nat
        /\ conn[p] # "live" /\ conn'[p] = "live" => after = before + 1
        /\ conn[p] = "live" /\ conn'[p] # "live" => after = before - 1
        /\ (conn[p] = "live" <=> conn'[p] = "live") => after = before
    BY <1>5, LiveCount
  <2> HIDE DEF before, after
  <2>2. after = before + (IF c = "live" THEN 1 ELSE 0) - (IF conn[p] = "live" THEN 1 ELSE 0)
    BY <1>5, <2>1
  <2> QED
    BY <2>1, <2>2 DEF before, after
<1>7. /\ borrowed' = Cardinality(Live(conn')) + leaked'
      /\ borrowed' \in 0..MaxActive /\ borrowed' \in Nat /\ leaked' \in Nat
  BY <1>1, <1>2, <1>3, <1>6
<1>8. Explained'
  <2>1. refused' = refused \ {p}
    BY DEF Conn
  <2> QED
    BY <1>0, <1>1, <1>3, <1>5, <2>1 DEF Explained, Holding
<1>9. Accounted'
  <2>1. Running(ready') = 0 /\ Cardinality(Live(conn')) \in Nat
    BY <1>1, <1>6 DEF Running
  <2> QED
    BY <1>7, <1>8, <2>1, AccountedIsNext
<1> QED
  BY <1>1, <1>3, <1>4, <1>7, <1>8, <1>9 DEF AccessInv, Explained

LEMMA CloseAccess ==
  ASSUME AccessInv, NEW p \in Caller, Close(p)
  PROVE  AccessInv'
<1> USE MaxActiveAssumption
<1>0. Explained
  BY DEF AccessInv, Explained
<1>1. /\ ready' = ready /\ leaked' = leaked
      /\ conn' = [conn EXCEPT ![p] = IF conn[p] = "live" THEN "closed" ELSE conn[p]]
      /\ borrowed' = borrowed - (IF conn[p] = "live" THEN 1 ELSE 0)
  BY DEF Close, GiveBack
<1>2. /\ conn \in [Caller -> {"none", "live", "error", "closed"}]
      /\ leaked \in Nat /\ borrowed \in 0..MaxActive /\ Running(ready) \in Nat
      /\ borrowed = Cardinality(Live(conn)) + leaked + Running(ready)
  BY <1>0, AccountedIs DEF AccessInv, Running
<1>3. /\ conn'[p] # "live"
      /\ \A q \in Caller \ {p} : conn'[q] = conn[q]
  BY <1>1, <1>2
<1>4. /\ Cardinality(Live(conn)) \in Nat /\ Cardinality(Live(conn')) \in Nat
      /\ Cardinality(Live(conn')) = Cardinality(Live(conn)) - (IF conn[p] = "live" THEN 1 ELSE 0)
  <2> DEFINE before == Cardinality(Live(conn))
             after  == Cardinality(Live(conn'))
  <2>1. /\ before \in Nat /\ after \in Nat
        /\ conn[p] = "live" /\ conn'[p] # "live" => after = before - 1
        /\ (conn[p] = "live" <=> conn'[p] = "live") => after = before
    BY <1>3, LiveCount
  <2> HIDE DEF before, after
  <2>2. after = before - (IF conn[p] = "live" THEN 1 ELSE 0)
    BY <1>3, <2>1
  <2> QED
    BY <2>1, <2>2 DEF before, after
<1>5. /\ borrowed' = Cardinality(Live(conn')) + leaked' + Running(ready')
      /\ borrowed' \in 0..MaxActive /\ borrowed' \in Nat
  BY <1>1, <1>2, <1>4
<1>6. Explained'
  <2>1. fresh' = fresh /\ refused' = refused /\ \A q \in Caller \ {p} : pc'[q] = pc[q]
    BY DEF Close, Goto, AccessInv
  <2> QED
    BY <1>0, <1>3, <2>1 DEF Explained, Holding
<1>7. /\ pc' \in [Caller -> {"idle", "init", "expire", "inner", "receive", "close"}]
      /\ \A q \in Caller : pc'[q] = "init" => pc[q] = "init"
  BY DEF Close, Goto, AccessInv
<1>8. conn' \in [Caller -> {"none", "live", "error", "closed"}]
      /\ \A q \in Caller : conn[q] = "none" => conn'[q] = "none"
  BY <1>1, <1>2
<1>9. Accounted'
  BY <1>5, <1>6, AccountedIsNext
<1> QED
  BY <1>1, <1>5, <1>6, <1>7, <1>8, <1>9 DEF AccessInv, Explained

\* Every command is one of these as far as the pool is concerned.
LEMMA CommandsAccess ==
  ASSUME AccessInv, NEW p \in Caller,
         \/ StringCommand(p) \/ CounterCommand(p) \/ Expire(p) \/ MExpire(p)
         \/ LPop(p) \/ ListRead(p) \/ (\E e \in Elem : Push(p, e) \/ LRemove(p, e))
         \/ (\E count \in Count : BatchLPop(p, count))
         \/ HMSet(p) \/ HMSetEx(p) \/ HashRead(p) \/ HDel(p)
         \/ SetCommand(p) \/ PubSub(p) \/ ZAdd(p) \/ ZRemove(p) \/ ZRange(p)
  PROVE  AccessInv'
<1>1. Refuse(p) \/ \E next \in {"close", "expire", "receive"} : Command(p, next)
  BY DEF StringCommand, CounterCommand, Expire, MExpire, LPop, ListRead, Push, LRemove,
         BatchLPop, HMSet, HMSetEx, HashRead, HDel, SetCommand, PubSub, ZAdd, ZRemove, ZRange
<1> QED
  BY <1>1, RefuseUntouched, CommandUntouched

LEMMA StepAccess == AccessInv /\ [Next]_vars => AccessInv'
<1> SUFFICES ASSUME AccessInv, [Next]_vars PROVE AccessInv'
  OBVIOUS
<1>1. ASSUME NEW p \in Caller, InitRedis(p) PROVE AccessInv'
  BY <1>1, InitRedisAccess
<1>2. ASSUME NEW p \in Caller, Conn(p) PROVE AccessInv'
  BY <1>2, ConnAccess
<1>3. ASSUME NEW p \in Caller, Close(p) PROVE AccessInv'
  BY <1>3, CloseAccess
<1>4. ASSUME NEW p \in Caller, HashExpire(p) \/ Receive(p) PROVE AccessInv'
  <2>1. /\ UNCHANGED <<ready, borrowed, conn, fresh, refused, leaked>> /\ pc[p] # "idle"
        /\ pc' = pc \/ pc' = [pc EXCEPT ![p] = "inner"] \/ pc' = [pc EXCEPT ![p] = "close"]
    BY <1>4 DEF HashExpire, Receive, Goto
  <2>2. /\ pc' \in [Caller -> {"idle", "init", "expire", "inner", "receive", "close"}]
        /\ \A q \in Caller : pc'[q] = "init" => pc[q] = "init"
    BY <2>1 DEF AccessInv
  <2>3. Explained'
    BY <2>1 DEF AccessInv, Explained, Holding
  <2> QED
    BY <2>1, <2>2, <2>3, PoolUntouched
<1>5. CASE Expired \/ UNCHANGED vars
  <2>1. UNCHANGED <<ready, borrowed, conn, fresh, refused, leaked, pc>>
    BY <1>5 DEF Expired, vars, access
  <2>2. Explained'
    BY <2>1 DEF AccessInv, Explained, Holding
  <2> QED
    BY <2>1, <2>2, PoolUntouched DEF AccessInv
<1> QED
  BY <1>1, <1>2, <1>3, <1>4, <1>5, CommandsAccess DEF Next

\* AccessInv holds always: the pool of redis.go and its connections in use.
THEOREM AccessInvHolds == Spec => []AccessInv
BY InitAccess, StepAccess, PTL DEF Spec

\* Every connection in use was just borrowed, serves a command, or was left by a
\* command of redis.go that returned in front of its defer: no command that went
\* past its defer loses one or gives one back twice.
THEOREM ConnectionsAccounted == Spec => []Accounted
<1>1. AccessInv => Accounted
  BY DEF AccessInv
<1> QED
  BY <1>1, AccessInvHolds, PTL

------------------------------------------------------------------------------
(* HMSetEx *)

Labels == {"idle", "init", "expire", "inner", "receive", "close"}

\* Only a caller between the two requests of HMSetEx, or an error, leaves a
\* hash that HMSetEx alone wrote without an expiry.
ExpiryInv == pc \in [Caller -> Labels] /\ ExpiryNotForgotten

\* Between commands a caller is not waiting to send EXPIRE.
LEMMA CommandLabels ==
  ASSUME pc \in [Caller -> Labels], NEW p \in Caller, NEW next \in {"close", "expire", "receive"},
         Command(p, next)
  PROVE  /\ pc' \in [Caller -> Labels] /\ pc'[p] = next
         /\ \A q \in Caller : pc[q] = "expire" => pc'[q] = "expire"
BY DEF Command, Goto, Labels

LEMMA RefuseExpiry ==
  ASSUME ExpiryInv, NEW p \in Caller, Refuse(p)
  PROVE  ExpiryInv'
BY Zenon DEF Refuse, keyed, ExpiryInv, ExpiryNotForgotten

\* A step that does not touch the key, nor those about to send EXPIRE.
LEMMA KeyUntouched ==
  ASSUME ExpiryInv, UNCHANGED keyed, pc' \in [Caller -> Labels],
         \A q \in Caller : pc[q] = "expire" => pc'[q] = "expire"
  PROVE  ExpiryInv'
<1>1. key' = key /\ ttl' = ttl /\ exOnly' = exOnly /\ exError' = exError
  BY DEF keyed
<1> QED
  BY <1>1 DEF ExpiryInv, ExpiryNotForgotten

\* A key that somebody else wrote.
LEMMA KeyWritten ==
  ASSUME ExpiryInv, pc' \in [Caller -> Labels], exOnly' = FALSE
  PROVE  ExpiryInv'
BY DEF ExpiryInv, ExpiryNotForgotten

LEMMA KeyExpires ==
  ASSUME ExpiryInv, pc' \in [Caller -> Labels], ExpireKey
  PROVE  ExpiryInv'
<1>1. key' = key /\ ttl' = (key # "absent")
  BY DEF ExpireKey
<1>2. key' = "hash" => ttl'
  BY <1>1, Zenon
<1> QED
  BY <1>2 DEF ExpiryInv, ExpiryNotForgotten

LEMMA StringExpiry ==
  ASSUME ExpiryInv, NEW p \in Caller, StringCommand(p) \/ CounterCommand(p) \/ HDel(p)
  PROVE  ExpiryInv'
<1>1. CASE Refuse(p)
  BY <1>1, RefuseExpiry
<1>2. CASE /\ Command(p, "close")
           /\ UNCHANGED keyed \/ \E kind, expires : Write(kind, expires)
  <2>1. /\ pc' \in [Caller -> Labels]
        /\ \A q \in Caller : pc[q] = "expire" => pc'[q] = "expire"
    BY <1>2, CommandLabels DEF ExpiryInv
  <2>2. CASE UNCHANGED keyed
    BY <2>1, <2>2, KeyUntouched
  <2>3. CASE \E kind, expires : Write(kind, expires)
    BY <2>1, <2>3, KeyWritten DEF Write
  <2> QED
    BY <1>2, <2>2, <2>3
<1> QED
  BY <1>1, <1>2, Zenon DEF StringCommand, CounterCommand, HDel

LEMMA ExpireExpiry ==
  ASSUME ExpiryInv, NEW p \in Caller, Expire(p) \/ MExpire(p)
  PROVE  ExpiryInv'
<1>1. CASE Refuse(p)
  BY <1>1, RefuseExpiry
<1>2. CASE Expire(p)
  <2>1. /\ pc' \in [Caller -> Labels]
        /\ \A q \in Caller : pc[q] = "expire" => pc'[q] = "expire"
    BY <1>2, CommandLabels DEF ExpiryInv, Expire
  <2> QED
    BY <1>2, <2>1, KeyUntouched, KeyExpires DEF Expire
<1> QED
  BY <1>1, <1>2 DEF MExpire

LEMMA HMSetExpiry ==
  ASSUME ExpiryInv, NEW p \in Caller, HMSet(p)
  PROVE  ExpiryInv'
<1>1. CASE Refuse(p)
  BY <1>1, RefuseExpiry
<1>2. CASE Command(p, "close") /\ (UNCHANGED keyed \/ WriteHash(FALSE))
  <2>1. /\ pc' \in [Caller -> Labels]
        /\ \A q \in Caller : pc[q] = "expire" => pc'[q] = "expire"
    BY <1>2, CommandLabels DEF ExpiryInv
  <2>2. WriteHash(FALSE) => exOnly' = FALSE
    BY Zenon DEF WriteHash
  <2> QED
    BY <1>2, <2>1, <2>2, KeyUntouched, KeyWritten
<1> QED
  BY <1>1, <1>2 DEF HMSet

\* Its HMSET succeeds and it is about to send EXPIRE, or it returns an error.
LEMMA HMSetExExpiry ==
  ASSUME ExpiryInv, NEW p \in Caller, HMSetEx(p)
  PROVE  ExpiryInv'
<1>1. CASE Refuse(p)
  BY <1>1, RefuseExpiry
<1>2. CASE Command(p, "expire")
  <2>1. pc' \in [Caller -> Labels] /\ pc'[p] = "expire"
    BY <1>2, CommandLabels DEF ExpiryInv
  <2> QED
    BY <2>1 DEF ExpiryInv, ExpiryNotForgotten
<1>3. CASE Command(p, "close") /\ (UNCHANGED keyed \/ exError' = TRUE)
  <2>1. /\ pc' \in [Caller -> Labels]
        /\ \A q \in Caller : pc[q] = "expire" => pc'[q] = "expire"
    BY <1>3, CommandLabels DEF ExpiryInv
  <2>2. exError' = TRUE => ExpiryNotForgotten'
    BY DEF ExpiryNotForgotten
  <2> QED
    BY <1>3, <2>1, <2>2, KeyUntouched DEF ExpiryInv
<1> QED
  BY <1>1, <1>2, <1>3 DEF HMSetEx

LEMMA HashExpireExpiry ==
  ASSUME ExpiryInv, NEW p \in Caller, HashExpire(p)
  PROVE  ExpiryInv'
<1>1. pc' \in [Caller -> Labels]
  BY DEF HashExpire, Goto, ExpiryInv, Labels
<1>2. exError' = TRUE => ExpiryNotForgotten'
  BY DEF ExpiryNotForgotten
<1> QED
  BY <1>1, <1>2, KeyExpires DEF HashExpire, ExpiryInv

LEMMA OthersExpiry ==
  ASSUME ExpiryInv, NEW p \in Caller,
         \/ InitRedis(p) \/ Conn(p) \/ Close(p) \/ Receive(p)
         \/ LPop(p) \/ ListRead(p) \/ (\E e \in Elem : Push(p, e) \/ LRemove(p, e))
         \/ (\E count \in Count : BatchLPop(p, count))
         \/ HashRead(p) \/ SetCommand(p) \/ PubSub(p)
         \/ ZAdd(p) \/ ZRemove(p) \/ ZRange(p)
  PROVE  ExpiryInv'
<1>1. CASE InitRedis(p) \/ Conn(p) \/ Close(p) \/ Receive(p)
  <2>1. UNCHANGED keyed
    BY <1>1 DEF InitRedis, Conn, Close, Receive
  <2>2. /\ pc' \in [Caller -> Labels]
        /\ \A q \in Caller : pc[q] = "expire" => pc'[q] = "expire"
    BY <1>1 DEF InitRedis, Conn, Close, Receive, Goto, ExpiryInv, Labels
  <2> QED
    BY <2>1, <2>2, KeyUntouched
<1>2. CASE Refuse(p)
  BY <1>2, RefuseExpiry
<1>3. CASE UNCHANGED keyed /\ \E next \in {"close", "receive"} : Command(p, next)
  BY <1>3, CommandLabels, KeyUntouched DEF ExpiryInv
<1> QED
  BY <1>1, <1>2, <1>3
  DEF LPop, ListRead, Push, LRemove, BatchLPop, HashRead, SetCommand, PubSub, ZAdd, ZRemove, ZRange

LEMMA ExpiryStep == ExpiryInv /\ [Next]_vars => ExpiryInv'
<1> SUFFICES ASSUME ExpiryInv, [Next]_vars PROVE ExpiryInv'
  OBVIOUS
<1>1. ASSUME NEW p \in Caller,
             \/ InitRedis(p) \/ Conn(p) \/ Close(p) \/ Receive(p)
             \/ LPop(p) \/ ListRead(p) \/ (\E e \in Elem : Push(p, e) \/ LRemove(p, e))
             \/ (\E count \in Count : BatchLPop(p, count))
             \/ HashRead(p) \/ SetCommand(p) \/ PubSub(p)
             \/ ZAdd(p) \/ ZRemove(p) \/ ZRange(p)
      PROVE  ExpiryInv'
  BY <1>1, OthersExpiry
<1>2. ASSUME NEW p \in Caller,
             \/ StringCommand(p) \/ CounterCommand(p) \/ HDel(p) \/ Expire(p) \/ MExpire(p)
             \/ HMSet(p) \/ HMSetEx(p) \/ HashExpire(p)
      PROVE  ExpiryInv'
  BY <1>2, StringExpiry, ExpireExpiry, HMSetExpiry, HMSetExExpiry, HashExpireExpiry
<1>3. CASE Expired
  BY <1>3, KeyWritten DEF Expired, Write, access, ExpiryInv
<1>4. CASE UNCHANGED vars
  BY <1>4, KeyUntouched DEF vars, access, ExpiryInv
<1> QED
  BY <1>1, <1>2, <1>3, <1>4 DEF Next

\* HMSetEx of redis.go, among any number of callers of any commands: a hash
\* that it alone wrote lacks its expiry only while one of the two requests is
\* to come, or after one of them returned an error.
THEOREM ExpiryKept == Spec => []ExpiryNotForgotten
<1>1. Init => ExpiryInv
  BY DEF Init, ExpiryInv, ExpiryNotForgotten, Labels
<1>2. ExpiryInv /\ [Next]_vars => ExpiryInv'
  BY ExpiryStep
<1>3. ExpiryInv => ExpiryNotForgotten
  BY DEF ExpiryInv
<1> QED
  BY <1>1, <1>2, <1>3, PTL DEF Spec

------------------------------------------------------------------------------
(* What is popped *)

\* An element is in the list once, and no longer when it was handed out, but
\* by a BatchLPop of count 0.
PopInv ==
  /\ list \in Seq(Elem) /\ handed \in [Elem -> Nat] /\ pushed \in SUBSET Elem
  /\ \A i, j \in 1..Len(list) : list[i] = list[j] => i = j
  /\ \A i \in 1..Len(list) : list[i] \in pushed
  /\ \A e \in Elem \ pushed : handed[e] = 0
  /\ \A e \in Elem \ peeked : handed[e] <= 1
  /\ \A i \in 1..Len(list) : list[i] \notin peeked => handed[list[i]] = 0

LEMMA PopInitInv == Init => PopInv
<1> SUFFICES ASSUME Init PROVE PopInv
  OBVIOUS
<1>1. list = <<>> /\ handed = [e \in Elem |-> 0] /\ pushed = {} /\ peeked = {}
  BY DEF Init
<1> QED
  BY <1>1 DEF PopInv

\* Hand counts at most once more what it is given, and nothing else.
LEMMA HandEffect ==
  ASSUME PopInv, NEW S \in SUBSET Elem, Hand(S)
  PROVE  /\ handed' \in [Elem -> Nat]
         /\ \A e \in Elem : handed'[e] = handed[e] \/ (e \in S /\ handed'[e] = handed[e] + 1)
BY DEF Hand, PopInv

LEMMA OnceInTheList ==
  ASSUME PopInv, NEW i \in 1..Len(list), NEW j \in 1..Len(list), list[i] = list[j]
  PROVE  i = j
BY DEF PopInv

LEMMA PushPops ==
  ASSUME PopInv, NEW p \in Caller, NEW e \in Elem, Push(p, e)
  PROVE  PopInv'
<1>1. /\ e \notin pushed /\ pushed' = pushed \cup {e}
      /\ list' \in {Append(list, e), <<e>> \o list}
      /\ handed' = handed /\ peeked' = peeked
      /\ list \in Seq(Elem) /\ Len(list) \in Nat
      /\ handed[e] = 0
  BY DEF Push, PopInv
<1>2. CASE list' = Append(list, e)
  <2>1. /\ list' \in Seq(Elem) /\ Len(list') = Len(list) + 1
        /\ list'[Len(list) + 1] = e /\ \A i \in 1..Len(list) : list'[i] = list[i]
    BY <1>1, <1>2
  <2>2. \A i \in 1..Len(list') : i \in 1..Len(list) \/ i = Len(list) + 1
    BY <1>1, <2>1
  <2>3. \A i \in 1..Len(list) : list[i] # e
    BY <1>1 DEF PopInv
  <2>4. \A i, j \in 1..Len(list') : list'[i] = list'[j] => i = j
    <3> SUFFICES ASSUME NEW i \in 1..Len(list'), NEW j \in 1..Len(list'), list'[i] = list'[j]
                 PROVE  i = j
      OBVIOUS
    <3>1. CASE i \in 1..Len(list) /\ j \in 1..Len(list)
      BY <2>1, <3>1, OnceInTheList
    <3>2. CASE i = Len(list) + 1 /\ j = Len(list) + 1
      BY <3>2
    <3>3. CASE (i \in 1..Len(list) /\ j = Len(list) + 1) \/ (i = Len(list) + 1 /\ j \in 1..Len(list))
      BY <2>1, <2>3, <3>3
    <3> QED
      BY <2>2, <3>1, <3>2, <3>3
  <2>5. \A i \in 1..Len(list') : list'[i] \in pushed' /\ (list'[i] \notin peeked' => handed'[list'[i]] = 0)
    BY <1>1, <2>1, <2>2 DEF PopInv
  <2>6. \A x \in Elem \ pushed' : handed'[x] = 0
    BY <1>1 DEF PopInv
  <2> QED
    BY <1>1, <2>1, <2>4, <2>5, <2>6 DEF PopInv
<1>3. CASE list' = <<e>> \o list
  <2>1. <<e>> \in Seq(Elem) /\ Len(<<e>>) = 1 /\ <<e>>[1] = e
    OBVIOUS
  <2>2. /\ list' \in Seq(Elem) /\ Len(list') = Len(list) + 1
        /\ list'[1] = e /\ \A i \in 1..Len(list) : list'[i + 1] = list[i]
    BY <1>1, <1>3, <2>1
  <2>3. \A i \in 1..Len(list') : i = 1 \/ (i - 1 \in 1..Len(list) /\ list'[i] = list[i - 1])
    BY <1>1, <2>2
  <2>4. \A i, j \in 1..Len(list') : list'[i] = list'[j] => i = j
    <3> SUFFICES ASSUME NEW i \in 1..Len(list'), NEW j \in 1..Len(list'), list'[i] = list'[j]
                 PROVE  i = j
      OBVIOUS
    <3>1. CASE i = 1 /\ j = 1
      BY <3>1
    <3>2. CASE (i = 1 /\ j # 1) \/ (i # 1 /\ j = 1)
      <4>1. \A k \in 1..Len(list) : list[k] # e
        BY <1>1 DEF PopInv
      <4> QED
        BY <2>2, <2>3, <3>2, <4>1
    <3>3. CASE i # 1 /\ j # 1
      <4>1. i - 1 \in 1..Len(list) /\ j - 1 \in 1..Len(list) /\ list[i - 1] = list[j - 1]
        BY <2>3, <3>3
      <4>2. i - 1 = j - 1
        BY <4>1, OnceInTheList, Zenon
      <4>3. i \in Nat /\ j \in Nat
        BY <2>2
      <4> QED
        BY <4>2, <4>3
    <3> QED
      BY <3>1, <3>2, <3>3
  <2>5. \A i \in 1..Len(list') : list'[i] \in pushed' /\ (list'[i] \notin peeked' => handed'[list'[i]] = 0)
    <3> SUFFICES ASSUME NEW i \in 1..Len(list')
                 PROVE  list'[i] \in pushed' /\ (list'[i] \notin peeked' => handed'[list'[i]] = 0)
      OBVIOUS
    <3>1. CASE i = 1
      BY <1>1, <2>2, <3>1
    <3>2. CASE i # 1
      <4>1. i - 1 \in 1..Len(list) /\ list'[i] = list[i - 1]
        BY <2>3, <3>2
      <4> QED
        BY <1>1, <4>1 DEF PopInv
    <3> QED
      BY <3>1, <3>2
  <2>6. \A x \in Elem \ pushed' : handed'[x] = 0
    BY <1>1 DEF PopInv
  <2> QED
    BY <1>1, <2>2, <2>4, <2>5, <2>6 DEF PopInv
<1> QED
  BY <1>1, <1>2, <1>3

\* LREM takes one element away; nobody gets it.
LEMMA RemovePops ==
  ASSUME PopInv, NEW p \in Caller, NEW e \in Elem, LRemove(p, e)
  PROVE  PopInv'
<1>1. PICK k \in 1..Len(list) : list' = SubSeq(list, 1, k - 1) \o SubSeq(list, k + 1, Len(list))
  BY DEF LRemove, RemoveAt
<1>2. /\ list \in Seq(Elem) /\ Len(list) \in Nat
      /\ handed' = handed /\ pushed' = pushed /\ peeked' = peeked
  BY DEF PopInv, LRemove
<1>3. /\ SubSeq(list, 1, k - 1) \in Seq(Elem) /\ Len(SubSeq(list, 1, k - 1)) = k - 1
      /\ \A i \in 1..k - 1 : SubSeq(list, 1, k - 1)[i] = list[i]
  BY <1>2
<1>4. /\ SubSeq(list, k + 1, Len(list)) \in Seq(Elem)
      /\ Len(SubSeq(list, k + 1, Len(list))) = Len(list) - k
      /\ \A i \in 1..Len(list) - k : SubSeq(list, k + 1, Len(list))[i] = list[k + i]
  BY <1>2
<1>5. /\ list' \in Seq(Elem) /\ Len(list') = Len(list) - 1
      /\ \A i \in 1..Len(list') : list'[i] = list[IF i < k THEN i ELSE i + 1]
  <2> DEFINE f == SubSeq(list, 1, k - 1)
             t == SubSeq(list, k + 1, Len(list))
  <2>1. /\ f \in Seq(Elem) /\ Len(f) = k - 1 /\ \A i \in 1..k - 1 : f[i] = list[i]
        /\ t \in Seq(Elem) /\ Len(t) = Len(list) - k /\ \A i \in 1..Len(list) - k : t[i] = list[k + i]
        /\ list' = f \o t
    BY <1>1, <1>3, <1>4
  <2> HIDE DEF f, t
  <2>2. /\ list' \in Seq(Elem) /\ Len(list') = Len(f) + Len(t)
        /\ \A i \in 1..Len(f) + Len(t) : list'[i] = IF i <= Len(f) THEN f[i] ELSE t[i - Len(f)]
    <3>1. f \in Seq(Elem) /\ t \in Seq(Elem) /\ list' = f \o t
      BY <2>1
    <3> QED
      BY ONLY <3>1, SMTT(20)
  <2>3. /\ list' \in Seq(Elem) /\ Len(list') = Len(list) - 1
        /\ \A i \in 1..Len(list') : list'[i] = IF i <= Len(f) THEN f[i] ELSE t[i - Len(f)]
    <3>1. k \in Nat /\ Len(list) \in Nat
      BY <1>2
    <3>2. Len(f) + Len(t) = Len(list) - 1
      BY <2>1, <3>1
    <3> QED
      BY <2>2, <3>2
  <2>4. ASSUME NEW i \in 1..Len(list') PROVE list'[i] = list[IF i < k THEN i ELSE i + 1]
    <3>1. CASE i < k
      <4>1. i \in 1..k - 1 /\ i <= Len(f)
        BY <2>1, <3>1
      <4> QED
        BY <2>1, <2>3, <3>1, <4>1
    <3>2. CASE ~ (i < k)
      <4>1. ~ (i <= Len(f)) /\ i - Len(f) \in 1..Len(list) - k /\ k + (i - Len(f)) = i + 1
        BY <1>2, <2>1, <2>3, <3>2
      <4>2. list'[i] = t[i - Len(f)]
        BY <2>3, <4>1
      <4>3. t[i - Len(f)] = list[i + 1]
        BY <2>1, <4>1
      <4> QED
        BY <3>2, <4>2, <4>3
    <3> QED
      BY <3>1, <3>2
  <2> QED
    BY <2>3, <2>4
<1> DEFINE at(i) == IF i < k THEN i ELSE i + 1
<1>6. \A i \in 1..Len(list') : at(i) \in 1..Len(list) /\ list'[i] = list[at(i)]
  BY <1>2, <1>5
<1>7. \A i, j \in 1..Len(list') : at(i) = at(j) => i = j
  BY <1>2, <1>5
<1> HIDE DEF at
<1>8. \A i, j \in 1..Len(list') : list'[i] = list'[j] => i = j
  <2> SUFFICES ASSUME NEW i \in 1..Len(list'), NEW j \in 1..Len(list'), list'[i] = list'[j]
               PROVE  i = j
    OBVIOUS
  <2>1. at(i) \in 1..Len(list) /\ at(j) \in 1..Len(list) /\ list[at(i)] = list[at(j)]
    BY <1>6
  <2>2. at(i) = at(j)
    BY <2>1, OnceInTheList, Zenon
  <2> QED
    BY <1>7, <2>2
<1>9. \A i \in 1..Len(list') : list'[i] \in pushed' /\ (list'[i] \notin peeked' => handed'[list'[i]] = 0)
  BY <1>2, <1>6 DEF PopInv
<1> QED
  BY <1>2, <1>5, <1>8, <1>9 DEF PopInv

\* The first d elements are taken and handed out.
LEMMA TakePops ==
  ASSUME PopInv, NEW d \in 0..Len(list), list' = SubSeq(list, d + 1, Len(list)),
         NEW S, S = {list[i] : i \in 1..d}, Hand(S),
         pushed' = pushed, peeked' = peeked
  PROVE  PopInv'
<1>1. list \in Seq(Elem) /\ Len(list) \in Nat
  BY DEF PopInv
<1>2. /\ list' \in Seq(Elem) /\ Len(list') = Len(list) - d
      /\ \A i \in 1..Len(list') : list'[i] = list[d + i] /\ d + i \in d + 1..Len(list)
  BY <1>1
<1>3. S \in SUBSET Elem
  BY <1>1
<1>4. /\ handed' \in [Elem -> Nat]
      /\ \A e \in Elem : handed'[e] = handed[e] \/ (e \in S /\ handed'[e] = handed[e] + 1)
  BY <1>3, HandEffect
<1>5. \A i \in d + 1..Len(list) : list[i] \notin S /\ i \in 1..Len(list)
  <2> SUFFICES ASSUME NEW i \in d + 1..Len(list), NEW j \in 1..d, list[i] = list[j] PROVE FALSE
    BY <1>1
  <2>1. i \in 1..Len(list) /\ j \in 1..Len(list) /\ i # j
    BY <1>1
  <2> QED
    BY <2>1 DEF PopInv
<1>6. \A i, j \in 1..Len(list') : list'[i] = list'[j] => i = j
  <2> SUFFICES ASSUME NEW i \in 1..Len(list'), NEW j \in 1..Len(list'), list'[i] = list'[j]
               PROVE  i = j
    OBVIOUS
  <2>1. d + i = d + j
    BY <1>1, <1>2, <1>5 DEF PopInv
  <2> QED
    BY <1>2, <2>1
<1>7. \A i \in 1..Len(list') : list'[i] \in pushed' /\ (list'[i] \notin peeked' => handed'[list'[i]] = 0)
  <2> SUFFICES ASSUME NEW i \in 1..Len(list')
               PROVE  list'[i] \in pushed /\ (list'[i] \notin peeked => handed'[list'[i]] = 0)
    OBVIOUS
  <2>1. list'[i] = list[d + i] /\ d + i \in 1..Len(list) /\ list[d + i] \notin S
    BY <1>2, <1>5
  <2>2. list[d + i] \in Elem /\ list[d + i] \in pushed
        /\ (list[d + i] \notin peeked => handed[list[d + i]] = 0)
    BY <1>1, <2>1 DEF PopInv
  <2> QED
    BY <1>4, <2>1, <2>2
<1>8. \A e \in Elem \ pushed' : handed'[e] = 0
  BY <1>1, <1>4 DEF PopInv
<1>9. \A e \in Elem \ peeked' : handed'[e] <= 1
  <2> SUFFICES ASSUME NEW e \in Elem \ peeked PROVE handed'[e] <= 1
    OBVIOUS
  <2>1. handed[e] \in Nat /\ handed[e] <= 1 /\ (e \in S => handed[e] = 0)
    BY <1>1 DEF PopInv
  <2> QED
    BY <1>4, <2>1
<1> QED
  BY <1>2, <1>4, <1>6, <1>7, <1>8, <1>9 DEF PopInv

\* LRANGE and LTRIM of BatchLPop cut the list at the same place, for every
\* count but 0, a negative one and one beyond the list included.
LEMMA BatchCuts ==
  ASSUME NEW l \in Seq(Elem), NEW c \in Int
  PROVE  \E d \in 0..Len(l) : /\ Trimmed(l, c) = SubSeq(l, d + 1, Len(l))
                              /\ c # 0 => Window(l, 0, c - 1) = 1..d
                              /\ c = 0 => d = 0 /\ Window(l, 0, c - 1) = 1..Len(l)
<1> DEFINE from == IF c < 0 THEN Len(l) + c ELSE c
           d == IF from < 0 THEN 0 ELSE IF from > Len(l) THEN Len(l) ELSE from
<1>1. Len(l) \in Nat /\ from \in Int /\ d \in 0..Len(l)
  OBVIOUS
<1>2. Window(l, c, -1) = {i \in 1..Len(l) : from < i /\ i <= Len(l) + (-1) + 1}
  BY DEF Window
<1>3. Window(l, c, -1) = d + 1..Len(l)
  <2>1. \A i \in 1..Len(l) : i <= Len(l) + (-1) + 1
    BY <1>1
  <2>2. \A i \in 1..Len(l) : from < i <=> i \in d + 1..Len(l)
    BY <1>1
  <2>3. \A i \in d + 1..Len(l) : i \in 1..Len(l)
    BY <1>1
  <2> QED
    BY <1>2, <2>1, <2>2, <2>3
<1>4. Cardinality(Window(l, c, -1)) = Len(l) - d
  <2>1. d + 1 \in Int /\ Len(l) \in Int
    BY <1>1
  <2>2. Cardinality(d + 1..Len(l)) = IF d + 1 > Len(l) THEN 0 ELSE Len(l) - (d + 1) + 1
    BY <2>1, FS_Interval, Zenon
  <2>3. Cardinality(d + 1..Len(l)) = Len(l) - d
    BY <1>1, <2>2
  <2> QED
    BY <1>3, <2>3, Zenon
<1>5. Trimmed(l, c) = SubSeq(l, d + 1, Len(l))
  <2>1. Trimmed(l, c) = SubSeq(l, Len(l) - (Len(l) - d) + 1, Len(l))
    BY <1>4, Zenon DEF Trimmed, Rest
  <2>2. Len(l) - (Len(l) - d) + 1 = d + 1
    BY <1>1
  <2> QED
    BY <2>1, <2>2, Zenon
<1>6. Window(l, 0, c - 1) = {i \in 1..Len(l) : 0 < i /\ i <= (IF c - 1 < 0 THEN Len(l) + (c - 1) ELSE c - 1) + 1}
  BY DEF Window
<1>7. ASSUME c # 0 PROVE Window(l, 0, c - 1) = 1..d
  <2>1. \A i \in 1..Len(l) :
          (0 < i /\ i <= (IF c - 1 < 0 THEN Len(l) + (c - 1) ELSE c - 1) + 1) <=> i \in 1..d
    BY <1>1, <1>7
  <2>2. \A i \in 1..d : i \in 1..Len(l)
    BY <1>1
  <2> QED
    BY <1>6, <2>1, <2>2
<1>8. ASSUME c = 0 PROVE d = 0 /\ Window(l, 0, c - 1) = 1..Len(l)
  <2>1. \A i \in 1..Len(l) : 0 < i /\ i <= (IF c - 1 < 0 THEN Len(l) + (c - 1) ELSE c - 1) + 1
    BY <1>1, <1>8
  <2>2. d = 0
    BY <1>1, <1>8
  <2> QED
    BY <1>6, <2>1, <2>2
<1> QED
  BY <1>1, <1>5, <1>7, <1>8

LEMMA LPopPops ==
  ASSUME PopInv, NEW p \in Caller, LPop(p)
  PROVE  PopInv'
<1>1. /\ list # <<>> /\ list' = Tail(list) /\ Hand({Head(list)})
      /\ pushed' = pushed /\ peeked' = peeked /\ list \in Seq(Elem)
  BY DEF LPop, PopInv
<1>2. Len(list) \in Nat /\ Len(list) > 0 /\ Head(list) = list[1]
  BY <1>1
<1>3. Tail(list) = SubSeq(list, 2, Len(list))
  BY <1>1, <1>2
<1>4. {list[i] : i \in 1..1} = {Head(list)}
  BY <1>2
<1>5. 1 \in 0..Len(list) /\ list' = SubSeq(list, 1 + 1, Len(list))
  BY <1>1, <1>2, <1>3
<1> QED
  BY <1>1, <1>4, <1>5, TakePops

LEMMA BatchPops ==
  ASSUME PopInv, NEW p \in Caller, NEW count \in Count, BatchLPop(p, count)
  PROVE  PopInv'
<1> DEFINE got == Taken(list, Window(list, 0, count - 1))
<1>1. /\ Hand(got) /\ peeked' = (IF count = 0 THEN peeked \cup got ELSE peeked)
      /\ list' = Trimmed(list, count) /\ pushed' = pushed
      /\ list \in Seq(Elem) /\ Len(list) \in Nat /\ count \in Int
  BY CountAssumption DEF BatchLPop, PopInv
<1>2. PICK d \in 0..Len(list) :
         /\ Trimmed(list, count) = SubSeq(list, d + 1, Len(list))
         /\ count # 0 => Window(list, 0, count - 1) = 1..d
         /\ count = 0 => d = 0 /\ Window(list, 0, count - 1) = 1..Len(list)
  BY <1>1, BatchCuts
<1>3. CASE count # 0
  <2>1. got = {list[i] : i \in 1..d}
    BY <1>2, <1>3 DEF Taken
  <2> HIDE DEF got
  <2> QED
    BY <1>1, <1>2, <1>3, <2>1, TakePops
<1>4. CASE count = 0
  <2>1. got = {list[i] : i \in 1..Len(list)}
    BY <1>2, <1>4 DEF Taken
  <2>2. list' = list
    BY <1>1, <1>2, <1>4
  <2> HIDE DEF got
  <2>3. got \in SUBSET Elem /\ peeked' = peeked \cup got
    BY <1>1, <1>4, <2>1
  <2>4. /\ handed' \in [Elem -> Nat]
        /\ \A e \in Elem : handed'[e] = handed[e] \/ (e \in got /\ handed'[e] = handed[e] + 1)
    BY <1>1, <2>3, HandEffect
  <2>5. \A i \in 1..Len(list) : list[i] \in peeked'
    BY <2>1, <2>3
  <2>6. \A e \in Elem \ pushed : e \notin got
    BY <2>1 DEF PopInv
  <2>7. \A e \in Elem \ peeked' : e \notin got /\ e \notin peeked
    BY <2>3
  <2>8. \A e \in Elem \ pushed' : handed'[e] = 0
    BY <1>1, <2>4, <2>6 DEF PopInv
  <2>9. \A e \in Elem \ peeked' : handed'[e] <= 1
    BY <2>4, <2>7 DEF PopInv
  <2> QED
    BY <1>1, <2>2, <2>4, <2>5, <2>8, <2>9 DEF PopInv
<1> QED
  BY <1>3, <1>4

LEMMA PopStep == PopInv /\ [Next]_vars => PopInv'
<1> SUFFICES ASSUME PopInv, [Next]_vars PROVE PopInv'
  OBVIOUS
<1>1. ASSUME NEW p \in Caller, NEW e \in Elem, Push(p, e) \/ LRemove(p, e) PROVE PopInv'
  BY <1>1, PushPops, RemovePops
<1>2. ASSUME NEW p \in Caller, LPop(p) PROVE PopInv'
  BY <1>2, LPopPops
<1>3. ASSUME NEW p \in Caller, NEW count \in Count, BatchLPop(p, count) PROVE PopInv'
  BY <1>3, BatchPops
<1>4. CASE UNCHANGED pops
  BY <1>4 DEF pops, PopInv
<1>5. ASSUME NEW p \in Caller,
             \/ InitRedis(p) \/ Conn(p) \/ Close(p) \/ Receive(p) \/ HashExpire(p)
             \/ StringCommand(p) \/ CounterCommand(p) \/ HDel(p) \/ Expire(p) \/ MExpire(p)
             \/ HMSet(p) \/ HMSetEx(p) \/ ListRead(p) \/ HashRead(p)
             \/ SetCommand(p) \/ PubSub(p) \/ ZAdd(p) \/ ZRemove(p) \/ ZRange(p)
      PROVE  UNCHANGED pops
  BY <1>5
  DEF InitRedis, Conn, Close, Receive, HashExpire, StringCommand, CounterCommand, HDel, Expire, MExpire,
      HMSet, HMSetEx, ListRead, HashRead, SetCommand, PubSub, ZAdd, ZRemove, ZRange, Refuse
<1>6. CASE Expired
  BY <1>4, <1>6 DEF Expired
<1>7. CASE UNCHANGED vars
  BY <1>4, <1>7 DEF vars
<1> QED
  BY <1>1, <1>2, <1>3, <1>4, <1>5, <1>6, <1>7 DEF Next

\* LPop and BatchLPop of redis.go, for lists of any length and counts of any
\* size and sign: however they overlap, an element is handed to one caller and
\* leaves the list, unless a batch of count 0 returned it.
THEOREM PoppedOnce == Spec => []HandedOutOnce
<1>1. Init => PopInv
  BY PopInitInv
<1>2. PopInv /\ [Next]_vars => PopInv'
  BY PopStep
<1>3. PopInv => HandedOutOnce
  <2> SUFFICES ASSUME PopInv, NEW e \in Elem \ peeked
               PROVE  handed[e] + Cardinality({i \in 1..Len(list) : list[i] = e}) <= 1
    BY DEF HandedOutOnce
  <2>1. handed[e] \in Nat /\ handed[e] <= 1
    BY DEF PopInv
  <2>2. CASE \E i \in 1..Len(list) : list[i] = e
    <3>1. PICK i \in 1..Len(list) : list[i] = e
      BY <2>2
    <3>2. {j \in 1..Len(list) : list[j] = e} = {i}
      BY <3>1 DEF PopInv
    <3>3. handed[e] = 0
      BY <3>1 DEF PopInv
    <3>4. Cardinality({j \in 1..Len(list) : list[j] = e}) = 1
      BY <3>2, FS_Singleton
    <3> QED
      BY <3>3, <3>4
  <2>3. CASE ~ \E i \in 1..Len(list) : list[i] = e
    <3>1. {j \in 1..Len(list) : list[j] = e} = {}
      BY <2>3
    <3>2. Cardinality({j \in 1..Len(list) : list[j] = e}) = 0
      BY <3>1, FS_EmptySet
    <3> QED
      BY <2>1, <3>2
  <2> QED
    BY <2>2, <2>3
<1> QED
  BY <1>1, <1>2, <1>3, PTL DEF Spec
==============================================================================
