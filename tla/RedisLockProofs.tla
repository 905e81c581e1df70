-------------------------- MODULE RedisLockProofs --------------------------
(****************************************************************************)
(* Exclusion and the slack of the renewal, for every set of clients, every  *)
(* time to live of two seconds or more and every number of attempts.        *)
(* LockInv is inductive: the ownership of the key before a lapse, where the *)
(* goroutine of a client may be, and an account of the seconds that the key *)
(* loses, each of which is on the timer or counted as lateness.             *)
(****************************************************************************)
EXTENDS RedisLock, TLAPS

\* The arithmetic of start: the interval is at least a second, at most the ttl.
LEMMA IntervalType == Interval \in Nat /\ Interval >= 1 /\ Interval <= TTL
BY TTLAssumption DEF Interval

\* A client that owns the key is not Nobody, so the key exists.
LEMMA OwnedKeyLives ==
  ASSUME LockTypeOK, NEW p \in Client, owner = p
  PROVE  ttl \in 1..TTL
BY NobodyAssumption, TTLAssumption DEF LockTypeOK

\* Before a lapse, whoever finds no key finds nobody relying on one.
LEMMA FreeMeansUnused ==
  ASSUME LockTypeOK, OwnerInv, ~ lapsed, ttl = 0
  PROVE  Relying = {}
<1> SUFFICES ASSUME NEW p \in Relying PROVE FALSE
  OBVIOUS
<1> QED
  BY NobodyAssumption DEF LockTypeOK, OwnerInv, Relying

LEMMA LockInitInv == LockInit => LockInv
<1> SUFFICES ASSUME LockInit PROVE LockInv
  OBVIOUS
<1>1. LockTypeOK
  <2>1. due \in [Client -> BOOLEAN] /\ owed \in [Client -> BOOLEAN] /\ lapsed \in BOOLEAN
    BY Zenon DEF LockInit
  <2>2. timer \in [Client -> 0..Interval] /\ overdue \in [Client -> 0..TTL]
    BY TTLAssumption, IntervalType DEF LockInit
  <2> QED
    BY <2>1, <2>2, TTLAssumption DEF LockInit, LockTypeOK
<1>2. OwnerInv
  BY DEF LockInit, OwnerInv, Relying
<1>3. ASSUME NEW p \in Client PROVE RenewerInv(p) /\ SlackInv(p)
  BY NobodyAssumption DEF LockInit, RenewerInv, SlackInv
<1> QED
  BY <1>1, <1>2, <1>3 DEF LockInv

\* A call of Lock changes only the place of its client.
LEMMA LockCallInv ==
  ASSUME LockInv, NEW p \in Client, LockCall(p)
  PROVE  LockInv'
<1> USE TTLAssumption, IntervalType, NobodyAssumption
<1>1. LockTypeOK /\ OwnerInv /\ \A q \in Client : RenewerInv(q) /\ SlackInv(q)
  BY DEF LockInv
<1>2. LockTypeOK'
  BY <1>1 DEF LockTypeOK, LockCall, Goto, key, timed
<1>3. OwnerInv'
  BY <1>1 DEF LockTypeOK, OwnerInv, Relying, LockCall, Goto, key, timed
<1>4. ASSUME NEW q \in Client PROVE RenewerInv(q)' /\ SlackInv(q)'
  <2>1. RenewerInv(q) /\ SlackInv(q)
    BY <1>1
  <2>2. RenewerInv(q)'
    BY <1>1, <2>1 DEF LockTypeOK, RenewerInv, LockCall, Goto, key, timed
  <2>3. SlackInv(q)'
    BY <1>1, <2>1 DEF LockTypeOK, RenewerInv, SlackInv, LockCall, Goto, key, timed
  <2> QED
    BY <2>2, <2>3
<1> QED
  BY <1>2, <1>3, <1>4 DEF LockInv

\* The key is set only where there is none, so nobody else relied on it.
LEMMA SetKeyInv ==
  ASSUME LockInv, NEW p \in Client, SetKey(p)
  PROVE  LockInv'
<1> USE TTLAssumption, IntervalType, NobodyAssumption
<1>1. LockTypeOK /\ OwnerInv /\ \A q \in Client : RenewerInv(q) /\ SlackInv(q)
  BY DEF LockInv
<1>2. LockTypeOK'
  BY <1>1 DEF LockTypeOK, SetKey, Goto, key, timed
<1>3. OwnerInv'
  <2>1. ~ lapsed => Relying = {}
    BY <1>1, FreeMeansUnused DEF SetKey
  <2> QED
    BY <1>1, <2>1 DEF LockTypeOK, OwnerInv, Relying, SetKey, Goto
<1>4. ASSUME NEW q \in Client PROVE RenewerInv(q)' /\ SlackInv(q)'
  <2>1. RenewerInv(q) /\ SlackInv(q)
    BY <1>1
  <2>2. RenewerInv(q)'
    BY <1>1, <2>1 DEF LockTypeOK, RenewerInv, SetKey, Goto, key, timed
  <2>3. SlackInv(q)'
    BY <1>1, <2>1 DEF LockTypeOK, RenewerInv, SlackInv, SetKey, Goto, key, timed
  <2> QED
    BY <2>2, <2>3
<1> QED
  BY <1>2, <1>3, <1>4 DEF LockInv

\* A SET whose reply is lost gives the key to somebody who will not rely on it.
LEMMA SetFailsInv ==
  ASSUME LockInv, NEW p \in Client, SetFails(p)
  PROVE  LockInv'
<1> USE TTLAssumption, IntervalType, NobodyAssumption
<1>1. LockTypeOK /\ OwnerInv /\ \A q \in Client : RenewerInv(q) /\ SlackInv(q)
  BY DEF LockInv
<1>2. LockTypeOK'
  BY <1>1 DEF LockTypeOK, SetFails, TryFailed, Goto, key, timed
<1>3. OwnerInv'
  <2>1. ~ lapsed /\ ttl = 0 => Relying = {}
    BY <1>1, FreeMeansUnused
  <2>2. Relying' \subseteq Relying
    BY <1>1 DEF LockTypeOK, Relying, SetFails, TryFailed, Goto
  <2> QED
    BY <1>1, <2>1, <2>2 DEF OwnerInv, SetFails, key
<1>4. ASSUME NEW q \in Client PROVE RenewerInv(q)' /\ SlackInv(q)'
  <2>1. RenewerInv(q) /\ SlackInv(q)
    BY <1>1
  <2>2. RenewerInv(q)'
    BY <1>1, <2>1 DEF LockTypeOK, RenewerInv, SetFails, TryFailed, Goto, key, timed
  <2>3. SlackInv(q)'
    BY <1>1, <2>1 DEF LockTypeOK, RenewerInv, SlackInv, SetFails, TryFailed, Goto, key, timed
  <2> QED
    BY <2>2, <2>3
<1> QED
  BY <1>2, <1>3, <1>4 DEF LockInv

\* After its sleep a client tries again.
LEMMA WakeInv ==
  ASSUME LockInv, NEW p \in Client, Wake(p)
  PROVE  LockInv'
<1> USE TTLAssumption, IntervalType, NobodyAssumption
<1>1. LockTypeOK /\ OwnerInv /\ \A q \in Client : RenewerInv(q) /\ SlackInv(q)
  BY DEF LockInv
<1>2. LockTypeOK'
  BY <1>1 DEF LockTypeOK, Wake, Goto, key, timed
<1>3. OwnerInv'
  BY <1>1 DEF LockTypeOK, OwnerInv, Relying, Wake, Goto, key, timed
<1>4. ASSUME NEW q \in Client PROVE RenewerInv(q)' /\ SlackInv(q)'
  <2>1. RenewerInv(q) /\ SlackInv(q)
    BY <1>1
  <2>2. RenewerInv(q)'
    BY <1>1, <2>1 DEF LockTypeOK, RenewerInv, Wake, Goto, key, timed
  <2>3. SlackInv(q)'
    BY <1>1, <2>1 DEF LockTypeOK, RenewerInv, SlackInv, Wake, Goto, key, timed
  <2> QED
    BY <2>2, <2>3
<1> QED
  BY <1>2, <1>3, <1>4 DEF LockInv

\* The goroutine starts with the lateness of the reply counted.
LEMMA LockReturnInv ==
  ASSUME LockInv, NEW p \in Client, LockReturn(p)
  PROVE  LockInv'
<1> USE TTLAssumption, IntervalType, NobodyAssumption
<1>1. LockTypeOK /\ OwnerInv /\ \A q \in Client : RenewerInv(q) /\ SlackInv(q)
  BY DEF LockInv
<1>2. LockTypeOK'
  BY <1>1 DEF LockTypeOK, LockReturn, Goto, key, timed
<1>3. OwnerInv'
  BY <1>1 DEF LockTypeOK, OwnerInv, Relying, LockReturn, Goto, key, timed
<1>4. ASSUME NEW q \in Client PROVE RenewerInv(q)' /\ SlackInv(q)'
  <2>1. RenewerInv(q) /\ SlackInv(q)
    BY <1>1
  <2>2. RenewerInv(q)'
    BY <1>1, <2>1 DEF LockTypeOK, RenewerInv, LockReturn, Goto, key, timed
  <2>3. SlackInv(q)'
    BY <1>1, <2>1 DEF LockTypeOK, RenewerInv, SlackInv, LockReturn, Goto, key, timed
  <2> QED
    BY <2>2, <2>3
<1> QED
  BY <1>2, <1>3, <1>4 DEF LockInv

\* From the start of the ticker on, the time the key loses is on the timer.
LEMMA RenewStartInv ==
  ASSUME LockInv, NEW p \in Client, RenewStart(p)
  PROVE  LockInv'
<1> USE TTLAssumption, IntervalType, NobodyAssumption
<1>1. LockTypeOK /\ OwnerInv /\ \A q \in Client : RenewerInv(q) /\ SlackInv(q)
  BY DEF LockInv
<1>2. LockTypeOK'
  BY <1>1 DEF LockTypeOK, RenewStart, Goto, key, timed
<1>3. OwnerInv'
  BY <1>1 DEF LockTypeOK, OwnerInv, Relying, RenewStart, Goto, key, timed
<1>4. ASSUME NEW q \in Client PROVE RenewerInv(q)' /\ SlackInv(q)'
  <2>1. RenewerInv(q) /\ SlackInv(q)
    BY <1>1
  <2>2. RenewerInv(q)'
    BY <1>1, <2>1 DEF LockTypeOK, RenewerInv, RenewStart, Goto, key, timed
  <2>3. SlackInv(q)'
    BY <1>1, <2>1 DEF LockTypeOK, RenewerInv, SlackInv, RenewStart, Goto, key, timed
  <2> QED
    BY <2>2, <2>3
<1> QED
  BY <1>2, <1>3, <1>4 DEF LockInv

\* A failed EXPIRE leaves the renewal owed.
LEMMA RenewFailsInv ==
  ASSUME LockInv, NEW p \in Client, RenewFails(p)
  PROVE  LockInv'
<1> USE TTLAssumption, IntervalType, NobodyAssumption
<1>1. LockTypeOK /\ OwnerInv /\ \A q \in Client : RenewerInv(q) /\ SlackInv(q)
  BY DEF LockInv
<1>2. LockTypeOK'
  BY <1>1 DEF LockTypeOK, RenewFails, Goto, key, timed
<1>3. OwnerInv'
  BY <1>1 DEF LockTypeOK, OwnerInv, Relying, RenewFails, Goto, key, timed
<1>4. ASSUME NEW q \in Client PROVE RenewerInv(q)' /\ SlackInv(q)'
  <2>1. RenewerInv(q) /\ SlackInv(q)
    BY <1>1
  <2>2. RenewerInv(q)'
    BY <1>1, <2>1 DEF LockTypeOK, RenewerInv, RenewFails, Goto, key, timed
  <2>3. SlackInv(q)'
    BY <1>1, <2>1 DEF LockTypeOK, RenewerInv, SlackInv, RenewFails, Goto, key, timed
  <2> QED
    BY <2>2, <2>3
<1> QED
  BY <1>2, <1>3, <1>4 DEF LockInv

\* The goroutine of a holder is not cancelled, so none of them ends.
LEMMA RenewEndsInv ==
  ASSUME LockInv, NEW p \in Client, RenewEnds(p)
  PROVE  LockInv'
<1> USE TTLAssumption, IntervalType, NobodyAssumption
<1>1. LockTypeOK /\ OwnerInv /\ \A q \in Client : RenewerInv(q) /\ SlackInv(q)
  BY DEF LockInv
<1>2. LockTypeOK'
  BY <1>1 DEF LockTypeOK, RenewEnds, Goto, key, timed
<1>3. OwnerInv'
  BY <1>1 DEF LockTypeOK, OwnerInv, Relying, RenewEnds, Goto, key, timed
<1>4. ASSUME NEW q \in Client PROVE RenewerInv(q)' /\ SlackInv(q)'
  <2>1. RenewerInv(q) /\ SlackInv(q)
    BY <1>1
  <2>2. RenewerInv(q)'
    BY <1>1, <2>1 DEF LockTypeOK, RenewerInv, RenewEnds, Goto, key, timed
  <2>3. SlackInv(q)'
    BY <1>1, <2>1 DEF LockTypeOK, RenewerInv, SlackInv, RenewEnds, Goto, key, timed
  <2> QED
    BY <2>2, <2>3
<1> QED
  BY <1>2, <1>3, <1>4 DEF LockInv

\* Cancelling the goroutine leaves the state of the holders.
LEMMA UnlockInv ==
  ASSUME LockInv, NEW p \in Client, Unlock(p)
  PROVE  LockInv'
<1> USE TTLAssumption, IntervalType, NobodyAssumption
<1>1. LockTypeOK /\ OwnerInv /\ \A q \in Client : RenewerInv(q) /\ SlackInv(q)
  BY DEF LockInv
<1>2. LockTypeOK'
  BY <1>1 DEF LockTypeOK, Unlock, Goto, key, timed
<1>3. OwnerInv'
  BY <1>1 DEF LockTypeOK, OwnerInv, Relying, Unlock, Goto, key, timed
<1>4. ASSUME NEW q \in Client PROVE RenewerInv(q)' /\ SlackInv(q)'
  <2>1. RenewerInv(q) /\ SlackInv(q)
    BY <1>1
  <2>2. RenewerInv(q)'
    BY <1>1, <2>1 DEF LockTypeOK, RenewerInv, Unlock, Goto, key, timed
  <2>3. SlackInv(q)'
    BY <1>1, <2>1 DEF LockTypeOK, RenewerInv, SlackInv, Unlock, Goto, key, timed
  <2> QED
    BY <2>2, <2>3
<1> QED
  BY <1>2, <1>3, <1>4 DEF LockInv

\* Nothing is promised about the goroutine of a dead client.
LEMMA CrashInv ==
  ASSUME LockInv, NEW p \in Client, Crash(p)
  PROVE  LockInv'
<1> USE TTLAssumption, IntervalType, NobodyAssumption
<1>1. LockTypeOK /\ OwnerInv /\ \A q \in Client : RenewerInv(q) /\ SlackInv(q)
  BY DEF LockInv
<1>2. LockTypeOK'
  BY <1>1 DEF LockTypeOK, Crash, Goto, key, timed
<1>3. OwnerInv'
  BY <1>1 DEF LockTypeOK, OwnerInv, Relying, Crash, Goto, key, timed
<1>4. ASSUME NEW q \in Client PROVE RenewerInv(q)' /\ SlackInv(q)'
  <2>1. RenewerInv(q) /\ SlackInv(q)
    BY <1>1
  <2>2. RenewerInv(q)'
    BY <1>1, <2>1 DEF LockTypeOK, RenewerInv, Crash, Goto, key, timed
  <2>3. SlackInv(q)'
    BY <1>1, <2>1 DEF LockTypeOK, RenewerInv, SlackInv, Crash, Goto, key, timed
  <2> QED
    BY <2>2, <2>3
<1> QED
  BY <1>2, <1>3, <1>4 DEF LockInv

\* An EXPIRE restores the whole ttl, whoever owns the key.
LEMMA RenewInv ==
  ASSUME LockInv, NEW p \in Client, Renew(p)
  PROVE  LockInv'
<1> USE TTLAssumption, IntervalType, NobodyAssumption
<1>1. LockTypeOK /\ OwnerInv /\ \A q \in Client : RenewerInv(q) /\ SlackInv(q)
  BY DEF LockInv
<1>2. LockTypeOK'
  BY <1>1 DEF LockTypeOK, Renew, Renewed, Goto, key, timed
<1>3. OwnerInv'
  BY <1>1 DEF LockTypeOK, OwnerInv, Relying, Renew, Renewed, Goto, key, timed
<1>4. ASSUME NEW q \in Client PROVE RenewerInv(q)' /\ SlackInv(q)'
  <2>1. RenewerInv(q) /\ SlackInv(q)
    BY <1>1
  <2>2. RenewerInv(q)'
    BY <1>1, <2>1 DEF LockTypeOK, RenewerInv, Renew, Renewed, Goto, key, timed
  <2>3. SlackInv(q)'
    BY <1>1, <2>1 DEF LockTypeOK, RenewerInv, SlackInv, Renew, Renewed, Goto, key, timed
  <2> QED
    BY <2>2, <2>3
<1> QED
  BY <1>2, <1>3, <1>4 DEF LockInv

\* Before a lapse the key that unlock deletes is its own.
LEMMA DelInv ==
  ASSUME LockInv, NEW p \in Client, Del(p)
  PROVE  LockInv'
<1> USE TTLAssumption, IntervalType, NobodyAssumption
<1>1. LockTypeOK /\ OwnerInv /\ \A q \in Client : RenewerInv(q) /\ SlackInv(q)
  BY DEF LockInv
<1>2. LockTypeOK'
  BY <1>1 DEF LockTypeOK, Del, Goto, key, timed
<1>3. OwnerInv'
  BY <1>1 DEF LockTypeOK, OwnerInv, Relying, Del, Goto, key, timed
<1>4. ASSUME NEW q \in Client PROVE RenewerInv(q)' /\ SlackInv(q)'
  <2>1. RenewerInv(q) /\ SlackInv(q)
    BY <1>1
  <2>2. RenewerInv(q)'
    BY <1>1, <2>1 DEF LockTypeOK, RenewerInv, Del, Goto, key, timed
  <2>3. SlackInv(q)'
    BY <1>1, <2>1 DEF LockTypeOK, RenewerInv, SlackInv, Del, Goto, key, timed
  <2> QED
    BY <2>2, <2>3
<1> QED
  BY <1>2, <1>3, <1>4 DEF LockInv

\* A second that the key loses comes off a timer or is counted as lateness; an expiry under a client that relies on the key is a lapse.
LEMMA TickInv ==
  ASSUME LockInv, Tick
  PROVE  LockInv'
<1> USE TTLAssumption, IntervalType, NobodyAssumption
<1>1. LockTypeOK /\ OwnerInv /\ \A q \in Client : RenewerInv(q) /\ SlackInv(q)
  BY DEF LockInv
<1>2. LockTypeOK'
  BY <1>1 DEF LockTypeOK, Tick, Ticking, Late
<1>3. OwnerInv'
  <2>1. pc' = pc /\ Relying' = Relying
    BY DEF Tick, Relying
  <2>2. CASE lapsed'
    BY <2>2 DEF OwnerInv
  <2>3. CASE ~ lapsed'
    <3>1. ~ lapsed /\ ~ (ttl = 1 /\ owner \in Relying)
      BY <2>3 DEF Tick
    <3>2. ASSUME NEW q \in Client, q \in Relying PROVE owner' = q
      <4>1. owner = q /\ ttl \in 1..TTL
        BY <1>1, <3>1, <3>2, OwnedKeyLives DEF OwnerInv
      <4>2. ttl # 1
        BY <3>1, <3>2, <4>1
      <4> QED
        BY <4>1, <4>2 DEF Tick
    <3> QED
      BY <2>1, <3>2 DEF OwnerInv
  <2> QED
    BY <2>2, <2>3
<1>4. ASSUME NEW q \in Client PROVE RenewerInv(q)' /\ SlackInv(q)'
  <2>1. RenewerInv(q) /\ SlackInv(q)
    BY <1>1
  <2>2. RenewerInv(q)'
    BY <1>1, <2>1 DEF LockTypeOK, RenewerInv, Tick, Ticking, Late
  <2>3. SlackInv(q)'
    <3> SUFFICES ASSUME owner' = q, pc[q] \in {"reply", "holding"}
                 PROVE  /\ renewer[q] # "on" => ttl' + overdue'[q] >= TTL
                        /\ renewer[q] = "on" /\ ~ owed'[q] =>
                             ttl' + overdue'[q] >= TTL - Interval + timer'[q]
                        /\ ttl' + overdue'[q] >= TTL - Interval
      BY DEF SlackInv, Tick
    <3>1. owner = q /\ ttl \in 2..TTL /\ ttl' = ttl - 1
      <4>1. ttl' # 0 /\ owner = q
        BY DEF Tick
      <4>2. ttl \in 1..TTL
        BY <1>1, <4>1, OwnedKeyLives
      <4> QED
        BY <4>1, <4>2 DEF Tick
    <3>2. overdue[q] \in 0..TTL /\ timer[q] \in 0..Interval
      BY <1>1 DEF LockTypeOK
    <3>3. Late(q) => ttl' + overdue'[q] >= TTL \/ ttl' + overdue'[q] >= ttl + overdue[q]
      BY <3>1, <3>2 DEF Tick
    <3>4. overdue'[q] \in 0..TTL
      BY <3>2 DEF Tick
    <3>5. CASE renewer[q] # "on"
      <4>1. Late(q)
        BY <2>1, <3>5 DEF RenewerInv, Late
      <4>2. ttl + overdue[q] >= TTL
        BY <2>1, <3>1, <3>5 DEF SlackInv
      <4> QED
        BY <3>1, <3>2, <3>3, <3>4, <3>5, <4>1, <4>2
    <3>6. CASE renewer[q] = "on" /\ owed[q]
      <4>1. Late(q) /\ owed'[q]
        BY <3>6 DEF Late, Tick
      <4>2. ttl + overdue[q] >= TTL - Interval
        BY <2>1, <3>1 DEF SlackInv
      <4> QED
        BY <3>1, <3>2, <3>3, <3>4, <3>6, <4>1, <4>2
    <3>7. CASE renewer[q] = "on" /\ ~ owed[q]
      <4>1. ttl + overdue[q] >= TTL - Interval + timer[q] /\ timer[q] >= 1
        BY <2>1, <3>1, <3>7 DEF SlackInv, RenewerInv
      <4>2. ttl' + overdue'[q] >= ttl + overdue[q] - 1
        BY <3>1, <3>2 DEF Tick
      <4>3. ~ owed'[q] => timer'[q] = timer[q] - 1
        BY <3>2, <3>7 DEF Tick, Ticking
      <4> QED
        BY <3>1, <3>2, <3>4, <3>7, <4>1, <4>2, <4>3
    <3> QED
      BY <3>5, <3>6, <3>7
  <2> QED
    BY <2>2, <2>3
<1> QED
  BY <1>2, <1>3, <1>4 DEF LockInv

\* Nobody does anything.
LEMMA StutterInv == LockInv /\ UNCHANGED lockVars => LockInv'
BY DEF LockInv, LockTypeOK, OwnerInv, Relying, RenewerInv, SlackInv, lockVars, key, timed

LEMMA LockNextInv == LockInv /\ [LockNext]_lockVars => LockInv'
<1> SUFFICES ASSUME LockInv, [LockNext]_lockVars PROVE LockInv'
  OBVIOUS
<1>1. CASE Tick
  BY <1>1, TickInv
<1>2. CASE UNCHANGED lockVars
  BY <1>2, StutterInv
<1>3. ASSUME NEW p \in Client, LockCall(p) \/ Unlock(p) \/ Crash(p) PROVE LockInv'
  BY <1>3, LockCallInv, UnlockInv, CrashInv
<1>4. ASSUME NEW p \in Client, ClientStep(p) PROVE LockInv'
  BY <1>4, SetKeyInv, SetFailsInv, WakeInv, LockReturnInv, DelInv DEF ClientStep
<1>5. ASSUME NEW p \in Client, RenewStep(p) PROVE LockInv'
  BY <1>5, RenewStartInv, RenewInv, RenewFailsInv, RenewEndsInv DEF RenewStep
<1> QED
  BY <1>1, <1>2, <1>3, <1>4, <1>5 DEF LockNext

\* Lock, its goroutine and unlock (redis/lock.go): the types, who may rely on
\* the key, and the account of the seconds it loses, in every reachable state.
THEOREM LockInvHolds == LockSpec => []LockInv
BY LockInitInv, LockNextInv, PTL DEF LockSpec

\* Exclusion: until a key expires under a client that relied on it, the holder
\* of the lock owns the key, and so there is at most one.
THEOREM HolderOwnsTheKey == LockSpec => []HolderOwnsKey
<1>1. LockInv => HolderOwnsKey
  BY DEF LockInv, OwnerInv, Relying, HolderOwnsKey
<1> QED
  BY <1>1, LockInvHolds, PTL

\* The key of a live holder does not expire before the renewal has been late, or
\* has failed, for TTL - Interval seconds.
THEOREM RenewalHasSlack == LockSpec => []RenewalSlack
<1>1. LockInv => RenewalSlack
  BY DEF LockInv, SlackInv, RenewalSlack
<1> QED
  BY <1>1, LockInvHolds, PTL

------------------------------------------------------------------------------
(* The lock on lease *)

\* The phases, as the refinement mapping sees them.
PhaseOf == [p \in Client |-> Phase(p)]

\* Whoever relies on the key has been granted the lock.
LEMMA GrantedAreRelying ==
  ASSUME LockTypeOK
  PROVE  L!Granted = Relying
<1>1. \A p \in Client : PhaseOf[p] = "granted" <=> pc[p] \in {"reply", "holding", "del"}
  BY DEF PhaseOf, Phase, LockTypeOK
<1> QED
  BY <1>1 DEF L!Granted, Relying, PhaseOf

\* A step that takes p from one label to another takes it from phase to phase.
LEMMA PhaseStep ==
  ASSUME LockTypeOK, NEW p \in Client, NEW label, Goto(p, label),
         NEW a, NEW b, Phase(p) = a, Phase(p)' = b
  PROVE  L!Move(p, a, b)
<1>1. \A q \in Client \ {p} : Phase(q)' = Phase(q)
  BY DEF Phase, Goto, LockTypeOK
<1>2. PhaseOf[p] = a /\ PhaseOf' = [PhaseOf EXCEPT ![p] = b]
  BY <1>1 DEF PhaseOf
<1> QED
  BY <1>2 DEF PhaseOf, L!Move

\* Steps of the renewal, and steps that only change how far a call has got.
LEMMA LockStutters ==
  ASSUME LockTypeOK, lapsed' = lapsed, ttl' > 0 <=> ttl > 0,
         \A p \in Client : Phase(p)' = Phase(p)
  PROVE  UNCHANGED L!vars
<1>1. PhaseOf' = PhaseOf
  BY DEF PhaseOf
<1>2. (ttl' > 0) = (ttl > 0)
  OBVIOUS
<1> QED
  BY <1>1, <1>2 DEF PhaseOf, L!vars

\* Lock: the SET that finds no key grants the lock, and before a lapse nobody
\* has it then; another may take it for nobody.
LEMMA LockRefines ==
  ASSUME LockInv, NEW p \in Client,
         LockCall(p) \/ SetKey(p) \/ SetFails(p) \/ Wake(p) \/ LockReturn(p)
  PROVE  [L!Next]_L!vars
<1> USE TTLAssumption, NobodyAssumption
<1>1. LockTypeOK /\ OwnerInv
  BY DEF LockInv
<1>2. ASSUME LockCall(p)
      PROVE  [L!Next]_L!vars
  <2>1. CASE Try >= 0
    <3>1. Goto(p, "set") /\ Phase(p) = "out" /\ Phase(p)' = "asking" /\ UNCHANGED <<ttl, lapsed>>
      BY <1>1, <1>2, <2>1 DEF LockCall, Goto, Phase, LockTypeOK, key
    <3>2. L!Ask(p)
      BY <1>1, <3>1, PhaseStep DEF L!Ask
    <3> QED
      BY <3>2 DEF L!Next
  <2>2. CASE ~ (Try >= 0)
    <3>1. UNCHANGED <<pc, ttl, lapsed>>
      BY <1>2, <2>2 DEF LockCall, key
    <3> QED
      BY <1>1, <3>1, LockStutters DEF Phase
  <2> QED
    BY <2>1, <2>2
<1>3. ASSUME SetKey(p)
      PROVE  [L!Next]_L!vars
  <2>1. /\ Goto(p, "reply") /\ Phase(p) = "asking" /\ Phase(p)' = "granted"
        /\ ttl = 0 /\ ttl' = TTL /\ lapsed' = lapsed
    BY <1>1, <1>3 DEF SetKey, Goto, Phase, LockTypeOK
  <2>2. ~ lapsed => L!Granted = {}
    BY <1>1, <2>1, FreeMeansUnused, GrantedAreRelying
  <2>3. L!Acquire(p)
    BY <1>1, <2>1, <2>2, PhaseStep DEF L!Acquire
  <2> QED
    BY <2>3 DEF L!Next
<1>4. ASSUME SetFails(p)
      PROVE  [L!Next]_L!vars
  <2>1. lapsed' = lapsed /\ pc[p] = "set" /\ Phase(p) = "asking" /\ (ttl > 0 => ttl' > 0)
    BY <1>1, <1>4 DEF SetFails, Phase, LockTypeOK, key
  <2>2. CASE i[p] = Try
    <3>1. Goto(p, "idle") /\ Phase(p)' = "out"
      BY <1>1, <1>4, <2>2 DEF SetFails, TryFailed, Goto, Phase, LockTypeOK
    <3>2. L!GiveUp(p)
      BY <1>1, <2>1, <3>1, PhaseStep DEF L!GiveUp
    <3> QED
      BY <3>2 DEF L!Next
  <2>3. CASE i[p] # Try
    <3>1. Goto(p, "sleep")
      BY <1>4, <2>3 DEF SetFails, TryFailed
    <3>2. \A q \in Client : Phase(q)' = Phase(q)
      BY <1>1, <2>1, <3>1 DEF Goto, Phase, LockTypeOK
    <3>3. CASE ttl' = ttl
      BY <1>1, <2>1, <3>2, <3>3, LockStutters
    <3>4. CASE ttl = 0 /\ ttl' = TTL
      <4>1. PhaseOf' = PhaseOf
        BY <3>2 DEF PhaseOf
      <4>2. L!TakeUnheard
        BY <2>1, <3>4, <4>1 DEF L!TakeUnheard, PhaseOf
      <4> QED
        BY <4>2 DEF L!Next
    <3> QED
      BY <1>4, <3>3, <3>4 DEF SetFails, key
  <2> QED
    BY <2>2, <2>3
<1>5. ASSUME Wake(p) \/ LockReturn(p)
      PROVE  [L!Next]_L!vars
  <2>1. UNCHANGED <<ttl, lapsed>> /\ \A q \in Client : Phase(q)' = Phase(q)
    BY <1>1, <1>5 DEF Wake, LockReturn, Goto, Phase, LockTypeOK, key
  <2> QED
    BY <1>1, <2>1, LockStutters
<1> QED
  BY <1>2, <1>3, <1>4, <1>5

\* The unlock function: cancel() keeps the lock, DEL gives it back, and before a
\* lapse there is nobody else whose key it could delete.
LEMMA UnlockRefines ==
  ASSUME LockInv, NEW p \in Client, Unlock(p) \/ Del(p)
  PROVE  [L!Next]_L!vars
<1> USE TTLAssumption, NobodyAssumption
<1>1. LockTypeOK /\ OwnerInv
  BY DEF LockInv
<1>2. CASE Unlock(p)
  <2>1. UNCHANGED <<ttl, lapsed>> /\ \A q \in Client : Phase(q)' = Phase(q)
    BY <1>1, <1>2 DEF Unlock, Goto, Phase, LockTypeOK, key
  <2> QED
    BY <1>1, <2>1, LockStutters
<1>3. CASE Del(p)
  <2>1. /\ Goto(p, "idle") /\ Phase(p) = "granted" /\ Phase(p)' = "out" /\ pc[p] = "del"
        /\ lapsed' = lapsed /\ (ttl' > 0 => ttl > 0)
    BY <1>1, <1>3 DEF Del, Goto, Phase, LockTypeOK, key
  <2>2. ~ lapsed => ttl > 0 /\ L!Granted = {p}
    <3>1. ~ lapsed => Relying = {p}
      BY <1>1, <2>1 DEF OwnerInv, Relying
    <3>2. ~ lapsed => ttl > 0
      BY <1>1, <3>1, OwnedKeyLives DEF OwnerInv
    <3> QED
      BY <1>1, <3>1, <3>2, GrantedAreRelying
  <2>3. L!Release(p)
    BY <1>1, <2>1, <2>2, PhaseStep DEF L!Release
  <2> QED
    BY <2>3 DEF L!Next
<1> QED
  BY <1>2, <1>3

\* The renewal moves the end of the lease and nothing else.
LEMMA RenewRefines ==
  ASSUME LockInv, NEW p \in Client, RenewStep(p)
  PROVE  [L!Next]_L!vars
<1>1. LockTypeOK
  BY DEF LockInv
<1>2. UNCHANGED <<pc, lapsed>> /\ (ttl' > 0 <=> ttl > 0)
  BY <1>1, TTLAssumption DEF RenewStep, RenewStart, Renew, Renewed, RenewFails, RenewEnds, key, LockTypeOK
<1> QED
  BY <1>1, <1>2, LockStutters DEF Phase

LEMMA CrashRefines ==
  ASSUME LockInv, NEW p \in Client, Crash(p)
  PROVE  L!Next
<1>1. LockTypeOK
  BY DEF LockInv
<1>2. Goto(p, "crashed") /\ Phase(p) # "dead" /\ Phase(p)' = "dead" /\ UNCHANGED <<ttl, lapsed>>
  BY <1>1 DEF Crash, Goto, Phase, LockTypeOK, key
<1>3. L!Move(p, Phase(p), "dead")
  BY <1>1, <1>2, PhaseStep
<1>4. L!Die(p)
  BY <1>2, <1>3 DEF L!Die, L!Move
<1> QED
  BY <1>4 DEF L!Next

\* A second passes: a lease may run out, which is a lapse exactly when a client
\* has the lock.
LEMMA TickRefines ==
  ASSUME LockInv, Tick
  PROVE  [L!Next]_L!vars
<1> USE TTLAssumption, NobodyAssumption
<1>1. LockTypeOK /\ OwnerInv
  BY DEF LockInv
<1>2. /\ pc' = pc /\ ttl' = IF ttl = 0 THEN 0 ELSE ttl - 1
      /\ lapsed' = (lapsed \/ (ttl = 1 /\ owner \in Relying))
  BY DEF Tick
<1>3. \A q \in Client : Phase(q)' = Phase(q)
  BY <1>2 DEF Phase
<1>4. CASE ttl # 1
  <2>1. lapsed' = lapsed /\ (ttl' > 0 <=> ttl > 0)
    BY <1>1, <1>2, <1>4 DEF LockTypeOK
  <2> QED
    BY <1>1, <1>3, <2>1, LockStutters
<1>5. CASE ttl = 1
  <2>1. ~ lapsed => (owner \in Relying <=> Relying # {})
    BY <1>1 DEF OwnerInv, Relying
  <2>2. lapsed' = (lapsed \/ L!Granted # {})
    BY <1>1, <1>2, <1>5, <2>1, GrantedAreRelying DEF LockTypeOK
  <2>3. PhaseOf' = PhaseOf
    BY <1>3 DEF PhaseOf
  <2>4. L!RunOut
    BY <1>2, <1>5, <2>2, <2>3 DEF L!RunOut, PhaseOf
  <2> QED
    BY <2>4 DEF L!Next
<1> QED
  BY <1>4, <1>5

\* redis/lock.go:17-57 implements the lock on lease, for any set of clients, any
\* number of tries and any ttl: until a key expires under a client that was
\* granted the lock, the lock is granted only while nobody has it.
THEOREM LockIsLeased == LockSpec => GrantedOnLease
<1>1. LockInit => L!Init
  <2> SUFFICES ASSUME LockInit PROVE L!Init
    OBVIOUS
  <2>1. \A p \in Client : Phase(p) = "out"
    BY DEF LockInit, Phase
  <2> QED
    BY <2>1 DEF LockInit, L!Init
<1>2. LockInv /\ [LockNext]_lockVars => [L!Next]_L!vars
  <2> SUFFICES ASSUME LockInv, [LockNext]_lockVars PROVE [L!Next]_L!vars
    OBVIOUS
  <2>1. CASE Tick
    BY <2>1, TickRefines
  <2>2. CASE UNCHANGED lockVars
    <3>1. LockTypeOK /\ UNCHANGED <<pc, ttl, lapsed>>
      BY <2>2 DEF LockInv, lockVars, key
    <3> QED
      BY <3>1, LockStutters DEF Phase
  <2>3. ASSUME NEW p \in Client, LockCall(p) \/ Unlock(p) \/ Crash(p) PROVE [L!Next]_L!vars
    BY <2>3, LockRefines, UnlockRefines, CrashRefines
  <2>4. ASSUME NEW p \in Client, ClientStep(p) PROVE [L!Next]_L!vars
    BY <2>4, LockRefines, UnlockRefines DEF ClientStep
  <2>5. ASSUME NEW p \in Client, RenewStep(p) PROVE [L!Next]_L!vars
    BY <2>5, RenewRefines
  <2> QED
    BY <2>1, <2>2, <2>3, <2>4, <2>5 DEF LockNext
<1> QED
  BY <1>1, <1>2, LockInvHolds, PTL DEF LockSpec, GrantedOnLease, L!Spec
=============================================================================
