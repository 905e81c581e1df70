----------------------------- MODULE RedisClient -----------------------------
(****************************************************************************)
(* redis/redis.go: commands on connections borrowed from a pool.  Conn      *)
(* borrows one, every command gives it back by a deferred Close, and a      *)
(* Connect serves one command only: its Conn is shared by every copy.       *)
(*                                                                          *)
(* The server is external.  Of its data the model keeps what the properties *)
(* tell apart: a list whose elements are handed out, a key that is absent,  *)
(* a string or a hash, with or without an expiry, and a sorted set.  Each   *)
(* command takes effect at once; a request may be lost before it has an     *)
(* effect and a reply after it.                                             *)
(****************************************************************************)
EXTENDS Integers, FiniteSets, SequencesExt

CONSTANTS
  Caller,     \* goroutines
  MaxActive,  \* connections the pool may have in use
  Elem,       \* what is pushed to the list, each once
  Count,      \* the arguments count of BatchLPop
  Member,     \* of the sorted set
  Score       \* of each member

ASSUME MaxActiveAssumption == MaxActive \in Nat \ {0}
ASSUME CallerAssumption == IsFiniteSet(Caller)
ASSUME CountAssumption == Count \subseteq Int
ASSUME ScoreAssumption == Score \in [Member -> Int]

VARIABLES
  ready,     \* _initRedis: "no", "running", "yes"
  borrowed,  \* connections in use
  pc,        \* per caller: "idle", "init", "expire", "inner", "receive", "close"
  conn,      \* per caller: what its Connect wraps: "none", "live", "error", "closed"
  list,      \* a list in Redis
  key,       \* a key in Redis: "absent", "string", "hash"
  ttl,       \* the key expires
  zset,      \* a sorted set in Redis
  fresh,     \* history: callers with a connection no command has used
  refused,   \* history: callers whose command returned before its defer
  leaked,    \* history: connections that such callers dropped
  pushed,    \* history: elements pushed
  handed,    \* history: how often an element was returned by a pop
  peeked,    \* history: elements returned by a BatchLPop of count 0
  exOnly,    \* history: the key was written by HMSetEx alone since it was absent
  exError,   \* history: and one of these calls returned an error
  ranged     \* history: the last reply of the ZRange family and what was read of it

access == <<ready, borrowed, pc, conn, fresh, refused, leaked>>
pops   == <<list, pushed, handed, peeked>>
keyed  == <<key, ttl, exOnly, exError>>
sorted == <<zset, ranged>>
vars   == <<access, pops, keyed, sorted>>

Init ==
  /\ ready = "no" /\ borrowed = 0 /\ leaked = 0 /\ fresh = {} /\ refused = {}
  /\ pc = [p \in Caller |-> "idle"]
  /\ conn = [p \in Caller |-> "none"]
  /\ list = <<>> /\ pushed = {} /\ peeked = {}
  /\ handed = [e \in Elem |-> 0]
  /\ key = "absent" /\ ttl = FALSE /\ exOnly = FALSE /\ exError = FALSE
  /\ zset = {} /\ ranged = [asked |-> {}, got |-> {}]

Goto(p, label) == pc' = [pc EXCEPT ![p] = label]

------------------------------------------------------------------------------
(* The pool *)

\* The first caller borrows a connection to PING and closes it, inside
\* once.Do; a failure there ends the process.
InitRedis(p) ==
  /\ \/ /\ pc[p] = "idle" /\ ready = "no"
        /\ ready' = "running" /\ borrowed' = borrowed + 1 /\ Goto(p, "init")
     \/ /\ pc[p] = "init"
        /\ ready' = "yes" /\ borrowed' = borrowed - 1 /\ Goto(p, "idle")
  /\ UNCHANGED <<conn, fresh, refused, leaked, pops, keyed, sorted>>

\* Get of the pool: no connection when all are in use or the dial fails; the
\* Connect then wraps an error.  A caller uses the connection it has borrowed;
\* one whose command returned in front of the defer may drop it.
Conn(p) ==
  /\ pc[p] = "idle" /\ ready = "yes" /\ p \notin fresh
  /\ leaked' = leaked + (IF conn[p] = "live" /\ p \in refused THEN 1 ELSE 0)
  /\ \/ /\ borrowed < MaxActive
        /\ conn' = [conn EXCEPT ![p] = "live"] /\ borrowed' = borrowed + 1
        /\ fresh' = fresh \cup {p}
     \/ conn' = [conn EXCEPT ![p] = "error"] /\ UNCHANGED <<borrowed, fresh>>
  /\ refused' = refused \ {p}
  /\ UNCHANGED <<ready, pc, pops, keyed, sorted>>

\* Close of a borrowed connection: the second one of HMSetEx finds it closed.
GiveBack(p) ==
  /\ conn' = [conn EXCEPT ![p] = IF conn[p] = "live" THEN "closed" ELSE conn[p]]
  /\ borrowed' = borrowed - (IF conn[p] = "live" THEN 1 ELSE 0)

\* The deferred function of every command.
Close(p) ==
  /\ \/ pc[p] = "inner" /\ Goto(p, "close")
     \/ pc[p] = "close" /\ Goto(p, "idle")
  /\ GiveBack(p)
  /\ UNCHANGED <<ready, fresh, refused, leaked, pops, keyed, sorted>>

\* A command begins: its next step is the deferred Close, or the one given.
Command(p, next) ==
  /\ pc[p] = "idle" /\ conn[p] # "none"
  /\ Goto(p, next)
  /\ fresh' = fresh \ {p} /\ refused' = refused \ {p}
  /\ UNCHANGED <<ready, borrowed, conn, leaked>>

\* An early return in front of the defer.
Refuse(p) ==
  /\ pc[p] = "idle" /\ conn[p] # "none"
  /\ fresh' = fresh \ {p} /\ refused' = refused \cup {p}
  /\ UNCHANGED <<ready, borrowed, pc, conn, leaked, pops, keyed, sorted>>

\* The request gets to Redis.
Reached(p) == conn[p] = "live"

------------------------------------------------------------------------------
(* Strings, counters and expiry: what they do to the key *)

Write(kind, expires) ==
  key' = kind /\ ttl' = expires /\ exOnly' = FALSE /\ exError' = FALSE

\* Get, GetBool, Del, SetBool, Set, SetEx, SetExStr, SetExString, MGet, MSet.
\* MSet compares the lengths of its arguments first.
StringCommand(p) ==
  \/ Refuse(p)
  \/ /\ Command(p, "close")
     /\ \/ UNCHANGED keyed
        \/ Reached(p) /\ \/ Write("string", TRUE)
                         \/ Write("string", FALSE)
                         \/ Write("absent", FALSE)
     /\ UNCHANGED <<pops, sorted>>

\* Incr, Decr, TTL: a string is made if there is none, its expiry is kept.
CounterCommand(p) ==
  /\ Command(p, "close")
  /\ \/ UNCHANGED keyed
     \/ Reached(p) /\ key = "absent" /\ Write("string", FALSE)
  /\ UNCHANGED <<pops, sorted>>

ExpireKey == ttl' = (key # "absent") /\ UNCHANGED <<key, exOnly, exError>>

\* Expire, with a positive number of seconds; Exists is the case without an effect.
Expire(p) ==
  /\ Command(p, "close")
  /\ UNCHANGED keyed \/ (Reached(p) /\ ExpireKey)
  /\ UNCHANGED <<pops, sorted>>

\* MExpire: pipelined, and nobody reads the replies.
MExpire(p) == Refuse(p) \/ Expire(p)

\* The expiry of the key.
Expired ==
  /\ ttl /\ Write("absent", FALSE)
  /\ UNCHANGED <<access, pops, sorted>>

------------------------------------------------------------------------------
(* Lists *)

\* RPush, LPush
Push(p, e) ==
  /\ Command(p, "close") /\ Reached(p)
  /\ e \in Elem \ pushed /\ pushed' = pushed \cup {e}
  /\ list' \in {Append(list, e), <<e>> \o list}
  /\ UNCHANGED <<handed, peeked, keyed, sorted>>

\* LRemove, with any number: an element is in the list once.  One that is not
\* there is the ListRead below.
LRemove(p, e) ==
  /\ Command(p, "close") /\ Reached(p)
  /\ \E i \in 1..Len(list) : list[i] = e /\ list' = RemoveAt(list, i)
  /\ UNCHANGED <<pushed, handed, peeked, keyed, sorted>>

\* LRANGE: from start to stop, counted from the end when negative.
Window(l, start, stop) ==
  LET from == IF start < 0 THEN Len(l) + start ELSE start
      to   == IF stop < 0 THEN Len(l) + stop ELSE stop
  IN {i \in 1..Len(l) : from < i /\ i <= to + 1}

Taken(l, window) == {l[i] : i \in window}

\* A reply with these elements arrives, or is lost.  Twice is enough to count.
Hand(elems) ==
  \/ handed' = [e \in Elem |-> IF e \in elems /\ handed[e] < 2 THEN handed[e] + 1 ELSE handed[e]]
  \/ UNCHANGED handed

\* LPop
LPop(p) ==
  /\ Command(p, "close") /\ Reached(p)
  /\ list # <<>> /\ list' = Tail(list) /\ Hand({Head(list)})
  /\ UNCHANGED <<pushed, peeked, keyed, sorted>>

\* The last n elements.
Rest(l, n) == SubSeq(l, Len(l) - n + 1, Len(l))

\* Mutant: the trim begins one too early.
TrimmedLate(l, count) == Rest(l, Cardinality(Window(l, count - 1, -1)))

\* LTRIM key count -1
Trimmed(l, count) == Rest(l, Cardinality(Window(l, count, -1)))

\* BatchLPop: MULTI, LRANGE 0 count-1, LTRIM count -1, EXEC.  With a count of
\* 0 the first takes all and the second keeps all.
BatchLPop(p, count) ==
  /\ Command(p, "close") /\ Reached(p)
  /\ LET got == Taken(list, Window(list, 0, count - 1)) IN
       /\ Hand(got)
       /\ peeked' = IF count = 0 THEN peeked \cup got ELSE peeked
  /\ list' = Trimmed(list, count)
  /\ UNCHANGED <<pushed, keyed, sorted>>

\* LRange and LLen, and every list command whose request is lost.
ListRead(p) == Command(p, "close") /\ UNCHANGED <<pops, keyed, sorted>>

------------------------------------------------------------------------------
(* Hashes *)

\* HSET, HMSET: an error on a string, no change to an expiry.
WriteHash(ex) ==
  /\ key # "string" /\ key' = "hash" /\ UNCHANGED ttl
  /\ exOnly' = (ex /\ (key = "absent" \/ exOnly))
  /\ exError' = (exError /\ exOnly')

\* HSet, HMSet
HMSet(p) ==
  \/ Refuse(p)
  \/ /\ Command(p, "close")
     /\ UNCHANGED keyed \/ (Reached(p) /\ WriteHash(FALSE))
     /\ UNCHANGED <<pops, sorted>>

\* Mutant: an acknowledged HMSET is taken for the whole.
HMSetOnly(p) ==
  \/ Refuse(p)
  \/ /\ Command(p, "close")
     /\ UNCHANGED keyed \/ (Reached(p) /\ WriteHash(TRUE))
     /\ UNCHANGED <<pops, sorted>>

\* HMSetEx: HMSET, and when its reply says so, EXPIRE in a second request.
HMSetEx(p) ==
  \/ Refuse(p)
  \/ /\ Command(p, "expire") /\ Reached(p) /\ WriteHash(TRUE)
     /\ UNCHANGED <<pops, sorted>>
  \/ /\ Command(p, "close")
     /\ \/ UNCHANGED keyed
        \/ /\ Reached(p) /\ key # "string" /\ key' = "hash" /\ UNCHANGED ttl
           /\ exOnly' = (key = "absent" \/ exOnly)
           /\ exError' = TRUE
     /\ UNCHANGED <<pops, sorted>>

\* The EXPIRE of HMSetEx, which closes the connection before HMSetEx does.
HashExpire(p) ==
  /\ pc[p] = "expire" /\ Goto(p, "inner")
  /\ \/ ExpireKey
     \/ exError' = TRUE /\ UNCHANGED <<key, ttl, exOnly>>
  /\ UNCHANGED <<ready, borrowed, conn, fresh, refused, leaked, pops, sorted>>

\* HGet, HMGet, HMGetALL, HExists
HashRead(p) == Command(p, "close") /\ UNCHANGED <<pops, keyed, sorted>>

\* HDel: nothing is sent without fields; the last field takes the key with it.
HDel(p) ==
  /\ Command(p, "close")
  /\ UNCHANGED keyed \/ (Reached(p) /\ key = "hash" /\ Write("absent", FALSE))
  /\ UNCHANGED <<pops, sorted>>

------------------------------------------------------------------------------
(* Sets, publish/subscribe and sorted sets *)

\* SAdd, SRemove, SIsMember
SetCommand(p) == Command(p, "close") /\ UNCHANGED <<pops, keyed, sorted>>

\* PubSub: a failed SUBSCRIBE returns before the defer; messages are received
\* and handled until the connection fails.
PubSub(p) ==
  \/ Refuse(p)
  \/ Command(p, "receive") /\ Reached(p) /\ UNCHANGED <<pops, keyed, sorted>>

\* Mutant: PubSub does not close its connection when receiving has failed.
ReceiveOnly(p) ==
  /\ pc[p] = "receive"
  /\ UNCHANGED pc \/ Goto(p, "idle")
  /\ UNCHANGED <<ready, borrowed, conn, fresh, refused, leaked, pops, keyed, sorted>>

Receive(p) ==
  /\ pc[p] = "receive"
  /\ UNCHANGED pc \/ Goto(p, "close")
  /\ UNCHANGED <<ready, borrowed, conn, fresh, refused, leaked, pops, keyed, sorted>>

\* ZAdd; ZCard, ZCount and ZScore are the case that adds nothing.
ZAdd(p) ==
  /\ Command(p, "close")
  /\ zset' \in {zset} \cup (IF Reached(p) THEN {zset \cup {m} : m \in Member} ELSE {})
  /\ UNCHANGED <<ranged, pops, keyed>>

\* ZRemove, ZRemoveRangeByRank, ZRemoveRangeByScore
ZRemove(p) ==
  /\ Command(p, "close")
  /\ zset' \in {zset} \cup (IF Reached(p) THEN SUBSET zset ELSE {})
  /\ UNCHANGED <<ranged, pops, keyed>>

\* The reply: the members in the order of their scores, each with its score.
Reply(ms) == LET s == SetToSortSeq(ms, LAMBDA a, b : Score[a] < Score[b])
             IN [i \in 1..2 * Len(s) |-> IF i % 2 = 1 THEN s[(i + 1) \div 2] ELSE Score[s[i \div 2]]]

\* The loop that reads it: for i := 0; i < len(list)/2; i += 2.
Read(r) == {<<r[i + 1], r[i + 2]>> : i \in {j \in 0..Len(r) \div 2 - 1 : j % 2 = 0}}

\* ZRange, ZREVRange, ZRangeByScore, ZREVRangeByScore, with any bounds: some of
\* the members are asked for.  A reply of odd length cannot come of WITHSCORES.
ZRange(p) ==
  /\ Command(p, "close")
  /\ \/ UNCHANGED ranged
     \/ /\ Reached(p)
        /\ \E ms \in SUBSET zset :
             ranged' = [asked |-> {<<m, Score[m]>> : m \in ms}, got |-> Read(Reply(ms))]
  /\ UNCHANGED <<zset, pops, keyed>>

Next ==
  \/ \E p \in Caller :
       \/ InitRedis(p) \/ Conn(p) \/ Close(p)
       \/ StringCommand(p) \/ CounterCommand(p) \/ Expire(p) \/ MExpire(p)
       \/ LPop(p) \/ ListRead(p) \/ (\E e \in Elem : Push(p, e) \/ LRemove(p, e))
       \/ (\E count \in Count : BatchLPop(p, count))
       \/ HMSet(p) \/ HMSetEx(p) \/ HashExpire(p) \/ HashRead(p) \/ HDel(p)
       \/ SetCommand(p) \/ PubSub(p) \/ Receive(p)
       \/ ZAdd(p) \/ ZRemove(p) \/ ZRange(p)
  \/ Expired

Spec == Init /\ [][Next]_vars

------------------------------------------------------------------------------
(* Properties *)

\* The callers with a connection in use: just borrowed, serving a command, or
\* not given back by a command that returned in front of its defer.
Holding ==
  {p \in Caller : conn[p] = "live" /\ (pc[p] # "idle" \/ p \in fresh \cup refused)}

\* A command that has gone past its defer leaves no connection in use when it
\* ends, on any path through it, and gives none back twice: what the pool
\* counts is held as above, or was dropped by a caller whose command had
\* returned in front of the defer.  Those early returns are the one leak.
Accounted ==
  /\ borrowed = Cardinality(Holding) + leaked + (IF ready = "running" THEN 1 ELSE 0)
  /\ borrowed \in 0..MaxActive

\* What makes it inductive: the PING of the first caller is over before anyone
\* else borrows, and only one caller makes it.
AccessInv ==
  /\ ready \in {"no", "running", "yes"}
  /\ pc \in [Caller -> {"idle", "init", "expire", "inner", "receive", "close"}]
  /\ conn \in [Caller -> {"none", "live", "error", "closed"}]
  /\ borrowed \in Nat /\ leaked \in Nat
  /\ ready # "yes" => leaked = 0 /\ \A p \in Caller : conn[p] = "none"
  /\ \A p \in Caller : pc[p] = "init" => ready = "running"
  /\ \A p, q \in Caller : pc[p] = "init" /\ pc[q] = "init" => p = q
  /\ \A p \in Caller : conn[p] = "live" => p \in Holding
  /\ Accounted

\* An element of the list is handed to one caller, and is not in the list any
\* more, whatever pops and batches overlap and whatever replies are lost: unless
\* a batch of count 0 returned it, which leaves the list as it is.
HandedOutOnce ==
  \A e \in Elem \ peeked : handed[e] + Cardinality({i \in 1..Len(list) : list[i] = e}) <= 1

\* A hash that HMSetEx alone wrote and that has no expiry is one whose HMSetEx
\* has not finished or has returned an error: an acknowledged one never stays
\* for ever, although its two requests are not atomic.
ExpiryNotForgotten ==
  key = "hash" /\ ~ttl /\ exOnly => exError \/ \E p \in Caller : pc[p] = "expire"

\* "The elements whose rank is in a range" (redis.go:652): what is read of a
\* reply of the ZRange family is all of it.
RangeReadWhole == ranged.got = ranged.asked
==============================================================================
