# Verification of gin-utils

gin-utils is a library of utilities for Go services: a gRPC connection pool, a
Redis client and lock, a job dispatcher, notification, logging, metrics,
configuration and database helpers. It has no tests and no design documents;
the comments (mostly Chinese) are the only statements of intent. This directory
holds TLA+ models of its concurrent and its algorithmic parts, the TLC runs that
check them and machine-checked proofs. `PROJECT.json` lists components, runs, findings,
hazards and theorems, and maps every definition to the lines it models.

Check a model with `tlc -workers 2 -config X.cfg M`, a proof with `tlapm M.tla`.

## Inventory

| Component | Source | State | Operations | What is hard | What makes it correct |
|---|---|---|---|---|---|
| Lock-free queue | `pool/queue.go` | `head`, `tail`, `len`, linked nodes | `Enqueue`, `Dequeue`, `Len` | CAS races, tail lagging, helping, deferred counter updates | linearizable FIFO, lock-free, no nil dereference, exact count |
| gRPC pool | `pool/grpc.go` | free list, `close`, `unHealthyCount`, per connection `use`, `useCount`, `unhealthy` | `NewWithContext`, `Get`, `ClientConn.Close`, `Unhealthy`, `healthy`, `Pool.Close` | unsynchronized tests of shared fields, a background goroutine closing what callers use, Close against both | no connection lost or duplicated, none closed under a caller, Get returns, Close drains |
| Pool table | `pool/grpc.go` | `client`, `once` | `GRPC`, `Register` | replacing a live pool | (not modelled) |
| Dispatcher | `worker/job.go` | job channel, channel of job channels | `Start`, `Stop`, `Run`, `dispatch` | rendezvous, a stopped worker's channel left behind | jobs run once, in order, by a free worker |
| Feishu notifier | `feishu/notice.go`, `feishu/request.go` | `jobQueue`, token and user cache | `SendV2`, `SendV3`, `asyncSend`, `send`, `getToken`, `searchUserID` | full queue, expiry, concurrent token fetches, late replies | callers never block, a queued notice is sent once, a cached token is still good |
| Redis lock | `redis/lock.go` | the key and its ttl in Redis, a renewal goroutine | `Lock`, `start`, unlock | lost replies, late renewals, expiry, crashes | mutual exclusion while renewals are timely, release after a crash |
| Redis client | `redis/redis.go` | connection pool per name | commands | connections not returned on early exits, transactions and double requests under lost replies, reply decoding | every connection accounted for, list elements handed out once, expiries set |
| Log rotation | `log/rotate/rotate.go` | current file, size, channel of old files, the directory | `Write`, `Rotate`, `Close`, `CompressOnce` | a bounded channel sent to under a mutex, crash points of the compression, an unlocked read | file size bound, no log lost, backups bounded |
| Metrics | `apm/meters.go` | `keys`, registry | `Counter`..., sweep | check-then-act across two maps, the switch | a key has its metric |
| Metrics output | `apm/output` | a bulk request | `UpdateElasticSearchMetricsOnce` | batches at their boundary, failed requests | each metric written once |
| Middleware | `middleware/handler.go` | counter of requests in progress | `Debug`, `Gin` | panics, metrics switched off half-way | the counter shows the requests in progress |
| Server | `server/run.go` | `server`, `isRun`, `port` | `pprof` | two goroutines sharing locals | pprof follows its switch |
| Base context | `ctx/base_context.go` | `keys` | getters and setters | check-then-act in `GetRequestID` | (not modelled) |
| Apollo source | `config/source/apollo` | none; watcher channel | `Read`, `OnNewestChange`, `makeMap`; `Next`, `Stop` | keys in random order, one the beginning of another | every value at its path |
| ORM | `mysql/orm.go` | field cache | `BulkInsert`, `Insert`, `Select`..., `getField` | failure between batches, append to a shared slice | a list is written from its beginning, each element once; a field's path leads to it |
| Utilities | `util/slice.go`, `encrypt/aescbc.go` | none | sets, chunks, padding | boundaries | reference definitions |
| Lazy connection tables | `rocketmq`, `elasticsearch`, `aliyun`, `mysql/mysql.go` | maps filled under `sync.Once` | `DB`, `Producer`... | what a failed initialization leaves | (not modelled) |
| The rest | `errors`, `log/*.go`, `catch`, `grpcserver`, `mime`, `config`, `util/request.go` | none of their own | | formatting, wiring, constant tables | (not modelled) |

Interactions: the pool's free list is the lock-free queue; the notifier feeds
the dispatcher through `jobQueue`; the middleware updates the metrics; the
logger writes through the rotation and reports errors through the notifier;
workers of the dispatcher run `send`, which uses the notifier's cache.

## Modules

| Module | Role |
|---|---|
| `FifoQueue` | abstract: a linearizable FIFO queue, each call with a call, an instant of effect and a return |
| `LockFreeQueue` | `pool/queue.go`, one action per atomic instruction; refines `FifoQueue` |
| `MCLockFreeQueue` | its constants and symmetry for TLC |
| `LockFreeQueueProofs` | its proofs |
| `GrpcPool` | `pool/grpc.go` |
| `MCGrpcPool` | its symmetry for TLC |
| `GrpcPoolProofs` | its proofs |
| `MCProgress` | one run for the liveness of `GrpcPool` and `LockFreeQueue` |
| `Outbox` | abstract: a bounded FIFO outbox, each notification with one fate |
| `Dispatcher` | `worker/job.go`, without who submits jobs |
| `FeishuNotice` | extends `Dispatcher` with `SendV2`/`SendV3` of `feishu/notice.go`; refines `Outbox` |
| `DispatcherProofs` | proofs about both of them |
| `FeishuCache` | what those sends do with the token, the user cache and the requests (`feishu/request.go`) |
| `FeishuCacheProofs` | its proofs |
| `LeaseLock` | abstract: a lock on lease, which may run out |
| `RedisLock` | `redis/lock.go` with Redis, its network and time; refines `LeaseLock` |
| `RedisLockProofs` | its proofs |
| `MCBackground` | one run for `FeishuNotice` and `RedisLock` |
| `RedisClient` | `redis/redis.go` with its pool and the server |
| `MCRedisClient` | its scores and symmetry for TLC |
| `RedisClientProofs` | its proofs |
| `LogRotate` | `log/rotate/rotate.go` with the directory it writes to |
| `MCLogRotate` | the records of its run |
| `LogRotateProofs` | its proofs |
| `Metrics` | `apm/meters.go` with the requests of `middleware/handler.go` |
| `Pprof` | the two goroutines of `pprof` in `server/run.go` |
| `Orm` | batches and rows of `mysql/orm.go` |
| `OrmFields` | the field paths of `mysql/orm.go`, with slices as Go has them |
| `Slices` | `util/slice.go` and the padding of `encrypt/aescbc.go` |
| `Report` | the report of `apm/output/elasticsearch.go` |
| `ApolloMap` | `makeMap` of `config/source/apollo` |
| `ServicesProofs` | proofs about `Metrics`, `Orm`, `Report`, `ApolloMap` and `Slices` |
| `MCServices` | one run for the eight components that share nothing |

An operator whose comment starts with "Mutant:" is a variant of the definition
that follows it, with a plausible bug. No specification uses it; replacing the
definition by it must violate the property `PROJECT.json` names.

### LockFreeQueue

Each load, CAS and add of `Enqueue` and `Dequeue` is one action; `pc` names the
instruction a goroutine executes next and `h`, `t`, `nx`, `mine`, `arg` are its
locals (`head`, `tail`, `next`, `n`, `v` or `data`). Tests of locals belong to
the load before them. Addresses are never reused, which is what garbage
collection gives. `len` wraps at `LenMod` (2^64 in the code). `chain`, `headAt`
and `tailAt` are history variables that no guard reads.

### GrpcPool

The free list is an atomic sequence, which `LockFreeQueue` justifies. A client
calls `Get`, holds the connection and calls its `Close` once. Fields that are
read without synchronization (`unhealthy`, `useCount`, `use`, `unHealthyCount`)
are words whose plain reads sit behind atomic operations or function calls, so
they are modelled as reads of the current value, each in a step of its own;
what can go wrong between them is what the model explores. Lifetime expiry is a
choice made when the clock is read. The context of a Get may end at any time.
Connections are never dialled twice: `Conn` bounds the number of dials, and the
factory fails when it is exhausted, as it may at any other time.

### Dispatcher and FeishuNotice

Buffered channels are sequences with their capacity; a rendezvous on an
unbuffered one is a single action of both parties. `Own` are the workers `Run`
starts, which cannot be stopped because nobody keeps them; the other workers
stand for what the exported `NewWorker`, `Start` and `Stop` allow. `sent`
counts runs of `send`.

### RedisLock

`Tick` is one second; it may come between any two steps, so requests, replies
and goroutines may be arbitrarily late. A failed SET covers: key present,
request lost, reply lost. The value is the same for everybody, so DEL and
EXPIRE act on whatever key there is. `owner`, `owed`, `overdue` and `lapsed` are
history variables. The unlock function is called once, as its users must. The
one-second sleep between attempts is of arbitrary length.

### LogRotate

`Write`, `Rotate` and `Close` hold the mutex throughout, so one program counter
`wpc` stands for whoever is inside. The background task (`bpc`) takes no mutex:
each call of the file system and each unlocked read of `l.file` is a step. `log`
maps the time in a file's name to its inode, `gz` and `gzData` are the archives,
`content` and `bytes` what is in an inode and how long it is.
The clock advances when it is read. Every call of the file system may fail, and
the process may crash and start again, `MaxFaults` times in all; a panic of the
background task is a restart. A write that fails may have put any number of bytes
short of the record into the file, and they count in `size` (80-81); part of a
record is not content. `offset` is where the handle stands: a file that is emptied
under it, because its name came again, has a hole up to there (`Put`). An archive
that could not be made may be left empty, because `chown` creates or empties it first
(335, `chown.go` 11-17).
`acked`, `home`, `clash`, `raced` and `closeCalled` are history variables. The
symbolic link, and handles other than that of `l.file`, are not modelled. `MaxAge` is
off in the run: it adds a second reason to let a backup go, and the theorems hold for
any `MaxAge`; in the code names are made of local time when the logger asks for it
and are read back as UTC (159, 302), which shifts the age by the offset of the zone,
and the model has one clock.

### RedisClient

`InitRedis` is the first PING, under `sync.Once`. `Conn` borrows a connection
for one command, or fails, and then the `Connect` wraps an error. A command takes
effect in one action and goes to `close`, the deferred `Close`. Commands that
return in front of their `defer` (`MSet` 204, `MExpire` 395, `HMSet` 430,
`HMSetEx` 449, `PubSub` 532) leave the connection with the caller, who may use it
for another command or drop it (`refused`); `leaked` counts the dropped ones. `fresh`
are the callers whose connection no command has used yet; `Holding` is who may have
one in use: a fresh one, one that serves a command, or one that came back from such a
return. A command that ends and still has its connection is none of these.
`HMSetEx` is two requests, HMSET and EXPIRE, and the `Close` of the inner `Expire`
comes before its own. The server keeps a list, one key and a sorted set; every
request may be lost before its effect and every reply after it, in a transaction
too. A count of 0 makes `BatchLPop` return everything and remove nothing; `peeked`
remembers what it returned. `MExpire` never reads the replies it asked for, so
its caller learns nothing of them. `fresh`, `handed`, `peeked`, `exOnly`, `exError` and
`ranged` are history variables.

### FeishuCache

A sender is a worker in `send` or a caller that adds an image; `doing` says in
which request it is and `age` for how long. The cache holds one token and one
answer; times are what is left of them, and `Pass` takes a unit off all of them.
A request is answered within `Timeout` or fails; the upload alone has none. go-cache
takes a duration of 0 for its default and a negative one for ever (`Ttl`), which
is what a token with a life of five minutes or less gets (`TokenTtl`). A failed
search is kept for ten minutes like a result. `FeishuNotice` and `FeishuCache`
share no state: a notification has left the queue when `send` begins.

### The components of MCServices

They share no variable, so one behaviour is about one of them, chosen by `part`
in the initial state.

1. `Metrics`. A request makes three lookups: the counter and the meter before
   the handler and the meter of its status after it. A lookup reads the switch
   (`Test`), loads or stores the key, and gets or registers the metric; the sweep
   takes a key in two steps; it goes through the keys there were when it began, where
   the `Range` of a `sync.Map` may or may not come to those stored since. A lookup that finds a key and no metric panics
   (68), and so may the handler; `Gin` recovers. The counter object a request
   found is kept in `handle`.
2. `Pprof`. Each access of `server` and `isRun` is a step, and the two
   assignments in front of `ListenAndServe` may be seen in either order. After a
   Shutdown `ListenAndServe` returns at once, now or when called; the requests
   in use drain. `lost` is a history variable: the closer cleared the `isRun` of
   a server that it had not shut down.
3. `FeishuCache`, above.
4. `Orm`. A call of `BulkInsert`, a batch at a time: each takes effect or not,
   and its reply may be lost; then a `Select` of what was stored, row by row,
   whose connection may break. `rows.Err` is not read, so a break looks like
   the end (`broken` is history).
5. `OrmFields`. One action computes the field table of a type chosen from all
   those that embed structs in a small way, with the memory of Go's `append`. A field
   is tagged or embedded; one that is both (326-339) is left out.
6. `Slices`. One step chooses the arguments; the properties compare each function
   with its definition. A byte of the PKCS7 padding holds a number modulo `ByteMod`
   (256 in the code).
7. `Report`. The metrics come in any order; `Do` sends the bulk when it is full.
   The metrics of a failed request are dropped, though the report goes on and
   may return no error; the errors of single items in a `BulkResponse`, which the
   code does not read, are left out; a bulk size of 0 panics in `n % m`.
8. `ApolloMap`. The keys of a namespace come one at a time in any order; `dirs`
   and `leaves` are the nested map that is being built.

## Runs

| Run | Bounds | What it shows |
|---|---|---|
| `queue_safety` | 3 goroutines, 2 values, 3 enqueues, any number of dequeues, `len` modulo 3 | linearizability, the inductive invariant, no nil dereference, exact `len` |
| `pool_safety` | 2 clients, 3 connections in the pool, 4 dials | conservation, no closed connection in the queue, `use` exact, a connection closed under a caller only in the race of Get with the health goroutine, bounded unhealthiness, connections that leave the pool by replacement only |
| `pool_progress` | 1 client, pool of 1, 3 dials, use limit 1; or 3 goroutines in the queue, 2 enqueues, dequeues for ever | Get returns when its context ends and the health goroutine ends with the pool; or lock-freedom |
| `pool_close` | 1 client, pool of 2 | finding: Close does not drain the pool |
| `pool_count` | 1 client, pool of 4, use limit 1 | finding: a connection counted twice as unhealthy |
| `background` | 3 notifications, queue of 1, 2 own workers and one that may be stopped; or 2 clients of the lock, ttl 3 (the code's), 2 attempts | a bounded FIFO outbox, one fate for each notification, no deadlock but on a stopped worker, callers never block; or a lock on lease, exclusion, renewal slack, release after a crash, Lock returns |
| `redis_client` | 2 callers, a pool of 2, 2 elements, batches of 0, 1 and 2 | connections accounted for, elements handed out once, expiries not forgotten |
| `redis_range` | 1 caller, 2 members | finding: half of a range is read |
| `services` | 2 requests, 2 counters, 1 panic, 2 switches; 2 senders, lives 1 to 3 around a margin of 2; 5 rows in batches of 2; types of depth 4; slices up to 4 of 3 values; 3 metrics and one of another kind, batches of 0 to 3; 3 keys of up to 3 names, one of which is also the name of a value's own field | the eight small components |
| `current_requests` | those of `services` | finding: a panic counts as a current request for ever |
| `slice_pad` | those of `services` | finding: padding is appended |
| `log_rotate` | 3 records, one too long, files of 2 bytes, 3 files, 1 backup, a channel of 1, 1 fault | no acknowledged record lost, nothing removed before its replacement is there, sizes, nil file, Write returns |

The bounds are those at which the cases that matter occur. Three goroutines let
an enqueuer be overtaken by a helper and a dequeuer at once, and three nodes let
tail lag while head moves twice; proofs cover every larger instance. Three
connections and two clients let both clients hold the same connection or
different ones while the health goroutine replaces one; a second replacement
starts from a pool like the first one did. With a queue of one and three
notifications one is running, one waiting in the dispatcher and one queued or
dropped. Two clients of the lock suffice for one to overtake the other's key; a
third adds only another contender. Three files are the least with which a sweep
has an expired file, a backup and the present one, and a channel of one is full
as soon as the task has one file in hand and another waits. Two callers let
one write the key between the two requests of `HMSetEx` of the other, and
overlap their batches; one of them that drops a connection leaves the other with
a pool of one, and two exhaust it. Two senders are enough for a late reply to replace an earlier one, and
lives of 1, 2 and 3 with a margin of 2 are one below, at and above the boundary at
which go-cache changes its mind. Five rows in batches of two are two whole
batches and a remainder, four are none. `append` doubles a capacity, so paths
up to length 5 have every case of room and no room. Slices of four with a size
of 0 to 5 are below, at and above every boundary, and `ByMap = 3` stands for 1024,
so that both ways to find doubles are used; a byte modulo 4 is below, at and above sizes
of blocks that are tried. Three keys of three names are a key
below another one, beside it and across a value that is an object.

Where components share nothing, a run may be about several of them: `part` is chosen in
the initial state and the others stay in theirs (`MCServices`, `MCBackground`,
`MCProgress`). Each has the bounds, the properties and the fairness it would have in a
run of its own.

Records of 2, 3 and 1 bytes in files of 2 are one that fills a file, one that no file
takes, and one that fits twice or after a byte of a write that failed.

The longest passing runs are `pool_progress` (814 thousand states, two and a half
minutes) and `log_rotate` (1.5 million states, two minutes).

`CHECK_DEADLOCK FALSE` is set where the system may stop: a pool whose
construction failed, the notifier once every notification was given, and the
components of `services`, whose algorithms finish.

### Properties

Queue: `Linearizable` (refines `FifoQueue`), `QueueInv` (the inductive invariant,
types included), `NoNilDereference`, `LenExact`, `LockFree`. The last one says that calls keep returning as long as
anybody is inside; single calls may starve, as in any lock-free algorithm.

Pool: `ConnConservation`, `NoClosedInQueue`, `UseIsHolders`,
`ClosedOnlyInTheRace`, `HealthyRemain`, `GetReturns`, `HealthStops`. The code
does let the health goroutine close a connection under a client: a `Get` that
has passed `IsHealthy` (line 202) and has not yet incremented `use` (203) while
another client's `Close` marks the connection and the health goroutine finds
`use == 0` (228). `ClosedOnlyInTheRace` shows that nothing else leads there.
`HealthyRemain` states how far the unsynchronized test of the limit can be
exceeded: by the number of clients less one. `OnlyWornOutReplaced` is about
steps: once the pool is up its set of connections changes only by putting a new
connection in the place of a closed one; a connection is dialled once and closed
once, by `Close` or by the health goroutine when it is unhealthy and is nobody's
but of clients in that race.

Dispatcher: `AnnouncedWhileWaiting`, and `NoDeadlock`: with no worker to pick,
those `Run` started are at work or about to announce themselves, and the worker
that was picked receives. It excepts the state in which the dispatcher blocks on
a worker that was stopped after announcing itself (`Stuck`): the code has no way
out of it. With the notifier `BoundedOutbox`, `CallersReturn` and `EventuallySent`,
with the same exception. `BoundedOutbox` refines `Outbox`: the job channel, the
dispatcher's variable and the hand-over to a worker are one queue, in which a
notification is posted only while there is room, dropped only while as many
wait as the channel holds, begun in its turn and sent once. There may be one more in it than the
channel holds: the one in the dispatcher's hands. `JobsInOrder` and `SentOnce`
follow and are proved, not run.

Lock: `HolderOwnsKey` is exclusion as far as the code provides it: while no key
has expired under a client that relied on it. After that DEL and EXPIRE act on
somebody else's key and nothing can be promised. `RenewalSlack` says how much
lateness that takes: `ttl - ttl/2` seconds, two with the code's constants.
`GrantedOnLease` refines `LeaseLock`, the same from a caller's side: a lock is
granted while it is free, and until the first lapse nobody else has it then; a
lost reply may take the lock for nobody until it expires; an unlock frees what
nobody else has, or fails to. `CrashFrees`, `LockReturns`.

Log rotation: `NothingLost`, `SizeBounded`, `NilOnlyAfterClose`,
`ReplacedBeforeRemoved`, `WriteReturns`. `SizeBounded` is about the length of the file
itself: `size`, by which `Write` decides to rotate, must be the length of the present
file or more, also after a write that failed half-way. `NothingLost` names the two
ways in which the code does lose acknowledged records. Two rotations in one millisecond give the second file the
name of the first, and `O_TRUNC` empties it (`clash`). And the sweep compares
directory entries with `l.file` while `Write` is between the creation of the new
file (130) and the assignment of `l.file` (146): it takes the new file for an
old one, compresses it and removes its name, and what is written to it later is
in no file (`raced`). The model checker finds both at once when the exceptions
are taken out. Such names count as backups in `Expired`, as they did when the sweep
counted them. This matters when the only backup newer than a removed one is
itself opened again in the same millisecond: with four times and a channel of two
the model checker finds that the property without it is false, which three times
do not show. `ReplacedBeforeRemoved` is about steps, crashes included: a log goes
when the policy lets it go or its archive is complete; an archive goes, or is
begun anew, while the log is there or when the policy lets it go; and what is
in a file changes only by appending to the present one. The exceptions are again
names in `clash` (removed or emptied) and in `raced` (removed).

Redis client: `Accounted` compares what the pool counts as borrowed with who may be
holding a connection. A command that is past its `defer` and ends without a `Close`,
on an error path for instance, breaks it, and so does a second `Close`. It does not say
that nothing is lost: the early returns do lose connections, `leaked` counts them, and
no comment in the code promises otherwise. `HandedOutOnce` is about `LPop` and
`BatchLPop` when transactions overlap and their replies are lost: an element may be
lost, not doubled. `ExpiryNotForgotten` is as much as `HMSetEx` gives: its two
requests are not atomic, but an acknowledged hash has its expiry.

Services: `MissingOnlyInTransit` (the two maps of the metrics never stay apart),
`DriftIsPanics` (the counter of requests drifts by a panic and by nothing else;
`CurrentRequests`, that it does not drift, is false, see Findings),
`StopsWhenOff` (it excepts `lost`), `TokenUsable` (it excepts tokens whose life
is five minutes or less), `RowsWhole`, `FieldsAddressThemselves` (it says what
becomes of paths of length four: `append` wrote siblings into one array),
`SlicesAsDefined` (`SliceChunk` drops a remainder, and the padding is
undone for sizes that a byte can hold; what the comment says of `SlicePad` is
`PadPrepends`, which is false, see Findings), `ReportedOnce`, `MapWhole` (it excepts keys of which one is the
beginning of another: the order of a Go map then decides between a panic and a
lost value).

Type invariants are proved rather than run: they are part of `QueueInv`, `PoolInv`,
`NoticeInv`, `LockInv` and `LogInv`. The queue's is run with its invariant.

### Fairness

- `LockFreeSpec`, and in the run its fairness in `ProgressSpec`: weak fairness of "some
  goroutine inside the queue takes a step", the weakest assumption; no goroutine is
  promised anything.
- `GrpcPool!FairSpec`, and in `ProgressSpec`: the Go scheduler runs every runnable goroutine, so each
  client inside `Get` or `Close`, the health goroutine, the constructor and the
  closer make progress. Calls and ends of contexts are the environment's choice.
- `FeishuNotice!Spec`, and in `BackgroundSpec`: likewise, for callers, dispatcher and workers, with
  `send` terminating. Nothing makes anybody start or stop a worker.
- `LogRotate!Spec`: whoever is inside Write or Rotate runs, and so does the
  background task. Nobody has to call, and nothing has to fail.
- `LockSpec`, and in `BackgroundSpec`: time passes and goroutines run; a `select` with both cases
  ready chooses at random, so it does not ignore `ctx.Done()` for ever.
- `PprofFairness`: the two goroutines and their tickers go on, and the requests
  that a Shutdown waits for end. Nobody has to switch.

## Proofs

`LockFreeQueueProofs` proves, for all sets of goroutines (finite, used only by
the count), nodes and values and every `LenMod`:

- `QueueInvariant`: `Spec => []QueueInv`, which is `TypeOK` and `IndInv`, and from
  it `TypeCorrect` and `Inductive`. A statement about the list alone is not
  inductive, because a goroutine acts on what it loaded earlier. `IndInv` adds
  what each goroutine may rely on at each instruction: a loaded head or tail is
  a linked node at or before the present one; a loaded non-nil next is still
  the next of its node, because next fields are written once; the tail a
  dequeuer loaded is not behind its head, because head is loaded first. The
  proof has one lemma per kind of step: steps that only change locals
  (`ReadersStep`), the allocation, the swing of tail, the link and the move of
  head; `ViewsSurvive` and `OwnNodeSurvives` say that the views of the others
  survive because the chain only grows.
- `HeapCorrect`, `NoNilDereferenced`: consequences.
- `QueueIsLinearizable`: `Spec => F!Spec`. The link is the instant of an
  enqueue, the CAS of head that of a dequeue, and the load of a nil next that of
  a dequeue that finds nothing (`NoNextIsEmpty`: then head is the last node).
  All other steps are mapped to stuttering, except that an answer "empty" may
  be withdrawn when the test of head fails (`Retry` in `FifoQueue`).

- `LenNeverDrifts`: `Spec => []LenExact`. `LenInv` says that `len` is, modulo
  `LenMod`, the length of the list less the enqueues that have linked and not yet
  counted, plus the dequeues that have taken and not yet counted.

The assumptions are those `LockFreeQueue` declares: the dummy is a node, nil is
neither a node nor a value, `LenMod` is positive, `Proc` is finite.

`GrpcPoolProofs` proves, for every finite set of clients, any set of connections
and any capacity and limit of use, `PoolInvariant`: `Spec => []PoolInv`, and from
it `PoolTypeCorrect`, `PoolConserves`, `QueueHasOpenOnes`, `UseCountsHolders`,
`ClosedUnderRacersOnly` and `EnoughRemainHealthy`. No property is inductive alone:

- `PlaceInv` and `DistinctInv` say who has a connection at which step, and that a
  connection is in one place of queue, client in the middle of `Get` or `Close`, and
  health goroutine. `SocketInv` follows what the constructor, the health goroutine
  and `Close` do to it. With `UseIsHolders` they make the others inductive.
- `RaceInv` is the argument about the race: once the health goroutine has decided
  to close a connection it stays unhealthy, so a `Get` that has not yet passed
  `IsHealthy` will not; and who had passed it without incrementing `use` was noted.
- `CountInv` ties `unHealthyCount` to the connections that are unhealthy: there is
  a number (`Unwrapped`) of which it is the wrapped form, below 0 while a
  connection was replaced before its mark was counted. It is short of the unhealthy
  connections at most by the clients about to count one, and with those and the
  ones that have passed the test of the limit it stays below half the capacity
  plus the number of clients.

- `PoolReplacesWornOut`: `Spec => OnlyWornOutReplaced`, a property of steps, from
  `PoolInv` in the state before. Each step of a client leaves the pool's connections
  alone, because what it dequeues it still holds. `CloserInv` adds that
  `Close` closes connections only after it has set `close`. That the health
  goroutine closes a connection only under racers is `RaceInv` at the step itself.

`EnoughRemainHealthy` needs `CountFits`: half the capacity and the number of clients are
below `CountMod`, which is 2^64 in the code.

`DispatcherProofs` proves, for any sets of notifications and workers and any
queue, `BegunInOrder`, `AnnouncedOnlyWaiting`, `SentAtMostOnce`,
`DispatchingHasNoDeadlock`, `NoticesGoThroughTheOutbox` and `NoticeTypeCorrect`. `NoticeInv` adds to the properties that the dispatcher and a
worker have a job exactly while they need one (`SlotInv`), that a worker is in the
pool of channels or in the dispatcher's hands, once, if it waits (`PoolInv`), and
where a notification is at each step of its caller and its worker (`OnceInv`).

- `NoticesGoThroughTheOutbox`: `Spec => O!Spec`. What waits is what the dispatcher
  holds, in front of the channel (`Waiting`), so that taking a job from the channel
  and picking a worker are stuttering, and the rendezvous is the begin. The fate of
  a notification is read off from where it is (`Fate`); `OnceInv` leaves it one place
  at a time.
- `DispatchingHasNoDeadlock`: `Spec => []NoDeadlock`. A worker of `Run` that waits is
  in the pool of channels, so if that is empty none waits; `OwnRun` says that none of
  them is ever told to stop.

`LogRotateProofs` proves, for every sequence of records, size of a file, policy
(any number of backups, age, compression or none), channel, and any number of
files, failures (writes that leave a part of a record among them) and crashes:

- `LogTypeCorrect`, `FilesStayInBounds`, `NilAfterCloseOnly`: `TypeOK`, `SizeBounded`
  and `NilOnlyAfterClose`, from `ControlInv` (which variables of a call are set
  where), `SizeInv` (the new file is empty until it is assigned, and `size` is where
  the handle stands, so that no file is longer than `size` says) and `SweepInv` (what
  a sweep has listed is still there when it comes to it).
- `LogInvariant`, `AckedIsKept`: `Spec => []NothingLost`. The policy's leave must
  not be taken back once it has been used, and `Expired` can be: a backup becomes
  the present file when its name comes again. `Gone` counts only the `Solid`
  backups, those that are not the only file of a name in use, and does not become
  false: `GoneStays` shows that removing a name that is `Gone` leaves enough newer
  ones for every older name. `CleanInv` says that a file in use is in the directory
  and in no sweep, unless its name is noted; `RemoveInv` that a sweep removes what is
  `Gone` or what has a complete archive.
- `FilesAreReplaced`: `Spec => ReplacedBeforeRemoved`, from `LogInv` and a case per
  action. `RemoveInv` gives what a sweep may remove, and what is `Gone` has `Expired`
  (`GoneIsExpired`, which the proof of `NothingLost` uses too).

`RedisClientProofs` proves, for every finite set of callers, every pool of one
connection or more and all data:

- `AccessInvHolds`: `Spec => []AccessInv`. `Accounted` alone is not inductive: that
  only holders have a connection in use is part of `AccessInv`, and so is that the
  connection of the first PING is in nobody's hands: one caller at most is at it, and
  nobody else has a connection before it is over. `LiveCount` says how the number of
  connections in use changes with one of them, and `HoldingLive` that they are those of
  the holders.
- `ConnectionsAccounted`: `Spec => []Accounted`.
- `ExpiryKept`: `Spec => []ExpiryNotForgotten`.
- `PoppedOnce`: `Spec => []HandedOutOnce`, for counts of batches that are any
  integers. `PopInv` says that the list has no element twice and none that was
  handed out, except by a batch of count 0.

`FeishuCacheProofs` proves, for any senders, lives and times of which the margin
is at least twice the timeout (five minutes and a second in the code):

- `FeishuInvHolds`: `FeishuSpec => []FeishuInv`. What is left of a token is bounded
  from below by what is left of its entry, plus the margin less one timeout for
  the reply that brought it; in a sender's hands by the timeout that its own request
  may take. Late replies that replace newer tokens keep the bound.
- `TokensUsable`: `FeishuSpec => []TokenUsable`.

`RedisLockProofs` proves, for every set of clients, a ttl of two seconds or more
and any number of attempts:

- `LockInvHolds`: `LockSpec => []LockInv`. `HolderOwnsKey` is not inductive: a client
  relies on the key from the moment it was set, before the reply, until the DEL, so
  `OwnerInv` is about all of these. `SlackInv` accounts for the seconds the key
  loses: from a tick until the EXPIRE they are counted as lateness, and in
  between they are on the timer. `RenewerInv` ties the goroutine to its client.
- `HolderOwnsTheKey`, `RenewalHasSlack`: `HolderOwnsKey` and `RenewalSlack`.
- `LockIsLeased`: `LockSpec => L!Spec`. The lock is taken while the key has a ttl, and a
  client has it from the reply of its SET to the end of its unlock (`Phase`).
  That nobody else has it at a grant, or at an unlock, before a lapse is `OwnerInv`:
  a client that relied on a key that is gone would be the lapse.

`ServicesProofs` proves, each component under its own specification:

- `ReportsOnce`: `ReportedOnce`. A metric waits, is in the bulk, was written or was
  dropped with a failed request, and the bulk never exceeds its size.
- `BulkWhole`: `RowsWhole`, for batches and lists of any length. What is stored
  before a batch is what was counted, and after a lost reply at most one batch more.
- `MetricsInvariant`, `KeysKeepTheirMetrics`, `CountersCountRequests`:
  `MissingOnlyInTransit` and `DriftIsPanics`, for any finite set of requests.
- `MapIsWhole`: `MapWhole`, for any keys in any order, of any depth. `TreeInv` says
  that what has been built is a tree, `LeavesInv` what the keys that have been
  visited left in it; the lemmas are about prefixes.
- `SlicesCorrect`: the parts of `SlicesAsDefined` that involve no fold (`Removal`,
  `Ciphered`, `Ranges`), for slices of any length and elements and any `ByteMod`. The
  padding is the distance to the next multiple of the block, which a byte holds as it
  is; and removal is counted by the set of indices of an element, with the last one in
  the place of the one removed.

Every safety invariant, action property and refinement that a run checks is
proved, but for `FieldsAddressThemselves` and a part of `SlicesAsDefined`.
`OrmFields` recurses over types with a RECURSIVE operator, which tlapm cannot
reason about; no module with a theorem reaches it. Of `SlicesAsDefined` the parts
about sets, doubles, chunks and sums (`Partition`, `Uniqueness`, `Chunks` and the
sum) are about `SelectSeq`, `FoldLeft` and `FlattenSeq`, whose values take
induction over data. Only model-checked are also all liveness properties
(`LockFree`, `GetReturns`, `HealthStops`, `CallersReturn`, `EventuallySent`,
`CrashFrees`, `LockReturns`, `WriteReturns`, `StopsWhenOff`): they rest on
fairness and ENABLED, which are out of the prover's reach.

## Findings

- `src/pool/grpc.go:183`: `Close` dequeues once; it closes that connection over
  and over and never returns, and the others stay open (`pool_close`).
- `src/pool/grpc.go:252`: `Unhealthy` counts a connection again each time it is
  called; the count then keeps other connections from ever being retired
  (`pool_count`).
- `src/redis/redis.go:672`: `ZRange` reads its reply up to half its length in
  steps of two, so it returns half of the members; `ZREVRange`, `ZRangeByScore`
  and `ZREVRangeByScore` do the same (`redis_range`).
- `src/middleware/handler.go:93`: the counter of the current requests (69) is decremented
  after the handler, not by a `defer`, so a handler that panics stays in it for ever
  (`current_requests`).
- `src/util/slice.go:167`: `SlicePad`, which "prepends size number of val" (161), appends,
  and adds half of what is missing, because the bound of its loop shrinks (`slice_pad`).

## Not modelled

- Formatting, wiring and constant tables: `errors`, the logger, `config`,
  `grpcserver`, `mime`, the messages of the notifier, bodies and request ids in the
  middleware.
- Library code (gRPC, Redis, MySQL, go-cache, Elasticsearch, brokers) beyond its
  use here. `util/request.go` sets the number of retries and the wait; the loop
  is in its library.
- The tables of MySQL, Elasticsearch, RocketMQ and OSS clients are filled once
  under `sync.Once`, before anything reads them, and a failure ends the process. The
  table of gRPC pools is filled when the program starts.
- The base context is a map of one request, whose handlers run one after another.
- The Apollo watcher: both of its sides are in go-micro and agollo. Its `Stop` reads
  `exit` and never closes it, so it releases nobody.
- Ciphers, random strings, random slices, and functions that apply a function
  of the caller to each element.

## Plan

Done so far, in order: the queue with its abstract specification and proofs, the
pool on top of it, the dispatcher with the notifier, the lock and its proofs, the
rotation, the Redis client and its proofs, the notifier's lookups and their
proofs, the services; then the proofs about the pool, the dispatcher, the count of
the queue, the list and the expiries of Redis, the services and the rotation; then
the abstract outbox and the lock on lease with their refinements, the properties
of steps of the pool and the rotation, and the slices.

What is left:

1. `RequestID` of the base context and the table of pools, which are not modelled.
2. `OrmFields` with a recursive function over the depth of a type, in place of the
   RECURSIVE operator, and the shape of a field's path as a theorem.
3. What `RedisLock` gives after the first lapse: `LeaseLock` promises nothing then.
