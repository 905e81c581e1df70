------------------------------- MODULE Metrics -------------------------------
(****************************************************************************)
(* apm/meters.go and its busiest user, middleware/handler.go: the registry  *)
(* of metrics, the map `keys` of what was put there, the goroutine that     *)
(* empties both when apm.enable is off, and requests counted in a counter.  *)
(*                                                                          *)
(* keys and the registry are two maps, each safe by itself.  A lookup is    *)
(* the reading of the switch, LoadOrStore in keys, and Get or GetOrRegister *)
(* in the registry; the sweep unregisters and then deletes each key.  Any   *)
(* request may come between any two of these.                               *)
(****************************************************************************)
EXTENDS Integers, FiniteSets

CONSTANTS
  Request,     \* goroutines that serve requests of one path
  MaxCounter,  \* bound: counters ever registered
  MaxPanic,    \* bound: handlers that panic
  MaxSwitch    \* bound: changes of apm.enable

ASSUME RequestAssumption == IsFiniteSet(Request)
ASSUME MetricsBounds == MaxCounter \in Nat /\ MaxPanic \in Nat /\ MaxSwitch \in Nat

\* What a request looks up: Counter "current" and Meter "total" before the
\* handler, Meter of the status after it.  The histogram, the last, is one more
\* lookup like the status.
Metric == {"current", "total", "status"}
Counters == 1..MaxCounter

VARIABLES
  enable,    \* apm.enable
  switches,  \* changes of it so far
  keys,      \* the sync.Map
  registry,  \* per metric: 0, or which object of that name it is
  made,      \* counters registered so far
  stage,     \* per request: what it is doing
  phase,     \* per request: the step of its lookup
  handle,    \* per request: its counter, 0 for a NilCounter
  value,     \* per counter: its value
  panicked,  \* history: per counter: requests that left the handler by a panic
  todo,      \* keys the sweep has yet to visit
  sweep      \* the key between Unregister and Delete, or "none"

maps        == <<keys, registry, made>>
switch      == <<enable, switches>>
sweeper     == <<todo, sweep>>
requests    == <<stage, phase, handle>>
counting    == <<value, panicked>>
metricsVars == <<switch, maps, requests, counting, sweeper>>

MetricsInit ==
  /\ enable = TRUE /\ switches = 0
  /\ keys = {} /\ registry = [k \in Metric |-> 0] /\ made = 0
  /\ stage = [p \in Request |-> "out"]
  /\ phase = [p \in Request |-> "test"]
  /\ handle = [p \in Request |-> 0]
  /\ value = [c \in Counters |-> 0]
  /\ panicked = [c \in Counters |-> 0]
  /\ todo = {} /\ sweep = "none"

------------------------------------------------------------------------------
(* Lookups: Counter, Meter, Gauges, Histograms and Timer are the same *)

\* The stages in the order of Debug's statements.
After(s) == CASE s = "out"     -> "current"
              [] s = "current" -> "total"
              [] s = "total"   -> "inc"
              [] s = "inc"     -> "handler"
              [] s = "handler" -> "dec"
              [] s = "dec"     -> "status"
              [] s = "status"  -> "out"

Advance(p) == stage' = [stage EXCEPT ![p] = After(stage[p])]

Step(p, s) == phase' = [phase EXCEPT ![p] = s]

\* The lookup returns object m of its metric, 0 for the Nil one.
Found(p, m) ==
  /\ Advance(p) /\ Step(p, "test")
  /\ handle' = IF stage[p] = "current" THEN [handle EXCEPT ![p] = m] ELSE handle

\* A panic ends Debug; Gin recovers it.
Panic(p) ==
  /\ stage' = [stage EXCEPT ![p] = "out"] /\ Step(p, "test")
  /\ UNCHANGED handle

Test(p) ==
  /\ stage[p] \in Metric /\ phase[p] = "test"
  /\ IF enable THEN Step(p, "store") /\ UNCHANGED <<stage, handle>> ELSE Found(p, 0)
  /\ UNCHANGED <<switch, maps, counting, sweeper>>

LoadOrStore(p) ==
  /\ stage[p] \in Metric /\ phase[p] = "store"
  /\ keys' = keys \cup {stage[p]}
  /\ Step(p, IF stage[p] \in keys THEN "get" ELSE "register")
  /\ UNCHANGED <<switch, registry, made, stage, handle, counting, sweeper>>

\* The type assertion on what Get returns panics if that is nil.
GetMetric(p) ==
  /\ stage[p] \in Metric /\ phase[p] = "get"
  /\ IF registry[stage[p]] = 0 THEN Panic(p) ELSE Found(p, registry[stage[p]])
  /\ UNCHANGED <<switch, maps, counting, sweeper>>

\* Mutant: the switch is read again, and nothing is registered when it is off.
GetOrRegisterIfOn(p) ==
  /\ stage[p] \in Metric /\ phase[p] = "register"
  /\ IF registry[stage[p]] # 0 \/ ~enable
     THEN Found(p, registry[stage[p]]) /\ UNCHANGED <<registry, made>>
     ELSE /\ stage[p] = "current" => made < MaxCounter
          /\ made' = made + (IF stage[p] = "current" THEN 1 ELSE 0)
          /\ registry' = [registry EXCEPT ![stage[p]] = IF stage[p] = "current" THEN made' ELSE 1]
          /\ Found(p, registry'[stage[p]])
  /\ UNCHANGED <<switch, keys, counting, sweeper>>

GetOrRegister(p) ==
  /\ stage[p] \in Metric /\ phase[p] = "register"
  /\ IF registry[stage[p]] # 0
     THEN Found(p, registry[stage[p]]) /\ UNCHANGED <<registry, made>>
     ELSE /\ stage[p] = "current" => made < MaxCounter
          /\ made' = made + (IF stage[p] = "current" THEN 1 ELSE 0)
          /\ registry' = [registry EXCEPT ![stage[p]] = IF stage[p] = "current" THEN made' ELSE 1]
          /\ Found(p, registry'[stage[p]])
  /\ UNCHANGED <<switch, keys, counting, sweeper>>

------------------------------------------------------------------------------
(* Debug and Gin of middleware/handler.go *)

\* A request of a path that is not skipped and has a route.
Enter(p) ==
  /\ stage[p] = "out" /\ Advance(p)
  /\ UNCHANGED <<switch, maps, phase, handle, counting, sweeper>>

Add(c, n) == value' = IF c = 0 THEN value ELSE [value EXCEPT ![c] = value[c] + n]

Inc(p) ==
  /\ stage[p] = "inc" /\ Advance(p) /\ Add(handle[p], 1)
  /\ UNCHANGED <<switch, maps, phase, handle, panicked, sweeper>>

\* c.Next(): the handlers return, or one panics.
Handle(p) ==
  /\ stage[p] = "handler"
  /\ \/ Advance(p) /\ UNCHANGED <<phase, handle, panicked>>
     \/ /\ Cardinality({c \in Counters : panicked[c] > 0}) < MaxPanic
        /\ Panic(p)
        /\ panicked' = IF handle[p] = 0 THEN panicked
                       ELSE [panicked EXCEPT ![handle[p]] = @ + 1]
        /\ \A c \in Counters : panicked'[c] <= MaxPanic
  /\ UNCHANGED <<switch, maps, value, sweeper>>

\* Mutant: the counter is looked up again to be decremented.
DecLookup(p) ==
  /\ stage[p] = "dec" /\ Advance(p) /\ Add(IF enable THEN registry["current"] ELSE 0, -1)
  /\ UNCHANGED <<switch, maps, phase, handle, panicked, sweeper>>

Dec(p) ==
  /\ stage[p] = "dec" /\ Advance(p) /\ Add(handle[p], -1)
  /\ UNCHANGED <<switch, maps, phase, handle, panicked, sweeper>>

------------------------------------------------------------------------------
(* The goroutine of init() *)

Switch ==
  /\ switches < MaxSwitch
  /\ enable' = ~enable /\ switches' = switches + 1
  /\ UNCHANGED <<maps, requests, counting, sweeper>>

\* Range of a sync.Map visits the keys there are when it begins; nobody else
\* deletes any.
Tick ==
  /\ todo = {} /\ sweep = "none" /\ ~enable
  /\ todo' = keys
  /\ UNCHANGED <<switch, maps, requests, counting, sweep>>

Unregister(k) ==
  /\ sweep = "none" /\ k \in todo
  /\ todo' = todo \ {k}
  /\ sweep' = k /\ registry' = [registry EXCEPT ![k] = 0]
  /\ UNCHANGED <<switch, keys, made, requests, counting>>

Delete ==
  /\ sweep # "none" /\ sweep' = "none"
  /\ keys' = keys \ {sweep}
  /\ UNCHANGED <<switch, registry, made, requests, counting, todo>>

MetricsNext ==
  \/ \E p \in Request : \/ Enter(p) \/ Test(p) \/ LoadOrStore(p) \/ GetMetric(p)
                        \/ GetOrRegister(p) \/ Inc(p) \/ Handle(p) \/ Dec(p)
  \/ Switch \/ Tick \/ Delete \/ \E k \in Metric : Unregister(k)

MetricsSpec == MetricsInit /\ [][MetricsNext]_metricsVars

------------------------------------------------------------------------------
(* Properties *)

\* A key without a metric is one whose creator, or whose sweep, is between its
\* two steps.  Only then does a lookup panic; the two maps never stay apart in
\* the way that makes every later lookup panic.
MissingOnlyInTransit ==
  \A k \in keys : registry[k] = 0 =>
    sweep = k \/ \E p \in Request : stage[p] = k /\ phase[p] = "register"

Counted(c) == {p \in Request : stage[p] \in {"handler", "dec"} /\ handle[p] = c}

\* A counter differs from the requests in progress that found it by those whose
\* handler panicked, and by nothing else: no switching of apm.enable, and no
\* panic of a lookup, makes it count a request twice or decrement what was
\* never incremented.
DriftIsPanics ==
  \A c \in Counters : value[c] = Cardinality(Counted(c)) + panicked[c]

\* The counter is that of the current requests, "当前请求量" (handler.go:69):
\* those in progress that found it.
CurrentRequests ==
  \A c \in Counters : value[c] = Cardinality(Counted(c))
==============================================================================
