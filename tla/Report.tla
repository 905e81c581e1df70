------------------------------- MODULE Report -------------------------------
(****************************************************************************)
(* UpdateElasticSearchMetricsOnce of apm/output/elasticsearch.go: every     *)
(* metric of the registry goes into a bulk request, which is sent after     *)
(* each m metrics, whatever they are, and at the end.                       *)
(*                                                                          *)
(* Elasticsearch is external: a bulk request is written or not, and its     *)
(* reply may be lost.  A request that succeeds empties the service itself.  *)
(****************************************************************************)
EXTENDS Integers, FiniteSets

CONSTANTS
  Reported,   \* metrics of the six kinds that have a case
  Unreported, \* metrics of another kind
  BulkSize    \* the values of elasticsearch.apm.bulk that are tried

ASSUME ReportAssumption == BulkSize \subseteq Nat /\ IsFiniteSet(Reported)

VARIABLES
  report,   \* "idle", "each", "do", "last", "ok", "error", "panic"
  m,        \* elasticsearch.apm.bulk
  n,        \* metrics seen
  waiting,   \* metrics that Each has yet to visit
  bulk,     \* what the bulk service holds
  written,  \* per metric: how often it was written
  failed    \* history: metrics of the requests that returned an error

reportVars == <<report, m, n, waiting, bulk, written, failed>>

ReportInit ==
  /\ report = "idle" /\ m = 0 /\ n = 0 /\ waiting = {} /\ bulk = {} /\ failed = {}
  /\ written = [x \in Reported |-> 0]

\* Without a client there is an error and no more.
Update(size) ==
  /\ report = "idle" /\ m' = size
  /\ \/ report' = "error" /\ UNCHANGED waiting
     \/ report' = "each" /\ waiting' = Reported \cup Unreported
  /\ UNCHANGED <<n, bulk, written, failed>>

\* The callback of Each, up to the test of n % m: m is not tested for 0.
Collect(x) ==
  /\ report = "each" /\ x \in waiting
  /\ waiting' = waiting \ {x} /\ n' = n + 1
  /\ bulk' = bulk \cup ({x} \cap Reported)
  /\ report' = IF m = 0 THEN "panic"
               ELSE IF n' % m = 0 /\ bulk' # {} THEN "do" ELSE "each"
  /\ UNCHANGED <<m, written, failed>>

\* Do of the bulk service.
SendBulk(error) ==
  /\ \/ written' = [x \in Reported |-> IF x \in bulk THEN written[x] + 1 ELSE written[x]]
     \/ error /\ UNCHANGED written
  /\ failed' = IF error THEN failed \cup bulk ELSE failed

\* Mutant: what could not be sent is kept.
DoKept(error) ==
  /\ report = "do" /\ report' = "each"
  /\ SendBulk(error) /\ bulk' = IF error THEN bulk ELSE {}
  /\ UNCHANGED <<m, n, waiting>>

\* An error is logged, and Reset empties the service.
Do(error) ==
  /\ report = "do" /\ report' = "each"
  /\ SendBulk(error) /\ bulk' = {}
  /\ UNCHANGED <<m, n, waiting>>

\* Each is over.
Collected ==
  /\ report = "each" /\ waiting = {}
  /\ report' = IF bulk = {} THEN "ok" ELSE "last"
  /\ UNCHANGED <<m, n, waiting, bulk, written, failed>>

LastDo(error) ==
  /\ report = "last" /\ report' = IF error THEN "error" ELSE "ok"
  /\ SendBulk(error) /\ bulk' = {}
  /\ UNCHANGED <<m, n, waiting>>

ReportNext ==
  \/ \E size \in BulkSize : Update(size)
  \/ \E x \in waiting : Collect(x)
  \/ \E error \in BOOLEAN : Do(error) \/ LastDo(error)
  \/ Collected

ReportSpec == ReportInit /\ [][ReportNext]_reportVars

------------------------------------------------------------------------------
(* Properties *)

\* A metric is written once in a report, and is missing only of requests that
\* failed: none waits for a later request after the last one, or goes with two.
\* No request holds more than m.  A report that returns no error may lack those
\* of earlier requests, and one with m = 0 ends the process at its first metric.
ReportedOnce ==
  /\ \A x \in Reported : written[x] <= 1
  /\ Cardinality(bulk) <= IF m = 0 THEN 1 ELSE m
  /\ report = "ok" => \A x \in Reported : written[x] = 1 \/ x \in failed
  /\ report = "panic" => m = 0
==============================================================================
