---------------------------- MODULE ServicesProofs ----------------------------
(****************************************************************************)
(* The small components that share nothing, each under its own              *)
(* specification: the counting of requests in apm/meters.go and             *)
(* middleware/handler.go, BulkInsert and Select of mysql/orm.go, the report *)
(* of apm/output/elasticsearch.go, makeMap of                               *)
(* config/source/apollo/utils.go, and what util/slice.go and                *)
(* encrypt/aescbc.go do without a fold.                                     *)
(****************************************************************************)
EXTENDS Metrics, Orm, Report, ApolloMap, Slices, FiniteSetTheorems, TLAPS

------------------------------------------------------------------------------
(* The report *)

ReportTypes ==
  /\ report \in {"idle", "each", "do", "last", "ok", "error", "panic"}
  /\ m \in Nat /\ n \in Nat
  /\ waiting \subseteq Reported \cup Unreported
  /\ bulk \subseteq Reported
  /\ written \in [Reported -> Nat]

\* A metric is in one place at a time, and from the first call of Each on it
\* is in some place.
ReportPlaces ==
  /\ \A x \in Reported : written[x] <= 1
  /\ \A x \in Reported : x \in waiting \/ x \in bulk \/ report = "idle" => written[x] = 0
  /\ bulk \cap waiting = {}
  /\ report = "idle" => bulk = {} /\ n = 0
  /\ report \in {"each", "do", "last", "ok"} =>
       \A x \in Reported : x \in waiting \/ x \in bulk \/ written[x] = 1 \/ x \in failed
  /\ report \in {"last", "ok"} => waiting = {}
  /\ report \in {"do", "last"} => m > 0
  /\ report = "ok" => bulk = {}
  /\ report = "panic" => m = 0

\* The metrics collected since the last multiple of m.
BulkBound ==
  /\ m > 0 /\ report \in {"each", "last"} => Cardinality(bulk) <= n % m
  /\ m > 0 => Cardinality(bulk) <= m
  /\ m = 0 => Cardinality(bulk) <= 1
  /\ m = 0 /\ report # "panic" => bulk = {}

ReportInv == ReportTypes /\ ReportPlaces /\ BulkBound

\* A remainder is unique, and how it grows.
LEMMA Remainder ==
  ASSUME NEW x \in Int, NEW d \in Nat, d > 0, NEW q \in Int, NEW r \in 0..d - 1, x = d * q + r
  PROVE  x % d = r
BY Z3

LEMMA NextRemainder ==
  ASSUME NEW k \in Nat, NEW d \in Nat, d > 0
  PROVE  /\ k % d \in 0..d - 1
         /\ (k + 1) % d = IF k % d = d - 1 THEN 0 ELSE (k % d) + 1
<1>1. k = d * (k \div d) + (k % d) /\ k % d \in 0..d - 1 /\ k \div d \in Int
  OBVIOUS
<1>2. CASE k % d # d - 1
  <2>1. k + 1 \in Int /\ k + 1 = d * (k \div d) + ((k % d) + 1) /\ (k % d) + 1 \in 0..d - 1
    BY <1>1, <1>2
  <2>2. (k + 1) % d = (k % d) + 1
    BY <1>1, <2>1, Remainder, Zenon
  <2> QED
    BY <1>1, <1>2, <2>2
<1>3. CASE k % d = d - 1
  <2>1. k + 1 \in Int /\ k + 1 = d * ((k \div d) + 1) + 0 /\ (k \div d) + 1 \in Int /\ 0 \in 0..d - 1
    BY <1>1, <1>3
  <2>2. (k + 1) % d = 0
    BY <2>1, Remainder, Zenon
  <2> QED
    BY <1>1, <1>3, <2>2
<1> QED
  BY <1>2, <1>3

LEMMA BulkSets ==
  ASSUME NEW S \in SUBSET Reported
  PROVE  IsFiniteSet(S) /\ Cardinality(S) \in Nat
BY ReportAssumption, FS_Subset, FS_CardinalityType

LEMMA ReportInitInv == ReportInit => ReportInv
<1> SUFFICES ASSUME ReportInit PROVE ReportInv
  OBVIOUS
<1> USE DEF ReportInit
<1>1. ReportTypes
  BY DEF ReportTypes
<1>2. ReportPlaces
  BY DEF ReportPlaces
<1>3. BulkBound
  BY FS_EmptySet DEF BulkBound
<1> QED
  BY <1>1, <1>2, <1>3 DEF ReportInv

LEMMA UpdateInv ==
  ASSUME ReportInv, NEW k \in BulkSize, Update(k)
  PROVE  ReportInv'
<1>1. k \in Nat
  BY ReportAssumption
<1>2. ReportTypes'
  BY <1>1 DEF ReportInv, ReportTypes, Update
<1>3. ReportPlaces'
  BY DEF ReportInv, ReportPlaces, Update
<1>4. BulkBound'
  <2>1. bulk' = {} /\ Cardinality(bulk') = 0 /\ n' = 0 /\ m' = k
    BY FS_EmptySet DEF ReportInv, ReportPlaces, Update
  <2>2. k > 0 => 0 % k \in 0..k - 1
    BY <1>1, NextRemainder
  <2> QED
    BY <1>1, <2>1, <2>2 DEF BulkBound
<1> QED
  BY <1>2, <1>3, <1>4 DEF ReportInv

\* A metric is put with the others, at most as many as the remainder.
LEMMA CollectInv ==
  ASSUME ReportInv, NEW x \in waiting, Collect(x)
  PROVE  ReportInv'
<1>0. /\ report = "each" /\ waiting' = waiting \ {x} /\ n' = n + 1
      /\ bulk' = bulk \cup ({x} \cap Reported)
      /\ report' = IF m = 0 THEN "panic"
                   ELSE IF n' % m = 0 /\ bulk' # {} THEN "do" ELSE "each"
      /\ UNCHANGED <<m, written, failed>>
  BY DEF Collect
<1>1. m \in Nat /\ n \in Nat
  BY DEF ReportInv, ReportTypes
<1>2. ReportTypes'
  BY <1>0, <1>1 DEF ReportInv, ReportTypes
<1>3. ReportPlaces'
  BY <1>0, <1>1 DEF ReportInv, ReportPlaces, ReportTypes
<1>4. BulkBound'
  <2>1. /\ bulk \in SUBSET Reported /\ bulk' \in SUBSET Reported
        /\ Cardinality(bulk) \in Nat /\ Cardinality(bulk') \in Nat
    BY <1>2, BulkSets DEF ReportInv, ReportTypes
  <2>2. Cardinality(bulk') <= Cardinality(bulk) + 1
    <3>1. CASE x \in Reported
      <4>1. bulk' = bulk \cup {x}
        BY <1>0, <3>1
      <4> QED
        BY <2>1, <4>1, BulkSets, FS_AddElement
    <3>2. CASE x \notin Reported
      <4>1. bulk' = bulk
        BY <1>0, <3>2
      <4> QED
        BY <2>1, <4>1
    <3> QED
      BY <3>1, <3>2
  <2>3. CASE m = 0
    <3>1. Cardinality(bulk) = 0
      BY <1>0, <2>3, FS_EmptySet DEF ReportInv, BulkBound
    <3> QED
      BY <1>0, <2>1, <2>2, <2>3, <3>1 DEF BulkBound
  <2>4. CASE m > 0
    <3>1. /\ n % m \in 0..m - 1
          /\ n' % m = IF n % m = m - 1 THEN 0 ELSE (n % m) + 1
      BY <1>0, <1>1, <2>4, NextRemainder
    <3>2. Cardinality(bulk) <= n % m
      BY <1>0, <2>4 DEF ReportInv, BulkBound
    <3>3. Cardinality(bulk') <= m
      BY <1>1, <2>1, <2>2, <3>1, <3>2
    <3>4. report' = "each" => Cardinality(bulk') <= n' % m
      <4>1. CASE n % m = m - 1
        <5>1. report' = "each" => bulk' = {}
          BY <1>0, <2>4, <3>1, <4>1
        <5>2. report' = "each" => Cardinality(bulk') = 0
          BY <5>1, FS_EmptySet
        <5> QED
          BY <3>1, <4>1, <5>2
      <4>2. CASE n % m # m - 1
        BY <1>1, <2>1, <2>2, <3>1, <3>2, <4>2
      <4> QED
        BY <4>1, <4>2
    <3> QED
      BY <1>0, <2>4, <3>3, <3>4 DEF BulkBound
  <2> QED
    BY <1>1, <2>3, <2>4
<1> QED
  BY <1>2, <1>3, <1>4 DEF ReportInv

\* What is sent was not written before, and is waited for no more.
LEMMA SendInv ==
  ASSUME ReportInv, NEW error \in BOOLEAN, Do(error) \/ LastDo(error)
  PROVE  ReportInv'
<1>0. /\ \/ report = "do" /\ report' = "each"
         \/ report = "last" /\ report' = IF error THEN "error" ELSE "ok"
      /\ SendBulk(error) /\ bulk' = {} /\ UNCHANGED <<m, n, waiting>>
  BY DEF Do, LastDo
<1>1. \A x \in Reported :
        \/ written'[x] = IF x \in bulk THEN written[x] + 1 ELSE written[x]
        \/ error /\ written'[x] = written[x]
  BY <1>0 DEF SendBulk
<1>2. failed' = (IF error THEN failed \cup bulk ELSE failed)
  BY <1>0 DEF SendBulk
<1>3. ReportTypes'
  <2>1. written' \in [Reported -> Nat]
    BY <1>0 DEF SendBulk, ReportInv, ReportTypes
  <2> QED
    BY <1>0, <2>1 DEF ReportInv, ReportTypes
<1>4. ReportPlaces'
  <2>1. \A x \in Reported : written[x] \in Nat /\ (x \in bulk => written[x] = 0 /\ x \notin waiting)
    BY DEF ReportInv, ReportTypes, ReportPlaces
  <2>2. \A x \in Reported : written'[x] <= 1 /\ (x \in waiting' => written'[x] = 0)
    BY <1>0, <1>1, <2>1 DEF ReportInv, ReportPlaces
  <2>3. \A x \in Reported : x \in waiting' \/ written'[x] = 1 \/ x \in failed'
    BY <1>0, <1>1, <1>2, <2>1 DEF ReportInv, ReportPlaces
  <2> QED
    BY <1>0, <2>2, <2>3 DEF ReportInv, ReportPlaces
<1>5. BulkBound'
  <2>1. Cardinality(bulk') = 0
    BY <1>0, FS_EmptySet
  <2>2. m \in Nat /\ (m > 0 => n % m \in 0..m - 1)
    BY NextRemainder DEF ReportInv, ReportTypes
  <2> QED
    BY <1>0, <2>1, <2>2 DEF ReportInv, ReportPlaces, BulkBound
<1> QED
  BY <1>3, <1>4, <1>5 DEF ReportInv

LEMMA CollectedInv ==
  ASSUME ReportInv, Collected
  PROVE  ReportInv'
<1>1. ReportTypes'
  BY DEF ReportInv, ReportTypes, Collected
<1>2. ReportPlaces'
  BY DEF ReportInv, ReportTypes, ReportPlaces, BulkBound, Collected
<1>3. BulkBound'
  BY DEF ReportInv, BulkBound, Collected
<1> QED
  BY <1>1, <1>2, <1>3 DEF ReportInv

\* UpdateElasticSearchMetricsOnce writes a metric once, in requests of at most m,
\* and leaves out of a report without an error only those of requests that failed.
THEOREM ReportsOnce == ReportSpec => []ReportedOnce
<1>1. ReportInit => ReportInv
  BY ReportInitInv
<1>2. ReportInv /\ [ReportNext]_reportVars => ReportInv'
  <2> SUFFICES ASSUME ReportInv, [ReportNext]_reportVars PROVE ReportInv'
    OBVIOUS
  <2>1. CASE UNCHANGED reportVars
    BY <2>1 DEF ReportInv, ReportTypes, ReportPlaces, BulkBound, reportVars
  <2> QED
    BY <2>1, UpdateInv, CollectInv, SendInv, CollectedInv DEF ReportNext
<1>3. ReportInv => ReportedOnce
  BY DEF ReportInv, ReportTypes, ReportPlaces, BulkBound, ReportedOnce
<1> QED
  BY <1>1, <1>2, <1>3, PTL DEF ReportSpec

------------------------------------------------------------------------------
(* BulkInsert and Select *)

OrmTypes ==
  /\ insert \in {"none", "batch", "ok", "error"}
  /\ size \in 0..MaxRows /\ batch \in Nat /\ count \in Nat
  /\ stored \in [Rows -> Nat]
  /\ query \in {"none", "rows", "ok", "error"}
  /\ list \in Seq(Rows) /\ broken \in BOOLEAN

\* The first k elements are stored, once, and no other.
StoredTo(k) == \A r \in Rows : stored[r] = IF r <= k THEN 1 ELSE 0

\* Before a batch, what is counted is what is stored, and is where it begins.
InsertInv ==
  /\ insert = "none" => batch = 0 /\ count = 0 /\ StoredTo(0)
  /\ insert = "batch" =>
       /\ StoredTo(count) /\ query = "none"
       /\ \/ batch <= LastBatch /\ count = First
          \/ batch > LastBatch /\ count = size
  /\ insert = "ok" => StoredTo(count) /\ count = size
  /\ insert = "error" => \E k \in count..count + Per : k <= MaxRows /\ StoredTo(k)

QueryInv ==
  /\ query # "none" => insert \in {"ok", "error"}
  /\ query = "none" => list = <<>>
  /\ \A i \in 1..Len(list) : list[i] = i
  /\ \A i \in 1..Len(list) : stored[i] > 0
  /\ query = "ok" /\ ~ broken => \A r \in Rows : stored[r] > 0 => r <= Len(list)

OrmInv == OrmTypes /\ InsertInv /\ QueryInv

\* The batches cover the list: the last one begins in it, or at its end.
LEMMA BatchBounds ==
  ASSUME OrmTypes
  PROVE  /\ LastBatch \in Nat /\ First \in Nat
         /\ batch <= LastBatch => First <= size
         /\ batch = LastBatch => First + Per > size
         /\ batch < LastBatch => First + Per <= size
         /\ (batch + 1) * Per = First + Per
<1>1. Per \in Nat /\ Per > 0 /\ size \in Nat /\ batch \in Nat
  BY OrmBounds DEF OrmTypes
<1>2. /\ LastBatch \in Nat /\ size = Per * LastBatch + (size % Per) /\ size % Per \in 0..Per - 1
  BY <1>1 DEF LastBatch
<1>3. First = batch * Per /\ First \in Nat /\ (batch + 1) * Per = First + Per
  BY <1>1, Z3 DEF First
<1>4. batch <= LastBatch => batch * Per <= Per * LastBatch
  BY <1>1, <1>2, Z3
<1>5. batch = LastBatch => batch * Per = Per * LastBatch
  BY <1>1, <1>2, Z3
<1>6. batch < LastBatch => (batch + 1) * Per <= Per * LastBatch
  BY <1>1, <1>2, Z3
<1>7. Per * LastBatch \in Nat /\ batch * Per \in Nat
  BY <1>1, <1>2, Z3
<1> HIDE DEF First, LastBatch
<1>8. (batch <= LastBatch => First <= size) /\ (batch < LastBatch => First + Per <= size)
  BY <1>1, <1>2, <1>3, <1>4, <1>6, <1>7
<1>9. batch = LastBatch => First + Per > size
  BY <1>1, <1>2, <1>3, <1>5, <1>7
<1> QED
  BY <1>2, <1>3, <1>8, <1>9

LEMMA OrmInitInv == OrmInit => OrmInv
<1> SUFFICES ASSUME OrmInit PROVE OrmInv
  OBVIOUS
<1>1. OrmTypes
  <2>1. broken \in BOOLEAN
    BY Zenon DEF OrmInit
  <2> QED
    BY <2>1, OrmBounds DEF OrmInit, OrmTypes
<1>2. InsertInv
  BY DEF OrmInit, InsertInv, StoredTo, Rows
<1>3. QueryInv
  BY DEF OrmInit, QueryInv
<1> QED
  BY <1>1, <1>2, <1>3 DEF OrmInv

LEMMA BulkInsertInv ==
  ASSUME OrmInv, NEW l \in 0..MaxRows, BulkInsert(l)
  PROVE  OrmInv'
<1>1. /\ insert = "none" /\ size' = l /\ insert' = (IF l = 0 THEN "ok" ELSE "batch")
      /\ UNCHANGED <<batch, count, stored, query, list, broken>>
      /\ batch = 0 /\ count = 0 /\ StoredTo(0) /\ query = "none"
  BY DEF BulkInsert, OrmInv, InsertInv, QueryInv, OrmTypes
<1>2. OrmTypes'
  BY <1>1 DEF OrmInv, OrmTypes
<1>3. LastBatch' \in Nat /\ First' = 0
  BY <1>1, OrmBounds DEF LastBatch, First
<1>4. InsertInv'
  <2>1. StoredTo(0)'
    BY <1>1 DEF StoredTo
  <2>2. batch' <= LastBatch' /\ count' = First'
    BY <1>1, <1>3
  <2>3. count' = 0 /\ (l = 0 => size' = 0)
    BY <1>1
  <2> QED
    BY <1>1, <2>1, <2>2, <2>3 DEF InsertInv
<1>5. QueryInv'
  BY <1>1 DEF OrmInv, QueryInv
<1> QED
  BY <1>2, <1>4, <1>5 DEF OrmInv

\* A batch that is stored is the next part of the list.
LEMMA InsertManyInv ==
  ASSUME OrmInv, InsertMany
  PROVE  OrmInv'
<1>1. /\ insert = "batch" /\ batch <= LastBatch /\ First # End
      /\ UNCHANGED <<size, query, list, broken>>
      /\ \/ /\ stored' = [r \in Rows |-> IF First < r /\ r <= End THEN stored[r] + 1 ELSE stored[r]]
            /\ \/ count' = count + (End - First) /\ batch' = batch + 1 /\ insert' = insert
               \/ insert' = "error" /\ UNCHANGED <<count, batch>>
         \/ insert' = "error" /\ UNCHANGED <<stored, count, batch>>
  BY DEF InsertMany
<1>2. OrmTypes /\ StoredTo(count) /\ query = "none" /\ list = <<>>
  BY <1>1 DEF OrmInv, InsertInv, QueryInv
<1>3. /\ Per \in Nat /\ Per > 0 /\ size \in Nat /\ size <= MaxRows /\ batch \in Nat /\ count \in Nat
      /\ MaxRows \in Nat
  BY <1>2, OrmBounds DEF OrmTypes
<1>4. /\ LastBatch \in Nat /\ First \in Nat /\ First <= size
      /\ batch = LastBatch => First + Per > size
      /\ batch < LastBatch => First + Per <= size
      /\ (batch + 1) * Per = First + Per
  BY <1>1, <1>2, BatchBounds
<1>5. count = First
  BY <1>1, <1>3, <1>4 DEF OrmInv, InsertInv
<1>6. End \in First..First + Per /\ End <= size /\ (batch = LastBatch => End = size)
      /\ (batch < LastBatch => End = First + Per)
  BY <1>3, <1>4 DEF End
<1>7. ASSUME stored' = [r \in Rows |-> IF First < r /\ r <= End THEN stored[r] + 1 ELSE stored[r]]
      PROVE  /\ stored' \in [Rows -> Nat]
             /\ \A r \in Rows : stored'[r] = IF r <= End THEN 1 ELSE 0
  <2>1. stored' \in [Rows -> Nat]
    BY <1>2, <1>7 DEF OrmTypes
  <2>2. \A r \in Rows : stored'[r] = IF r <= End THEN 1 ELSE 0
    <3> SUFFICES ASSUME NEW r \in Rows PROVE stored'[r] = IF r <= End THEN 1 ELSE 0
      OBVIOUS
    <3>1. r \in Nat /\ stored[r] = (IF r <= First THEN 1 ELSE 0)
      BY <1>2, <1>5 DEF StoredTo, Rows
    <3>2. stored'[r] = IF First < r /\ r <= End THEN stored[r] + 1 ELSE stored[r]
      BY <1>7
    <3> QED
      BY <1>4, <1>6, <3>1, <3>2
  <2> QED
    BY <2>1, <2>2
<1>8. PICK k \in First..First + Per : k = End
  BY <1>6
<1>9. QueryInv'
  BY <1>1, <1>2 DEF QueryInv
<1>10. CASE stored' = [r \in Rows |-> IF First < r /\ r <= End THEN stored[r] + 1 ELSE stored[r]]
  <2>1. stored' \in [Rows -> Nat] /\ \A r \in Rows : stored'[r] = IF r <= k THEN 1 ELSE 0
    BY <1>7, <1>8, <1>10
  <2>2. StoredTo(k)'
    BY <2>1 DEF StoredTo
  <2>3. k \in Nat /\ k <= size /\ k \in count..count + Per
    BY <1>3, <1>4, <1>5, <1>6, <1>8
  <2>4. CASE count' = count + (End - First) /\ batch' = batch + 1 /\ insert' = insert
    <3>1. count' = k /\ batch' \in Nat /\ size' = size
      BY <1>1, <1>3, <1>4, <1>5, <1>6, <1>8, <2>4
    <3>2. OrmTypes'
      BY <1>1, <1>2, <2>1, <2>3, <2>4, <3>1 DEF OrmTypes
    <3>3. LastBatch' = LastBatch /\ First' = First + Per
      BY <1>1, <1>4, <2>4 DEF LastBatch, First
    <3>4. StoredTo(count)'
      BY <2>1, <3>1 DEF StoredTo
    <3>5. \/ batch' <= LastBatch' /\ count' = First'
          \/ batch' > LastBatch' /\ count' = size'
      BY <1>1, <1>3, <1>4, <1>6, <1>8, <2>4, <3>1, <3>3
    <3>6. insert' = "batch" /\ query' = "none"
      BY <1>1, <1>2, <2>4
    <3>7. InsertInv'
      BY <3>4, <3>5, <3>6 DEF InsertInv
    <3> QED
      BY <1>9, <3>2, <3>7 DEF OrmInv
  <2>5. CASE insert' = "error" /\ UNCHANGED <<count, batch>>
    <3>1. OrmTypes'
      BY <1>1, <1>2, <2>1, <2>5 DEF OrmTypes
    <3>2. k \in count'..count' + Per /\ k <= MaxRows
      BY <1>3, <2>3, <2>5
    <3>3. InsertInv'
      BY <2>2, <2>5, <3>2 DEF InsertInv
    <3> QED
      BY <1>9, <3>1, <3>3 DEF OrmInv
  <2> QED
    BY <1>1, <1>10, <2>4, <2>5, <1>8, <2>3, <1>3
<1>11. CASE insert' = "error" /\ UNCHANGED <<stored, count, batch>>
  <2>1. OrmTypes'
    BY <1>1, <1>2, <1>11 DEF OrmTypes
  <2>2. PICK j \in Nat : j = count
    BY <1>3
  <2>3. StoredTo(j)'
    BY <1>2, <1>11, <2>2 DEF StoredTo
  <2>4. j \in count'..count' + Per /\ j <= MaxRows
    BY <1>3, <1>4, <1>5, <1>11, <2>2
  <2>5. InsertInv'
    BY <1>11, <2>3, <2>4 DEF InsertInv
  <2> QED
    BY <1>9, <2>1, <2>5 DEF OrmInv
<1> QED
  BY <1>1, <1>10, <1>11

\* When the loop ends, all that was to be stored is.
LEMMA BulkReturnInv ==
  ASSUME OrmInv, BulkReturn
  PROVE  OrmInv'
<1>1. /\ insert = "batch" /\ insert' = "ok" /\ (batch > LastBatch \/ First = End)
      /\ UNCHANGED <<size, batch, count, stored, query, list, broken>>
  BY DEF BulkReturn
<1>2. /\ OrmTypes /\ StoredTo(count) /\ query = "none"
      /\ \/ batch <= LastBatch /\ count = First
         \/ batch > LastBatch /\ count = size
  BY <1>1 DEF OrmInv, InsertInv
<1>3. count = size
  <2>1. CASE batch > LastBatch
    BY <1>2, <2>1, BatchBounds DEF OrmTypes
  <2>2. CASE batch <= LastBatch /\ First = End
    <3>1. First = size
      BY <2>2, <1>2, BatchBounds, OrmBounds DEF End, OrmTypes
    <3> QED
      BY <1>2, <2>2, <3>1, BatchBounds DEF OrmTypes
  <2> QED
    BY <1>1, <1>2, <2>1, <2>2
<1>4. OrmTypes' /\ QueryInv'
  BY <1>1, <1>2 DEF OrmTypes, OrmInv, QueryInv
<1>5. StoredTo(count)'
  BY <1>1, <1>2 DEF StoredTo
<1>6. InsertInv'
  BY <1>1, <1>3, <1>5 DEF InsertInv
<1> QED
  BY <1>4, <1>6 DEF OrmInv

LEMMA InsertStays ==
  ASSUME OrmInv, insert # "batch" \/ query' = "none",
         UNCHANGED <<insert, size, batch, count, stored>>
  PROVE  InsertInv'
<1>1. \A k : StoredTo(k)' <=> StoredTo(k)
  BY DEF StoredTo
<1>2. LastBatch' = LastBatch /\ First' = First
  BY DEF LastBatch, First
<1> QED
  BY <1>1, <1>2 DEF OrmInv, InsertInv, StoredTo

LEMMA SelectInv ==
  ASSUME OrmInv, Select
  PROVE  OrmInv'
<1>1. OrmTypes'
  BY DEF OrmInv, OrmTypes, Select
<1>2. QueryInv'
  BY DEF OrmInv, QueryInv, Select
<1>3. InsertInv'
  BY InsertStays DEF Select
<1> QED
  BY <1>1, <1>2, <1>3 DEF OrmInv

\* The rows not read yet are those behind the last one that was.
LEMMA RemainingRows ==
  ASSUME OrmInv
  PROVE  /\ Len(list) \in Nat
         /\ Remaining = {r \in Rows : stored[r] > 0 /\ r > Len(list)}
<1>1. list \in Seq(Rows) /\ Len(list) \in Nat /\ \A i \in 1..Len(list) : list[i] = i
  BY DEF OrmInv, OrmTypes, QueryInv
<1>2. ASSUME NEW r \in Rows
      PROVE  (\A i \in 1..Len(list) : list[i] # r) <=> r > Len(list)
  BY <1>1 DEF Rows
<1> QED
  BY <1>1, <1>2 DEF Remaining

\* What is stored are the first k rows.
LEMMA StoredPrefix ==
  ASSUME OrmInv
  PROVE  \E k \in count..count + Per : k \in Nat /\ k <= MaxRows /\ StoredTo(k)
<1>1. count \in Nat /\ Per \in Nat /\ size \in 0..MaxRows /\ batch \in Nat /\ MaxRows \in Nat
  BY OrmBounds DEF OrmInv, OrmTypes
<1>2. CASE insert = "error"
  BY <1>1, <1>2 DEF OrmInv, InsertInv
<1>3. CASE insert # "error"
  <2>1. StoredTo(count)
    BY <1>3 DEF OrmInv, OrmTypes, InsertInv
  <2>2. count <= MaxRows
    <3>1. insert = "none" => count = 0
      BY DEF OrmInv, InsertInv
    <3>2. insert = "batch" /\ batch <= LastBatch => count = First /\ First <= size
      BY <1>1, BatchBounds DEF OrmInv, InsertInv
    <3>3. insert = "batch" /\ batch > LastBatch => count = size
      BY <1>1, BatchBounds DEF OrmInv, InsertInv
    <3>4. insert = "batch" => batch <= LastBatch \/ batch > LastBatch
      BY DEF OrmInv, InsertInv
    <3>5. insert = "ok" => count = size
      BY DEF OrmInv, InsertInv
    <3>6. insert \in {"none", "batch", "ok"}
      BY <1>3 DEF OrmInv, OrmTypes
    <3> QED
      BY <1>1, <3>1, <3>2, <3>3, <3>4, <3>5, <3>6
  <2>3. count \in count..count + Per
    BY <1>1
  <2> QED
    BY <1>1, <2>1, <2>2, <2>3
<1> QED
  BY <1>2, <1>3

LEMMA RowsNextInv ==
  ASSUME OrmInv, RowsNext
  PROVE  OrmInv'
<1> DEFINE next == CHOOSE r \in Remaining : \A s \in Remaining : r <= s
<1>1. /\ query = "rows" /\ Remaining # {}
      /\ \/ list' = Append(list, next) /\ query' = query
         \/ query' = "error" /\ list' = <<>>
      /\ UNCHANGED <<insert, size, batch, count, stored, broken>>
  BY DEF RowsNext
<1>2. OrmTypes /\ insert \in {"ok", "error"} /\ list \in Seq(Rows)
      /\ \A i \in 1..Len(list) : list[i] = i /\ stored[i] > 0
  BY <1>1 DEF OrmInv, QueryInv, OrmTypes
<1>3. InsertInv'
  BY <1>1, <1>2, InsertStays
<1>4. next = Len(list) + 1 /\ next \in Rows /\ stored[next] > 0
  <2>1. PICK k \in Nat : k <= MaxRows /\ StoredTo(k)
    BY StoredPrefix
  <2>2. /\ Len(list) \in Nat
        /\ Remaining = {r \in Rows : stored[r] > 0 /\ r > Len(list)}
    BY RemainingRows
  <2>3. \A r \in Rows : r \in Nat /\ (stored[r] > 0 <=> r <= k)
    BY <2>1 DEF StoredTo, Rows
  <2>4. Len(list) + 1 \in Remaining /\ \A s \in Remaining : Len(list) + 1 <= s
    <3>1. PICK r \in Remaining : r \in Rows /\ r > Len(list) /\ r <= k
      BY <1>1, <2>2, <2>3
    <3>2. Len(list) + 1 \in Rows /\ Len(list) + 1 <= k
      BY <2>1, <2>2, <3>1, OrmBounds DEF Rows
    <3> QED
      BY <2>2, <2>3, <3>2
  <2>5. next \in Remaining /\ next <= Len(list) + 1 /\ Len(list) + 1 <= next
    BY <2>4
  <2> QED
    BY <2>2, <2>3, <2>5
<1> HIDE DEF next
<1>5. CASE list' = Append(list, next) /\ query' = query
  <2>1. /\ list' \in Seq(Rows) /\ Len(list') = Len(list) + 1 /\ Len(list) \in Nat
        /\ list'[Len(list) + 1] = next
        /\ \A i \in 1..Len(list) : list'[i] = list[i]
    BY <1>2, <1>4, <1>5
  <2>2. \A i \in 1..Len(list') : list'[i] = i /\ stored[i] > 0
    <3> SUFFICES ASSUME NEW i \in 1..Len(list') PROVE list'[i] = i /\ stored[i] > 0
      OBVIOUS
    <3>1. i \in 1..Len(list) \/ i = Len(list) + 1
      BY <2>1
    <3> QED
      BY <1>2, <1>4, <2>1, <3>1
  <2>3. QueryInv'
    BY <1>1, <1>2, <1>5, <2>2 DEF QueryInv
  <2>4. OrmTypes'
    BY <1>1, <1>2, <1>5, <2>1 DEF OrmTypes
  <2> QED
    BY <1>3, <2>3, <2>4 DEF OrmInv
<1>6. CASE query' = "error" /\ list' = <<>>
  <2>1. QueryInv'
    BY <1>1, <1>2, <1>6 DEF QueryInv
  <2>2. OrmTypes'
    BY <1>1, <1>2, <1>6 DEF OrmTypes
  <2> QED
    BY <1>3, <2>1, <2>2 DEF OrmInv
<1> QED
  BY <1>1, <1>5, <1>6

LEMMA RowsEndInv ==
  ASSUME OrmInv, RowsEnd
  PROVE  OrmInv'
<1>1. /\ query = "rows" /\ query' = "ok" /\ broken' = (Remaining # {})
      /\ UNCHANGED <<insert, size, batch, count, stored, list>>
  BY Zenon DEF RowsEnd
<1>2. broken' \in BOOLEAN
  BY <1>1, Zenon
<1>3. OrmTypes'
  BY <1>1, <1>2 DEF OrmInv, OrmTypes
<1>4. insert # "batch"
  BY <1>1 DEF OrmInv, QueryInv
<1>5. InsertInv'
  BY <1>1, <1>4, InsertStays
<1>6. ~ broken' => Remaining = {}
  BY <1>1, Zenon
<1>7. ~ broken' => \A r \in Rows : stored[r] > 0 => r <= Len(list)
  BY <1>6, RemainingRows DEF Rows
<1>8. QueryInv'
  BY <1>1, <1>7 DEF OrmInv, QueryInv
<1> QED
  BY <1>3, <1>5, <1>8 DEF OrmInv

LEMMA OrmInvImplies == OrmInv => RowsWhole
<1> SUFFICES ASSUME OrmInv PROVE RowsWhole
  OBVIOUS
<1>1. PICK k \in count..count + Per : k \in Nat /\ k <= MaxRows /\ StoredTo(k)
  BY StoredPrefix
<1>2. MaxRows \in Nat /\ list \in Seq(Rows) /\ size \in 0..MaxRows
  BY OrmBounds DEF OrmInv, OrmTypes
<1>3. \A j \in Nat : j <= MaxRows /\ StoredTo(j) => Stored = 1..j
  BY <1>2 DEF StoredTo, Stored, Rows
<1>4. \A r \in Rows : stored[r] <= 1
  BY <1>1 DEF StoredTo
<1>5. insert = "ok" => Stored = 1..size /\ count = size
  BY <1>2, <1>3 DEF OrmInv, InsertInv
<1>6. Stored = 1..k
  BY <1>1, <1>3
<1>7. ASSUME query = "ok"
      PROVE  /\ list = [i \in 1..Len(list) |-> i]
             /\ ~ broken => 1..Len(list) = Stored
  <2>1. \A i \in 1..Len(list) : list[i] = i
    BY DEF OrmInv, QueryInv
  <2>2. list = [i \in 1..Len(list) |-> i]
    BY <1>2, <2>1
  <2>3. 1..Len(list) \subseteq Stored
    <3>1. \A i \in 1..Len(list) : list[i] \in Rows
      BY <1>2
    <3>2. \A i \in 1..Len(list) : stored[i] > 0
      BY DEF OrmInv, QueryInv
    <3> QED
      BY <2>1, <3>1, <3>2 DEF Stored
  <2>4. ~ broken => Stored \subseteq 1..Len(list)
    <3>1. ~ broken => \A r \in Rows : stored[r] > 0 => r <= Len(list)
      BY <1>7 DEF OrmInv, QueryInv
    <3> QED
      BY <1>2, <3>1 DEF Stored, Rows
  <2> QED
    BY <2>2, <2>3, <2>4
<1> QED
  BY <1>1, <1>4, <1>5, <1>6, <1>7 DEF RowsWhole

LEMMA OrmStep == OrmInv /\ [OrmNext]_ormVars => OrmInv'
<1> SUFFICES ASSUME OrmInv, [OrmNext]_ormVars PROVE OrmInv'
  OBVIOUS
<1>1. ASSUME NEW k \in 0..MaxRows, BulkInsert(k) PROVE OrmInv'
  BY <1>1, BulkInsertInv
<1>2. CASE InsertMany
  BY <1>2, InsertManyInv
<1>3. CASE BulkReturn
  BY <1>3, BulkReturnInv
<1>4. CASE Select
  BY <1>4, SelectInv
<1>5. CASE RowsNext
  BY <1>5, RowsNextInv
<1>6. CASE RowsEnd
  BY <1>6, RowsEndInv
<1>7. CASE UNCHANGED ormVars
  <2>1. /\ OrmTypes' /\ QueryInv'
    BY <1>7 DEF OrmInv, OrmTypes, QueryInv, ormVars
  <2>2. InsertInv'
    BY <1>7 DEF OrmInv, InsertInv, StoredTo, LastBatch, First, ormVars
  <2> QED
    BY <2>1, <2>2 DEF OrmInv
<1> QED
  BY <1>1, <1>2, <1>3, <1>4, <1>5, <1>6, <1>7 DEF OrmNext

\* BulkInsert of a list of any length, in batches of any size, writes each
\* element once and a beginning of the list, which is all of it if there is no
\* error and exceeds what it counted by at most one batch if there is; Select
\* returns all of that in order unless the connection broke.
THEOREM BulkWhole == OrmSpec => []RowsWhole
<1>1. OrmInit => OrmInv
  BY OrmInitInv
<1>2. OrmInv /\ [OrmNext]_ormVars => OrmInv'
  BY OrmStep
<1>3. OrmInv => RowsWhole
  BY OrmInvImplies
<1> QED
  BY <1>1, <1>2, <1>3, PTL DEF OrmSpec


------------------------------------------------------------------------------
(* The registry of metrics and the counting of requests *)

InHandler == {"handler", "dec"}
Stages == {"out", "inc"} \cup Metric \cup InHandler

MetricsTypes ==
  /\ keys \subseteq Metric /\ sweep \in Metric \cup {"none"}
  /\ registry \in [Metric -> Nat]
  /\ made \in 0..MaxCounter /\ registry["current"] <= made
  /\ stage \in [Request -> Stages]
  /\ phase \in [Request -> {"test", "store", "get", "register"}]
  /\ handle \in [Request -> 0..MaxCounter]
  /\ value \in [Counters -> Int]
  /\ panicked \in [Counters -> Nat]

MetricsInv == MetricsTypes /\ MissingOnlyInTransit /\ DriftIsPanics

LEMMA CountedFinite ==
  ASSUME NEW S \in SUBSET Request
  PROVE  IsFiniteSet(S) /\ Cardinality(S) \in Nat
BY RequestAssumption, FS_Subset, FS_CardinalityType

LEMMA MetricsInitInv == MetricsInit => MetricsInv
<1> SUFFICES ASSUME MetricsInit PROVE MetricsInv
  OBVIOUS
<1> USE DEF MetricsInit
<1>1. MetricsTypes
  BY MetricsBounds DEF MetricsTypes, Metric, Stages
<1>2. MissingOnlyInTransit
  BY DEF MissingOnlyInTransit
<1>3. DriftIsPanics
  <2>1. \A c \in Counters : Counted(c) = {}
    BY DEF Counted
  <2> QED
    BY <2>1, FS_EmptySet DEF DriftIsPanics
<1> QED
  BY <1>1, <1>2, <1>3 DEF MetricsInv

\* Nobody enters or leaves a handler with a counter.
LEMMA SameCounts ==
  ASSUME MetricsInv, value' = value, panicked' = panicked,
         \A q \in Request : stage'[q] \in InHandler <=> stage[q] \in InHandler,
         \A q \in Request : stage[q] \in InHandler => handle'[q] = handle[q]
  PROVE  DriftIsPanics'
<1>1. \A c \in Counters : Counted(c)' = Counted(c)
  BY DEF Counted, InHandler
<1> QED
  BY <1>1 DEF DriftIsPanics, MetricsInv

\* The requests of a counter are one more, or one less.
LEMMA MoreCounted ==
  ASSUME NEW p \in Request, NEW c \in Counters, MetricsInv,
         \A q \in Request \ {p} : stage'[q] = stage[q],
         handle' = handle, handle[p] = c,
         stage[p] \notin InHandler, stage'[p] \in InHandler
  PROVE  Cardinality(Counted(c)') = Cardinality(Counted(c)) + 1
<1>1. Counted(c)' = Counted(c) \cup {p} /\ p \notin Counted(c) /\ Counted(c) \in SUBSET Request
  BY DEF Counted, InHandler
<1> QED
  BY <1>1, CountedFinite, FS_AddElement

LEMMA FewerCounted ==
  ASSUME NEW p \in Request, NEW c \in Counters, MetricsInv,
         \A q \in Request \ {p} : stage'[q] = stage[q],
         handle' = handle, handle[p] = c,
         stage[p] \in InHandler, stage'[p] \notin InHandler
  PROVE  Cardinality(Counted(c)') = Cardinality(Counted(c)) - 1
<1>1. Counted(c)' = Counted(c) \ {p} /\ p \in Counted(c) /\ Counted(c) \in SUBSET Request
  BY DEF Counted, InHandler
<1> QED
  BY <1>1, CountedFinite, FS_RemoveElement

LEMMA OtherCounted ==
  ASSUME NEW p \in Request, NEW c \in Counters, MetricsInv,
         \A q \in Request \ {p} : stage'[q] = stage[q],
         handle' = handle, handle[p] # c
  PROVE  Counted(c)' = Counted(c)
BY DEF Counted

\* A step of a request outside of the handler keeps its hands off the counters.
LEMMA LookupCounts ==
  ASSUME MetricsInv, NEW p \in Request, UNCHANGED counting,
         stage[p] \notin InHandler, stage'[p] \notin InHandler,
         \A q \in Request \ {p} : stage'[q] = stage[q] /\ handle'[q] = handle[q]
  PROVE  DriftIsPanics'
<1>1. value' = value /\ panicked' = panicked
  BY DEF counting
<1>2. \A q \in Request : stage'[q] \in InHandler <=> stage[q] \in InHandler
  OBVIOUS
<1>3. \A q \in Request : stage[q] \in InHandler => handle'[q] = handle[q]
  OBVIOUS
<1> QED
  BY <1>1, <1>2, <1>3, SameCounts

\* What a lookup that finds object h does to the one who looks up.
LEMMA FoundEffect ==
  ASSUME MetricsInv, NEW p \in Request, stage[p] \in Metric, NEW h \in Nat, Found(p, h),
         stage[p] = "current" => h <= MaxCounter
  PROVE  /\ stage' \in [Request -> Stages] /\ phase' \in [Request -> {"test", "store", "get", "register"}]
         /\ handle' \in [Request -> 0..MaxCounter]
         /\ stage'[p] \notin InHandler
         /\ \A q \in Request \ {p} : /\ stage'[q] = stage[q] /\ phase'[q] = phase[q]
                                     /\ handle'[q] = handle[q]
<1>1. MetricsTypes /\ MaxCounter \in Nat
  BY MetricsBounds DEF MetricsInv
<1>2. After(stage[p]) \in {"total", "inc", "out"}
  BY DEF Metric, After
<1>3. stage' = [stage EXCEPT ![p] = After(stage[p])] /\ phase' = [phase EXCEPT ![p] = "test"]
  BY DEF Found, Advance, Step
<1>4. handle' \in [Request -> 0..MaxCounter] /\ \A q \in Request \ {p} : handle'[q] = handle[q]
  <2>1. CASE stage[p] = "current"
    BY <1>1, <2>1 DEF Found, MetricsTypes
  <2>2. CASE stage[p] # "current"
    BY <1>1, <2>2 DEF Found, MetricsTypes
  <2> QED
    BY <2>1, <2>2
<1>5. /\ stage' \in [Request -> Stages] /\ stage'[p] \notin InHandler
      /\ \A q \in Request \ {p} : stage'[q] = stage[q]
  BY <1>1, <1>2, <1>3 DEF MetricsTypes, Stages, Metric, InHandler
<1>6. /\ phase' \in [Request -> {"test", "store", "get", "register"}]
      /\ \A q \in Request \ {p} : phase'[q] = phase[q]
  BY <1>1, <1>3 DEF MetricsTypes
<1> QED
  BY <1>4, <1>5, <1>6

LEMMA PanicEffect ==
  ASSUME MetricsInv, NEW p \in Request, Panic(p)
  PROVE  /\ stage' \in [Request -> Stages] /\ phase' \in [Request -> {"test", "store", "get", "register"}]
         /\ handle' = handle /\ stage'[p] = "out" /\ phase'[p] = "test"
         /\ \A q \in Request \ {p} : stage'[q] = stage[q] /\ phase'[q] = phase[q]
BY DEF Panic, Step, MetricsInv, MetricsTypes, Stages

LEMMA AdvanceEffect ==
  ASSUME MetricsInv, NEW p \in Request, Advance(p)
  PROVE  /\ stage' \in [Request -> Stages] /\ stage'[p] = After(stage[p])
         /\ \A q \in Request \ {p} : stage'[q] = stage[q]
<1>1. After(stage[p]) \in Stages
  BY DEF MetricsInv, MetricsTypes, Stages, Metric, InHandler, After
<1> QED
  BY <1>1 DEF Advance, MetricsInv, MetricsTypes

\* A request that is not about to register leaves no key without its metric.
LEMMA TransitStays ==
  ASSUME MetricsInv, NEW p \in Request, UNCHANGED <<keys, registry, sweep>>,
         stage[p] \notin Metric \/ phase[p] # "register",
         \A q \in Request \ {p} : stage'[q] = stage[q] /\ phase'[q] = phase[q]
  PROVE  MissingOnlyInTransit'
<1> SUFFICES ASSUME NEW k \in keys, registry[k] = 0, sweep # k
             PROVE  \E q \in Request : stage'[q] = k /\ phase'[q] = "register"
  BY DEF MissingOnlyInTransit
<1>1. k \in Metric
  BY DEF MetricsInv, MetricsTypes
<1>2. PICK q \in Request : stage[q] = k /\ phase[q] = "register"
  BY DEF MetricsInv, MissingOnlyInTransit
<1> QED
  BY <1>1, <1>2

LEMMA EnterInv ==
  ASSUME MetricsInv, NEW p \in Request, Enter(p)
  PROVE  MetricsInv'
<1>1. /\ stage[p] = "out" /\ Advance(p)
      /\ UNCHANGED <<keys, registry, made, phase, handle, value, panicked, todo, sweep>>
  BY DEF Enter, maps, counting, sweeper
<1>2. /\ stage' \in [Request -> Stages] /\ stage'[p] = "current"
      /\ \A q \in Request \ {p} : stage'[q] = stage[q]
  BY <1>1, AdvanceEffect DEF After
<1>3. MetricsTypes'
  BY <1>1, <1>2 DEF MetricsInv, MetricsTypes
<1>4. MissingOnlyInTransit'
  BY <1>1, <1>2, TransitStays DEF Metric
<1>5. DriftIsPanics'
  BY <1>1, <1>2, LookupCounts DEF InHandler, counting
<1> QED
  BY <1>3, <1>4, <1>5 DEF MetricsInv

LEMMA TestInv ==
  ASSUME MetricsInv, NEW p \in Request, Test(p)
  PROVE  MetricsInv'
<1>1. /\ stage[p] \in Metric /\ phase[p] = "test"
      /\ UNCHANGED <<keys, registry, made, value, panicked, todo, sweep>>
  BY DEF Test, maps, counting, sweeper
<1>2. /\ stage' \in [Request -> Stages] /\ phase' \in [Request -> {"test", "store", "get", "register"}]
      /\ handle' \in [Request -> 0..MaxCounter]
      /\ stage'[p] \notin InHandler
      /\ \A q \in Request \ {p} : /\ stage'[q] = stage[q] /\ phase'[q] = phase[q]
                                  /\ handle'[q] = handle[q]
  <2>1. CASE enable
    <3>1. Step(p, "store") /\ stage' = stage /\ handle' = handle
      BY <2>1, Zenon DEF Test
    <3> QED
      BY <1>1, <3>1 DEF Step, MetricsInv, MetricsTypes, InHandler, Metric
  <2>2. CASE ~ enable
    <3>1. Found(p, 0)
      BY <2>2, Zenon DEF Test
    <3> QED
      BY <1>1, <3>1, FoundEffect, MetricsBounds
  <2> QED
    BY <2>1, <2>2
<1>3. MetricsTypes'
  BY <1>1, <1>2 DEF MetricsInv, MetricsTypes
<1>4. MissingOnlyInTransit'
  BY <1>1, <1>2, TransitStays
<1>5. DriftIsPanics'
  BY <1>1, <1>2, LookupCounts DEF InHandler, Metric, counting
<1> QED
  BY <1>3, <1>4, <1>5 DEF MetricsInv

\* The one who stores a key is the one who registers its metric.
LEMMA LoadOrStoreInv ==
  ASSUME MetricsInv, NEW p \in Request, LoadOrStore(p)
  PROVE  MetricsInv'
<1>1. /\ stage[p] \in Metric /\ phase[p] = "store"
      /\ keys' = keys \cup {stage[p]}
      /\ phase' = [phase EXCEPT ![p] = IF stage[p] \in keys THEN "get" ELSE "register"]
      /\ UNCHANGED <<registry, made, stage, handle, value, panicked, todo, sweep>>
  BY DEF LoadOrStore, counting, sweeper, Step
<1>2. MetricsTypes
  BY DEF MetricsInv
<1>3. MetricsTypes'
  BY <1>1, <1>2 DEF MetricsTypes
<1>4. MissingOnlyInTransit'
  <2> SUFFICES ASSUME NEW k \in keys', registry'[k] = 0, sweep' # k
               PROVE  \E q \in Request : stage'[q] = k /\ phase'[q] = "register"
    BY DEF MissingOnlyInTransit
  <2>1. CASE k \in keys
    <3>1. PICK q \in Request : stage[q] = k /\ phase[q] = "register"
      BY <1>1, <2>1 DEF MetricsInv, MissingOnlyInTransit
    <3> QED
      BY <1>1, <1>2, <3>1 DEF MetricsTypes
  <2>2. CASE k \notin keys
    BY <1>1, <1>2, <2>2 DEF MetricsTypes
  <2> QED
    BY <2>1, <2>2
<1>5. DriftIsPanics'
  BY <1>1, SameCounts
<1> QED
  BY <1>3, <1>4, <1>5 DEF MetricsInv

LEMMA GetMetricInv ==
  ASSUME MetricsInv, NEW p \in Request, GetMetric(p)
  PROVE  MetricsInv'
<1>1. /\ stage[p] \in Metric /\ phase[p] = "get"
      /\ UNCHANGED <<keys, registry, made, value, panicked, todo, sweep>>
  BY DEF GetMetric, maps, counting, sweeper
<1>2. MetricsTypes /\ MaxCounter \in Nat
  BY MetricsBounds DEF MetricsInv
<1>3. /\ stage' \in [Request -> Stages] /\ phase' \in [Request -> {"test", "store", "get", "register"}]
      /\ handle' \in [Request -> 0..MaxCounter]
      /\ stage'[p] \notin InHandler
      /\ \A q \in Request \ {p} : /\ stage'[q] = stage[q] /\ phase'[q] = phase[q]
                                  /\ handle'[q] = handle[q]
  <2>1. CASE registry[stage[p]] = 0
    BY <1>2, <2>1, PanicEffect DEF GetMetric, MetricsTypes, InHandler
  <2>2. CASE registry[stage[p]] # 0
    <3>1. /\ Found(p, registry[stage[p]]) /\ registry[stage[p]] \in Nat
          /\ stage[p] = "current" => registry[stage[p]] <= MaxCounter
      BY <1>1, <1>2, <2>2 DEF GetMetric, MetricsTypes
    <3> QED
      BY <1>1, <3>1, FoundEffect
  <2> QED
    BY <2>1, <2>2
<1>4. MetricsTypes'
  BY <1>1, <1>2, <1>3 DEF MetricsTypes
<1>5. MissingOnlyInTransit'
  BY <1>1, <1>3, TransitStays
<1>6. DriftIsPanics'
  BY <1>1, <1>3, LookupCounts DEF InHandler, Metric, counting
<1> QED
  BY <1>4, <1>5, <1>6 DEF MetricsInv

\* After it, the metric is registered, by this request or by an earlier one.
LEMMA GetOrRegisterInv ==
  ASSUME MetricsInv, NEW p \in Request, GetOrRegister(p)
  PROVE  MetricsInv'
<1>1. /\ stage[p] \in Metric /\ phase[p] = "register"
      /\ UNCHANGED <<keys, value, panicked, todo, sweep>>
  BY DEF GetOrRegister, counting, sweeper
<1>2. MetricsTypes /\ MaxCounter \in Nat
  BY MetricsBounds DEF MetricsInv
<1>3. /\ registry' \in [Metric -> Nat] /\ made' \in 0..MaxCounter
      /\ registry'["current"] <= made' /\ registry'[stage[p]] # 0
      /\ \A k \in Metric \ {stage[p]} : registry'[k] = registry[k]
      /\ Found(p, registry'[stage[p]])
  <2>1. CASE registry[stage[p]] # 0
    BY <1>1, <1>2, <2>1 DEF GetOrRegister, MetricsTypes
  <2>2. CASE registry[stage[p]] = 0 /\ stage[p] = "current"
    <3>1. /\ made < MaxCounter /\ made' = made + 1
          /\ registry' = [registry EXCEPT !["current"] = made']
          /\ Found(p, registry'[stage[p]])
      BY <2>2 DEF GetOrRegister
    <3> QED
      BY <1>1, <1>2, <2>2, <3>1 DEF MetricsTypes
  <2>3. CASE registry[stage[p]] = 0 /\ stage[p] # "current"
    <3>1. /\ made' = made + 0
          /\ registry' = [registry EXCEPT ![stage[p]] = 1]
          /\ Found(p, registry'[stage[p]])
      BY <2>3 DEF GetOrRegister
    <3> QED
      BY <1>1, <1>2, <2>3, <3>1 DEF MetricsTypes, Metric
  <2> QED
    BY <2>1, <2>2, <2>3
<1>4. /\ registry'[stage[p]] \in Nat
      /\ stage[p] = "current" => registry'[stage[p]] <= MaxCounter
  BY <1>1, <1>2, <1>3
<1>5. /\ stage' \in [Request -> Stages] /\ phase' \in [Request -> {"test", "store", "get", "register"}]
      /\ handle' \in [Request -> 0..MaxCounter]
      /\ stage'[p] \notin InHandler
      /\ \A q \in Request \ {p} : /\ stage'[q] = stage[q] /\ phase'[q] = phase[q]
                                  /\ handle'[q] = handle[q]
  <2>1. \A h \in Nat : h = registry'[stage[p]] => Found(p, h)
    BY <1>3, Zenon
  <2>2. PICK h \in Nat : h = registry'[stage[p]]
    BY <1>4
  <2>3. Found(p, h) /\ (stage[p] = "current" => h <= MaxCounter)
    BY <1>4, <2>1, <2>2
  <2> QED
    BY <1>1, <2>3, FoundEffect
<1>6. MetricsTypes'
  BY <1>1, <1>2, <1>3, <1>5 DEF MetricsTypes
<1>7. MissingOnlyInTransit'
  <2> SUFFICES ASSUME NEW k \in keys', registry'[k] = 0, sweep' # k
               PROVE  \E q \in Request : stage'[q] = k /\ phase'[q] = "register"
    BY DEF MissingOnlyInTransit
  <2>1. k \in Metric /\ k \in keys /\ k # stage[p] /\ registry[k] = 0
    BY <1>1, <1>2, <1>3 DEF MetricsTypes
  <2>2. PICK q \in Request : stage[q] = k /\ phase[q] = "register"
    BY <1>1, <2>1 DEF MetricsInv, MissingOnlyInTransit
  <2> QED
    BY <1>5, <2>1, <2>2
<1>8. DriftIsPanics'
  BY <1>1, <1>5, LookupCounts DEF InHandler, Metric, counting
<1> QED
  BY <1>6, <1>7, <1>8 DEF MetricsInv

LEMMA IncInv ==
  ASSUME MetricsInv, NEW p \in Request, Inc(p)
  PROVE  MetricsInv'
<1>1. /\ stage[p] = "inc" /\ Advance(p) /\ Add(handle[p], 1)
      /\ UNCHANGED <<keys, registry, made, phase, handle, panicked, todo, sweep>>
  BY DEF Inc, maps, sweeper
<1>2. /\ stage' \in [Request -> Stages] /\ stage'[p] = "handler"
      /\ \A q \in Request \ {p} : stage'[q] = stage[q]
  BY <1>1, AdvanceEffect DEF After
<1>3. MetricsTypes /\ handle[p] \in 0..MaxCounter /\ MaxCounter \in Nat
  BY MetricsBounds DEF MetricsInv, MetricsTypes
<1>4. value' = IF handle[p] = 0 THEN value ELSE [value EXCEPT ![handle[p]] = value[handle[p]] + 1]
  BY <1>1 DEF Add
<1>5. MetricsTypes'
  BY <1>1, <1>2, <1>3, <1>4 DEF MetricsTypes, Counters
<1>6. MissingOnlyInTransit'
  BY <1>1, <1>2, TransitStays DEF Metric
<1>7. DriftIsPanics'
  <2> SUFFICES ASSUME NEW c \in Counters
               PROVE  value'[c] = Cardinality(Counted(c)') + panicked'[c]
    BY DEF DriftIsPanics
  <2>1. /\ value[c] = Cardinality(Counted(c)) + panicked[c] /\ c \in 1..MaxCounter
        /\ Counted(c) \in SUBSET Request /\ panicked[c] \in Nat
    BY <1>3 DEF MetricsInv, DriftIsPanics, Counted, MetricsTypes, Counters
  <2>2. Cardinality(Counted(c)) \in Nat
    BY <2>1, CountedFinite
  <2>3. CASE handle[p] = c
    <3>1. Cardinality(Counted(c)') = Cardinality(Counted(c)) + 1
      BY <1>1, <1>2, <2>3, MoreCounted DEF InHandler
    <3>2. value'[c] = value[c] + 1
      BY <1>3, <1>4, <2>1, <2>3 DEF MetricsTypes, Counters
    <3> QED
      BY <1>1, <2>1, <2>2, <3>1, <3>2
  <2>4. CASE handle[p] # c
    <3>1. Counted(c)' = Counted(c)
      BY <1>1, <1>2, <2>4, OtherCounted
    <3>2. value'[c] = value[c]
      BY <1>3, <1>4, <2>4 DEF MetricsTypes
    <3> QED
      BY <1>1, <2>1, <3>1, <3>2
  <2> QED
    BY <2>3, <2>4
<1> QED
  BY <1>5, <1>6, <1>7 DEF MetricsInv

LEMMA DecInv ==
  ASSUME MetricsInv, NEW p \in Request, Dec(p)
  PROVE  MetricsInv'
<1>1. /\ stage[p] = "dec" /\ Advance(p) /\ Add(handle[p], -1)
      /\ UNCHANGED <<keys, registry, made, phase, handle, panicked, todo, sweep>>
  BY DEF Dec, maps, sweeper
<1>2. /\ stage' \in [Request -> Stages] /\ stage'[p] = "status"
      /\ \A q \in Request \ {p} : stage'[q] = stage[q]
  BY <1>1, AdvanceEffect DEF After
<1>3. MetricsTypes /\ handle[p] \in 0..MaxCounter /\ MaxCounter \in Nat
  BY MetricsBounds DEF MetricsInv, MetricsTypes
<1>4. value' = IF handle[p] = 0 THEN value ELSE [value EXCEPT ![handle[p]] = value[handle[p]] + (-1)]
  BY <1>1 DEF Add
<1>5. MetricsTypes'
  <2>1. \A c \in Counters : value[c] + (-1) \in Int
    BY <1>3 DEF MetricsTypes
  <2>2. value' \in [Counters -> Int]
    BY <1>3, <1>4, <2>1 DEF MetricsTypes, Counters
  <2> QED
    BY <1>1, <1>2, <1>3, <2>2 DEF MetricsTypes
<1>6. MissingOnlyInTransit'
  BY <1>1, <1>2, TransitStays DEF Metric
<1>7. DriftIsPanics'
  <2> SUFFICES ASSUME NEW c \in Counters
               PROVE  value'[c] = Cardinality(Counted(c)') + panicked'[c]
    BY DEF DriftIsPanics
  <2>1. /\ value[c] = Cardinality(Counted(c)) + panicked[c] /\ c \in 1..MaxCounter
        /\ Counted(c) \in SUBSET Request /\ panicked[c] \in Nat
    BY <1>3 DEF MetricsInv, DriftIsPanics, Counted, MetricsTypes, Counters
  <2>2. Cardinality(Counted(c)) \in Nat
    BY <2>1, CountedFinite
  <2>3. CASE handle[p] = c
    <3>1. Cardinality(Counted(c)') = Cardinality(Counted(c)) - 1
      BY <1>1, <1>2, <2>3, FewerCounted DEF InHandler
    <3>2. value'[c] = value[c] + (-1)
      BY <1>3, <1>4, <2>1, <2>3 DEF MetricsTypes, Counters
    <3> QED
      BY <1>1, <2>1, <2>2, <3>1, <3>2
  <2>4. CASE handle[p] # c
    <3>1. Counted(c)' = Counted(c)
      BY <1>1, <1>2, <2>4, OtherCounted
    <3>2. value'[c] = value[c]
      BY <1>3, <1>4, <2>4 DEF MetricsTypes
    <3> QED
      BY <1>1, <2>1, <3>1, <3>2
  <2> QED
    BY <2>3, <2>4
<1> QED
  BY <1>5, <1>6, <1>7 DEF MetricsInv

\* A handler that panics leaves its counter as it was, for good.
LEMMA HandleInv ==
  ASSUME MetricsInv, NEW p \in Request, Handle(p)
  PROVE  MetricsInv'
<1>1. /\ stage[p] = "handler"
      /\ UNCHANGED <<keys, registry, made, value, todo, sweep>>
  BY DEF Handle, maps, sweeper
<1>2. MetricsTypes /\ handle[p] \in 0..MaxCounter /\ MaxCounter \in Nat
  BY MetricsBounds DEF MetricsInv, MetricsTypes
<1>3. CASE Advance(p) /\ UNCHANGED <<phase, handle, panicked>>
  <2>1. /\ stage' \in [Request -> Stages] /\ stage'[p] = "dec"
        /\ \A q \in Request \ {p} : stage'[q] = stage[q]
    BY <1>1, <1>3, AdvanceEffect DEF After
  <2>2. MetricsTypes'
    BY <1>1, <1>2, <1>3, <2>1 DEF MetricsTypes
  <2>3. MissingOnlyInTransit'
    BY <1>1, <1>3, <2>1, TransitStays DEF Metric
  <2>4. DriftIsPanics'
    BY <1>1, <1>3, <2>1, SameCounts DEF InHandler
  <2> QED
    BY <2>2, <2>3, <2>4 DEF MetricsInv
<1>4. CASE /\ Panic(p)
           /\ panicked' = IF handle[p] = 0 THEN panicked ELSE [panicked EXCEPT ![handle[p]] = @ + 1]
  <2>1. /\ stage' \in [Request -> Stages] /\ phase' \in [Request -> {"test", "store", "get", "register"}]
        /\ handle' = handle /\ stage'[p] = "out" /\ phase'[p] = "test"
        /\ \A q \in Request \ {p} : stage'[q] = stage[q] /\ phase'[q] = phase[q]
    BY <1>4, PanicEffect
  <2>2. MetricsTypes'
    BY <1>1, <1>2, <1>4, <2>1 DEF MetricsTypes, Counters
  <2>3. MissingOnlyInTransit'
    BY <1>1, <2>1, TransitStays DEF Metric
  <2>4. DriftIsPanics'
    <3> SUFFICES ASSUME NEW c \in Counters
                 PROVE  value'[c] = Cardinality(Counted(c)') + panicked'[c]
      BY DEF DriftIsPanics
    <3>1. /\ value[c] = Cardinality(Counted(c)) + panicked[c] /\ c \in 1..MaxCounter
          /\ Counted(c) \in SUBSET Request /\ panicked[c] \in Nat
      BY <1>2 DEF MetricsInv, DriftIsPanics, Counted, MetricsTypes, Counters
    <3>2. Cardinality(Counted(c)) \in Nat
      BY <3>1, CountedFinite
    <3>3. CASE handle[p] = c
      <4>1. Cardinality(Counted(c)') = Cardinality(Counted(c)) - 1
        BY <1>1, <2>1, <3>3, FewerCounted DEF InHandler
      <4>2. panicked'[c] = panicked[c] + 1
        BY <1>2, <1>4, <3>1, <3>3 DEF MetricsTypes, Counters
      <4> QED
        BY <1>1, <3>1, <3>2, <4>1, <4>2
    <3>4. CASE handle[p] # c
      <4>1. Counted(c)' = Counted(c)
        BY <2>1, <3>4, OtherCounted
      <4>2. panicked'[c] = panicked[c]
        BY <1>2, <1>4, <3>4 DEF MetricsTypes
      <4> QED
        BY <1>1, <3>1, <4>1, <4>2
    <3> QED
      BY <3>3, <3>4
  <2> QED
    BY <2>2, <2>3, <2>4 DEF MetricsInv
<1> QED
  BY <1>3, <1>4 DEF Handle

\* The sweep takes a metric and its key one after the other.
LEMMA UnregisterInv ==
  ASSUME MetricsInv, NEW k \in Metric, Unregister(k)
  PROVE  MetricsInv'
<1>1. /\ sweep = "none" /\ sweep' = k /\ registry' = [registry EXCEPT ![k] = 0]
      /\ UNCHANGED <<keys, made, stage, phase, handle, value, panicked>>
  BY DEF Unregister, requests, counting
<1>2. MetricsTypes'
  <2>1. /\ MetricsTypes /\ made \in Nat
        /\ registry' \in [Metric -> Nat] /\ registry'["current"] \in {0, registry["current"]}
    BY <1>1, MetricsBounds DEF MetricsInv, MetricsTypes, Metric
  <2> QED
    BY <1>1, <2>1 DEF MetricsTypes
<1>3. MissingOnlyInTransit'
  BY <1>1 DEF MetricsInv, MetricsTypes, MissingOnlyInTransit, Metric
<1>4. DriftIsPanics'
  BY <1>1, SameCounts
<1> QED
  BY <1>2, <1>3, <1>4 DEF MetricsInv

LEMMA DeleteInv ==
  ASSUME MetricsInv, Delete
  PROVE  MetricsInv'
<1>1. /\ sweep # "none" /\ sweep' = "none" /\ keys' = keys \ {sweep}
      /\ UNCHANGED <<registry, made, stage, phase, handle, value, panicked>>
  BY DEF Delete, requests, counting
<1>2. MetricsTypes'
  BY <1>1 DEF MetricsInv, MetricsTypes
<1>3. MissingOnlyInTransit'
  BY <1>1 DEF MetricsInv, MissingOnlyInTransit
<1>4. DriftIsPanics'
  BY <1>1, SameCounts
<1> QED
  BY <1>2, <1>3, <1>4 DEF MetricsInv

LEMMA MetricsStays ==
  ASSUME MetricsInv, UNCHANGED <<maps, requests, counting, sweep>>
  PROVE  MetricsInv'
<1>1. UNCHANGED <<keys, registry, made, stage, phase, handle, value, panicked, sweep>>
  BY DEF maps, requests, counting
<1>2. MetricsTypes'
  BY <1>1 DEF MetricsInv, MetricsTypes
<1>3. MissingOnlyInTransit'
  BY <1>1 DEF MetricsInv, MissingOnlyInTransit
<1>4. DriftIsPanics'
  BY <1>1, SameCounts
<1> QED
  BY <1>2, <1>3, <1>4 DEF MetricsInv

LEMMA MetricsStep == MetricsInv /\ [MetricsNext]_metricsVars => MetricsInv'
<1> SUFFICES ASSUME MetricsInv, [MetricsNext]_metricsVars PROVE MetricsInv'
  OBVIOUS
<1>1. ASSUME NEW p \in Request, Enter(p) \/ Test(p) \/ LoadOrStore(p) \/ GetMetric(p)
      PROVE  MetricsInv'
  BY <1>1, EnterInv, TestInv, LoadOrStoreInv, GetMetricInv
<1>2. ASSUME NEW p \in Request, GetOrRegister(p) \/ Inc(p) \/ Handle(p) \/ Dec(p)
      PROVE  MetricsInv'
  BY <1>2, GetOrRegisterInv, IncInv, HandleInv, DecInv
<1>3. CASE Switch
  BY <1>3, MetricsStays DEF Switch, sweeper
<1>4. CASE Tick
  BY <1>4, MetricsStays DEF Tick
<1>5. CASE Delete
  BY <1>5, DeleteInv
<1>6. ASSUME NEW k \in Metric, Unregister(k) PROVE MetricsInv'
  BY <1>6, UnregisterInv
<1>7. CASE UNCHANGED metricsVars
  BY <1>7, MetricsStays DEF metricsVars, sweeper
<1> QED
  BY <1>1, <1>2, <1>3, <1>4, <1>5, <1>6, <1>7 DEF MetricsNext

\* The invariant behind the two theorems: in every reachable state the keys and
\* metrics of apm/meters.go, the lookups under way and the counters agree.
THEOREM MetricsInvariant == MetricsSpec => []MetricsInv
<1>1. MetricsInit => MetricsInv
  BY MetricsInitInv
<1>2. MetricsInv /\ [MetricsNext]_metricsVars => MetricsInv'
  BY MetricsStep
<1> QED
  BY <1>1, <1>2, PTL DEF MetricsSpec

\* However many requests look up metrics while the switch is turned and the
\* two maps are emptied, a key is without its metric only until the step that
\* is under way is done.
THEOREM KeysKeepTheirMetrics == MetricsSpec => []MissingOnlyInTransit
<1>1. MetricsInv => MissingOnlyInTransit
  BY DEF MetricsInv
<1> QED
  BY <1>1, MetricsInvariant, PTL

\* A counter of current requests never counts a request twice and is never
\* decremented for one that it did not count; what it keeps too much is the
\* panics of handlers.
THEOREM CountersCountRequests == MetricsSpec => []DriftIsPanics
<1>1. MetricsInv => DriftIsPanics
  BY DEF MetricsInv
<1> QED
  BY <1>1, MetricsInvariant, PTL

------------------------------------------------------------------------------
(* The map made of the keys of Apollo *)

Parts == Name \cup {Field}

ApolloTypes ==
  /\ mapping \in {"none", "loop", "ok", "error", "panic"}
  /\ config \in [DOMAIN config -> {"plain", "object"}]
  /\ mapping # "none" => DOMAIN config \subseteq Paths
  /\ mapping # "none" => rest \subseteq DOMAIN config
  /\ dirs \subseteq Seq(Parts) /\ leaves \subseteq Seq(Parts)

Visited == DOMAIN config \ rest

\* The map is a tree.
TreeInv ==
  /\ \A p \in dirs \cup leaves : Dirs(p) \subseteq dirs
  /\ dirs \cap leaves = {}

\* It has the values visited so far, but for those another key overwrote.
LeavesInv ==
  /\ mapping = "none" => rest = {} /\ dirs = {} /\ leaves = {}
  /\ mapping = "ok" => rest = {}
  /\ ~ Conflict => /\ mapping # "panic"
                   /\ mapping \in {"loop", "ok"} => leaves = {LeafOf(k) : k \in Visited}
  /\ mapping \in {"loop", "ok"} => \A k \in Visited :
       LeafOf(k) \notin leaves => \E k2 \in DOMAIN config \ {k} : IsPrefix(k2, LeafOf(k))

ApolloInv == ApolloTypes /\ TreeInv /\ LeavesInv

\* Prefixes, name by name.
LEMMA PrefixByName ==
  ASSUME NEW p \in Seq(Parts), NEW q \in Seq(Parts)
  PROVE  IsPrefix(p, q) <=> Len(p) <= Len(q) /\ \A i \in 1..Len(p) : p[i] = q[i]
<1>1. Len(p) \in Nat /\ Len(q) \in Nat
  OBVIOUS
<1>2. ASSUME Len(p) <= Len(q)
      PROVE  /\ SubSeq(p, 1, Len(p)) = [i \in 1..Len(p) |-> p[i]]
             /\ SubSeq(q, 1, Len(p)) = [i \in 1..Len(p) |-> q[i]]
  <2>1. SubSeq(p, 1, Len(p)) = p
    BY <1>1
  <2>2. p = [i \in 1..Len(p) |-> p[i]]
    BY <1>1
  <2>3. /\ SubSeq(q, 1, Len(p)) \in Seq(Parts) /\ Len(SubSeq(q, 1, Len(p))) = Len(p)
        /\ \A i \in 1..Len(p) : SubSeq(q, 1, Len(p))[i] = q[i]
    BY <1>1, <1>2
  <2>4. SubSeq(q, 1, Len(p)) = [i \in 1..Len(p) |-> q[i]]
    BY <1>1, <2>3
  <2> QED
    BY <2>1, <2>2, <2>4, Zenon
<1>3. [i \in 1..Len(p) |-> p[i]] = [i \in 1..Len(p) |-> q[i]] <=> \A i \in 1..Len(p) : p[i] = q[i]
  OBVIOUS
<1> QED
  BY <1>2, <1>3 DEF IsPrefix

LEMMA PrefixTransitive ==
  ASSUME NEW p \in Seq(Parts), NEW q \in Seq(Parts), NEW k \in Seq(Parts),
         IsPrefix(p, q), IsPrefix(q, k)
  PROVE  IsPrefix(p, k)
<1>1. Len(p) \in Nat /\ Len(q) \in Nat /\ Len(k) \in Nat
  OBVIOUS
<1>2. /\ Len(p) <= Len(q) /\ \A i \in 1..Len(p) : p[i] = q[i]
      /\ Len(q) <= Len(k) /\ \A i \in 1..Len(q) : q[i] = k[i]
  BY PrefixByName
<1>3. Len(p) <= Len(k) /\ \A i \in 1..Len(p) : p[i] = k[i]
  BY <1>1, <1>2
<1> QED
  BY <1>3, PrefixByName

LEMMA PrefixSelf ==
  ASSUME NEW p \in Seq(Parts) PROVE IsPrefix(p, p)
BY PrefixByName

\* The directories of a path are what it begins with, shorter and not empty.
LEMMA DirsArePrefixes ==
  ASSUME NEW p \in Seq(Parts), NEW q
  PROVE  q \in Dirs(p) <=> q \in Seq(Parts) /\ Len(q) \in 1..Len(p) - 1 /\ IsPrefix(q, p)
<1>1. Len(p) \in Nat
  OBVIOUS
<1>2. ASSUME NEW l \in 1..Len(p) - 1
      PROVE  /\ SubSeq(p, 1, l) \in Seq(Parts) /\ Len(SubSeq(p, 1, l)) = l
             /\ \A i \in 1..l : SubSeq(p, 1, l)[i] = p[i]
  BY <1>1
<1>3. ASSUME q \in Dirs(p)
      PROVE  q \in Seq(Parts) /\ Len(q) \in 1..Len(p) - 1 /\ IsPrefix(q, p)
  <2>1. PICK l \in 1..Len(p) - 1 : q = SubSeq(p, 1, l)
    BY <1>3 DEF Dirs
  <2>2. q \in Seq(Parts) /\ Len(q) = l /\ \A i \in 1..l : q[i] = p[i]
    BY <1>2, <2>1, Zenon
  <2>3. Len(q) <= Len(p)
    BY <1>1, <2>2
  <2> QED
    BY <2>2, <2>3, PrefixByName
<1>4. ASSUME q \in Seq(Parts), Len(q) \in 1..Len(p) - 1, IsPrefix(q, p)
      PROVE  q \in Dirs(p)
  <2>1. SubSeq(q, 1, Len(q)) = q
    BY <1>4
  <2>2. SubSeq(p, 1, Len(q)) = q
    BY <1>4, <2>1 DEF IsPrefix
  <2> QED
    BY <1>4, <2>2 DEF Dirs
<1> QED
  BY <1>3, <1>4

LEMMA PathsAreSequences ==
  ASSUME NEW k \in Paths
  PROVE  k \in Seq(Parts) /\ Len(k) \in Nat /\ Len(k) > 0
<1>1. PICK l \in 1..Depth : k \in [1..l -> Name]
  BY DEF Paths
<1>2. l \in Nat /\ l > 0
  BY <1>1
<1> QED
  BY <1>1, <1>2 DEF Parts

\* Where the value of a key goes, and what is on the way.
LEMMA LeafFacts ==
  ASSUME NEW k \in Seq(Parts), NEW kind \in {"plain", "object"},
         NEW leaf, leaf = (IF kind = "plain" THEN k ELSE Append(k, Field)), Len(k) > 0
  PROVE  /\ leaf \in Seq(Parts) /\ IsPrefix(k, leaf) /\ Len(leaf) >= Len(k)
         /\ kind = "object" => Len(leaf) > Len(k)
         /\ Dirs(leaf) = Dirs(k) \cup (IF kind = "object" THEN {k} ELSE {})
<1>1. CASE kind = "plain"
  <2>1. leaf = k
    BY <1>1
  <2> QED
    BY <1>1, <2>1, PrefixSelf
<1>2. CASE kind = "object"
  <2>1. /\ leaf = Append(k, Field) /\ leaf \in Seq(Parts) /\ Len(leaf) = Len(k) + 1 /\ Len(k) \in Nat
        /\ \A i \in 1..Len(k) : leaf[i] = k[i]
    BY <1>2 DEF Parts
  <2>2. IsPrefix(k, leaf)
    <3>1. Len(k) <= Len(leaf) /\ \A i \in 1..Len(k) : k[i] = leaf[i]
      BY <2>1
    <3> QED
      BY <2>1, <3>1, PrefixByName, Zenon
  <2>3. ASSUME NEW q \in Dirs(k) PROVE q \in Dirs(leaf)
    <3>1. q \in Seq(Parts) /\ Len(q) \in 1..Len(k) - 1 /\ IsPrefix(q, k)
      BY DirsArePrefixes
    <3>2. IsPrefix(q, leaf)
      BY <2>1, <2>2, <3>1, PrefixTransitive
    <3>3. Len(q) \in 1..Len(leaf) - 1
      BY <2>1, <3>1
    <3> QED
      BY <2>1, <3>1, <3>2, <3>3, DirsArePrefixes
  <2>4. k \in Dirs(leaf)
    <3>1. Len(k) \in 1..Len(leaf) - 1
      BY <2>1
    <3> QED
      BY <2>1, <2>2, <3>1, DirsArePrefixes
  <2>5. ASSUME NEW q \in Dirs(leaf), q # k PROVE q \in Dirs(k)
    <3>1. q \in Seq(Parts) /\ Len(q) \in 1..Len(leaf) - 1 /\ IsPrefix(q, leaf)
      BY <2>1, DirsArePrefixes
    <3>2. Len(q) \in 1..Len(k) /\ \A i \in 1..Len(q) : q[i] = leaf[i]
      <4>1. Len(q) \in 1..Len(k)
        BY <2>1, <3>1
      <4>2. \A i \in 1..Len(q) : q[i] = leaf[i]
        BY <2>1, <3>1, PrefixByName, Zenon
      <4> QED
        BY <4>1, <4>2
    <3>3. \A i \in 1..Len(q) : q[i] = k[i]
      BY <2>1, <3>2
    <3>4. Len(q) # Len(k)
      <4> SUFFICES ASSUME Len(q) = Len(k) PROVE q = k
        BY <2>5
      <4> QED
        BY <3>1, <3>3
    <3>5. Len(q) \in 1..Len(k) - 1 /\ Len(q) <= Len(k)
      BY <2>1, <3>2, <3>4
    <3>6. IsPrefix(q, k)
      BY <3>1, <3>3, <3>5, PrefixByName
    <3> QED
      BY <3>1, <3>5, <3>6, DirsArePrefixes
  <2>6. Dirs(leaf) = Dirs(k) \cup {k}
    BY <2>3, <2>4, <2>5
  <2>7. leaf \in Seq(Parts) /\ Len(leaf) >= Len(k) /\ Len(leaf) > Len(k)
    BY <2>1
  <2> QED
    BY <1>2, <2>2, <2>6, <2>7
<1> QED
  BY <1>1, <1>2

LEMMA ApolloInitInv == ApolloInit => ApolloInv
<1> SUFFICES ASSUME ApolloInit PROVE ApolloInv
  OBVIOUS
<1>1. config = <<>> /\ rest = {} /\ dirs = {} /\ leaves = {} /\ mapping = "none"
  BY DEF ApolloInit
<1>2. DOMAIN config = {} /\ config \in [DOMAIN config -> {"plain", "object"}]
  BY <1>1
<1>3. ApolloTypes
  BY <1>1, <1>2 DEF ApolloTypes
<1>4. TreeInv /\ LeavesInv
  BY <1>1 DEF TreeInv, LeavesInv
<1> QED
  BY <1>3, <1>4 DEF ApolloInv

LEMMA MakeMapInv ==
  ASSUME ApolloInv, MakeMap
  PROVE  ApolloInv'
<1>1. /\ mapping = "none" /\ mapping' = "loop" /\ dirs' = dirs /\ leaves' = leaves
      /\ config' \in [rest' -> {"plain", "object"}]
      /\ dirs = {} /\ leaves = {}
  BY DEF MakeMap, ApolloInv, LeavesInv
<1>2. rest' \subseteq Paths
  BY DEF MakeMap, kSubset
<1>3. DOMAIN config' = rest' /\ Visited' = {}
  BY <1>1 DEF Visited
<1>4. ApolloTypes'
  BY <1>1, <1>2, <1>3 DEF ApolloTypes
<1>5. TreeInv'
  BY <1>1 DEF TreeInv
<1>6. LeavesInv'
  BY <1>1, <1>3 DEF LeavesInv
<1> QED
  BY <1>4, <1>5, <1>6 DEF ApolloInv

\* A key takes its path, and what was below it goes.
LEMMA VisitInv ==
  ASSUME ApolloInv, NEW k \in rest, Visit(k)
  PROVE  ApolloInv'
<1>1. /\ mapping = "loop" /\ rest' = rest \ {k} /\ config' = config
      /\ IF Dirs(k) \cap leaves # {}
         THEN mapping' = "panic" /\ dirs' = dirs /\ leaves' = leaves
         ELSE /\ dirs' = (dirs \ Below(k)) \cup Dirs(k) \cup (IF config[k] = "object" THEN {k} ELSE {})
              /\ leaves' = (leaves \ Below(k)) \cup {LeafOf(k)}
              /\ mapping' = mapping
  BY DEF Visit, Overwritten
<1>2. /\ k \in DOMAIN config /\ DOMAIN config \subseteq Paths /\ rest \subseteq DOMAIN config
      /\ dirs \subseteq Seq(Parts) /\ leaves \subseteq Seq(Parts)
      /\ \A k1 \in DOMAIN config : config[k1] \in {"plain", "object"}
      /\ ApolloTypes
  BY <1>1 DEF ApolloInv, ApolloTypes
<1>3. /\ \A k1 \in DOMAIN config : LeafOf(k1)' = LeafOf(k1)
      /\ Visited' = Visited \cup {k} /\ k \notin Visited /\ Conflict' = Conflict
      /\ Visited \subseteq DOMAIN config
  BY <1>1, <1>2 DEF LeafOf, Visited, Conflict
<1>4. ASSUME NEW k1 \in DOMAIN config
      PROVE  /\ k1 \in Seq(Parts) /\ Len(k1) \in Nat /\ Len(k1) > 0
             /\ LeafOf(k1) \in Seq(Parts) /\ IsPrefix(k1, LeafOf(k1)) /\ Len(LeafOf(k1)) >= Len(k1)
             /\ config[k1] = "object" => Len(LeafOf(k1)) > Len(k1)
             /\ Dirs(LeafOf(k1)) = Dirs(k1) \cup (IF config[k1] = "object" THEN {k1} ELSE {})
  <2>1. k1 \in Seq(Parts) /\ Len(k1) \in Nat /\ Len(k1) > 0
    BY <1>2, PathsAreSequences
  <2>2. config[k1] \in {"plain", "object"}
    BY <1>2
  <2>3. LeafOf(k1) = (IF config[k1] = "plain" THEN k1 ELSE Append(k1, Field))
    BY DEF LeafOf
  <2> QED
    BY <2>1, <2>2, <2>3, LeafFacts, Zenon
<1>5. \A q \in Dirs(k) : q \in Seq(Parts) /\ Len(q) \in 1..Len(k) - 1 /\ IsPrefix(q, k)
  BY <1>2, <1>4, DirsArePrefixes
\* A leaf on the way of k or below k makes a conflict.
<1>6. ASSUME ~ Conflict, NEW k1 \in Visited,
             LeafOf(k1) \in Dirs(k) \/ IsPrefix(k, LeafOf(k1))
      PROVE  FALSE
  <2>1. /\ k1 \in DOMAIN config /\ k1 # k /\ k1 \in Seq(Parts) /\ k \in Seq(Parts)
        /\ LeafOf(k1) \in Seq(Parts) /\ IsPrefix(k1, LeafOf(k1))
    BY <1>2, <1>3, <1>4
  <2>2. ~ IsPrefix(k1, k) /\ ~ IsPrefix(k, k1)
    BY <1>2, <1>6, <2>1 DEF Conflict, IsStrictPrefix
  <2>3. CASE LeafOf(k1) \in Dirs(k)
    BY <1>5, <2>1, <2>2, <2>3, PrefixTransitive
  <2>4. CASE IsPrefix(k, LeafOf(k1))
    <3>1. CASE Len(k) <= Len(k1)
      <4>1. \A i \in 1..Len(k) : k[i] = LeafOf(k1)[i]
        BY <2>1, <2>4, PrefixByName, Zenon
      <4>2. \A i \in 1..Len(k1) : k1[i] = LeafOf(k1)[i]
        BY <2>1, PrefixByName, Zenon
      <4>3. \A i \in 1..Len(k) : k[i] = k1[i]
        BY <2>1, <3>1, <4>1, <4>2
      <4> QED
        BY <2>1, <2>2, <3>1, <4>3, PrefixByName, Zenon
    <3>2. CASE Len(k1) <= Len(k)
      <4>1. \A i \in 1..Len(k) : k[i] = LeafOf(k1)[i]
        BY <2>1, <2>4, PrefixByName, Zenon
      <4>2. \A i \in 1..Len(k1) : k1[i] = LeafOf(k1)[i]
        BY <2>1, PrefixByName, Zenon
      <4>3. \A i \in 1..Len(k1) : k1[i] = k[i]
        BY <2>1, <3>2, <4>1, <4>2
      <4> QED
        BY <2>1, <2>2, <3>2, <4>3, PrefixByName, Zenon
    <3> QED
      BY <2>1, <3>1, <3>2
  <2> QED
    BY <1>6, <2>3, <2>4
<1>7. /\ \A p \in dirs \cup leaves : Dirs(p) \subseteq dirs
      /\ dirs \cap leaves = {}
      /\ ~ Conflict => leaves = {LeafOf(k1) : k1 \in Visited}
      /\ \A k1 \in Visited : LeafOf(k1) \notin leaves =>
           \E k2 \in DOMAIN config \ {k1} : IsPrefix(k2, LeafOf(k1))
  BY <1>1 DEF ApolloInv, TreeInv, LeavesInv
<1>8. CASE Dirs(k) \cap leaves # {}
  <2>1. mapping' = "panic" /\ dirs' = dirs /\ leaves' = leaves
    BY <1>1, <1>8
  <2>2. Conflict
    <3> SUFFICES ASSUME ~ Conflict PROVE FALSE
      OBVIOUS
    <3>1. PICK k1 \in Visited : LeafOf(k1) \in Dirs(k)
      BY <1>7, <1>8
    <3> QED
      BY <1>6, <3>1
  <2>3. ApolloTypes'
    BY <1>1, <1>2, <2>1 DEF ApolloTypes
  <2>4. TreeInv'
    BY <1>7, <2>1 DEF TreeInv
  <2>5. LeavesInv'
    BY <1>3, <2>1, <2>2 DEF LeavesInv
  <2> QED
    BY <2>3, <2>4, <2>5 DEF ApolloInv
<1>9. CASE Dirs(k) \cap leaves = {}
  <2>1. /\ dirs' = (dirs \ Below(k)) \cup Dirs(k) \cup (IF config[k] = "object" THEN {k} ELSE {})
        /\ leaves' = (leaves \ Below(k)) \cup {LeafOf(k)}
        /\ mapping' = "loop"
    BY <1>1, <1>9
  <2>2. dirs' = (dirs \ Below(k)) \cup Dirs(LeafOf(k))
    BY <1>2, <1>4, <2>1
  <2>3. /\ k \in Seq(Parts) /\ LeafOf(k) \in Seq(Parts) /\ IsPrefix(k, LeafOf(k))
        /\ Len(k) \in Nat /\ Len(LeafOf(k)) >= Len(k)
        /\ \A q \in Dirs(LeafOf(k)) : q \in Seq(Parts) /\ Len(q) \in 1..Len(LeafOf(k)) - 1 /\ IsPrefix(q, LeafOf(k))
    BY <1>2, <1>4, DirsArePrefixes
  <2>4. ApolloTypes'
    BY <1>1, <1>2, <2>1, <2>2, <2>3 DEF ApolloTypes
  <2>5. \A p \in dirs' \cup leaves' : Dirs(p) \subseteq dirs'
    <3> SUFFICES ASSUME NEW p \in dirs' \cup leaves', NEW q \in Dirs(p) PROVE q \in dirs'
      OBVIOUS
    <3>1. CASE p \in (dirs \cup leaves) \ Below(k)
      <4>1. p \in Seq(Parts) /\ q \in Seq(Parts) /\ IsPrefix(q, p) /\ q \in dirs
        BY <1>2, <1>7, <3>1, DirsArePrefixes
      <4>2. ~ IsPrefix(k, p)
        BY <3>1 DEF Below
      <4>3. ~ IsPrefix(k, q)
        BY <2>3, <4>1, <4>2, PrefixTransitive
      <4> QED
        BY <2>1, <4>1, <4>3 DEF Below
    <3>2. CASE p = LeafOf(k)
      BY <2>2, <3>2
    <3>3. CASE p \in Dirs(LeafOf(k))
      <4>1. p \in Seq(Parts) /\ Len(p) \in 1..Len(LeafOf(k)) - 1 /\ IsPrefix(p, LeafOf(k))
        BY <2>3, <3>3
      <4>2. q \in Seq(Parts) /\ Len(q) \in 1..Len(p) - 1 /\ IsPrefix(q, p)
        BY <4>1, DirsArePrefixes
      <4>3. IsPrefix(q, LeafOf(k)) /\ Len(q) \in 1..Len(LeafOf(k)) - 1
        BY <2>3, <4>1, <4>2, PrefixTransitive
      <4> QED
        BY <2>2, <2>3, <4>2, <4>3, DirsArePrefixes
    <3> QED
      BY <2>1, <2>2, <3>1, <3>2, <3>3
  <2>6. dirs' \cap leaves' = {}
    <3> SUFFICES ASSUME NEW p \in dirs', p \in leaves' PROVE FALSE
      OBVIOUS
    <3>1. CASE p \in leaves \ Below(k)
      <4>1. p \notin dirs /\ p \notin Dirs(k)
        BY <1>7, <1>9, <3>1
      <4>2. p = k
        BY <2>1, <3>1, <4>1
      <4> QED
        BY <2>3, <3>1, <4>2, PrefixSelf DEF Below
    <3>2. CASE p = LeafOf(k)
      <4>1. p \notin dirs \ Below(k)
        BY <2>3, <3>2 DEF Below
      <4>2. p \notin Dirs(LeafOf(k))
        BY <2>3, <3>2
      <4> QED
        BY <2>2, <4>1, <4>2
    <3> QED
      BY <2>1, <3>1, <3>2
  <2>7. ~ Conflict => leaves' = {LeafOf(k1) : k1 \in Visited'}
    <3> SUFFICES ASSUME ~ Conflict PROVE leaves' = {LeafOf(k1) : k1 \in Visited \cup {k}}
      BY <1>3
    <3>1. leaves = {LeafOf(k1) : k1 \in Visited}
      BY <1>7
    <3>2. leaves \cap Below(k) = {}
      BY <1>6, <3>1 DEF Below
    <3> QED
      BY <2>1, <3>1, <3>2
  <2>8. ASSUME NEW k1 \in Visited', LeafOf(k1)' \notin leaves'
        PROVE  \E k2 \in DOMAIN config' \ {k1} : IsPrefix(k2, LeafOf(k1)')
    <3>1. LeafOf(k1)' = LeafOf(k1) /\ k1 # k /\ k1 \in Visited
      BY <1>2, <1>3, <2>1, <2>8
    <3>2. CASE LeafOf(k1) \notin leaves
      BY <1>1, <1>7, <3>1, <3>2
    <3>3. CASE LeafOf(k1) \in Below(k)
      BY <1>1, <1>2, <3>1, <3>3 DEF Below
    <3> QED
      BY <2>1, <2>8, <3>1, <3>2, <3>3
  <2>9. TreeInv'
    BY <2>5, <2>6 DEF TreeInv
  <2>10. \A k1 \in Visited' : LeafOf(k1)' = LeafOf(k1)
    BY <1>2, <1>3
  <2>11. Conflict' <=> Conflict
    BY <1>3
  <2>12. leaves' = {LeafOf(k1) : k1 \in Visited}' <=> leaves' = {LeafOf(k1) : k1 \in Visited'}
    BY <2>10
  <2>13. LeavesInv'
    BY <2>1, <2>7, <2>8, <2>11, <2>12 DEF LeavesInv
  <2> QED
    BY <2>4, <2>9, <2>13 DEF ApolloInv
<1> QED
  BY <1>8, <1>9

LEMMA ApolloEnds ==
  ASSUME ApolloInv, DecodeFails \/ Whole \/ UNCHANGED apolloVars
  PROVE  ApolloInv'
<1>1. /\ config' = config /\ rest' = rest /\ dirs' = dirs /\ leaves' = leaves
      /\ \/ mapping = "loop" /\ mapping' = "error"
         \/ mapping = "loop" /\ rest = {} /\ mapping' = "ok"
         \/ mapping' = mapping
  BY DEF DecodeFails, Whole, apolloVars
<1>2. ApolloTypes'
  BY <1>1 DEF ApolloInv, ApolloTypes
<1>3. TreeInv'
  BY <1>1 DEF ApolloInv, TreeInv
<1>4. (\A k : LeafOf(k)' = LeafOf(k)) /\ Visited' = Visited /\ Conflict' = Conflict
  BY <1>1 DEF LeafOf, Visited, Conflict
<1>5. {LeafOf(k) : k \in Visited}' = {LeafOf(k) : k \in Visited}
  BY <1>4
<1>6. LeavesInv'
  BY <1>1, <1>4, <1>5 DEF ApolloInv, LeavesInv
<1> QED
  BY <1>2, <1>3, <1>6 DEF ApolloInv

LEMMA ApolloStep == ApolloInv /\ [ApolloNext]_apolloVars => ApolloInv'
<1> SUFFICES ASSUME ApolloInv, [ApolloNext]_apolloVars PROVE ApolloInv'
  OBVIOUS
<1>1. CASE MakeMap
  BY <1>1, MakeMapInv
<1>2. ASSUME NEW k \in rest, Visit(k) PROVE ApolloInv'
  BY <1>2, VisitInv
<1>3. CASE DecodeFails \/ Whole \/ UNCHANGED apolloVars
  BY <1>3, ApolloEnds
<1> QED
  BY <1>1, <1>2, <1>3 DEF ApolloNext

\* makeMap of config/source/apollo/utils.go, for keys of any depth and in any
\* order: the result is a tree; it has the value of every key and nothing else
\* if no key is the beginning of another; and a value is missing only where a
\* second key is the beginning of its path.
THEOREM MapIsWhole == ApolloSpec => []MapWhole
<1>1. ApolloInit => ApolloInv
  BY ApolloInitInv
<1>2. ApolloInv /\ [ApolloNext]_apolloVars => ApolloInv'
  BY ApolloStep
<1>3. ApolloInv => MapWhole
  BY DEF ApolloInv, TreeInv, LeavesInv, MapWhole, Visited
<1> QED
  BY <1>1, <1>2, <1>3, PTL DEF ApolloSpec

------------------------------------------------------------------------------
(* The slices *)

LEMMA Division ==
  ASSUME NEW x \in Nat, NEW d \in Nat \ {0}
  PROVE  /\ x \div d \in Nat /\ x % d \in 0..d - 1
         /\ x = d * (x \div d) + (x % d)
<1>1. x \in Int /\ d \in Int /\ d > 0
  OBVIOUS
<1>2. x % d \in 0..d - 1 /\ x \div d \in Int /\ x = d * (x \div d) + (x % d)
  BY <1>1
<1>3. x \div d >= 0
  <2> SUFFICES ASSUME x \div d <= -1 PROVE FALSE
    BY <1>2
  <2>1. d * (x \div d) <= -d
    BY <1>1, <1>2
  <2> QED
    BY <1>1, <1>2, <2>1
<1> QED
  BY <1>2, <1>3

LEMMA Multiple ==
  ASSUME NEW d \in Nat \ {0}, NEW k \in Nat, NEW x \in Nat, x = d * k
  PROVE  x % d = 0
<1>1. x \in Int /\ d \in Nat /\ d > 0 /\ k \in Int /\ 0 \in 0..d - 1
  OBVIOUS
<1>2. x = d * k + 0
  <2>1. d * k \in Nat
    OBVIOUS
  <2> QED
    BY <2>1
<1> QED
  BY <1>1, <1>2, Remainder, Zenon

\* PKCS7Padding fills the last block and adds one when there is none to fill, so
\* that PKCS7UnPadding finds in the last byte how many to take off: the padding
\* is at most a block, and a byte holds it.
LEMMA PaddingIsUndone ==
  ASSUME arg1 \in Seq(Value), num \in Nat
  PROVE  Ciphered
<1> SUFFICES ASSUME num \in 1..ByteMod - 1
             PROVE  /\ Len(PKCS7Padding(arg1, num)) % num = 0
                    /\ Len(PKCS7Padding(arg1, num)) > Len(arg1)
                    /\ PKCS7UnPadding(PKCS7Padding(arg1, num)) = arg1
  BY DEF Ciphered
<1> DEFINE L == Len(arg1)
           fill == num - (L % num)
           p == arg1 \o Times(fill, fill % ByteMod)
<1>1. L \in Nat /\ num \in Nat \ {0} /\ ByteMod \in Nat
  BY ByteAssumption
<1>2. L \div num \in Nat /\ L % num \in 0..num - 1 /\ L = num * (L \div num) + (L % num)
  BY <1>1, Division
<1>3. fill \in 1..num /\ L + fill = num * ((L \div num) + 1)
  BY <1>1, <1>2
<1> HIDE DEF fill
<1>4. (L + fill) % num = 0
  <2>1. (L \div num) + 1 \in Nat /\ L + fill \in Nat
    BY <1>1, <1>2, <1>3
  <2> QED
    BY <1>1, <1>3, <2>1, Multiple, Zenon
<1>11. fill % ByteMod = fill
  <2>1. fill = ByteMod * 0 + fill /\ fill \in 0..ByteMod - 1 /\ fill \in Nat /\ ByteMod > 0
    BY <1>1, <1>3
  <2>2. ByteMod \in Nat /\ fill \in Int /\ 0 \in Int
    BY <1>1, <2>1
  <2> QED
    BY <2>1, <2>2, Remainder, Zenon
<1>5. Times(fill, fill) \in Seq(Value \cup Int) /\ Len(Times(fill, fill)) = fill /\ \A i \in 1..fill : Times(fill, fill)[i] = fill
  BY <1>3 DEF Times
<1>0. arg1 \in Seq(Value \cup Int)
  OBVIOUS
<1>6. /\ p \in Seq(Value \cup Int) /\ Len(p) = L + fill /\ p[L + fill] = fill
      /\ \A i \in 1..L : p[i] = arg1[i]
  BY <1>0, <1>1, <1>3, <1>5, <1>11
<1>7. p = PKCS7Padding(arg1, num)
  BY DEF PKCS7Padding, fill
<1> HIDE DEF p
<1>8. PKCS7UnPadding(p) = SubSeq(p, 1, L)
  BY <1>1, <1>3, <1>6 DEF PKCS7UnPadding, Last
<1>9. SubSeq(p, 1, L) = arg1
  BY <1>1, <1>3, <1>6
<1>10. Len(p) % num = 0 /\ Len(p) > L /\ PKCS7UnPadding(p) = arg1
  <2>1. Len(p) > L
    BY <1>1, <1>3, <1>6
  <2>2. Len(p) % num = 0
    BY <1>4, <1>6
  <2> QED
    BY <1>8, <1>9, <2>1, <2>2
<1> QED
  BY <1>7, <1>10, Zenon

\* Where the loop of SliceRange gets to, and that it skips nothing on the way:
\* with q the last multiple of the step that fits, each of 0..q is a round of it.
LEMMA RangeIsExact ==
  ASSUME arg1 \in Seq(Value), num \in Nat
  PROVE  Ranges
<1> SUFFICES ASSUME num > 0
             PROVE  ToSet(SliceRange(1, Len(arg1), num)) = {i \in 1..Len(arg1) : (i - 1) % num = 0}
  BY DEF Ranges
<1> DEFINE L == Len(arg1)
           q == (L - 1) \div num
           s == SliceRange(1, L, num)
<1>1. L \in Nat /\ num \in Nat \ {0}
  OBVIOUS
<1>2. CASE L = 0
  BY <1>2 DEF SliceRange, ToSet
<1>3. CASE L > 0
  <2>1. L - 1 \in Nat /\ q \in Nat /\ num * q <= L - 1 /\ L - 1 < num * q + num
    <3>1. L - 1 \in Nat
      BY <1>1, <1>3
    <3>2. q \in Nat /\ (L - 1) % num \in 0..num - 1 /\ L - 1 = num * q + ((L - 1) % num)
      BY <1>1, <3>1, Division
    <3> QED
      BY <1>1, <3>1, <3>2
  <2> HIDE DEF q
  <2>2. s = [k \in 1..q + 1 |-> 1 + (k - 1) * num]
    BY <1>1, <1>3 DEF SliceRange, q
  <2>3. ToSet(s) = {1 + (k - 1) * num : k \in 1..q + 1}
    BY <2>1, <2>2 DEF ToSet
  <2>4. ASSUME NEW k \in 1..q + 1
        PROVE  1 + (k - 1) * num \in 1..L /\ (k - 1) * num % num = 0
    <3>1. k - 1 \in Nat /\ k - 1 <= q
      BY <2>1
    <3>2. (k - 1) * num \in Nat /\ (k - 1) * num <= num * q
      BY <1>1, <2>1, <3>1
    <3>3. (k - 1) * num % num = 0
      BY <1>1, <3>1, <3>2, Multiple
    <3> QED
      BY <1>1, <2>1, <3>2, <3>3
  <2>5. ASSUME NEW i \in 1..L, (i - 1) % num = 0
        PROVE  \E k \in 1..q + 1 : i = 1 + (k - 1) * num
    <3> DEFINE k == (i - 1) \div num
    <3>0. i - 1 \in Nat
      BY <1>1
    <3>00. k \in Nat /\ i - 1 = num * k + ((i - 1) % num)
      BY <1>1, <3>0, Division, Zenon
    <3> HIDE DEF k
    <3>1. i - 1 \in Nat /\ k \in Nat /\ i - 1 = num * k
      <4>1. num * k \in Nat
        BY <1>1, <3>00
      <4> QED
        BY <2>5, <3>0, <3>00, <4>1
    <3>2. num * k <= L - 1
      BY <1>1, <3>1
    <3>3. num * k < num * (q + 1)
      <4>1. num * (q + 1) = num * q + num
        BY <1>1, <2>1
      <4>2. num * k \in Int /\ num * q \in Int /\ L \in Int
        BY <1>1, <2>1, <3>1
      <4>3. num * k < num * q + num
        BY <2>1, <3>2, <4>2, <1>1
      <4> QED
        BY <4>1, <4>3, Zenon
    <3>4. k < q + 1
      <4> SUFFICES ASSUME k >= q + 1 PROVE FALSE
        BY <2>1, <3>1
      <4>1. num * k >= num * (q + 1)
        BY <1>1, <2>1, <3>1
      <4> QED
        BY <1>1, <2>1, <3>1, <3>3, <4>1
    <3>5. k + 1 \in 1..q + 1 /\ (k + 1) - 1 = k /\ k * num = num * k
      BY <1>1, <2>1, <3>1, <3>4
    <3>6. i = 1 + ((k + 1) - 1) * num
      BY <1>1, <3>1, <3>5
    <3> QED
      BY <3>5, <3>6, Zenon
  <2>6. ASSUME NEW x \in ToSet(s) PROVE x \in 1..L /\ (x - 1) % num = 0
    <3>1. PICK k \in 1..q + 1 : x = 1 + (k - 1) * num
      BY <2>3
    <3>2. x - 1 = (k - 1) * num
      BY <1>1, <2>1, <3>1
    <3> QED
      BY <2>4, <3>1, <3>2
  <2>7. ASSUME NEW i \in 1..L, (i - 1) % num = 0 PROVE i \in ToSet(s)
    BY <2>3, <2>5, <2>7
  <2> QED
    BY <2>6, <2>7
<1> QED
  BY <1>1, <1>2, <1>3

Occurrences(s, v) == Cardinality({j \in 1..Len(s) : s[j] = v})

LEMMA OccurrencesFinite ==
  ASSUME NEW S, NEW s \in Seq(S), NEW v
  PROVE  /\ IsFiniteSet({j \in 1..Len(s) : s[j] = v})
         /\ Occurrences(s, v) \in Nat
<1> DEFINE A == {j \in 1..Len(s) : s[j] = v}
<1>1. IsFiniteSet(1..Len(s))
  BY FS_Interval
<1>2. A \in SUBSET (1..Len(s))
  OBVIOUS
<1> HIDE DEF A
<1>3. IsFiniteSet(A)
  BY <1>1, <1>2, FS_Subset, Zenon
<1>4. Cardinality(A) \in Nat
  BY <1>3, FS_CardinalityType, Zenon
<1> QED
  BY <1>3, <1>4 DEF A, Occurrences

\* The last element moves to the index of the one removed: each of the two is v or
\* is not.
LEMMA OneReplaced ==
  ASSUME NEW S, NEW s \in Seq(S), NEW i \in Nat, i < Len(s), NEW v
  PROVE  Occurrences(RemoveSliceUnordered(s, i), v) =
           Occurrences(s, v) - (IF s[i + 1] = v THEN 1 ELSE 0)
<1> DEFINE end == Len(s)
           k == i + 1
           r == RemoveSliceUnordered(s, i)
           A == {j \in 1..end : s[j] = v}
           B == {j \in 1..Len(r) : r[j] = v}
<1>1. end \in Nat /\ k \in 1..end /\ end > 0 /\ s # <<>>
  OBVIOUS
<1>2. r = Front([s EXCEPT ![k] = Last(s)])
  BY <1>1 DEF RemoveSliceUnordered
<1>3. [s EXCEPT ![k] = Last(s)] \in Seq(S) /\ Len([s EXCEPT ![k] = Last(s)]) = end
  BY <1>1 DEF Last
<1>4. Len(r) = end - 1 /\ \A j \in 1..end - 1 : r[j] = IF j = k THEN s[end] ELSE s[j]
  BY <1>1, <1>2, <1>3 DEF Front, Last
<1> HIDE DEF r
<1>5. IsFiniteSet(A) /\ Cardinality(A) \in Nat
  BY OccurrencesFinite, Zenon DEF Occurrences
<1>6. B = {j \in 1..end - 1 : (IF j = k THEN s[end] ELSE s[j]) = v}
  BY <1>4
<1>9. Occurrences(r, v) = Cardinality(B) /\ Occurrences(s, v) = Cardinality(A)
  BY DEF Occurrences
<1> HIDE DEF end, k, A, B
<1>7. CASE s[k] = v
  <2>1. PICK x \in A : B = A \ {x}
    <3>1. CASE s[end] = v
      <4>1. end \in A /\ B = A \ {end}
        BY <1>1, <1>6, <1>7, <3>1 DEF A
      <4> QED
        BY <4>1
    <3>2. CASE s[end] # v
      <4>1. k \in A /\ B = A \ {k}
        BY <1>1, <1>6, <1>7, <3>2 DEF A
      <4> QED
        BY <4>1
    <3> QED
      BY <3>1, <3>2
  <2>2. Cardinality(B) = Cardinality(A) - 1
    BY <1>5, <2>1, FS_RemoveElement
  <2> QED
    BY <1>5, <1>7, <1>9, <2>2 DEF k, r
<1>8. CASE s[k] # v
  <2>1. CASE s[end] = v
    <3>1. end \in A /\ k \notin A \ {end} /\ B = (A \ {end}) \cup {k}
      BY <1>1, <1>6, <1>8, <2>1 DEF A
    <3>2. IsFiniteSet(A \ {end}) /\ Cardinality(A \ {end}) = Cardinality(A) - 1
      BY <1>5, <3>1, FS_RemoveElement
    <3>3. Cardinality(B) = Cardinality(A)
      <4>1. Cardinality(B) = Cardinality(A \ {end}) + 1
        BY <3>1, <3>2, FS_AddElement, Zenon
      <4> QED
        BY <1>5, <3>2, <4>1
    <3> QED
      BY <1>5, <1>8, <1>9, <3>3 DEF k, r
  <2>2. CASE s[end] # v
    <3>1. B = A
      BY <1>1, <1>6, <1>8, <2>2 DEF A
    <3> QED
      BY <1>5, <1>8, <1>9, <3>1 DEF k, r
  <2> QED
    BY <2>1, <2>2
<1> QED
  BY <1>7, <1>8

\* RemoveSliceUnorderedInt and RemoveSliceUnorderedStr take one occurrence of the
\* element at the index, and of no other.
LEMMA RemovalIsOfOne ==
  ASSUME arg1 \in Seq(Value), num \in Nat
  PROVE  Removal
<1> DEFINE r == RemoveSliceUnordered(arg1, num)
<1>1. CASE num < Len(arg1)
  <2>1. arg1[num + 1] \in Value
    BY <1>1
  <2>2. ASSUME NEW v \in Value
        PROVE  Bag(r)[v] = [Bag(arg1) EXCEPT ![arg1[num + 1]] = @ - 1][v]
    <3>1. Bag(r)[v] = Occurrences(r, v)
      BY Zenon DEF Bag, Occurrences
    <3>2. Bag(arg1)[v] = Occurrences(arg1, v)
      BY Zenon DEF Bag, Occurrences
    <3>3. Bag(r)[v] = Bag(arg1)[v] - (IF arg1[num + 1] = v THEN 1 ELSE 0)
      <4>1. Occurrences(RemoveSliceUnordered(arg1, num), v) =
              Occurrences(arg1, v) - (IF arg1[num + 1] = v THEN 1 ELSE 0)
        BY <1>1, OneReplaced
      <4> QED
        BY <3>1, <3>2, <4>1, Zenon
    <3>4. DOMAIN Bag(arg1) = Value /\ Bag(arg1) = [w \in Value |-> Bag(arg1)[w]]
      BY Zenon DEF Bag
    <3>5. Bag(arg1)[v] \in Nat
      BY <3>2, OccurrencesFinite, Zenon
    <3> HIDE DEF r
    <3> QED
      BY <3>3, <3>4, <3>5
  <2>3. Bag(r) = [Bag(arg1) EXCEPT ![arg1[num + 1]] = @ - 1]
    <3>1. Bag(r) = [v \in Value |-> Bag(r)[v]]
      BY Zenon DEF Bag
    <3>2. DOMAIN Bag(arg1) = Value
      BY Zenon DEF Bag
    <3> HIDE DEF r
    <3> QED
      BY <2>2, <3>1, <3>2
  <2> QED
    BY <1>1, <2>3 DEF Removal
<1>2. CASE num >= Len(arg1)
  BY <1>2 DEF Removal, RemoveSliceUnordered
<1> QED
  BY <1>1, <1>2

LEMMA ArgumentTypes == SlicesSpec => [](arg1 \in Seq(Value) /\ num \in Nat)
<1> DEFINE Args == arg1 \in Seq(Value) /\ num \in Nat
<1>1. SlicesInit => Args
  BY DEF SlicesInit
<1>2. Args /\ [SlicesNext]_slicesVars => Args'
  <2> SUFFICES ASSUME Args, [SlicesNext]_slicesVars PROVE Args'
    OBVIOUS
  <2>1. CASE Try
    <3>1. PICK k \in 0..MaxLen : arg1' \in [1..k -> Value]
      BY <2>1 DEF Try
    <3>2. k \in Nat /\ arg1' \in Seq(Value)
      BY <3>1, SlicesBounds
    <3> QED
      BY <2>1, <3>2, SlicesBounds DEF Try
  <2>2. CASE UNCHANGED slicesVars
    BY <2>2 DEF slicesVars
  <2> QED
    BY <2>1, <2>2 DEF SlicesNext
<1> QED
  BY <1>1, <1>2, PTL DEF SlicesSpec

\* For slices of any length, with any elements: RemoveSliceUnorderedInt and
\* RemoveSliceUnorderedStr remove one occurrence of the element asked for and
\* nothing else, PKCS7UnPadding undoes PKCS7Padding for every size of block that
\* a byte can hold, and SliceRange yields the multiples of its step that fit.
THEOREM SlicesCorrect == SlicesSpec => [](Removal /\ Ciphered /\ Ranges)
<1>1. arg1 \in Seq(Value) /\ num \in Nat => Removal /\ Ciphered /\ Ranges
  BY RemovalIsOfOne, PaddingIsUndone, RangeIsExact
<1> QED
  BY <1>1, ArgumentTypes, PTL
==============================================================================
