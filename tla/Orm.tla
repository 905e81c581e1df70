--------------------------------- MODULE Orm ---------------------------------
(****************************************************************************)
(* mysql/orm.go: BulkInsert, which writes a list in batches by insertMany,  *)
(* and Select, SelectOne and SelectScan, which read rows one by one.  The   *)
(* statements a caller builds for Update and Delete are its own.            *)
(*                                                                          *)
(* MySQL is external: an INSERT takes effect as a whole or not at all, and  *)
(* its reply may be lost; the rows of a query arrive in order until they    *)
(* end or the connection breaks.                                            *)
(****************************************************************************)
EXTENDS Integers, Sequences

CONSTANTS
  Per,     \* 100: the rows of a batch, and the most that insertMany takes
  MaxRows  \* bound: the longest list

ASSUME OrmBounds == Per \in Nat \ {0} /\ MaxRows \in Nat

Rows == 1..MaxRows

VARIABLES
  insert,  \* "none", "batch", "ok", "error"
  size,    \* the length of the list, whose elements are 1, 2, ...
  batch,   \* i of BulkInsert
  count,   \* what BulkInsert returns with its error
  stored,  \* per element: how often it was written
  query,   \* "none", "rows", "ok", "error"
  list,    \* the rows that Select has read
  broken   \* history: the connection broke while Select read

ormVars == <<insert, size, batch, count, stored, query, list, broken>>

OrmInit ==
  /\ insert = "none" /\ size = 0 /\ batch = 0 /\ count = 0
  /\ stored = [r \in Rows |-> 0]
  /\ query = "none" /\ list = <<>> /\ broken = FALSE

------------------------------------------------------------------------------
(* BulkInsert *)

BulkInsert(n) ==
  /\ insert = "none" /\ size' = n
  /\ insert' = IF n = 0 THEN "ok" ELSE "batch"
  /\ UNCHANGED <<batch, count, stored, query, list, broken>>

\* Mutant: the batches of a list are counted without the last, shorter one.
WholeBatches == size \div Per - 1

\* batch := len(list) / per, the last value of i
LastBatch == size \div Per

First == batch * Per
End   == IF First + Per > size THEN size ELSE First + Per

\* insertMany refuses more than 100 rows, and has no fields to write of a row
\* without tags.
InsertMany ==
  /\ insert = "batch" /\ batch <= LastBatch /\ First # End
  /\ \/ /\ End - First <= Per
        /\ stored' = [r \in Rows |-> IF First < r /\ r <= End THEN stored[r] + 1 ELSE stored[r]]
        /\ \/ count' = count + (End - First) /\ batch' = batch + 1 /\ UNCHANGED insert
           \/ insert' = "error" /\ UNCHANGED <<count, batch>>
     \/ insert' = "error" /\ UNCHANGED <<stored, count, batch>>
  /\ UNCHANGED <<size, query, list, broken>>

\* The loop is over, or breaks on an empty batch.
BulkReturn ==
  /\ insert = "batch" /\ (batch > LastBatch \/ First = End)
  /\ insert' = "ok"
  /\ UNCHANGED <<size, batch, count, stored, query, list, broken>>

------------------------------------------------------------------------------
(* Select; SelectScan appends in the same way, and SelectOne takes the first *)

Select ==
  /\ query = "none" /\ insert \in {"ok", "error"}
  /\ query' \in {"rows", "error"}
  /\ UNCHANGED <<insert, size, batch, count, stored, list, broken>>

Remaining == {r \in Rows : stored[r] > 0 /\ \A i \in 1..Len(list) : list[i] # r}

\* rows.Next and Scan.  An error of Scan ends the reading.
RowsNext ==
  /\ query = "rows" /\ Remaining # {}
  /\ \/ /\ list' = Append(list, CHOOSE r \in Remaining : \A s \in Remaining : r <= s)
        /\ UNCHANGED query
     \/ query' = "error" /\ list' = <<>>
  /\ UNCHANGED <<insert, size, batch, count, stored, broken>>

\* Next is false at the end of the rows and when the connection breaks alike,
\* and Err is not called.
RowsEnd ==
  /\ query = "rows" /\ query' = "ok"
  /\ broken' = (Remaining # {})
  /\ UNCHANGED <<insert, size, batch, count, stored, list>>

OrmNext ==
  \/ \E n \in 0..MaxRows : BulkInsert(n)
  \/ InsertMany \/ BulkReturn \/ Select \/ RowsNext \/ RowsEnd

OrmSpec == OrmInit /\ [][OrmNext]_ormVars

------------------------------------------------------------------------------
(* Properties *)

Stored == {r \in Rows : stored[r] > 0}

\* BulkInsert writes a list from its beginning, each element once: all of it
\* when it returns no error, and otherwise what it counted and at most one
\* batch, as a whole, that is not counted.
\* What Select returns without an error is all of that, in order, or what came
\* before the connection broke, which its caller cannot tell from the end.
RowsWhole ==
  /\ \A r \in Rows : stored[r] <= 1
  /\ insert = "ok" => Stored = 1..size /\ count = size
  /\ \E k \in count..count + Per : Stored = 1..k
  /\ query = "ok" => /\ list = [i \in 1..Len(list) |-> i]
                     /\ ~broken => 1..Len(list) = Stored
==============================================================================
