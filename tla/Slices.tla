------------------------------- MODULE Slices -------------------------------
(****************************************************************************)
(* The pure functions of util/slice.go on the three element types, and the  *)
(* padding of encrypt/aescbc.go, against what they are for.  Sequences      *)
(* count from 1 and indices of the code from 0.  Functions that only choose *)
(* at random, or apply a function of the caller to each element, are left   *)
(* out.                                                                     *)
(****************************************************************************)
EXTENDS Integers, SequencesExt

CONSTANTS
  Value,    \* the elements
  MaxLen,   \* bound: the length of the slices that are tried
  ByMap,    \* 1024: from this length on doubles are found by a map
  ByteMod   \* a byte holds a number modulo this: 256 in the code

ASSUME SlicesBounds == MaxLen \in Nat
ASSUME ByteAssumption == ByteMod \in Nat \ {0}

Times(n, v) == [i \in 1..n |-> v]

------------------------------------------------------------------------------
(* util/slice.go *)

\* InSliceStr, InSliceInt, InSliceIface
InSlice(v, s) ==
  LET at == {i \in 1..Len(s) : s[i] = v}
  IN IF at = {} THEN -1 ELSE (CHOOSE i \in at : \A j \in at : i <= j) - 1

\* Mutant: the last element is dropped instead of the one asked for.
RemoveLast(s, i) == IF s = <<>> \/ Len(s) < i + 1 THEN s ELSE Front(s)

\* RemoveSliceUnorderedInt, RemoveSliceUnorderedStr: the last one takes its
\* place, in the argument too.
RemoveSliceUnordered(s, i) ==
  IF s = <<>> \/ Len(s) < i + 1 THEN s ELSE Front([s EXCEPT ![i + 1] = Last(s)])

SliceMerge(s, t) == s \o t

SliceSum(s) == FoldLeft(LAMBDA sum, v : sum + v, 0, s)

SliceDiff(s, t)      == SelectSeq(s, LAMBDA v : InSlice(v, t) = -1)
SliceIntersect(s, t) == SelectSeq(s, LAMBDA v : InSlice(v, t) # -1)

\* For a size from 1 on: with less the loop does not end.
SliceChunk(s, size) ==
  IF size >= Len(s) THEN <<s>>
  ELSE [k \in 1..Len(s) \div size |-> SubSeq(s, (k - 1) * size + 1, k * size)]

\* for i := start; i <= end; i += step, for a step from 1 on
SliceRange(start, end, step) ==
  IF end < start THEN <<>> ELSE [k \in 1..(end - start) \div step + 1 |-> start + (k - 1) * step]

\* The loop tests i < size - len(slice) while it lengthens slice.
SlicePad(s, size, v) ==
  LET goesOn(i) == i < size - (Len(s) + i)
      rounds == CHOOSE n \in 0..size : ~goesOn(n) /\ \A i \in 0..n - 1 : goesOn(i)
  IN IF size <= Len(s) THEN s ELSE s \o Times(rounds, v)

\* The two ways of SliceUnique, RemoveSliceUint64 and RemoveSliceString: an
\* element is kept when the result lacks it, or when a map grows by it.
UniqueByLoop(s) == FoldLeft(LAMBDA u, v : IF InSlice(v, u) = -1 THEN Append(u, v) ELSE u, <<>>, s)

UniqueByMap(s) ==
  LET add(u, v) == [map  |-> u.map \cup {v},
                    uniq |-> IF u.map \cup {v} # u.map THEN Append(u.uniq, v) ELSE u.uniq]
  IN FoldLeft(add, [map |-> {}, uniq |-> <<>>], s).uniq

SliceUnique(s) == IF Len(s) < ByMap THEN UniqueByLoop(s) ELSE UniqueByMap(s)

------------------------------------------------------------------------------
(* encrypt/aescbc.go *)

\* The bytes that are added are byte(padding).
PKCS7Padding(s, size) ==
  LET padding == size - (Len(s) % size) IN s \o Times(padding, padding % ByteMod)

PKCS7UnPadding(s) == SubSeq(s, 1, Len(s) - Last(s))

------------------------------------------------------------------------------
(* The arguments that are tried *)

VARIABLES arg1, arg2, num

slicesVars == <<arg1, arg2, num>>

SlicesInit == arg1 = <<>> /\ arg2 = <<>> /\ num = 0

Try ==
  /\ slicesVars = <<<<>>, <<>>, 0>>
  /\ arg1' \in UNION {[1..k -> Value] : k \in 0..MaxLen}
  /\ arg2' \in UNION {[1..k -> Value] : k \in 0..2}
  /\ num' \in 0..MaxLen + 1

SlicesNext == Try

SlicesSpec == SlicesInit /\ [][SlicesNext]_slicesVars

------------------------------------------------------------------------------
(* Properties *)

Bag(s) == [v \in Value |-> Cardinality({i \in 1..Len(s) : s[i] = v})]

Removal ==
  LET r == RemoveSliceUnordered(arg1, num)
  IN IF num < Len(arg1) THEN Bag(r) = [Bag(arg1) EXCEPT ![arg1[num + 1]] = @ - 1] ELSE r = arg1

\* Each part of s, in its order, goes to one of the two.
Partition ==
  LET d == SliceDiff(arg1, arg2)
      i == SliceIntersect(arg1, arg2)
  IN /\ Len(d) + Len(i) = Len(arg1)
     /\ ToSet(i) = ToSet(arg1) \cap ToSet(arg2)
     /\ ToSet(d) = ToSet(arg1) \ ToSet(arg2)

\* The first occurrences, in order.
Uniqueness ==
  LET u == SliceUnique(arg1)
  IN /\ ToSet(u) = ToSet(arg1)
     /\ \A i, j \in 1..Len(u) : i < j => InSlice(u[i], arg1) < InSlice(u[j], arg1)

\* Chunks have the size asked for: the elements after the last whole one are in
\* none.  A slice that is not longer than the size is its own chunk.
Chunks ==
  num > 0 =>
    LET c == SliceChunk(arg1, num)
        whole == IF num >= Len(arg1) THEN arg1 ELSE SubSeq(arg1, 1, Len(arg1) - (Len(arg1) % num))
    IN FlattenSeq(c) = whole /\ \A k \in 1..Len(c) : Len(c[k]) = num \/ c[k] = arg1

\* Padding fills whole blocks and is undone, for the sizes of blocks that a byte
\* can hold: 256 would come back as 0.
Ciphered ==
  num \in 1..ByteMod - 1 =>
    LET p == PKCS7Padding(arg1, num)
    IN Len(p) % num = 0 /\ Len(p) > Len(arg1) /\ PKCS7UnPadding(p) = arg1

\* Every step-th number from 1 on.
Ranges ==
  num > 0 => ToSet(SliceRange(1, Len(arg1), num)) = {i \in 1..Len(arg1) : (i - 1) % num = 0}

\* The functions do what they are for, at every boundary of length, size and
\* index, and the two ways to find doubles agree in order: except that SliceChunk
\* drops a remainder.  SlicePad has a property of its own.
SlicesAsDefined ==
  /\ Removal /\ Partition /\ Uniqueness /\ Chunks /\ Ciphered /\ Ranges
  /\ SliceSum(SliceMerge(arg1, arg2)) = SliceSum(arg1) + SliceSum(arg2)

\* "SlicePad prepends size number of val into slice" (slice.go:161): however
\* many it adds, they come before the elements of the slice.
PadPrepends == \E n \in 0..num : SlicePad(arg1, num, 1) = Times(n, 1) \o arg1
==============================================================================
