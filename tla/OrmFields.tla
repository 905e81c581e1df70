------------------------------ MODULE OrmFields ------------------------------
(****************************************************************************)
(* getFieldWithoutCache of mysql/orm.go: the fields of a struct type with a *)
(* tag `orm`, those of embedded structs included, each with its number and  *)
(* the path of indices by which reflection finds it.                        *)
(*                                                                          *)
(* A path is made by append(index, i), and append writes in place when the  *)
(* array behind index has room: then the siblings of a field share an array *)
(* and each overwrites the last index of the others.  So slices are kept as *)
(* in Go, as a length and an array in a memory.                             *)
(****************************************************************************)
EXTENDS Integers, Sequences, FiniteSets

\* A struct type is the sequence of its fields: with a tag, without one, or
\* an embedded struct, without one.
Tagged == [kind |-> "tag"]
Untagged == [kind |-> "none"]
Embed(t) == [kind |-> "embed", type |-> t]

\* A slice is [arr, len]; memory gives each array its elements, all of its
\* capacity, where 0 was not written yet.
Empty(n) == SubSeq(<<0, 0, 0, 0, 0, 0, 0, 0>>, 1, n)

\* Mutant: the first path is made with room for a deep type.
RoomyIndex == [memory |-> <<Empty(8)>>, index |-> [arr |-> 1, len |-> 0]]

\* []int{}
NoIndex == [memory |-> <<Empty(0)>>, index |-> [arr |-> 1, len |-> 0]]

\* append: a new array has twice the capacity, or room for one.
GoAppend(memory, s, i) ==
  LET old  == memory[s.arr]
      room == IF old = <<>> THEN 0 ELSE 2 * Len(old) - s.len - 1
  IN IF s.len < Len(old)
     THEN [memory |-> [memory EXCEPT ![s.arr][s.len + 1] = i],
           index  |-> [arr |-> s.arr, len |-> s.len + 1]]
     ELSE [memory |-> Append(memory, old \o <<i>> \o Empty(room)),
           index  |-> [arr |-> Len(memory) + 1, len |-> s.len + 1]]

\* The loop over the fields of t from the i-th on (counted from 1, as indices
\* are here).  n numbers the fields; path is where the loop really is: it
\* stands for the tag, all tags being different.  data holds what was found.
RECURSIVE FieldsFrom(_, _, _, _, _, _)
FieldsFrom(memory, data, index, t, path, i) ==
  IF i > Len(t) THEN [memory |-> memory, data |-> data]
  ELSE
    LET here == Append(path, i)
        made == GoAppend(memory, index, i)
        n    == Cardinality(data)
    IN CASE t[i].kind = "none" -> FieldsFrom(memory, data, index, t, path, i + 1)
         [] t[i].kind = "tag"  ->
              FieldsFrom(made.memory, data \cup {[tag |-> here, index |-> made.index, I |-> n]},
                         index, t, path, i + 1)
         [] t[i].kind = "embed" ->
              LET m == FieldsFrom(made.memory, data, made.index, t[i].type, here, 1)
              IN FieldsFrom(m.memory, m.data, index, t, path, i + 1)

\* What the map holds when it is read: paths are read from the arrays then.
GetField(t) ==
  LET got == FieldsFrom(NoIndex.memory, {}, NoIndex.index, t, <<>>, 1)
  IN {[tag |-> f.tag, I |-> f.I, Index |-> SubSeq(got.memory[f.index.arr], 1, f.index.len)] : f \in got.data}

------------------------------------------------------------------------------
(* The types that are tried: a struct with fields before and after the one  *)
(* that it embeds, to a depth of MaxDepth.                                  *)

CONSTANT MaxDepth

Plain == {<<>>, <<Tagged>>, <<Tagged, Tagged>>, <<Untagged, Tagged>>, <<Tagged, Untagged>>}

Types[d \in 0..MaxDepth] ==
  IF d = 0 THEN Plain
  ELSE {p \o <<Embed(s)>> \o q : p \in {<<>>, <<Tagged>>}, q \in {<<>>, <<Tagged>>}, s \in Types[d - 1]}
       \cup (IF d = 1 THEN {<<Embed(s1), Embed(s2)>> : s1 \in Plain, s2 \in Plain} ELSE {})

VARIABLES
  type,   \* the type of the struct
  fields  \* what is in the cache for it

fieldsVars == <<type, fields>>

FieldsInit == type = <<>> /\ fields = {}

GetFieldOf ==
  /\ type = <<>>
  /\ \E d \in 0..MaxDepth : type' \in Types[d]
  /\ fields' = GetField(type')

FieldsNext == GetFieldOf

FieldsSpec == FieldsInit /\ [][FieldsNext]_fieldsVars

------------------------------------------------------------------------------
(* Properties *)

\* The index path of a field leads to the field, and not to another one that
\* was found after it, in every type that embeds structs to a depth of two; and
\* the numbers of the fields are those from 0 on, in the order of the fields.
\* Deeper, a path of four ends with the index of the last of its siblings, so
\* that all of them lead to one field; those of five are right again.
FieldsAddressThemselves ==
  /\ \A f \in fields : Len(f.tag) # 4 => f.Index = f.tag
  /\ \A f, g \in fields :
       LET struct(x) == SubSeq(x, 1, 3) IN
       Len(f.tag) = 4 /\ Len(g.tag) = 4 /\ struct(f.tag) = struct(g.tag) =>
         struct(f.Index) = struct(f.tag) /\ f.Index[4] >= g.tag[4]
  /\ {f.I : f \in fields} = 0..Cardinality(fields) - 1
==============================================================================
