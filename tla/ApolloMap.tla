------------------------------ MODULE ApolloMap ------------------------------
(****************************************************************************)
(* makeMap of config/source/apollo/utils.go: the keys of a namespace, split *)
(* at their dots, become nested maps.  The keys come from a Go map, in any  *)
(* order.  Read and OnNewestChange return or drop what has an error.        *)
(*                                                                          *)
(* A value is a plain one or an object, which decodes to a map itself; its  *)
(* only field is named Field.                                               *)
(****************************************************************************)
EXTENDS Integers, SequencesExt

CONSTANTS
  Name,   \* what is between the dots
  Depth,  \* bound: the names of a key
  Keys,   \* bound: the keys of a namespace
  Field

Paths == UNION {[1..l -> Name] : l \in 1..Depth}

VARIABLES
  config,  \* the keys of the namespace, and the kind of each value
  rest,    \* keys the loop has yet to visit
  dirs,    \* paths in data where a map is
  leaves,  \* paths in data where another value is
  mapping     \* "none", "loop", "ok", "error", "panic"

apolloVars == <<config, rest, dirs, leaves, mapping>>

ApolloInit ==
  /\ config = <<>> /\ rest = {} /\ dirs = {} /\ leaves = {} /\ mapping = "none"

MakeMap ==
  /\ mapping = "none" /\ mapping' = "loop"
  /\ \E c \in 0..Keys : rest' \in kSubset(c, Paths)
  /\ config' \in [rest' -> {"plain", "object"}]
  /\ UNCHANGED <<dirs, leaves>>

Dirs(k) == {SubSeq(k, 1, l) : l \in 1..Len(k) - 1}

Below(k) == {p \in dirs \cup leaves : IsPrefix(k, p)}

LeafOf(k) == IF config[k] = "plain" THEN k ELSE Append(k, Field)

\* Mutant: the maps on the way are made anew.
DirsAnew(k) == {p \in dirs \cup leaves : \E d \in Dirs(k) \cup {k} : IsPrefix(d, p)}

\* What a key overwrites: the last name of its path is assigned to.
Overwritten(k) == Below(k)

\* One round of the loop.  The type assertion fails where a plain value is on
\* the way.
Visit(k) ==
  /\ mapping = "loop" /\ k \in rest /\ rest' = rest \ {k}
  /\ IF Dirs(k) \cap leaves # {}
     THEN mapping' = "panic" /\ UNCHANGED <<dirs, leaves>>
     ELSE /\ dirs' = (dirs \ Overwritten(k)) \cup Dirs(k) \cup (IF config[k] = "object" THEN {k} ELSE {})
          /\ leaves' = (leaves \ Overwritten(k)) \cup {LeafOf(k)}
          /\ UNCHANGED mapping
  /\ UNCHANGED config

\* A value that cannot be decoded.
DecodeFails ==
  /\ mapping = "loop" /\ rest # {} /\ mapping' = "error"
  /\ UNCHANGED <<config, rest, dirs, leaves>>

Whole ==
  /\ mapping = "loop" /\ rest = {} /\ mapping' = "ok"
  /\ UNCHANGED <<config, rest, dirs, leaves>>

ApolloNext ==
  \/ MakeMap
  \/ \E k \in rest : Visit(k)
  \/ DecodeFails \/ Whole

ApolloSpec == ApolloInit /\ [][ApolloNext]_apolloVars

------------------------------------------------------------------------------
(* Properties *)

\* One key goes on where another one ends.
Conflict == \E k1, k2 \in DOMAIN config : IsStrictPrefix(k1, k2)

\* Whatever the order of the keys, the map has every value at its path and
\* nothing else, and the loop does not panic: unless one key is the beginning
\* of another, when it may, or lose one of the two.  It stays a tree even then,
\* and a value is lost only to another key that is the beginning of its path.
MapWhole ==
  /\ \A p \in dirs \cup leaves : Dirs(p) \subseteq dirs
  /\ dirs \cap leaves = {}
  /\ ~Conflict => /\ mapping # "panic"
                  /\ mapping = "ok" => leaves = {LeafOf(k) : k \in DOMAIN config}
  /\ mapping = "ok" => \A k \in DOMAIN config :
       LeafOf(k) \notin leaves => \E k2 \in DOMAIN config \ {k} : IsPrefix(k2, LeafOf(k))
==============================================================================
