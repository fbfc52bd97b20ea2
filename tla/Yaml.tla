------------------------------- MODULE Yaml ---------------------------------
(***************************************************************************)
(* The yaml-cpp nodes as colod and the tool use them: what operator[],     *)
(* IsDefined, as<T>, push_back and the assignments do with a node of each  *)
(* type.  The files are read and written whole and no two nodes of a       *)
(* document are shared after a write, so a node is a value: a tree.        *)
(*                                                                         *)
(* A scalar keeps its text, abstracted to a value, and what that text      *)
(* reads as: any text, a number that fits (int and unsigned short), or a   *)
(* boolean.  An exception of a subscript is the node Throws, and no caller *)
(* catches one.                                                            *)
(***************************************************************************)
EXTENDS Integers, Sequences

Undefined == [type |-> "Undefined"]   \* what operator[] inserts for a new key
Null      == [type |-> "Null"]        \* `~', an empty value, an empty file
Zombie    == [type |-> "Zombie"]      \* what operator[] const yields for a missing key
Throws    == [type |-> "Throws"]
Scalar(reads, v) == [type |-> "Scalar", reads |-> reads, value |-> v]
Sequence(s)      == [type |-> "Sequence", items |-> s]
MapNode(f)       == [type |-> "Map", pairs |-> f]

Text(v)   == Scalar("text", v)
Number(n) == Scalar("number", n)
Bool(b)   == Scalar("bool", b)

IsDefined(n)  == n.type \notin {"Undefined", "Zombie"}
IsNull(n)     == n.type = "Null"
IsScalar(n)   == n.type = "Scalar"
IsSequence(n) == n.type = "Sequence"

(***************************************************************************)
(* node[key] on a const node: nothing is inserted.  A sequence has no      *)
(* element for a text; a scalar has no subscripts at all.                  *)
(***************************************************************************)
Get(n, key) ==
  CASE n.type = "Map" -> IF key \in DOMAIN n.pairs THEN n.pairs[key] ELSE Zombie
    [] n.type \in {"Null", "Undefined", "Sequence"} -> Zombie
    [] OTHER -> Throws

(***************************************************************************)
(* node[key] on a node that is not const: a missing key is inserted with   *)
(* an Undefined value, which no writer emits, and other nodes turn into a  *)
(* map.  The insertion is part of Put below.                               *)
(***************************************************************************)
At(n, key) ==
  LET v == Get(n, key) IN IF v = Zombie THEN Undefined ELSE v

\* node[i] on a sequence.
Item(n, i) == n.items[i]

size(n) == IF IsSequence(n) THEN Len(n.items) ELSE 0

\* node[key] = v
Put(n, key, v) ==
  CASE n.type = "Map" ->
         MapNode([k \in DOMAIN n.pairs \cup {key} |-> IF k = key THEN v ELSE n.pairs[k]])
    [] n.type \in {"Null", "Undefined"} -> MapNode([k \in {key} |-> v])
    [] OTHER -> Throws

push_back(n, v) ==
  CASE n.type = "Sequence" -> Sequence(Append(n.items, v))
    [] n.type \in {"Null", "Undefined"} -> Sequence(<<v>>)
    [] OTHER -> Throws

(***************************************************************************)
(* as<T> throws unless the node converts; a null node converts to the      *)
(* string "null", a number and a boolean are strings too.  A port is an    *)
(* unsigned short: a numeral outside its range does not convert.           *)
(***************************************************************************)
UnsignedShort == 0 .. 65535

Converts(n, T) ==
  \/ T = "string" /\ n.type \in {"Null", "Scalar"}
  \/ T \in {"number", "bool"} /\ IsScalar(n) /\ n.reads = T
  \/ T = "port" /\ IsScalar(n) /\ n.reads = "number" /\ n.value \in UnsignedShort

as_T(n) == CASE IsNull(n) -> "null" [] IsScalar(n) -> n.value [] OTHER -> Throws
=============================================================================
