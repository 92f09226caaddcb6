----------------------------- MODULE Conversion -----------------------------
(***************************************************************************)
(* dep/conversion.cc: the values that go through the channel               *)
(* (EncodableValue) and those of the SDK (Variant).  Either is a tree: the *)
(* function from its positions to the nodes there.  A position is the      *)
(* sequence of steps that lead to it, the key of a map's entry or          *)
(* <<"index", i>> in a list, and a node is a pair of its type and its      *)
(* content, which is 0 where the type says all.  The code goes down a tree *)
(* and builds another one as it returns; here it does so at each position. *)
(***************************************************************************)
EXTENDS Sequences, FiniteSets

Leaf(node) == [p \in {<< >>} |-> node]

Monostate == Leaf(<<"null", 0>>)

\* The types: elements of the typed lists keep the type that C++ has for them.
Lists == {"list", "uint8 list", "int32 list", "int64 list", "double list", "float list"}

EncodableTypes == Lists \cup {"index", "null", "bool", "uint8", "int32", "int64", "float",
                              "double", "string", "map", "custom"}

VariantTypes == {"index", "null", "bool", "int64", "double", "string", "vector", "map"}

\* The Variant that each EncodableValue becomes.
VariantType ==
  [type \in EncodableTypes |->
    CASE type = "custom"                     -> "null"
      [] type \in {"uint8", "int32"}         -> "int64"
      [] type = "float"                      -> "double"
      [] type \in Lists                      -> "vector"
      [] OTHER                               -> type]

\* The EncodableValue that each Variant becomes.
EncodableType == [type \in VariantTypes |-> IF type = "vector" THEN "list" ELSE type]

\* What Dart tells apart of an EncodableValue: neither the width of a number nor
\* the kind of a list.  Its codec picks the narrowest width.
DartType ==
  [type \in EncodableTypes |->
    CASE type \in {"uint8", "int32", "int64"} -> "int"
      [] type = "float"                       -> "double"
      [] type \in Lists                       -> "list"
      [] OTHER                                -> type]

\* A tree of some types.
IsNode(node, types) == node = <<node[1], node[2]>> /\ node[1] \in types

IsTree(v, types) ==
  /\ v = [p \in DOMAIN v |-> v[p]]
  /\ IsFiniteSet(DOMAIN v) /\ << >> \in DOMAIN v
  /\ \A p \in DOMAIN v :
       /\ IsNode(v[p], types)
       /\ p \in Seq({p[i] : i \in DOMAIN p}) /\ \A i \in DOMAIN p : IsNode(p[i], types)
       /\ p # << >> => <<p[1]>> \in DOMAIN v

\* A node, and a position, in the types of another kind of value.
Retyped(node, types) == <<types[node[1]], node[2]>>

Moved(p, types) == [i \in DOMAIN p |-> Retyped(p[i], types)]

\* The tree with all its nodes, keys of maps included, in other types.  No two
\* positions of one tree become the same.
Converted(v, types) ==
  [q \in {Moved(p, types) : p \in DOMAIN v} |->
    Retyped(v[CHOOSE p \in DOMAIN v : Moved(p, types) = q], types)]

ToFirebaseVariant(v) == Converted(v, VariantType)

ToEncodableValue(v) == Converted(v, EncodableType)

Seen(v) == Converted(v, DartType)

\* The arguments of a call are a map of texts; what is not there is null.
GetEncodableValue(map, key) == IF key \in DOMAIN map THEN map[key] ELSE Monostate
=============================================================================
