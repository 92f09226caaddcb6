------------------------- MODULE DatabaseData_proofs -------------------------
(***************************************************************************)
(* Proofs about Conversion and DatabaseData for values of any depth and    *)
(* width, any number of writes that wait and any list of modifiers: what   *)
(* Dart writes is what it reads back.                                      *)
(***************************************************************************)
EXTENDS DatabaseData, FiniteSetTheorems, TLAPS

-----------------------------------------------------------------------------
(* Recursion over the numbers up to n.                                      *)

\* Induction, by the pigeonhole principle: if some numbers up to n were not in S,
\* their predecessors would not be either, and n would be none of those.
LEMMA Induction ==
  ASSUME NEW n \in Nat, NEW S, 0 \in S, \A k \in 0 .. n - 1 : k \in S => k + 1 \in S
  PROVE  0 .. n \subseteq S
<1> SUFFICES ASSUME NEW m \in 0 .. n, m \notin S PROVE FALSE
  OBVIOUS
<1> DEFINE T == (0 .. m) \ S
           f == [k \in T |-> k - 1]
<1>1. \A k \in T : k - 1 \in T \ {m}
  <2> TAKE k \in T
  <2>1. k \in Nat /\ k # 0 /\ k <= m /\ m <= n
    OBVIOUS
  <2>2. k - 1 \in 0 .. n - 1 /\ (k - 1) + 1 = k
    BY <2>1
  <2>3. k - 1 \notin S
    BY <2>2
  <2> QED BY <2>1, <2>2, <2>3
<1>2. f \in [T -> T \ {m}]
  BY <1>1
<1>3. IsFiniteSet(T)
  <2>1. IsFiniteSet(0 .. m)
    BY FS_Interval
  <2>2. T \subseteq 0 .. m
    OBVIOUS
  <2> QED BY <2>1, <2>2, FS_Subset
<1>4. IsFiniteSet(T \ {m}) /\ Cardinality(T \ {m}) < Cardinality(T)
  <2>1. m \in T
    OBVIOUS
  <2> HIDE DEF T
  <2>2. Cardinality(T) \in Nat
    BY <1>3, FS_CardinalityType
  <2>3. IsFiniteSet(T \ {m}) /\ Cardinality(T \ {m}) = Cardinality(T) - 1
    BY <1>3, <2>1, FS_RemoveElement
  <2> QED BY <2>2, <2>3
<1>5. PICK i, j \in T : i # j /\ f[i] = f[j]
  <2> HIDE DEF T, f
  <2> QED BY <1>2, <1>3, <1>4, FS_PigeonHole
<1> QED BY <1>5

\* The recursive functions exist.
LEMMA StoreAllRecursion ==
  ASSUME NEW writes, Len(writes) \in Nat, NEW old
  PROVE  \E data : /\ data = [i \in 0 .. Len(writes) |-> IF i = 0 THEN old ELSE Store(writes[i], data[i - 1])]
                   /\ StoreAll(writes, old) = data[Len(writes)]
<1> DEFINE Is(g, n) == /\ g = [i \in 0 .. n |-> g[i]] /\ g[0] = old
                       /\ \A i \in 1 .. n : g[i] = Store(writes[i], g[i - 1])
           S == {n \in 0 .. Len(writes) : \E g : Is(g, n)}
<1>1. 0 \in S
  <2> DEFINE g == [i \in 0 .. 0 |-> old]
  <2>1. Is(g, 0)
    OBVIOUS
  <2> HIDE DEF Is
  <2> QED BY <2>1
<1>2. ASSUME NEW n \in 0 .. Len(writes) - 1, n \in S PROVE n + 1 \in S
  <2>1. PICK g : Is(g, n)
    BY <1>2
  <2> DEFINE h == [i \in 0 .. n + 1 |-> IF i = n + 1 THEN Store(writes[i], g[i - 1]) ELSE g[i]]
  <2>2. \A i \in 0 .. n : h[i] = g[i]
    OBVIOUS
  <2>3. h[n + 1] = Store(writes[n + 1], g[n])
    OBVIOUS
  <2>4. h = [i \in 0 .. n + 1 |-> h[i]]
    OBVIOUS
  <2> HIDE DEF h
  <2>5. ASSUME NEW i \in 1 .. n + 1 PROVE h[i] = Store(writes[i], h[i - 1])
    <3>1. i - 1 \in 0 .. n /\ (i = n + 1 \/ i \in 1 .. n)
      OBVIOUS
    <3>2. h[i - 1] = g[i - 1]
      BY <3>1, <2>2
    <3>3. CASE i = n + 1
      BY <2>3, <3>2, <3>3
    <3>4. CASE i \in 1 .. n
      BY <2>1, <2>2, <3>2, <3>4
    <3> QED BY <3>1, <3>3, <3>4
  <2>6. h[0] = old
    BY <2>1, <2>2
  <2>7. Is(h, n + 1)
    BY <2>4, <2>5, <2>6
  <2> HIDE DEF Is
  <2> QED BY <2>7
<1>3. Len(writes) \in S
  <2> HIDE DEF S
  <2>1. 0 .. Len(writes) \subseteq S
    BY <1>1, <1>2, Induction
  <2> QED BY <2>1
<1>4. PICK g : Is(g, Len(writes))
  BY <1>3
<1>5. g = [i \in 0 .. Len(writes) |-> IF i = 0 THEN old ELSE Store(writes[i], g[i - 1])]
  BY <1>4
<1> QED BY <1>5 DEF StoreAll

LEMMA QueryRecursion ==
  ASSUME NEW ms, Len(ms) \in Nat
  PROVE  \E query : /\ query = [i \in 0 .. Len(ms) |-> IF i = 0 THEN Query0 ELSE Apply(query[i - 1], ms[i])]
                    /\ GetDatabaseQueryFromArguments(ms) = query[Len(ms)]
<1> DEFINE Is(g, n) == /\ g = [i \in 0 .. n |-> g[i]] /\ g[0] = Query0
                       /\ \A i \in 1 .. n : g[i] = Apply(g[i - 1], ms[i])
           S == {n \in 0 .. Len(ms) : \E g : Is(g, n)}
<1>1. 0 \in S
  <2> DEFINE g == [i \in 0 .. 0 |-> Query0]
  <2>1. Is(g, 0)
    OBVIOUS
  <2> HIDE DEF Is
  <2> QED BY <2>1
<1>2. ASSUME NEW n \in 0 .. Len(ms) - 1, n \in S PROVE n + 1 \in S
  <2>1. PICK g : Is(g, n)
    BY <1>2
  <2> DEFINE h == [i \in 0 .. n + 1 |-> IF i = n + 1 THEN Apply(g[i - 1], ms[i]) ELSE g[i]]
  <2>2. \A i \in 0 .. n : h[i] = g[i]
    OBVIOUS
  <2>3. h[n + 1] = Apply(g[n], ms[n + 1])
    OBVIOUS
  <2>4. h = [i \in 0 .. n + 1 |-> h[i]]
    OBVIOUS
  <2> HIDE DEF h
  <2>5. ASSUME NEW i \in 1 .. n + 1 PROVE h[i] = Apply(h[i - 1], ms[i])
    <3>1. i - 1 \in 0 .. n /\ (i = n + 1 \/ i \in 1 .. n)
      OBVIOUS
    <3>2. h[i - 1] = g[i - 1]
      BY <3>1, <2>2
    <3>3. CASE i = n + 1
      BY <2>3, <3>2, <3>3
    <3>4. CASE i \in 1 .. n
      BY <2>1, <2>2, <3>2, <3>4
    <3> QED BY <3>1, <3>3, <3>4
  <2>6. h[0] = Query0
    BY <2>1, <2>2
  <2>7. Is(h, n + 1)
    BY <2>4, <2>5, <2>6
  <2> HIDE DEF Is
  <2> QED BY <2>7
<1>3. Len(ms) \in S
  <2> HIDE DEF S
  <2>1. 0 .. Len(ms) \subseteq S
    BY <1>1, <1>2, Induction
  <2> QED BY <2>1
<1>4. PICK g : Is(g, Len(ms))
  BY <1>3
<1>5. g = [i \in 0 .. Len(ms) |-> IF i = 0 THEN Query0 ELSE Apply(g[i - 1], ms[i])]
  BY <1>4
<1> QED BY <1>5 DEF GetDatabaseQueryFromArguments

-----------------------------------------------------------------------------
(* The conversions.                                                         *)

\* No two positions of v become one.
Apart(v, types) ==
  \A p, q \in DOMAIN v : Moved(p, types) = Moved(q, types) => p = q

\* A table of types that keeps those of a set apart.
OneToOne(types, from) == \A t, u \in from : types[t] = types[u] => t = u

LEMMA ConvertedAt ==
  ASSUME NEW v, NEW types, Apart(v, types)
  PROVE  /\ DOMAIN Converted(v, types) = {Moved(p, types) : p \in DOMAIN v}
         /\ \A p \in DOMAIN v : Converted(v, types)[Moved(p, types)] = Retyped(v[p], types)
BY DEF Converted, Apart

LEMMA ConvertedIs ==
  ASSUME NEW v, NEW types, Apart(v, types), NEW w,
         w = [q \in {Moved(p, types) : p \in DOMAIN v} |-> w[q]],
         \A p \in DOMAIN v : w[Moved(p, types)] = Retyped(v[p], types)
  PROVE  w = Converted(v, types)
<1>1. Converted(v, types) = [q \in {Moved(p, types) : p \in DOMAIN v} |-> Converted(v, types)[q]]
  BY DEF Converted
<1>2. \A q \in {Moved(p, types) : p \in DOMAIN v} : w[q] = Converted(v, types)[q]
  BY ConvertedAt
<1> QED BY <1>1, <1>2

\* One table after another is a table.
LEMMA RetypedTwice ==
  ASSUME NEW from, NEW n, IsNode(n, from), NEW T, NEW U, NEW W,
         \A t \in from : W[t] = U[T[t]]
  PROVE  Retyped(Retyped(n, T), U) = Retyped(n, W)
BY DEF Retyped, IsNode

LEMMA ConvertedTwice ==
  ASSUME NEW from, NEW v, IsTree(v, from), NEW T, NEW U, NEW W,
         \A t \in from : W[t] = U[T[t]], Apart(v, W)
  PROVE  Apart(v, T) /\ Converted(Converted(v, T), U) = Converted(v, W)
<1>1. \A p \in DOMAIN v : Moved(Moved(p, T), U) = Moved(p, W)
  <2> TAKE p \in DOMAIN v
  <2>1. \A i \in DOMAIN p : IsNode(p[i], from)
    BY DEF IsTree
  <2>2. \A i \in DOMAIN p : Retyped(Retyped(p[i], T), U) = Retyped(p[i], W)
    BY <2>1, RetypedTwice
  <2> QED BY <2>2 DEF Moved
<1>2. Apart(v, T)
  BY <1>1 DEF Apart
<1>3. /\ DOMAIN Converted(v, T) = {Moved(p, T) : p \in DOMAIN v}
      /\ \A p \in DOMAIN v : Converted(v, T)[Moved(p, T)] = Retyped(v[p], T)
  BY <1>2, ConvertedAt
<1>4. Apart(Converted(v, T), U)
  BY <1>1, <1>3 DEF Apart
<1> DEFINE w == Converted(Converted(v, T), U)
<1>5. DOMAIN w = {Moved(p, W) : p \in DOMAIN v}
  <2>1. DOMAIN w = {Moved(q, U) : q \in DOMAIN Converted(v, T)}
    BY <1>4, ConvertedAt
  <2> HIDE DEF w
  <2> QED BY <1>1, <1>3, <2>1
<1>6. \A p \in DOMAIN v : w[Moved(p, W)] = Retyped(v[p], W)
  <2> TAKE p \in DOMAIN v
  <2>1. Moved(p, T) \in DOMAIN Converted(v, T)
    BY <1>3
  <2>2. w[Moved(Moved(p, T), U)] = Retyped(Converted(v, T)[Moved(p, T)], U)
    BY <2>1, <1>4, ConvertedAt
  <2>3. Retyped(Retyped(v[p], T), U) = Retyped(v[p], W)
    <3>1. IsNode(v[p], from)
      BY DEF IsTree
    <3> QED BY <3>1, RetypedTwice
  <2> QED BY <1>1, <1>3, <2>2, <2>3
<1>7. w = [q \in DOMAIN w |-> w[q]]
  BY DEF Converted
<1>8. w = Converted(v, W)
  <2> HIDE DEF w
  <2> QED BY <1>5, <1>6, <1>7, ConvertedIs
<1> QED BY <1>2, <1>8

\* A table that keeps types apart keeps nodes and positions apart.
LEMMA RetypedApart ==
  ASSUME NEW from, NEW T, OneToOne(T, from),
         NEW m, NEW n, IsNode(m, from), IsNode(n, from), Retyped(m, T) = Retyped(n, T)
  PROVE  m = n
BY DEF OneToOne, IsNode, Retyped

LEMMA MovedApart ==
  ASSUME NEW from, NEW v, IsTree(v, from), NEW T, OneToOne(T, from)
  PROVE  Apart(v, T)
<1> SUFFICES ASSUME NEW p \in DOMAIN v, NEW q \in DOMAIN v, Moved(p, T) = Moved(q, T)
             PROVE  p = q
  BY DEF Apart
<1>1. DOMAIN p = DOMAIN q /\ \A i \in DOMAIN p : Retyped(p[i], T) = Retyped(q[i], T)
  BY DEF Moved
<1>2. p \in Seq({p[i] : i \in DOMAIN p}) /\ q \in Seq({q[i] : i \in DOMAIN q})
  BY DEF IsTree
<1>3. \A i \in DOMAIN p : p[i] = q[i]
  <2> TAKE i \in DOMAIN p
  <2>1. IsNode(p[i], from) /\ IsNode(q[i], from)
    BY <1>1 DEF IsTree
  <2> QED BY <1>1, <2>1, RetypedApart
<1>4. p = [i \in DOMAIN p |-> p[i]] /\ q = [i \in DOMAIN q |-> q[i]]
  BY <1>2
<1> QED BY <1>1, <1>3, <1>4

\* A converted tree is a tree.
LEMMA MovedEmpty == \A T : Moved(<< >>, T) = << >>
BY DEF Moved

LEMMA MovedSeq ==
  ASSUME NEW p, p \in Seq({p[i] : i \in DOMAIN p}), NEW T
  PROVE  /\ Moved(p, T) \in Seq({Moved(p, T)[i] : i \in DOMAIN Moved(p, T)})
         /\ Len(Moved(p, T)) = Len(p)
         /\ \A i \in DOMAIN p : Moved(p, T)[i] = Retyped(p[i], T)
         /\ DOMAIN Moved(p, T) = DOMAIN p
         /\ Moved(p, T) = << >> <=> p = << >>
<1>1. Len(p) \in Nat /\ DOMAIN p = 1 .. Len(p)
  OBVIOUS
<1>2. /\ \A i \in DOMAIN p : Moved(p, T)[i] = Retyped(p[i], T)
      /\ DOMAIN Moved(p, T) = 1 .. Len(p)
  BY <1>1 DEF Moved
<1>3. Moved(p, T) = [i \in 1 .. Len(p) |-> Moved(p, T)[i]]
  BY <1>1, <1>2 DEF Moved
<1>4. Moved(p, T) \in Seq({Moved(p, T)[i] : i \in DOMAIN Moved(p, T)})
  BY <1>1, <1>2, <1>3
<1>5. Len(Moved(p, T)) = Len(p)
  BY <1>1, <1>2, <1>4
<1> QED BY <1>1, <1>2, <1>4, <1>5

LEMMA ConvertedTree ==
  ASSUME NEW from, NEW v, IsTree(v, from), NEW T, Apart(v, T),
         NEW to, \A t \in from : T[t] \in to
  PROVE  IsTree(Converted(v, T), to)
<1> DEFINE w == Converted(v, T)
           f == [p \in DOMAIN v |-> Moved(p, T)]
<1>1. /\ DOMAIN w = {Moved(p, T) : p \in DOMAIN v}
      /\ \A p \in DOMAIN v : w[Moved(p, T)] = Retyped(v[p], T)
  BY ConvertedAt
<1>2. w = [q \in DOMAIN w |-> w[q]]
  BY DEF Converted
<1> HIDE DEF w
<1>3. IsFiniteSet(DOMAIN w)
  <2>1. f \in Surjection(DOMAIN v, DOMAIN w)
    BY <1>1 DEF Surjection
  <2>2. IsFiniteSet(DOMAIN v)
    BY DEF IsTree
  <2> QED BY <2>1, <2>2, FS_Surjection
<1>4. << >> \in DOMAIN w
  BY <1>1, MovedEmpty DEF IsTree
<1>5. ASSUME NEW q \in DOMAIN w
      PROVE  /\ IsNode(w[q], to)
             /\ q \in Seq({q[i] : i \in DOMAIN q}) /\ \A i \in DOMAIN q : IsNode(q[i], to)
             /\ q # << >> => <<q[1]>> \in DOMAIN w
  <2>1. PICK p \in DOMAIN v : q = Moved(p, T)
    BY <1>1
  <2>2. /\ IsNode(v[p], from) /\ p \in Seq({p[i] : i \in DOMAIN p})
        /\ \A i \in DOMAIN p : IsNode(p[i], from)
    BY DEF IsTree
  <2>3. \A n : IsNode(n, from) => IsNode(Retyped(n, T), to)
    BY DEF IsNode, Retyped
  <2>4. p # << >> => <<p[1]>> \in DOMAIN v /\ Moved(<<p[1]>>, T) = <<Moved(p, T)[1]>>
    <3>1. p # << >> => <<p[1]>> \in DOMAIN v /\ 1 \in DOMAIN p
      BY <2>2 DEF IsTree
    <3> QED BY <3>1 DEF Moved
  <2>5. q # << >> => <<q[1]>> \in DOMAIN w
    BY <1>1, <2>1, <2>2, <2>4, MovedSeq
  <2> QED BY <1>1, <2>1, <2>2, <2>3, <2>5, MovedSeq
<1> QED BY <1>2, <1>3, <1>4, <1>5 DEF IsTree, w

\* The root keeps its place, and no other position takes it.
LEMMA ConvertedRoot ==
  ASSUME NEW from, NEW v, IsTree(v, from), NEW T
  PROVE  Converted(v, T)[<< >>] = Retyped(v[<< >>], T)
<1>1. << >> \in DOMAIN v
  BY DEF IsTree
<1>2. \A p \in DOMAIN v : Moved(p, T) = << >> <=> p = << >>
  BY MovedSeq DEF IsTree
<1>3. (CHOOSE p \in DOMAIN v : Moved(p, T) = << >>) = << >>
  BY <1>1, <1>2
<1>4. << >> \in {Moved(p, T) : p \in DOMAIN v}
  BY <1>1, MovedEmpty
<1> QED BY <1>3, <1>4 DEF Converted

-----------------------------------------------------------------------------
(* What Dart makes of a Variant.                                            *)

VariantDart == [type \in VariantTypes |-> DartType[EncodableType[type]]]

Means(v) == Converted(v, VariantDart)

IsVariant(v) == IsTree(v, VariantTypes)

DartNode(n) == Retyped(n, VariantDart)

DartAt(p) == Moved(p, VariantDart)

LEMMA VariantDartApart == OneToOne(VariantDart, VariantTypes) /\ OneToOne(EncodableType, VariantTypes)
BY DEF OneToOne, VariantDart, VariantTypes, EncodableTypes, DartType, EncodableType, Lists

LEMMA MeansApart ==
  ASSUME NEW v, IsVariant(v)
  PROVE  /\ Apart(v, VariantDart)
         /\ \A p, q \in DOMAIN v : DartAt(p) = DartAt(q) => p = q
         /\ \A q \in DOMAIN Means(v) : \E p \in DOMAIN v : q = DartAt(p)
         /\ \A p \in DOMAIN v : /\ DartAt(p) \in DOMAIN Means(v)
                               /\ Means(v)[DartAt(p)] = DartNode(v[p])
<1>1. Apart(v, VariantDart)
  BY VariantDartApart, MovedApart DEF IsVariant
<1>2. /\ DOMAIN Means(v) = {DartAt(p) : p \in DOMAIN v}
      /\ \A p \in DOMAIN v : Means(v)[DartAt(p)] = DartNode(v[p])
  BY <1>1, ConvertedAt DEF Means, DartNode, DartAt
<1>3. \A p, q \in DOMAIN v : DartAt(p) = DartAt(q) => p = q
  BY <1>1 DEF DartAt, Apart
<1> QED BY <1>1, <1>2, <1>3

LEMMA MeansIs ==
  ASSUME NEW v, IsVariant(v), NEW w, w = [q \in DOMAIN w |-> w[q]],
         \A q \in DOMAIN w : \E p \in DOMAIN v : q = DartAt(p),
         \A p \in DOMAIN v : DartAt(p) \in DOMAIN w /\ w[DartAt(p)] = DartNode(v[p])
  PROVE  w = Means(v)
<1>1. DOMAIN w = DOMAIN Means(v) /\ \A q \in DOMAIN w : w[q] = Means(v)[q]
  BY MeansApart
<1>2. Means(v) = [q \in DOMAIN Means(v) |-> Means(v)[q]]
  BY DEF Means, Converted
<1> QED BY <1>1, <1>2

\* What Dart reads of a Variant is what it means.
LEMMA SeenIsMeant ==
  ASSUME NEW v, IsVariant(v)
  PROVE  Seen(ToEncodableValue(v)) = Means(v)
<1>1. \A t \in VariantTypes : VariantDart[t] = DartType[EncodableType[t]]
  BY DEF VariantDart
<1>2. Converted(Converted(v, EncodableType), DartType) = Converted(v, VariantDart)
  <2>1. IsTree(v, VariantTypes) /\ Apart(v, VariantDart)
    BY MeansApart DEF IsVariant
  <2>2. \A U, T : (\A t \in VariantTypes : VariantDart[t] = U[T[t]]) =>
          Converted(Converted(v, T), U) = Converted(v, VariantDart)
    BY <2>1, ConvertedTwice
  <2> QED BY <1>1, <2>2
<1> QED BY <1>2 DEF Seen, ToEncodableValue, Means

\* A value that Dart's codec sends.
IsSent(v) == IsTree(v, EncodableTypes \ {"custom"}) /\ Apart(v, DartType)

\* The first half of the round trip: what Dart writes becomes a Variant that means it.
LEMMA WrittenIsMeant ==
  ASSUME NEW v, IsSent(v)
  PROVE  IsVariant(ToFirebaseVariant(v)) /\ Means(ToFirebaseVariant(v)) = Seen(v)
<1> DEFINE from == EncodableTypes \ {"custom"}
<1>1. \A t \in from : VariantType[t] \in VariantTypes /\ DartType[t] = VariantDart[VariantType[t]]
  <2> TAKE t \in from
  <2>1. t \in EncodableTypes
    OBVIOUS
  <2>2. VariantType[t] \in VariantTypes
    BY DEF EncodableTypes, VariantTypes, VariantType, Lists
  <2>3. VariantDart[VariantType[t]] = DartType[EncodableType[VariantType[t]]]
    BY <2>2 DEF VariantDart
  <2>4. CASE t \in Lists
    <3>1. VariantType[t] = "vector" /\ EncodableType["vector"] = "list"
      BY <2>4 DEF EncodableTypes, VariantType, VariantTypes, EncodableType, Lists
    <3>2. DartType[t] = "list" /\ DartType["list"] = "list"
      BY <2>4 DEF EncodableTypes, DartType, Lists
    <3> QED BY <2>2, <2>3, <3>1, <3>2
  <2>5. CASE t \notin Lists
    <3>1. EncodableType[VariantType[t]] = VariantType[t]
      BY <2>2, <2>5 DEF EncodableTypes, VariantType, VariantTypes, EncodableType, Lists
    <3>2. DartType[VariantType[t]] = DartType[t]
      BY <2>5 DEF EncodableTypes, VariantType, VariantTypes, DartType, Lists
    <3> QED BY <2>2, <2>3, <3>1, <3>2
  <2> QED BY <2>4, <2>5
<1>2. Apart(v, VariantType) /\ Converted(Converted(v, VariantType), VariantDart) = Converted(v, DartType)
  BY <1>1, ConvertedTwice DEF IsSent
<1>3. IsTree(Converted(v, VariantType), VariantTypes)
  BY <1>1, <1>2, ConvertedTree DEF IsSent
<1> QED BY <1>2, <1>3 DEF IsVariant, Means, Seen, ToFirebaseVariant

\* Both halves: a value of any depth and any types reads back as Dart wrote it.
THEOREM ConversionsRoundTrip ==
  ASSUME NEW v, IsSent(v)
  PROVE  Seen(ToEncodableValue(ToFirebaseVariant(v))) = Seen(v)
BY WrittenIsMeant, SeenIsMeant

LEMMA MonostateMeans == IsVariant(Monostate) /\ IsSent(Monostate) /\ Means(Monostate) = Monostate
<1> DEFINE null == <<"null", 0>>
<1>1. DOMAIN Monostate = {<< >>} /\ Monostate[<< >>] = null
  BY DEF Monostate, Leaf
<1>2. Monostate = [p \in DOMAIN Monostate |-> Monostate[p]]
  BY DEF Monostate, Leaf
<1>3. IsFiniteSet({<< >>})
  BY FS_Singleton
<1>4. \A types : "null" \in types => IsNode(null, types)
  BY DEF IsNode
<1>5. << >> \in Seq({<< >>[i] : i \in DOMAIN << >>}) /\ DOMAIN << >> = {}
  OBVIOUS
<1>6. \A types : "null" \in types => IsTree(Monostate, types)
  <2> HIDE DEF null
  <2> QED BY <1>1, <1>2, <1>3, <1>4, <1>5 DEF IsTree
<1>7. IsVariant(Monostate) /\ IsSent(Monostate)
  BY <1>1, <1>6 DEF IsVariant, IsSent, VariantTypes, EncodableTypes, Apart
<1>8. Retyped(null, VariantDart) = null
  BY DEF Retyped, VariantDart, DartType, VariantTypes, EncodableTypes, EncodableType, Lists
<1>9. Apart(Monostate, VariantDart)
  BY <1>1 DEF Apart
<1>10. Monostate = Converted(Monostate, VariantDart)
  <2>1. {Moved(p, VariantDart) : p \in DOMAIN Monostate} = {<< >>}
    BY <1>1, MovedEmpty
  <2>2. \A p \in DOMAIN Monostate :
          Monostate[Moved(p, VariantDart)] = Retyped(Monostate[p], VariantDart)
    BY <1>1, <1>8, MovedEmpty
  <2> QED BY <1>1, <1>2, <1>9, <2>1, <2>2, ConvertedIs
<1> QED BY <1>7, <1>10 DEF Means

-----------------------------------------------------------------------------
(* The trees of the SDK and those that Dart makes of them.                  *)

LEMMA DartNodeApart ==
  ASSUME NEW m, NEW n, IsNode(m, VariantTypes), IsNode(n, VariantTypes)
  PROVE  DartNode(m) = DartNode(n) <=> m = n
BY RetypedApart, VariantDartApart DEF DartNode

\* A position of a Variant and where Dart sees it.
LEMMA PositionMeans ==
  ASSUME NEW v, IsVariant(v), NEW p \in DOMAIN v
  PROVE  /\ Len(DartAt(p)) = Len(p)
         /\ DartAt(p) = << >> <=> p = << >>
         /\ p # << >> => /\ IsNode(p[1], VariantTypes)
                         /\ DartAt(p)[1] = DartNode(p[1])
         /\ Len(p) = 1 => p = <<p[1]>> /\ p # << >>
<1>1. p \in Seq({p[i] : i \in DOMAIN p}) /\ \A i \in DOMAIN p : IsNode(p[i], VariantTypes)
  BY DEF IsVariant, IsTree
<1>2. p # << >> => 1 \in DOMAIN p
  BY <1>1
<1>3. Len(p) = 1 => p = <<p[1]>> /\ p # << >>
  BY <1>1
<1> QED BY <1>1, <1>2, <1>3, MovedSeq DEF DartNode, DartAt

LEMMA ChildrenMean ==
  ASSUME NEW v, IsVariant(v)
  PROVE  /\ \A k \in Children(v) :
              /\ <<k>> \in DOMAIN v /\ IsNode(k, VariantTypes)
              /\ Means(v)[<<DartNode(k)>>] = DartNode(v[<<k>>])
         /\ Children(Means(v)) = {DartNode(k) : k \in Children(v)}
         /\ IsFiniteSet(Children(v))
<1>1. ASSUME NEW k \in Children(v)
      PROVE  /\ <<k>> \in DOMAIN v /\ IsNode(k, VariantTypes)
             /\ Means(v)[<<DartNode(k)>>] = DartNode(v[<<k>>])
  <2>1. PICK p \in DOMAIN v : Len(p) = 1 /\ k = p[1]
    BY DEF Children
  <2>2. <<k>> \in DOMAIN v /\ IsNode(k, VariantTypes)
    BY <2>1, PositionMeans
  <2>3. DartAt(<<k>>) = <<DartNode(k)>>
    BY DEF Moved, DartNode, DartAt
  <2> QED BY <2>2, <2>3, MeansApart
<1>2. ASSUME NEW n \in Children(Means(v)) PROVE n \in {DartNode(k) : k \in Children(v)}
  <2>1. PICK q \in DOMAIN Means(v) : Len(q) = 1 /\ n = q[1]
    BY DEF Children
  <2>2. PICK p \in DOMAIN v : q = DartAt(p)
    BY <2>1, MeansApart
  <2>3. Len(p) = 1 /\ p # << >> /\ n = DartNode(p[1])
    BY <2>1, <2>2, PositionMeans
  <2>4. p[1] \in Children(v)
    BY <2>3 DEF Children
  <2> QED BY <2>3, <2>4
<1>3. ASSUME NEW k \in Children(v) PROVE DartNode(k) \in Children(Means(v))
  <2>1. PICK p \in DOMAIN v : Len(p) = 1 /\ k = p[1]
    BY DEF Children
  <2> QED BY <2>1, PositionMeans, MeansApart DEF Children
<1>4. IsFiniteSet(Children(v))
  <2> DEFINE ps == {p \in DOMAIN v : Len(p) = 1}
             f  == [p \in ps |-> p[1]]
  <2>1. f \in Surjection(ps, Children(v))
    BY DEF Surjection, Children
  <2>2. IsFiniteSet(ps)
    BY FS_Subset DEF IsVariant, IsTree
  <2> QED BY <2>1, <2>2, FS_Surjection
<1> QED BY <1>1, <1>2, <1>3, <1>4

\* Dart sees the children that were kept.
LEMMA PrunedMeans ==
  ASSUME NEW v, IsVariant(v), NEW keys \in SUBSET Children(v)
  PROVE  /\ IsVariant(Pruned(v, keys))
         /\ Children(Pruned(v, keys)) = keys
         /\ Means(Pruned(v, keys)) = Pruned(Means(v), {DartNode(k) : k \in keys})
<1> DEFINE u == Pruned(v, keys)
           dart == {DartNode(k) : k \in keys}
           w == Pruned(Means(v), dart)
<1>1. /\ DOMAIN u = {p \in DOMAIN v : p = << >> \/ p[1] \in keys}
      /\ \A p \in DOMAIN u : u[p] = v[p]
      /\ u = [p \in DOMAIN u |-> u[p]]
  BY DEF Pruned
<1>2. IsVariant(u)
  <2>1. IsFiniteSet(DOMAIN u)
    BY <1>1, FS_Subset DEF IsVariant, IsTree
  <2> HIDE DEF u
  <2> QED BY <1>1, <2>1 DEF IsVariant, IsTree
<1>3. Children(u) = keys
  <2>1. ASSUME NEW k \in keys PROVE k \in Children(u)
    <3>1. <<k>> \in DOMAIN v
      BY ChildrenMean
    <3>2. <<k>> \in DOMAIN u /\ Len(<<k>>) = 1 /\ <<k>>[1] = k
      BY <1>1, <3>1
    <3> QED BY <3>2 DEF Children
  <2>2. ASSUME NEW k \in Children(u) PROVE k \in keys
    <3>1. PICK p \in DOMAIN u : Len(p) = 1 /\ k = p[1]
      BY DEF Children
    <3>2. p # << >>
      BY <3>1
    <3> QED BY <1>1, <3>1, <3>2
  <2> QED BY <2>1, <2>2
<1>4. DOMAIN w = {q \in DOMAIN Means(v) : q = << >> \/ q[1] \in dart}
      /\ (\A q \in DOMAIN w : w[q] = Means(v)[q]) /\ w = [q \in DOMAIN w |-> w[q]]
  BY DEF Pruned
<1>5. ASSUME NEW p \in DOMAIN v
      PROVE  /\ p \in DOMAIN u <=> DartAt(p) \in DOMAIN w
             /\ p \in DOMAIN u => w[DartAt(p)] = DartNode(u[p])
  <2>1. /\ DartAt(p) = << >> <=> p = << >>
        /\ p # << >> => IsNode(p[1], VariantTypes) /\ DartAt(p)[1] = DartNode(p[1])
        /\ DartAt(p) \in DOMAIN Means(v) /\ Means(v)[DartAt(p)] = DartNode(v[p])
    BY PositionMeans, MeansApart
  <2>2. \A k \in keys : IsNode(k, VariantTypes)
    BY ChildrenMean
  <2>3. p # << >> => (p[1] \in keys <=> DartNode(p[1]) \in dart)
    BY <2>1, <2>2, DartNodeApart
  <2> HIDE DEF u, w, dart
  <2>4. p \in DOMAIN u <=> DartAt(p) \in DOMAIN w
    BY <1>1, <1>4, <2>1, <2>3
  <2> QED BY <1>1, <1>4, <2>1, <2>4
<1> HIDE DEF u, w, dart
<1>6. \A q \in DOMAIN w : \E p \in DOMAIN u : q = DartAt(p)
  <2> TAKE q \in DOMAIN w
  <2>1. PICK p \in DOMAIN v : q = DartAt(p)
    BY <1>4, MeansApart
  <2> QED BY <1>5, <2>1
<1>7. \A p \in DOMAIN u : DartAt(p) \in DOMAIN w /\ w[DartAt(p)] = DartNode(u[p])
  BY <1>1, <1>5
<1>8. w = Means(u)
  BY <1>2, <1>4, <1>6, <1>7, MeansIs
<1> QED BY <1>2, <1>3, <1>8 DEF u, w, dart

\* Dart sees the children that were updated.
LEMMA MergeMeans ==
  ASSUME NEW old, IsVariant(old), NEW new, IsVariant(new)
  PROVE  /\ IsVariant(Merge(old, new))
         /\ Means(Merge(old, new)) = Merge(Means(old), Means(new))
<1> DEFINE u == Merge(old, new)
           w == Merge(Means(old), Means(new))
           kept == {p \in DOMAIN old : p # << >> /\ p[1] \notin Children(new)}
           dart == {q \in DOMAIN Means(old) : q # << >> /\ q[1] \notin Children(Means(new))}
<1>1. /\ DOMAIN u = DOMAIN new \cup kept
      /\ \A p \in DOMAIN u : u[p] = IF p \in DOMAIN new THEN new[p] ELSE old[p]
      /\ u = [p \in DOMAIN u |-> u[p]]
  BY DEF Merge
<1>2. /\ DOMAIN w = DOMAIN Means(new) \cup dart
      /\ \A q \in DOMAIN w : w[q] = IF q \in DOMAIN Means(new) THEN Means(new)[q] ELSE Means(old)[q]
      /\ w = [q \in DOMAIN w |-> w[q]]
  BY DEF Merge
<1>3. ASSUME NEW p \in DOMAIN old PROVE p \in kept <=> DartAt(p) \in dart
  <2>1. /\ DartAt(p) = << >> <=> p = << >>
        /\ p # << >> => IsNode(p[1], VariantTypes) /\ DartAt(p)[1] = DartNode(p[1])
        /\ DartAt(p) \in DOMAIN Means(old)
    BY PositionMeans, MeansApart
  <2>2. /\ \A k \in Children(new) : IsNode(k, VariantTypes)
        /\ Children(Means(new)) = {DartNode(k) : k \in Children(new)}
    BY ChildrenMean
  <2>3. p # << >> => (p[1] \in Children(new) <=> DartNode(p[1]) \in Children(Means(new)))
    BY <2>1, <2>2, DartNodeApart
  <2> QED BY <2>1, <2>3
<1>4. ASSUME NEW p \in DOMAIN old, DartAt(p) \in DOMAIN Means(new)
      PROVE  p \in DOMAIN new
  <2>1. PICK q \in DOMAIN new : DartAt(p) = DartAt(q)
    <3>1. \E q \in DOMAIN new : DartAt(p) = DartAt(q)
      BY <1>4, MeansApart
    <3> QED BY <3>1
  <2>2. DOMAIN p = DOMAIN q /\ \A i \in DOMAIN p : DartNode(p[i]) = DartNode(q[i])
    BY <2>1 DEF Moved, DartNode, DartAt
  <2>3. /\ p \in Seq({p[i] : i \in DOMAIN p}) /\ \A i \in DOMAIN p : IsNode(p[i], VariantTypes)
        /\ q \in Seq({q[i] : i \in DOMAIN q}) /\ \A i \in DOMAIN q : IsNode(q[i], VariantTypes)
    BY DEF IsVariant, IsTree
  <2>4. \A i \in DOMAIN p : p[i] = q[i]
    BY <2>2, <2>3, DartNodeApart
  <2>5. p = [i \in DOMAIN p |-> p[i]] /\ q = [i \in DOMAIN q |-> q[i]]
    BY <2>3
  <2>6. p = q
    BY <2>2, <2>4, <2>5
  <2> QED BY <2>6
<1>5. IsVariant(u)
  <2>1. IsFiniteSet(DOMAIN u)
    <3>1. IsFiniteSet(DOMAIN old) /\ IsFiniteSet(DOMAIN new)
      BY DEF IsVariant, IsTree
    <3>2. IsFiniteSet(kept)
      BY <3>1, FS_Subset
    <3>3. IsFiniteSet(DOMAIN new \cup kept)
      BY <3>1, <3>2, FS_Union
    <3> QED BY <1>1, <3>3
  <2> HIDE DEF u
  <2> QED BY <1>1, <2>1 DEF IsVariant, IsTree
<1>6. kept \subseteq DOMAIN old /\ dart \subseteq DOMAIN Means(old)
  OBVIOUS
<1> HIDE DEF u, w, kept, dart
<1>7. ASSUME NEW p \in DOMAIN u PROVE DartAt(p) \in DOMAIN w /\ w[DartAt(p)] = DartNode(u[p])
  <2>1. CASE p \in DOMAIN new
    BY <1>1, <1>2, <2>1, MeansApart
  <2>2. CASE p \notin DOMAIN new
    <3>1. p \in kept /\ p \in DOMAIN old /\ DartAt(p) \notin DOMAIN Means(new)
      BY <1>1, <1>4, <1>6, <2>2
    <3>2. DartAt(p) \in DOMAIN w /\ Means(old)[DartAt(p)] = DartNode(old[p])
      BY <1>2, <1>3, <3>1, MeansApart
    <3> QED BY <1>1, <1>2, <3>1, <3>2, <2>2
  <2> QED BY <2>1, <2>2
<1>8. ASSUME NEW q \in DOMAIN w PROVE \E p \in DOMAIN u : q = DartAt(p)
  <2>1. CASE q \in DOMAIN Means(new)
    BY <1>1, <2>1, MeansApart
  <2>2. CASE q \in dart
    <3>1. PICK p \in DOMAIN old : q = DartAt(p)
      BY <1>6, <2>2, MeansApart
    <3> QED BY <1>1, <1>3, <2>2, <3>1
  <2> QED BY <1>2, <2>1, <2>2
<1>9. w = Means(u)
  BY <1>2, <1>5, <1>7, <1>8, MeansIs
<1> QED BY <1>5, <1>9 DEF u, w

-----------------------------------------------------------------------------
(* The query of a list of modifiers.                                        *)

\* The order that a modifier asks for.
OrderOf(m) ==
  IF m.name = "orderByChild" THEN [name |-> m.name, path |-> m.path] ELSE [name |-> m.name]

\* What a query takes from the modifiers ms up to the i-th.
QueryIs(q, ms, i) ==
  /\ q = [order |-> q.order, start |-> q.start, end |-> q.end,
          first |-> q.first, last |-> q.last]
  /\ \A j \in 1 .. i : ms[j].type = "orderBy" => q.order = OrderOf(ms[j])
  /\ (\A j \in 1 .. i : ms[j].type # "orderBy") => q.order = [name |-> "orderByPriority"]
  /\ q.start = {ToFirebaseVariant(ms[j].value) : j \in {j \in 1 .. i : ms[j].name = "startAt"}}
  /\ q.end   = {ToFirebaseVariant(ms[j].value) : j \in {j \in 1 .. i : ms[j].name = "endAt"}}
  /\ q.first = {ms[j].limit : j \in {j \in 1 .. i : ms[j].name = "limitToFirst"}}
  /\ q.last  = {ms[j].limit : j \in {j \in 1 .. i : ms[j].name = "limitToLast"}}

\* One more turn of the loop.
LEMMA ApplyIs ==
  ASSUME NEW ms \in Modifiers, NEW i \in 1 .. Len(ms), NEW q, QueryIs(q, ms, i - 1)
  PROVE  QueryIs(Apply(q, ms[i]), ms, i)
<1> DEFINE m == ms[i]
           Now(name) == {j \in 1 .. i : ms[j].name = name}
           Old(name) == {j \in 1 .. i - 1 : ms[j].name = name}
<1>1. /\ Len(ms) \in Nat /\ DOMAIN ms = 1 .. Len(ms)
      /\ \A j, k \in 1 .. Len(ms) : Alike(ms[j], ms[k]) => j = k
      /\ \A j \in 1 .. Len(ms) :
           ms[j].type \in DOMAIN ModifierNames /\ ms[j].name \in ModifierNames[ms[j].type]
  <2>1. /\ ms \in Seq({ms[j] : j \in DOMAIN ms})
        /\ \A j, k \in DOMAIN ms : Alike(ms[j], ms[k]) => j = k
        /\ \A j \in DOMAIN ms :
             ms[j].type \in DOMAIN ModifierNames /\ ms[j].name \in ModifierNames[ms[j].type]
    BY ModifiersAssumption DEF ModifiersAssumption
  <2> QED BY <2>1
<1>2. ASSUME NEW name PROVE Now(name) = IF name = m.name THEN {i} ELSE Old(name)
  <2>1. \A j \in 1 .. i : j \in 1 .. Len(ms) /\ (j = i \/ j \in 1 .. i - 1)
    BY <1>1
  <2>2. \A j \in 1 .. i : ms[j].name = m.name => j = i
    <3> SUFFICES ASSUME NEW j \in 1 .. i, ms[j].name = ms[i].name PROVE j = i
      OBVIOUS
    <3>1. Alike(ms[j], ms[i])
      BY DEF Alike
    <3> QED BY <1>1, <2>1, <3>1
  <2>3. CASE name = m.name
    BY <2>2, <2>3
  <2>4. CASE name # m.name
    BY <2>1, <2>4
  <2> QED BY <2>3, <2>4
<1>3. \/ m.type = "orderBy" /\ m.name \in {"orderByChild", "orderByKey", "orderByValue", "orderByPriority"}
      \/ m.type = "cursor" /\ m.name \in {"startAt", "startAfter", "endAt", "endBefore"}
      \/ m.type = "limit" /\ m.name \in {"limitToFirst", "limitToLast"}
  BY <1>1 DEF ModifierNames
<1>4. ASSUME m.type = "orderBy", NEW j \in 1 .. i, ms[j].type = "orderBy" PROVE j = i
  <2>1. j \in 1 .. Len(ms) /\ Alike(ms[j], ms[i])
    BY <1>1, <1>4 DEF Alike
  <2> QED BY <1>1, <2>1
<1> DEFINE r == Apply(q, m)
<1>6. /\ \A j \in 1 .. i : ms[j].type = "orderBy" => r.order = OrderOf(ms[j])
      /\ (\A j \in 1 .. i : ms[j].type # "orderBy") => r.order = [name |-> "orderByPriority"]
  <2>1. CASE m.type = "orderBy"
    <3>1. r.order = OrderOf(m) /\ i \in 1 .. i
      BY <1>1, <1>3, <2>1 DEF Apply, ApplyOrderModifier, OrderOf, QueryIs
    <3> HIDE DEF r
    <3> QED BY <1>4, <2>1, <3>1
  <2>2. CASE m.type # "orderBy"
    <3>1. r.order = q.order
      BY <1>3, <2>2 DEF Apply, ApplyCursorModifier, ApplyLimitModifier, QueryIs
    <3>2. \A j \in 1 .. i : j \in 1 .. i - 1 \/ j = i
      BY <1>1
    <3>3. \A j \in 1 .. i - 1 : j \in 1 .. i
      BY <1>1
    <3> HIDE DEF r
    <3> QED BY <2>2, <3>1, <3>2, <3>3 DEF QueryIs
  <2> QED BY <2>1, <2>2
<1>7. /\ r.start = IF m.name = "startAt" THEN {ToFirebaseVariant(m.value)} ELSE q.start
      /\ r.end = IF m.name = "endAt" THEN {ToFirebaseVariant(m.value)} ELSE q.end
      /\ r.first = IF m.name = "limitToFirst" THEN {m.limit} ELSE q.first
      /\ r.last = IF m.name = "limitToLast" THEN {m.limit} ELSE q.last
      /\ r = [order |-> r.order, start |-> r.start, end |-> r.end, first |-> r.first, last |-> r.last]
  BY <1>3 DEF Apply, ApplyOrderModifier, ApplyCursorModifier, ApplyLimitModifier, QueryIs
<1> HIDE DEF r
<1>8. /\ r.start = {ToFirebaseVariant(ms[j].value) : j \in Now("startAt")}
      /\ r.end   = {ToFirebaseVariant(ms[j].value) : j \in Now("endAt")}
      /\ r.first = {ms[j].limit : j \in Now("limitToFirst")}
      /\ r.last  = {ms[j].limit : j \in Now("limitToLast")}
  <2>1. /\ q.start = {ToFirebaseVariant(ms[j].value) : j \in Old("startAt")}
        /\ q.end   = {ToFirebaseVariant(ms[j].value) : j \in Old("endAt")}
        /\ q.first = {ms[j].limit : j \in Old("limitToFirst")}
        /\ q.last  = {ms[j].limit : j \in Old("limitToLast")}
    BY DEF QueryIs
  <2> HIDE DEF Now, Old
  <2> QED BY <1>2, <1>7, <2>1
<1> QED BY <1>6, <1>7, <1>8 DEF QueryIs, r

LEMMA QueryOfModifiers ==
  ASSUME NEW ms \in Modifiers
  PROVE  QueryIs(GetDatabaseQueryFromArguments(ms), ms, Len(ms))
<1>1. Len(ms) \in Nat
  BY ModifiersAssumption DEF ModifiersAssumption
<1>2. PICK query : /\ query = [i \in 0 .. Len(ms) |->
                                IF i = 0 THEN Query0 ELSE Apply(query[i - 1], ms[i])]
                   /\ GetDatabaseQueryFromArguments(ms) = query[Len(ms)]
  BY <1>1, QueryRecursion
<1> DEFINE S == {i \in 0 .. Len(ms) : QueryIs(query[i], ms, i)}
<1>3. query[0] = Query0 /\ \A i \in 1 .. Len(ms) : query[i] = Apply(query[i - 1], ms[i])
  BY <1>1, <1>2
<1>4. 0 \in S
  <2>1. QueryIs(Query0, ms, 0)
    BY DEF QueryIs, Query0
  <2> QED BY <1>1, <1>3, <2>1
<1>5. ASSUME NEW i \in 0 .. Len(ms) - 1, i \in S PROVE i + 1 \in S
  <2>1. i + 1 \in 1 .. Len(ms) /\ (i + 1) - 1 = i
    BY <1>1
  <2>2. QueryIs(Apply(query[i], ms[i + 1]), ms, i + 1)
    BY <1>5, <2>1, ApplyIs
  <2> QED BY <1>1, <1>3, <2>1, <2>2
<1>6. 0 .. Len(ms) \subseteq S
  <2> HIDE DEF S
  <2> QED BY <1>1, <1>4, <1>5, Induction
<1>7. Len(ms) \in S
  <2> HIDE DEF S
  <2> QED BY <1>1, <1>6
<1> QED BY <1>2, <1>7

-----------------------------------------------------------------------------
(* What a query takes and what Dart asks for.                               *)

\* Dart numbers as many children as the SDK.
LEMMA SameCardinality ==
  ASSUME NEW S, IsFiniteSet(S), \A k \in S : IsNode(k, VariantTypes)
  PROVE  Cardinality({DartNode(k) : k \in S}) = Cardinality(S)
<1> DEFINE f == [k \in S |-> DartNode(k)]
           T == {DartNode(k) : k \in S}
<1>1. \A j, k \in S : f[j] = f[k] => j = k
  BY DartNodeApart
<1>2. f \in [S -> T] /\ \A n \in T : \E k \in S : f[k] = n
  OBVIOUS
<1>3. f \in Bijection(S, T)
  BY <1>1, <1>2 DEF Bijection, Injection, Surjection, IsInjective
<1> QED BY <1>3, FS_Bijection DEF ExistsBijection

\* Dart orders nodes and bounds as the SDK does.
LEMMA RankMeans ==
  ASSUME NEW n, IsNode(n, VariantTypes)
  PROVE  RankOf(DartNode(n)) = RankOf(n)
<1>1. n[1] \in VariantTypes /\ DartNode(n) = <<VariantDart[n[1]], n[2]>>
  BY DEF IsNode, DartNode, Retyped
<1>2. VariantDart[n[1]] = CASE n[1] = "int64" -> "int"
                            [] n[1] = "vector" -> "list"
                            [] OTHER -> n[1]
  BY <1>1 DEF VariantDart, VariantTypes, EncodableTypes, DartType, EncodableType, Lists
<1>3. DartNode(n)[1] = VariantDart[n[1]] /\ DartNode(n)[2] = n[2]
  BY <1>1
<1> QED BY <1>1, <1>2, <1>3 DEF RankOf, VariantTypes

LEMMA BoundMeans ==
  ASSUME NEW ms \in Modifiers, NEW i \in DOMAIN ms, ms[i].name \in {"startAt", "endAt"}
  PROVE  RankOf(ToFirebaseVariant(ms[i].value)[<< >>]) = RankOf(Seen(ms[i].value)[<< >>])
<1> DEFINE v == ms[i].value
           n == v[<< >>]
<1>1. ms[i].type \in DOMAIN ModifierNames /\ ms[i].name \in ModifierNames[ms[i].type]
  BY ModifiersAssumption DEF ModifiersAssumption
<1>2. ms[i].type = "cursor"
  BY <1>1 DEF ModifierNames
<1>3. /\ IsTree(v, EncodableTypes \ {"custom"})
      /\ n[1] \in {"bool", "int32", "int64", "double", "string"}
  BY <1>2, ModifiersAssumption DEF ModifiersAssumption
<1> HIDE DEF v
<1>4. /\ ToFirebaseVariant(v)[<< >>] = <<VariantType[n[1]], n[2]>>
      /\ Seen(v)[<< >>] = <<DartType[n[1]], n[2]>>
  BY <1>3, ConvertedRoot DEF ToFirebaseVariant, Seen, Retyped
<1>5. CASE n[1] \in {"int32", "int64"}
  <2>1. VariantType[n[1]] = "int64" /\ DartType[n[1]] = "int"
    BY <1>5 DEF VariantType, DartType, EncodableTypes, Lists
  <2> QED BY <1>4, <2>1 DEF RankOf, v
<1>6. CASE n[1] \in {"bool", "double", "string"}
  <2>1. VariantType[n[1]] = n[1] /\ DartType[n[1]] = n[1]
    BY <1>6 DEF VariantType, DartType, EncodableTypes, Lists
  <2> QED BY <1>4, <2>1 DEF v
<1> QED BY <1>3, <1>5, <1>6

\* What a query orders a child by is what Dart orders it by.
LEMMA OrderMeans ==
  ASSUME NEW ms \in Modifiers, NEW q, QueryIs(q, ms, Len(ms)), NEW v, IsVariant(v),
         NEW k \in Children(v)
  PROVE  /\ IsNode(OrderedBy(q, v, k), VariantTypes)
         /\ DartOrderedBy(ms, Means(v), DartNode(k)) = DartNode(OrderedBy(q, v, k))
<1> DEFINE w == Means(v)
           null == <<"null", 0>>
           Child(path) == <<DartNode(k), path>>
<1>1. /\ DOMAIN ms = 1 .. Len(ms)
      /\ \A i, j \in 1 .. Len(ms) : Alike(ms[i], ms[j]) => i = j
      /\ \A i \in 1 .. Len(ms) :
           /\ ms[i].type \in DOMAIN ModifierNames /\ ms[i].name \in ModifierNames[ms[i].type]
           /\ ms[i].name = "orderByChild" => IsNode(ms[i].path, {"string"})
  <2>1. /\ ms \in Seq({ms[j] : j \in DOMAIN ms})
        /\ \A j, l \in DOMAIN ms : Alike(ms[j], ms[l]) => j = l
        /\ \A j \in DOMAIN ms :
             /\ ms[j].type \in DOMAIN ModifierNames /\ ms[j].name \in ModifierNames[ms[j].type]
             /\ ms[j].name = "orderByChild" => IsNode(ms[j].path, {"string"})
    BY ModifiersAssumption DEF ModifiersAssumption
  <2> QED BY <2>1
<1>2. \A i \in 1 .. Len(ms) :
        ms[i].type = "orderBy" <=>
          ms[i].name \in {"orderByChild", "orderByKey", "orderByValue", "orderByPriority"}
  BY <1>1 DEF ModifierNames
<1>3. /\ IsNode(k, VariantTypes) /\ IsNode(v[<<k>>], VariantTypes)
      /\ w[<<DartNode(k)>>] = DartNode(v[<<k>>])
  BY ChildrenMean DEF IsVariant, IsTree
<1>4. IsNode(null, VariantTypes) /\ DartNode(null) = null
  BY DEF IsNode, VariantTypes, DartNode, Retyped, VariantDart, DartType, EncodableType,
         EncodableTypes, Lists
<1>5. ASSUME NEW path, IsNode(path, {"string"})
      PROVE  /\ Child(path) \in DOMAIN w <=> <<k, path>> \in DOMAIN v
             /\ <<k, path>> \in DOMAIN v => /\ IsNode(v[<<k, path>>], VariantTypes)
                                           /\ w[Child(path)] = DartNode(v[<<k, path>>])
  <2>1. IsNode(path, VariantTypes) /\ DartNode(path) = path
    BY <1>5 DEF IsNode, VariantTypes, DartNode, Retyped, VariantDart, DartType, EncodableType,
                EncodableTypes, Lists
  <2>2. DartAt(<<k, path>>) = Child(path)
    BY <2>1 DEF DartAt, Moved, DartNode
  <2>3. <<k, path>> \in DOMAIN v => /\ Child(path) \in DOMAIN w
                                    /\ w[Child(path)] = DartNode(v[<<k, path>>])
                                    /\ IsNode(v[<<k, path>>], VariantTypes)
    <3> DEFINE at == <<k, path>>
    <3> HIDE DEF at
    <3>1. at \in DOMAIN v => DartAt(at) \in DOMAIN w /\ w[DartAt(at)] = DartNode(v[at])
      BY MeansApart DEF w
    <3>2. at \in DOMAIN v => IsNode(v[at], VariantTypes)
      BY DEF IsVariant, IsTree
    <3> QED BY <2>2, <3>1, <3>2 DEF at
  <2>4. ASSUME Child(path) \in DOMAIN w PROVE <<k, path>> \in DOMAIN v
    <3>1. PICK p \in DOMAIN v : Child(path) = DartAt(p)
      BY <2>4, MeansApart
    <3>2. p \in Seq({p[i] : i \in DOMAIN p}) /\ \A i \in DOMAIN p : IsNode(p[i], VariantTypes)
      BY DEF IsVariant, IsTree
    <3>3. Len(p) = 2 /\ DOMAIN p = 1 .. 2
      <4>1. Len(DartAt(p)) = Len(p)
        BY PositionMeans
      <4>2. Len(Child(path)) = 2
        OBVIOUS
      <4> HIDE DEF Child
      <4>3. Len(p) = 2
        BY <3>1, <4>1, <4>2
      <4> QED BY <3>2, <4>3
    <3>4. DartNode(p[1]) = DartNode(k) /\ DartNode(p[2]) = DartNode(path)
      <4>1. DartAt(p)[1] = DartNode(p[1]) /\ DartAt(p)[2] = DartNode(p[2])
        BY <3>3 DEF DartAt, Moved, DartNode
      <4> QED BY <2>1, <3>1, <4>1
    <3>5. p[1] = k /\ p[2] = path
      BY <1>3, <2>1, <3>2, <3>3, <3>4, DartNodeApart
    <3>6. p = <<k, path>>
      BY <3>2, <3>3, <3>5
    <3> QED BY <3>6
  <2> QED BY <2>3, <2>4
<1> HIDE DEF w, null
<1>6. CASE \A i \in 1 .. Len(ms) : ms[i].type # "orderBy"
  <2>1. q.order = [name |-> "orderByPriority"]
    BY <1>6 DEF QueryIs
  <2>2. OrderedBy(q, v, k) = null
    BY <2>1 DEF OrderedBy, null
  <2>3. \A name \in {"orderByChild", "orderByKey", "orderByValue"} : Named(ms, name) = {}
    BY <1>1, <1>2, <1>6 DEF Named
  <2>4. DartOrderedBy(ms, w, DartNode(k)) = null
    BY <2>3 DEF DartOrderedBy, null
  <2> QED BY <1>4, <2>2, <2>4 DEF w
<1>7. ASSUME NEW i \in 1 .. Len(ms), ms[i].type = "orderBy"
      PROVE  /\ IsNode(OrderedBy(q, v, k), VariantTypes)
             /\ DartOrderedBy(ms, w, DartNode(k)) = DartNode(OrderedBy(q, v, k))
  <2>1. q.order = OrderOf(ms[i])
    BY <1>7 DEF QueryIs
  <2>2. ASSUME NEW name \in {"orderByChild", "orderByKey", "orderByValue", "orderByPriority"}
        PROVE  Named(ms, name) = IF ms[i].name = name THEN {i} ELSE {}
    <3>1. \A j \in 1 .. Len(ms) : ms[j].name = name => j = i
      <4> SUFFICES ASSUME NEW j \in 1 .. Len(ms), ms[j].name = name PROVE j = i
        OBVIOUS
      <4>1. Alike(ms[j], ms[i])
        BY <1>2, <1>7, <2>2 DEF Alike
      <4> QED BY <1>1, <4>1
    <3> QED BY <1>1, <3>1 DEF Named
  <2>3. CASE ms[i].name = "orderByKey"
    <3>1. OrderedBy(q, v, k) = k
      BY <2>1, <2>3 DEF OrderedBy, OrderOf
    <3>2. DartOrderedBy(ms, w, DartNode(k)) = DartNode(k)
      <4>1. Named(ms, "orderByKey") # {} /\ Named(ms, "orderByValue") = {} /\ Named(ms, "orderByChild") = {}
        BY <2>2, <2>3
      <4> QED BY <4>1 DEF DartOrderedBy
    <3> QED BY <1>3, <3>1, <3>2
  <2>4. CASE ms[i].name = "orderByValue"
    <3>1. OrderedBy(q, v, k) = v[<<k>>]
      BY <2>1, <2>4 DEF OrderedBy, OrderOf
    <3>2. DartOrderedBy(ms, w, DartNode(k)) = w[<<DartNode(k)>>]
      <4>1. Named(ms, "orderByKey") = {} /\ Named(ms, "orderByValue") # {} /\ Named(ms, "orderByChild") = {}
        BY <2>2, <2>4
      <4> QED BY <4>1 DEF DartOrderedBy
    <3> QED BY <1>3, <3>1, <3>2
  <2>5. CASE ms[i].name = "orderByPriority"
    <3>1. OrderedBy(q, v, k) = null
      BY <2>1, <2>5 DEF OrderedBy, OrderOf, null
    <3>2. DartOrderedBy(ms, w, DartNode(k)) = null
      <4>1. Named(ms, "orderByKey") = {} /\ Named(ms, "orderByValue") = {} /\ Named(ms, "orderByChild") = {}
        BY <2>2, <2>5
      <4> QED BY <4>1 DEF DartOrderedBy, null
    <3> QED BY <1>4, <3>1, <3>2
  <2>6. CASE ms[i].name = "orderByChild"
    <3> DEFINE path == ms[i].path
               child == {j \in Named(ms, "orderByChild") : <<DartNode(k), ms[j].path>> \in DOMAIN w}
    <3>1. IsNode(path, {"string"})
      BY <1>1, <2>6
    <3>2. Named(ms, "orderByKey") = {} /\ Named(ms, "orderByValue") = {} /\ Named(ms, "orderByChild") = {i}
      BY <2>2, <2>6
    <3>3. q.order.name = "orderByChild" /\ q.order.path = path
      BY <2>1, <2>6 DEF OrderOf
    <3>4. CASE <<k, path>> \in DOMAIN v
      <4>1. OrderedBy(q, v, k) = v[<<k, path>>]
        BY <3>3, <3>4 DEF OrderedBy
      <4>2. child = {i}
        BY <1>5, <3>1, <3>2, <3>4
      <4>3. (CHOOSE j \in child : TRUE) = i /\ child # {}
        BY <4>2
      <4>4. DartOrderedBy(ms, w, DartNode(k)) = w[Child(path)]
        BY <3>2, <4>3 DEF DartOrderedBy
      <4> QED BY <1>5, <3>1, <3>4, <4>1, <4>4
    <3>5. CASE <<k, path>> \notin DOMAIN v
      <4>1. OrderedBy(q, v, k) = null
        BY <3>3, <3>5 DEF OrderedBy, null
      <4>2. child = {}
        BY <1>5, <3>1, <3>2, <3>5
      <4>3. DartOrderedBy(ms, w, DartNode(k)) = null
        BY <3>2, <4>2 DEF DartOrderedBy, null
      <4> QED BY <1>4, <4>1, <4>3
    <3> QED BY <3>4, <3>5
  <2> QED BY <1>2, <1>7, <2>3, <2>4, <2>5, <2>6
<1> QED BY <1>6, <1>7 DEF w

LEMMA TakenIsAskedFor ==
  ASSUME NEW ms \in Modifiers, NEW q, QueryIs(q, ms, Len(ms)), NEW v, IsVariant(v)
  PROVE  {DartNode(k) : k \in Taken(q, v)} = DartAsksFor(ms, Means(v))
<1> DEFINE w == Means(v)
           in == InRange(q, v)
           dart == DartInRange(ms, w)
<1>1. /\ Children(w) = {DartNode(k) : k \in Children(v)}
      /\ IsFiniteSet(Children(v))
      /\ \A k \in Children(v) :
           IsNode(k, VariantTypes) /\ DartNode(k)[2] = k[2]
  BY ChildrenMean DEF DartNode, Retyped
<1>2. DOMAIN ms = 1 .. Len(ms)
  BY ModifiersAssumption DEF ModifiersAssumption
<1>4. \A k \in Children(v) : DartRank(ms, w, DartNode(k)) = Rank(q, v, k)
  BY OrderMeans, RankMeans DEF DartRank, Rank
<1>5. /\ q.start = {ToFirebaseVariant(ms[i].value) : i \in Named(ms, "startAt")}
      /\ q.end = {ToFirebaseVariant(ms[i].value) : i \in Named(ms, "endAt")}
      /\ q.first = {ms[i].limit : i \in Named(ms, "limitToFirst")}
      /\ q.last = {ms[i].limit : i \in Named(ms, "limitToLast")}
  BY <1>2 DEF QueryIs, Named
<1>6. \A i \in Named(ms, "startAt") \cup Named(ms, "endAt") :
        RankOf(ToFirebaseVariant(ms[i].value)[<< >>]) = RankOf(Seen(ms[i].value)[<< >>])
  BY BoundMeans DEF Named
<1> HIDE DEF w, in, dart
<1>7. \A k \in Children(v) : k \in in <=> DartNode(k) \in dart
  <2> TAKE k \in Children(v)
  <2>1. DartNode(k) \in Children(w)
    BY <1>1
  <2>2. /\ (\A bound \in q.start : ~Less(Rank(q, v, k), RankOf(bound[<< >>])))
             <=> \A i \in Named(ms, "startAt") : ~Less(Rank(q, v, k), RankOf(Seen(ms[i].value)[<< >>]))
        /\ (\A bound \in q.end : ~Less(RankOf(bound[<< >>]), Rank(q, v, k)))
             <=> \A i \in Named(ms, "endAt") : ~Less(RankOf(Seen(ms[i].value)[<< >>]), Rank(q, v, k))
    BY <1>5, <1>6
  <2> QED BY <1>4, <2>1, <2>2 DEF InRange, DartInRange, in, dart
<1>8. in \subseteq Children(v) /\ dart \subseteq Children(w)
  BY DEF in, dart, InRange, DartInRange
<1>9. dart = {DartNode(k) : k \in in}
  BY <1>1, <1>7, <1>8
<1>10. \A j, k \in in : DartBefore(ms, w, DartNode(j), DartNode(k)) <=> Before(q, v, j, k)
  BY <1>1, <1>4, <1>8 DEF DartBefore, Before
<1>11. ASSUME NEW k \in in
       PROVE  /\ Cardinality({j \in dart : DartBefore(ms, w, j, DartNode(k))})
                   = Cardinality({j \in in : Before(q, v, j, k)})
              /\ Cardinality({j \in dart : DartBefore(ms, w, DartNode(k), j)})
                   = Cardinality({j \in in : Before(q, v, k, j)})
  <2> DEFINE below == {j \in in : Before(q, v, j, k)}
             above == {j \in in : Before(q, v, k, j)}
  <2>1. /\ {j \in dart : DartBefore(ms, w, j, DartNode(k))} = {DartNode(j) : j \in below}
        /\ {j \in dart : DartBefore(ms, w, DartNode(k), j)} = {DartNode(j) : j \in above}
    BY <1>9, <1>10
  <2>2. IsFiniteSet(below) /\ IsFiniteSet(above)
    <3>1. below \subseteq Children(v) /\ above \subseteq Children(v)
      BY <1>8
    <3> QED BY <1>1, <3>1, FS_Subset
  <2>3. \A j \in below \cup above : IsNode(j, VariantTypes)
    BY <1>1, <1>8
  <2> HIDE DEF below, above
  <2>4. /\ Cardinality({DartNode(j) : j \in below}) = Cardinality(below)
        /\ Cardinality({DartNode(j) : j \in above}) = Cardinality(above)
    BY <2>2, <2>3, SameCardinality
  <2> QED BY <2>1, <2>4 DEF below, above
<1>12. ASSUME NEW k \in in PROVE k \in Taken(q, v) <=> DartNode(k) \in DartAsksFor(ms, w)
  <2>1. DartNode(k) \in dart
    BY <1>9
  <2>2. k \in Taken(q, v) <=>
          /\ \A n \in q.first : Cardinality({j \in in : Before(q, v, j, k)}) < n
          /\ \A n \in q.last  : Cardinality({j \in in : Before(q, v, k, j)}) < n
    BY DEF Taken, in
  <2>3. DartNode(k) \in DartAsksFor(ms, w) <=>
          /\ \A i \in Named(ms, "limitToFirst") :
               Cardinality({j \in dart : DartBefore(ms, w, j, DartNode(k))}) < ms[i].limit
          /\ \A i \in Named(ms, "limitToLast") :
               Cardinality({j \in dart : DartBefore(ms, w, DartNode(k), j)}) < ms[i].limit
    BY <2>1 DEF DartAsksFor, dart
  <2> QED BY <1>5, <1>11, <2>2, <2>3
<1>13. Taken(q, v) \subseteq in /\ DartAsksFor(ms, w) \subseteq dart
  BY DEF Taken, DartAsksFor, in, dart
<1>14. {DartNode(k) : k \in Taken(q, v)} = DartAsksFor(ms, w)
  BY <1>9, <1>12, <1>13
<1> QED BY <1>14 DEF w

-----------------------------------------------------------------------------
(* The writes and the snapshots.                                            *)

\* What there is, and what Dart makes of all it wrote.
Holds(data, dart) ==
  /\ data = [value |-> data.value, priority |-> data.priority]
  /\ IsVariant(data.value) /\ IsVariant(data.priority)
  /\ dart = [value |-> Means(data.value), priority |-> Means(data.priority)]

\* A write of the SDK, and what Dart meant by it.
Matches(w, m) ==
  /\ w.method \in {"set", "setWithPriority", "setPriority", "update"} /\ m.method = w.method
  /\ IsVariant(w.value) /\ IsVariant(w.priority)
  /\ m.value = Means(w.value) /\ m.priority = Means(w.priority)

LaterInv ==
  /\ later \in Seq({Converting(w) : w \in Writes})
  /\ promised \in Seq({Meaning(w) : w \in Writes})
  /\ Len(promised) = Len(later)
  /\ \A i \in 1 .. Len(later) : Matches(later[i], promised[i])

IInv == Holds(location, written) /\ LaterInv /\ SnapshotReadsBack

LEMMA CallMatches ==
  ASSUME NEW w \in Writes PROVE Matches(Converting(w), Meaning(w))
<1>1. ASSUME NEW key PROVE IsSent(GetEncodableValue(w.arguments, key))
  <2>1. CASE key \in DOMAIN w.arguments
    BY <2>1, WritesAssumption DEF WritesAssumption, IsSent, Apart, GetEncodableValue
  <2>2. CASE key \notin DOMAIN w.arguments
    BY <2>2, MonostateMeans DEF GetEncodableValue
  <2> QED BY <2>1, <2>2
<1>2. w.method \in {"set", "setWithPriority", "setPriority", "update"}
  BY WritesAssumption DEF WritesAssumption
<1> QED BY <1>1, <1>2, WrittenIsMeant DEF Matches, Converting, Meaning

LEMMA StoreMeans ==
  ASSUME NEW data, NEW dart, Holds(data, dart), NEW w, NEW m, Matches(w, m)
  PROVE  Holds(Store(w, data), Store(m, dart))
<1>1. CASE w.method = "update"
  <2>1. /\ IsVariant(Merge(data.value, w.value))
        /\ Means(Merge(data.value, w.value)) = Merge(dart.value, m.value)
    BY MergeMeans DEF Holds, Matches
  <2> QED BY <1>1, <2>1 DEF Holds, Matches, Store
<1>2. CASE w.method # "update"
  BY <1>2, MonostateMeans DEF Holds, Matches, Store
<1> QED BY <1>1, <1>2

\* All the writes that waited, in their order.
LEMMA StoreAllMeans ==
  ASSUME NEW data, NEW dart, Holds(data, dart), NEW ws, NEW ms, Len(ws) \in Nat,
         Len(ms) = Len(ws), \A i \in 1 .. Len(ws) : Matches(ws[i], ms[i])
  PROVE  Holds(StoreAll(ws, data), StoreAll(ms, dart))
<1>1. PICK f : /\ f = [i \in 0 .. Len(ws) |-> IF i = 0 THEN data ELSE Store(ws[i], f[i - 1])]
               /\ StoreAll(ws, data) = f[Len(ws)]
  BY StoreAllRecursion
<1>2. PICK g : /\ g = [i \in 0 .. Len(ms) |-> IF i = 0 THEN dart ELSE Store(ms[i], g[i - 1])]
               /\ StoreAll(ms, dart) = g[Len(ms)]
  BY StoreAllRecursion
<1>3. f[0] = data /\ \A i \in 1 .. Len(ws) : f[i] = Store(ws[i], f[i - 1])
  BY <1>1
<1>4. g[0] = dart /\ \A i \in 1 .. Len(ms) : g[i] = Store(ms[i], g[i - 1])
  BY <1>2
<1> DEFINE S == {i \in 0 .. Len(ws) : Holds(f[i], g[i])}
<1>5. 0 \in S
  BY <1>3, <1>4
<1>6. ASSUME NEW i \in 0 .. Len(ws) - 1, i \in S PROVE i + 1 \in S
  <2>1. i + 1 \in 1 .. Len(ws) /\ (i + 1) - 1 = i
    OBVIOUS
  <2>2. Holds(Store(ws[i + 1], f[i]), Store(ms[i + 1], g[i]))
    BY <1>6, <2>1, StoreMeans
  <2> QED BY <1>3, <1>4, <2>1, <2>2
<1>7. 0 .. Len(ws) \subseteq S
  <2> HIDE DEF S
  <2> QED BY <1>5, <1>6, Induction
<1>8. Len(ws) \in S
  <2> HIDE DEF S
  <2> QED BY <1>7
<1> QED BY <1>1, <1>2, <1>8

\* A snapshot tells Dart its value, its priority and the keys of its children.
LEMMA PayloadTells ==
  ASSUME NEW v, IsVariant(v), NEW p, IsVariant(p)
  PROVE  LET shot == CreateDataSnapshotPayload([value |-> v, priority |-> p]) IN
         /\ Seen(shot.value) = Means(v) /\ Seen(shot.priority) = Means(p)
         /\ {DartNode(k) : k \in Children(v)} =
              IF "childKeys" \in DOMAIN shot
              THEN {Retyped(k, DartType) : k \in shot.childKeys} ELSE {}
<1> DEFINE keys == Children(v)
           shot == CreateDataSnapshotPayload([value |-> v, priority |-> p])
<1>1. \A k \in keys : Retyped(Retyped(k, EncodableType), DartType) = DartNode(k)
  <2> TAKE k \in keys
  <2>1. IsNode(k, VariantTypes)
    BY ChildrenMean
  <2>2. \A t \in VariantTypes : VariantDart[t] = DartType[EncodableType[t]]
    BY DEF VariantDart
  <2> QED BY <2>1, <2>2 DEF IsNode, Retyped, DartNode
<1>2. /\ shot.value = ToEncodableValue(v) /\ shot.priority = ToEncodableValue(p)
      /\ "childKeys" \in DOMAIN shot <=> keys # {}
      /\ keys # {} => shot.childKeys = {Retyped(k, EncodableType) : k \in keys}
  BY DEF CreateDataSnapshotPayload
<1> HIDE DEF shot, keys
<1>3. {DartNode(k) : k \in keys} = IF "childKeys" \in DOMAIN shot
        THEN {Retyped(k, DartType) : k \in shot.childKeys} ELSE {}
  BY <1>1, <1>2
<1> QED BY <1>2, <1>3, SeenIsMeant DEF shot, keys

\* All the children are what there is, and what Dart asks for without modifiers.
LEMMA PrunedNothing ==
  ASSUME NEW v, IsVariant(v) PROVE Pruned(v, Children(v)) = v
<1>1. \A p \in DOMAIN v : p = << >> \/ p[1] \in Children(v)
  <2> SUFFICES ASSUME NEW p \in DOMAIN v, p # << >> PROVE p[1] \in Children(v)
    OBVIOUS
  <2>1. <<p[1]>> \in DOMAIN v
    BY DEF IsVariant, IsTree
  <2>2. Len(<<p[1]>>) = 1 /\ <<p[1]>>[1] = p[1]
    OBVIOUS
  <2> QED BY <2>1, <2>2 DEF Children
<1>2. v = [p \in DOMAIN v |-> v[p]]
  BY DEF IsVariant, IsTree
<1>3. {p \in DOMAIN v : p = << >> \/ p[1] \in Children(v)} = DOMAIN v
  BY <1>1
<1> QED BY <1>2, <1>3 DEF Pruned

LEMMA AsksForAll ==
  /\ \A v : DartAsksFor(<< >>, v) = Children(v)
  /\ ~DartRestricts(<< >>)
BY DEF DartAsksFor, DartInRange, DartRestricts, Named

\* A query restricts when Dart does, and otherwise takes all the children.
LEMMA RestrictsMeans ==
  ASSUME NEW ms \in Modifiers, NEW q, QueryIs(q, ms, Len(ms))
  PROVE  Restricts(q) <=> DartRestricts(ms)
<1>1. DOMAIN ms = 1 .. Len(ms)
  BY ModifiersAssumption DEF ModifiersAssumption
<1>2. /\ q.start = {ToFirebaseVariant(ms[i].value) : i \in Named(ms, "startAt")}
      /\ q.end = {ToFirebaseVariant(ms[i].value) : i \in Named(ms, "endAt")}
      /\ q.first = {ms[i].limit : i \in Named(ms, "limitToFirst")}
      /\ q.last = {ms[i].limit : i \in Named(ms, "limitToLast")}
  BY <1>1 DEF QueryIs, Named
<1>3. /\ q.start = {} <=> Named(ms, "startAt") = {}
      /\ q.end = {} <=> Named(ms, "endAt") = {}
  BY <1>2 DEF Named
<1>4. /\ q.first = {} <=> Named(ms, "limitToFirst") = {}
      /\ q.last = {} <=> Named(ms, "limitToLast") = {}
  <2>1. \A S : {ms[i].limit : i \in S} = {} <=> S = {}
    OBVIOUS
  <2> QED BY <1>2, <2>1
<1> QED BY <1>3, <1>4 DEF Restricts, DartRestricts

LEMMA InitInv == DatabaseDataInit => IInv
<1> SUFFICES ASSUME DatabaseDataInit PROVE IInv
  OBVIOUS
<1>1. Holds(location, written)
  BY MonostateMeans DEF DatabaseDataInit, Holds
<1>2. LaterInv
  BY DEF DatabaseDataInit, LaterInv
<1> QED BY <1>1, <1>2 DEF IInv, SnapshotReadsBack, DatabaseDataInit

LEMMA WriteInv ==
  ASSUME IInv, NEW w \in Writes, Write(w) PROVE IInv'
<1>1. Holds(location', written')
  BY CallMatches, StoreMeans DEF IInv, Write
<1> QED BY <1>1 DEF IInv, Write, LaterInv, SnapshotReadsBack, Holds

LEMMA WriteLaterInv ==
  ASSUME IInv, NEW w \in Writes, WriteLater(w) PROVE IInv'
<1>1. Matches(Converting(w), Meaning(w))
  BY CallMatches
<1>2. LaterInv'
  <2> DEFINE ws == {Converting(v) : v \in Writes}
             ms == {Meaning(v) : v \in Writes}
  <2>1. /\ later \in Seq(ws) /\ promised \in Seq(ms) /\ Len(promised) = Len(later)
        /\ \A i \in 1 .. Len(later) : Matches(later[i], promised[i])
    BY DEF IInv, LaterInv
  <2>2. Converting(w) \in ws /\ Meaning(w) \in ms
    OBVIOUS
  <2>3. later' = Append(later, Converting(w)) /\ promised' = Append(promised, Meaning(w))
    BY DEF WriteLater
  <2> HIDE DEF ws, ms
  <2>4. /\ later' \in Seq(ws) /\ promised' \in Seq(ms)
        /\ Len(later') = Len(later) + 1 /\ Len(promised') = Len(later')
    BY <2>1, <2>2, <2>3
  <2>5. ASSUME NEW i \in 1 .. Len(later') PROVE Matches(later'[i], promised'[i])
    BY <1>1, <2>1, <2>2, <2>3, <2>4
  <2> QED BY <2>4, <2>5 DEF LaterInv, ws, ms
<1> QED BY <1>2 DEF IInv, WriteLater, SnapshotReadsBack, Holds

LEMMA EndInv ==
  ASSUME IInv, CancelLater \/ Disconnect PROVE IInv'
<1>1. LaterInv'
  <2>1. later' = << >> /\ promised' = << >>
    BY DEF CancelLater, Disconnect
  <2> QED BY <2>1 DEF LaterInv
<1>2. CASE CancelLater
  BY <1>1, <1>2 DEF IInv, CancelLater, SnapshotReadsBack, Holds
<1>3. CASE Disconnect
  <2>1. Len(later) \in Nat /\ Len(promised) = Len(later)
    BY DEF IInv, LaterInv
  <2>2. Holds(location', written')
    BY <1>3, <2>1, StoreAllMeans DEF IInv, LaterInv, Disconnect
  <2> QED BY <1>1, <1>3, <2>2 DEF IInv, Disconnect, SnapshotReadsBack, Holds
<1> QED BY <1>2, <1>3

LEMMA QueryGetInv ==
  ASSUME IInv, NEW ms \in Modifiers, QueryGet(ms) PROVE IInv'
<1> DEFINE q == GetDatabaseQueryFromArguments(ms)
           v == location.value
           keys == Taken(q, v)
           asks == DartAsksFor(ms, written.value)
<1>1. /\ IsVariant(v) /\ IsVariant(location.priority)
      /\ written.value = Means(v) /\ written.priority = Means(location.priority)
  BY DEF IInv, Holds
<1>2. QueryIs(q, ms, Len(ms))
  BY QueryOfModifiers
<1>3. keys \in SUBSET Children(v)
  BY DEF Taken, InRange
<1>4. PICK priority \in {location.priority} \cup (IF Restricts(q) THEN {Monostate} ELSE {}) :
        snapshot' = CreateDataSnapshotPayload([value |-> Run(q, v), priority |-> priority])
  BY DEF QueryGet
<1>5. asked' = ms /\ UNCHANGED <<location, later, written, promised>>
  BY DEF QueryGet
<1> HIDE DEF q
<1>6. asks = {DartNode(k) : k \in keys}
  BY <1>1, <1>2, TakenIsAskedFor
<1>7. Restricts(q) <=> DartRestricts(ms)
  BY <1>2, RestrictsMeans
<1>8. Run(q, v) = IF Restricts(q) /\ keys = {} THEN Monostate ELSE Pruned(v, keys)
  BY DEF Run
<1> HIDE DEF keys, asks, v
<1>9. /\ IsVariant(Run(q, v)) /\ {DartNode(k) : k \in Children(Run(q, v))} = asks
      /\ Means(Run(q, v)) = IF DartRestricts(ms) /\ asks = {} THEN Monostate
                            ELSE Pruned(written.value, asks)
  <2>1. asks = {} <=> keys = {}
    BY <1>6
  <2>2. CASE Restricts(q) /\ keys = {}
    <3>1. Children(Monostate) = {}
      <4>1. DOMAIN Monostate = {<< >>} /\ Len(<< >>) = 0
        BY DEF Monostate, Leaf
      <4> QED BY <4>1 DEF Children
    <3> QED BY <1>6, <1>7, <1>8, <2>1, <2>2, <3>1, MonostateMeans
  <2>3. CASE ~(Restricts(q) /\ keys = {})
    <3>1. /\ IsVariant(Pruned(v, keys)) /\ Children(Pruned(v, keys)) = keys
          /\ Means(Pruned(v, keys)) = Pruned(Means(v), {DartNode(k) : k \in keys})
      BY <1>1, <1>3, PrunedMeans
    <3>2. Run(q, v) = Pruned(v, keys)
      BY <1>8, <2>3
    <3>3. ~(DartRestricts(ms) /\ asks = {})
      BY <1>7, <2>1, <2>3
    <3> QED BY <1>1, <1>6, <3>1, <3>2, <3>3
  <2> QED BY <2>2, <2>3
<1>10. IsVariant(priority) /\ (~DartRestricts(ms) => Means(priority) = written.priority)
  BY <1>1, <1>4, <1>7, MonostateMeans
<1>11. SnapshotReadsBack'
  BY <1>4, <1>5, <1>9, <1>10, PayloadTells DEF SnapshotReadsBack, asks
<1> QED BY <1>5, <1>11 DEF IInv, LaterInv, Holds

LEMMA TransactionReadInv ==
  ASSUME IInv, TransactionRead PROVE IInv'
<1> DEFINE v == location.value
<1>1. /\ IsVariant(v) /\ IsVariant(location.priority)
      /\ location = [value |-> v, priority |-> location.priority]
      /\ written.value = Means(v) /\ written.priority = Means(location.priority)
  BY DEF IInv, Holds
<1>2. snapshot' = CreateDataSnapshotPayload([value |-> v, priority |-> location.priority])
  BY <1>1 DEF TransactionRead, CreateMutableDataSnapshotPayload
<1>3. asked' = << >> /\ UNCHANGED <<location, later, written, promised>>
  BY DEF TransactionRead
<1> HIDE DEF v
<1>4. /\ DartAsksFor(<< >>, written.value) = {DartNode(k) : k \in Children(v)}
      /\ Pruned(written.value, DartAsksFor(<< >>, written.value)) = written.value
  <2>1. DartAsksFor(<< >>, written.value) = Children(written.value)
    BY AsksForAll
  <2>2. Children(written.value) = {DartNode(k) : k \in Children(v)}
    BY <1>1, ChildrenMean
  <2>3. Pruned(v, Children(v)) = v
    BY <1>1, PrunedNothing
  <2>4. Means(Pruned(v, Children(v))) = Pruned(Means(v), {DartNode(k) : k \in Children(v)})
    BY <1>1, PrunedMeans
  <2> QED BY <1>1, <2>1, <2>2, <2>3, <2>4
<1>5. SnapshotReadsBack'
  BY <1>1, <1>2, <1>3, <1>4, PayloadTells, AsksForAll DEF SnapshotReadsBack
<1> QED BY <1>3, <1>5 DEF IInv, LaterInv, Holds

LEMMA NextInv == IInv /\ [DatabaseDataNext]_databaseData => IInv'
<1> SUFFICES ASSUME IInv, [DatabaseDataNext]_databaseData PROVE IInv'
  OBVIOUS
<1>1. CASE UNCHANGED databaseData
  BY <1>1 DEF databaseData, IInv, LaterInv, SnapshotReadsBack, Holds
<1> QED BY <1>1, WriteInv, WriteLaterInv, EndInv, QueryGetInv, TransactionReadInv
        DEF DatabaseDataNext

-----------------------------------------------------------------------------
\* The invariant of DatabaseData.
THEOREM Invariance == DatabaseDataSafety => []IInv
<1> QED BY InitInv, NextInv, PTL DEF DatabaseDataSafety

\* Whatever Dart writes, at once or for the end of the connection, and whatever it
\* asks for of it, it reads back what it wrote.
THEOREM SnapshotsReadBack == DatabaseDataSafety => []SnapshotReadsBack
<1>1. IInv => SnapshotReadsBack
  BY DEF IInv
<1> QED BY <1>1, Invariance, PTL
=============================================================================
