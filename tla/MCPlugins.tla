---------------------------- MODULE MCPlugins ----------------------------
(* TLC instance of Plugins: two Apps' names, with and without a URL; a value of
   every type and every kind of modifier; metadata and pages. *)
EXTENDS Plugins

MCNames == {<<"a">>, <<"b">>}
MCUrls  == {<< >>, <<"u">>}

\* Options with every field, each of its own text, and with the least.
MCTexts   == Required \cup Optional \cup {Empty}
MCOptions == {[f \in Required \cup Optional |-> f],
              [f \in Required \cup Optional |-> IF f \in Required THEN Empty
                                                ELSE IF f = "tracking_id" THEN Empty ELSE Null]}

\* Texts, and what does not fit 32 bits, are numbered in their order.
Text(n)  == <<"string", n>>
Small(n) == <<"int32", n>>
Big(n)   == <<"int64", n>>

\* The tree of a type whose parts are at these steps.
TreeOf(type, parts) ==
  [p \in {<< >>} \cup UNION {{<<s>> \o q : q \in DOMAIN parts[s]} : s \in DOMAIN parts} |->
    IF p = << >> THEN <<type, 0>> ELSE parts[p[1]][Tail(p)]]

ListOf(type, values) ==
  TreeOf(type, [s \in {<<"index", i>> : i \in DOMAIN values} |-> values[s[2]]])

\* A map to numbers.
MapOf(nodes) == TreeOf("map", [k \in DOMAIN nodes |-> Leaf(nodes[k])])

Scores == MapOf(Text(1) :> Small(2) @@ Text(2) :> Small(1) @@ Text(3) :> Small(2))

Everything ==
  TreeOf("map",
    Text(1) :> Leaf(<<"bool", TRUE>>) @@ Text(2) :> Leaf(Big(1)) @@ Text(3) :> Leaf(<<"double", 1>>)
    @@ Text(4) :> Leaf(Text(1))
    @@ Text(5) :> ListOf("list", <<Leaf(<<"bool", FALSE>>), MapOf(Text(1) :> Text(1)),
                                   ListOf("int32 list", <<Leaf(Small(3))>>)>>)
    @@ Text(6) :> ListOf("uint8 list", <<Leaf(<<"uint8", 1>>), Leaf(<<"uint8", 2>>)>>)
    @@ Text(7) :> ListOf("int64 list", <<Leaf(Big(1))>>)
    @@ Text(8) :> ListOf("float list", <<Leaf(<<"float", 1>>)>>)
    @@ Text(9) :> MapOf(Text(5) :> Small(2)))

\* Children with children of their own.
Nested ==
  TreeOf("map", Text(1) :> MapOf(Text(5) :> Small(3)) @@ Text(2) :> MapOf(Text(5) :> <<"double", 2>>)
                @@ Text(3) :> MapOf(Text(6) :> Small(1)))

Args(value, priority) == [value |-> value, priority |-> priority]

MCWrites ==
  {[method |-> "set", arguments |-> [value |-> v]] :
    v \in {Everything, Nested, Leaf(Text(1)), Monostate}}
  \cup
  {[method |-> "setWithPriority", arguments |-> Args(Scores, Leaf(Text(1)))],
   [method |-> "setPriority", arguments |-> [priority |-> Leaf(<<"double", 1>>)]],
   [method |-> "update", arguments |-> [value |-> MapOf(Text(2) :> Big(4) @@ Text(4) :> Small(1))]]}

Order(name)     == [type |-> "orderBy", name |-> name]
ByChild(path)   == [type |-> "orderBy", name |-> "orderByChild", path |-> path]
Cursor(name, n) == [type |-> "cursor", name |-> name, value |-> Leaf(n)]
Limit(name, n)  == [type |-> "limit", name |-> name, limit |-> n]

MCModifiers ==
  {<< >>,
   <<Cursor("startAt", Small(2))>>,
   <<Cursor("endAt", Small(2))>>,
   <<Cursor("endBefore", Text(2))>>,
   <<Limit("limitToFirst", 2)>>,
   <<Order("orderByValue"), Cursor("startAt", Small(2))>>,
   <<Order("orderByValue"), Cursor("endAt", Small(1)), Limit("limitToFirst", 1)>>,
   <<Order("orderByValue"), Cursor("startAfter", Small(1)), Limit("limitToLast", 2)>>,
   <<Order("orderByValue"), Cursor("startAt", <<"bool", TRUE>>), Cursor("endAt", <<"double", 2>>)>>,
   <<ByChild(Text(5)), Cursor("startAt", Big(2))>>,
   <<Order("orderByKey"), Cursor("startAt", Text(2)), Cursor("endAt", Text(3)), Limit("limitToLast", 1)>>}

\* What query_e2e.dart expects of the SDK, of {'a': 1, 'b': 2, 'c': 3} and of 'foo'.
Abc == MapOf(Text(1) :> Small(1) @@ Text(2) :> Small(2) @@ Text(3) :> Small(3))

Gets(modifiers, v) ==
  Seen(ToEncodableValue(Run(GetDatabaseQueryFromArguments(modifiers), ToFirebaseVariant(v))))

QueriesAssumption ==
  LET Has(modifiers, keys) == Gets(modifiers, Abc) = Pruned(Seen(Abc), {Text(i) : i \in keys}) IN
  /\ Gets(<<Cursor("startAt", Small(2))>>, Abc) = Monostate
  /\ Has(<<Cursor("endAt", Small(2))>>, 1 .. 3)
  /\ Gets(<<Cursor("startAt", Small(2)), Cursor("endAt", Small(2))>>, Abc) = Monostate
  /\ Has(<<Order("orderByValue"), Cursor("startAt", Small(2))>>, 2 .. 3)
  /\ Has(<<Order("orderByValue"), Cursor("endAt", Small(2))>>, 1 .. 2)
  /\ Has(<<Order("orderByValue"), Cursor("startAt", Small(2)), Cursor("endAt", Small(2))>>, {2})
  /\ Has(<<Limit("limitToFirst", 2)>>, 1 .. 2)
  /\ Has(<<Limit("limitToLast", 2)>>, 2 .. 3)
  /\ \A name \in {"limitToFirst", "limitToLast"} : Gets(<<Limit(name, 2)>>, Leaf(Text(1))) = Monostate
ASSUME QueriesAssumption

\* Settable metadata: as Dart sends it, every key or what was set.
MCMetadata ==
  {[cacheControl |-> "cc", contentDisposition |-> "cd", contentEncoding |-> "ce",
    contentLanguage |-> "cl", contentType |-> "ct", customMetadata |-> ("k" :> "v")],
   [cacheControl |-> Null, contentDisposition |-> "cd2", contentEncoding |-> Null,
    contentLanguage |-> "cl2", contentType |-> Null,
    customMetadata |-> ("k" :> "v2" @@ "l" :> "w")]}

MCObjects == <<"a", "b", "c">>
=============================================================================
