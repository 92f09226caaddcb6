---------------------------- MODULE DatabaseData ----------------------------
(***************************************************************************)
(* What the calls of packages/firebase_database/tizen do to the data of    *)
(* one location: Dart's arguments become Variants, the SDK writes them at  *)
(* once or when the connection ends, and Dart reads a snapshot of a query. *)
(***************************************************************************)
EXTENDS Integers, FiniteSets, Conversion, Nothing

CONSTANTS
  Writes,       \* the calls that write, as [method, arguments]
  Modifiers,    \* the modifiers of queries, as sequences of [type, name, path, value or limit]
  MaxLater      \* bound: how many writes wait for the end of the connection

\* A value that the database keeps as it is: the keys of its maps are texts, for it
\* makes texts or lists of others, it is no list itself, and it holds nothing that
\* is null or empty.
IsKept(v) ==
  /\ v[<< >>][1] \notin Lists
  /\ \A p \in DOMAIN v :
       /\ \A i \in DOMAIN p : p[i][1] \in {"string", "index"}
       /\ v[p][1] = "null" => p = << >>
       /\ v[p][1] \in Lists \cup {"map"} =>
            \E q \in DOMAIN v : Len(q) = Len(p) + 1 /\ SubSeq(q, 1, Len(p)) = p

\* What Dart's codec sends: a tree, of which Dart tells the positions apart.
WritesAssumption ==
  \A w \in Writes :
    /\ w.method \in {"set", "setWithPriority", "setPriority", "update"}
    /\ \A key \in DOMAIN w.arguments :
         LET v == w.arguments[key] IN
         /\ IsTree(v, EncodableTypes \ {"custom"}) /\ IsKept(v)
         /\ \A p, q \in DOMAIN v : Moved(p, DartType) = Moved(q, DartType) => p = q
    /\ w.method = "update" => w.arguments.value[<< >>][1] = "map"
    /\ w.method = "setWithPriority" => w.arguments.value # Monostate
ASSUME WritesAssumption

\* The names of the modifiers of each type.
ModifierNames ==
  [type \in {"orderBy", "cursor", "limit"} |->
    CASE type = "orderBy" -> {"orderByChild", "orderByKey", "orderByValue", "orderByPriority"}
      [] type = "cursor"  -> {"startAt", "startAfter", "endAt", "endBefore"}
      [] type = "limit"   -> {"limitToFirst", "limitToLast"}]

\* Dart's Query asserts that it gets one order and one modifier of each name.
Alike(m, n) ==
  \/ m.name = n.name
  \/ m.type = "orderBy" /\ n.type = "orderBy"

\* A child is named by its key, and a cursor is a number, a text or a bool.
ModifiersAssumption ==
  \A ms \in Modifiers :
    /\ ms \in Seq({ms[i] : i \in DOMAIN ms})
    /\ \A i, j \in DOMAIN ms : Alike(ms[i], ms[j]) => i = j
    /\ \A i \in DOMAIN ms :
         /\ ms[i].type \in DOMAIN ModifierNames /\ ms[i].name \in ModifierNames[ms[i].type]
         /\ ms[i].name = "orderByChild" => IsNode(ms[i].path, {"string"})
         /\ ms[i].type = "cursor" =>
              /\ IsTree(ms[i].value, EncodableTypes \ {"custom"})
              /\ ms[i].value[<< >>][1] \in {"bool", "int32", "int64", "double", "string"}
         /\ ms[i].type = "limit" => ms[i].limit \in Nat \ {0}
ASSUME ModifiersAssumption

VARIABLES
  location,   \* the SDK's value and priority
  later,      \* the writes the SDK does when the connection ends
  written,    \* what Dart makes of all it wrote: value, priority
  promised,   \* what Dart makes of the writes that wait
  asked,      \* the modifiers of the last read
  snapshot    \* what Dart got for it, None when something was written since

databaseData == <<location, later, written, promised, asked, snapshot>>

-----------------------------------------------------------------------------
(* The SDK.                                                                 *)

\* The keys of a map's entries.
Children(v) == {p[1] : p \in {p \in DOMAIN v : Len(p) = 1}}

\* A tree without the other children.
Pruned(v, keys) == [p \in {p \in DOMAIN v : p = << >> \/ p[1] \in keys} |-> v[p]]

\* Each child of new takes the place of old's, or new that of what is no map.
Merge(old, new) ==
  [p \in DOMAIN new \cup {p \in DOMAIN old : p # << >> /\ p[1] \notin Children(new)} |->
    IF p \in DOMAIN new THEN new[p] ELSE old[p]]

\* DatabaseReference and OnDisconnect: a value set without a priority has none.
Store(w, old) ==
  CASE w.method = "set"             -> [value |-> w.value, priority |-> Monostate]
    [] w.method = "setWithPriority" -> [value |-> w.value, priority |-> w.priority]
    [] w.method = "setPriority"     -> [old EXCEPT !.priority = w.priority]
    [] w.method = "update"          -> [old EXCEPT !.value = Merge(@, w.value)]

\* What there is after some writes.
StoreAll(writes, old) ==
  LET data[i \in 0 .. Len(writes)] == IF i = 0 THEN old ELSE Store(writes[i], data[i - 1])
  IN  data[Len(writes)]

\* The order of nodes: null, false, true, numbers, texts, and maps and lists, which
\* their keys order.
RankOf(node) ==
  CASE node[1] = "null"   -> <<0, 0>>
    [] node[1] = "bool"   -> <<IF node[2] THEN 2 ELSE 1, 0>>
    [] node[1] \in {"int", "int64", "double"} -> <<3, node[2]>>
    [] node[1] = "string" -> <<4, node[2]>>
    [] OTHER              -> <<5, 0>>

Less(r, s) ==
  \/ r[1] < s[1]
  \/ r[1] = s[1] /\ r[2] < s[2]

\* A query of the children of a map: what it orders by, which is their priorities
\* unless it says otherwise, where it starts and ends, and how many it takes from
\* either side.
Query0 ==
  [order |-> [name |-> "orderByPriority"], start |-> {}, end |-> {}, first |-> {}, last |-> {}]

\* What a query orders the child at k by; children have no priorities here.
OrderedBy(q, v, k) ==
  CASE q.order.name = "orderByKey"   -> k
    [] q.order.name = "orderByValue" -> v[<<k>>]
    [] q.order.name = "orderByChild" /\ <<k, q.order.path>> \in DOMAIN v -> v[<<k, q.order.path>>]
    [] OTHER -> <<"null", 0>>

Rank(q, v, k) == RankOf(OrderedBy(q, v, k))

InRange(q, v) ==
  {k \in Children(v) : /\ \A bound \in q.start : ~Less(Rank(q, v, k), RankOf(bound[<< >>]))
                       /\ \A bound \in q.end   : ~Less(RankOf(bound[<< >>]), Rank(q, v, k))}

Before(q, v, j, k) ==
  \/ Less(Rank(q, v, j), Rank(q, v, k))
  \/ Rank(q, v, j) = Rank(q, v, k) /\ j[2] < k[2]

Taken(q, v) ==
  {k \in InRange(q, v) :
    /\ \A n \in q.first : Cardinality({j \in InRange(q, v) : Before(q, v, j, k)}) < n
    /\ \A n \in q.last  : Cardinality({j \in InRange(q, v) : Before(q, v, k, j)}) < n}

\* Where a query leaves no child there is nothing.
Restricts(q) == q.start \cup q.end # {} \/ q.first \cup q.last # {}

Run(q, v) == IF Restricts(q) /\ Taken(q, v) = {} THEN Monostate ELSE Pruned(v, Taken(q, v))

-----------------------------------------------------------------------------
(* The plugin.                                                              *)

\* The Query a modifier makes of q.
ApplyOrderModifier(q, m) ==
  CASE m.name = "orderByChild" -> [q EXCEPT !.order = [name |-> m.name, path |-> m.path]]
    [] m.name \in {"orderByKey", "orderByValue", "orderByPriority"} ->
         [q EXCEPT !.order = [name |-> m.name]]
    [] OTHER -> q

\* Mutant of ApplyCursorModifier: endBefore is taken for endAt.
ApplyCursorModifierEnds(q, m) ==
  CASE m.name = "startAt" -> [q EXCEPT !.start = {ToFirebaseVariant(m.value)}]
    [] m.name \in {"endAt", "endBefore"} -> [q EXCEPT !.end = {ToFirebaseVariant(m.value)}]
    [] OTHER -> q

\* startAfter and endBefore are not supported, and do nothing.
ApplyCursorModifier(q, m) ==
  CASE m.name = "startAt" -> [q EXCEPT !.start = {ToFirebaseVariant(m.value)}]
    [] m.name = "endAt"   -> [q EXCEPT !.end = {ToFirebaseVariant(m.value)}]
    [] OTHER              -> q

ApplyLimitModifier(q, m) ==
  CASE m.name = "limitToFirst" -> [q EXCEPT !.first = {m.limit}]
    [] m.name = "limitToLast"  -> [q EXCEPT !.last = {m.limit}]
    [] OTHER                   -> q

\* One turn of the loop over the modifiers.
Apply(q, m) ==
  CASE m.type = "orderBy" -> ApplyOrderModifier(q, m)
    [] m.type = "cursor"  -> ApplyCursorModifier(q, m)
    [] m.type = "limit"   -> ApplyLimitModifier(q, m)
    [] OTHER              -> q

GetDatabaseQueryFromArguments(modifiers) ==
  LET query[i \in 0 .. Len(modifiers)] ==
        IF i = 0 THEN Query0 ELSE Apply(query[i - 1], modifiers[i])
  IN  query[Len(modifiers)]

\* The snapshot of a location, which has children when it is a map.
CreateDataSnapshotPayload(data) ==
  LET children == Children(data.value)
      value    == ToEncodableValue(data.value)
      priority == ToEncodableValue(data.priority)
  IN  IF children = {} THEN [value |-> value, priority |-> priority]
      ELSE [value |-> value, priority |-> priority,
            childKeys |-> {Retyped(k, EncodableType) : k \in children}]

\* The same of the MutableData of a transaction.
CreateMutableDataSnapshotPayload(data) == CreateDataSnapshotPayload(data)

\* The write of a call, of values that are converted, and what Dart makes of it.
Converting(w) ==
  [method   |-> w.method,
   value    |-> ToFirebaseVariant(GetEncodableValue(w.arguments, "value")),
   priority |-> ToFirebaseVariant(GetEncodableValue(w.arguments, "priority"))]

Meaning(w) ==
  [method   |-> w.method,
   value    |-> Seen(GetEncodableValue(w.arguments, "value")),
   priority |-> Seen(GetEncodableValue(w.arguments, "priority"))]

\* DatabaseReference#set, #setWithPriority, #update and #setPriority, the last of
\* what is there.
Write(w) ==
  /\ w.method = "setPriority" => location.value # Monostate
  /\ location' = Store(Converting(w), location)
  /\ written' = Store(Meaning(w), written)
  /\ asked' = << >> /\ snapshot' = None
  /\ UNCHANGED <<later, promised>>

\* OnDisconnect#set, #setWithPriority and #update.
WriteLater(w) ==
  /\ w.method # "setPriority"
  /\ Len(later) < MaxLater
  /\ later' = Append(later, Converting(w))
  /\ promised' = Append(promised, Meaning(w))
  /\ UNCHANGED <<location, written, asked, snapshot>>

\* OnDisconnect#cancel.
CancelLater ==
  /\ later' = << >> /\ promised' = << >>
  /\ UNCHANGED <<location, written, asked, snapshot>>

\* The connection ends.
Disconnect ==
  /\ later # << >>
  /\ location' = StoreAll(later, location)
  /\ written' = StoreAll(promised, written)
  /\ later' = << >> /\ promised' = << >> /\ asked' = << >> /\ snapshot' = None

\* Query#get.  The SDK does not say which priority a query has that restricts.
QueryGet(modifiers) ==
  /\ LET q == GetDatabaseQueryFromArguments(modifiers) IN
     \E priority \in {location.priority} \cup (IF Restricts(q) THEN {Monostate} ELSE {}) :
       snapshot' = CreateDataSnapshotPayload(
                     [value |-> Run(q, location.value), priority |-> priority])
  /\ asked' = modifiers
  /\ UNCHANGED <<location, later, written, promised>>

\* What DatabaseReference#runTransaction hands to Dart's handler.
TransactionRead ==
  /\ snapshot' = CreateMutableDataSnapshotPayload(location)
  /\ asked' = << >>
  /\ UNCHANGED <<location, later, written, promised>>

DatabaseDataInit ==
  /\ location = [value |-> Monostate, priority |-> Monostate]
  /\ written = location
  /\ later = << >> /\ promised = << >>
  /\ asked = << >> /\ snapshot = None

DatabaseDataNext ==
  \/ \E w \in Writes : Write(w) \/ WriteLater(w)
  \/ CancelLater \/ Disconnect \/ TransactionRead
  \/ \E modifiers \in Modifiers : QueryGet(modifiers)

\* The data alone.
DatabaseDataSafety == DatabaseDataInit /\ [][DatabaseDataNext]_databaseData

-----------------------------------------------------------------------------
(* Correctness.                                                             *)

Named(ms, name) == {i \in DOMAIN ms : ms[i].name = name}

DartOrderedBy(ms, v, k) ==
  LET child == {i \in Named(ms, "orderByChild") : <<k, ms[i].path>> \in DOMAIN v} IN
  CASE Named(ms, "orderByKey") # {}   -> k
    [] Named(ms, "orderByValue") # {} -> v[<<k>>]
    [] child # {} -> v[<<k, ms[CHOOSE i \in child : TRUE].path>>]
    [] OTHER -> <<"null", 0>>

DartRank(ms, v, k) == RankOf(DartOrderedBy(ms, v, k))

\* The children that Dart asks for, as far as the plugin supports its modifiers.
DartInRange(ms, v) ==
  {k \in Children(v) :
    /\ \A i \in Named(ms, "startAt") : ~Less(DartRank(ms, v, k), RankOf(Seen(ms[i].value)[<< >>]))
    /\ \A i \in Named(ms, "endAt")   : ~Less(RankOf(Seen(ms[i].value)[<< >>]), DartRank(ms, v, k))}

DartBefore(ms, v, j, k) ==
  \/ Less(DartRank(ms, v, j), DartRank(ms, v, k))
  \/ DartRank(ms, v, j) = DartRank(ms, v, k) /\ j[2] < k[2]

DartAsksFor(ms, v) ==
  {k \in DartInRange(ms, v) :
    /\ \A i \in Named(ms, "limitToFirst") :
         Cardinality({j \in DartInRange(ms, v) : DartBefore(ms, v, j, k)}) < ms[i].limit
    /\ \A i \in Named(ms, "limitToLast") :
         Cardinality({j \in DartInRange(ms, v) : DartBefore(ms, v, k, j)}) < ms[i].limit}

\* Dart asks for a part of the children.
DartRestricts(ms) ==
  \E name \in {"startAt", "endAt", "limitToFirst", "limitToLast"} : Named(ms, name) # {}

\* Dart reads back what it wrote, at once or for the end of the connection: each
\* type of value and, of all the children, of priority survives both conversions,
\* a query has just the children that its supported modifiers leave, and null when
\* they leave none, and childKeys are the keys of the value.
SnapshotReadsBack ==
  snapshot # None =>
    LET asks == DartAsksFor(asked, written.value) IN
    /\ ~DartRestricts(asked) => Seen(snapshot.priority) = written.priority
    /\ Seen(snapshot.value) =
         IF DartRestricts(asked) /\ asks = {} THEN Monostate ELSE Pruned(written.value, asks)
    /\ asks = IF "childKeys" \in DOMAIN snapshot
              THEN {Retyped(k, DartType) : k \in snapshot.childKeys} ELSE {}
=============================================================================
