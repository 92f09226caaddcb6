------------------------- MODULE PluginCalls_proofs -------------------------
(***************************************************************************)
(* Proofs about PluginCalls. CallInv ties every MethodResult to its one    *)
(* owner, and NoResultIsLost says that it has one; AppInv says that the    *)
(* table of Apps and the Apps agree; CacheInv says that the cache has the  *)
(* Databases the calls named, and that just those in the cache have their  *)
(* settings.                                                               *)
(***************************************************************************)
EXTENDS PluginCalls, TLAPS

USE DEF Calls, Apps

CallInv ==
  \A c \in Calls :
    /\ replies[c] = 0 \/ (replies[c] = 1 /\ result[c] = "gone")
    /\ pending[c] # None => result[c] = "sdk" /\ work[c] = 0
    /\ work[c] # 0 => result[c] = "sdk"

\* A result that a handler gave away is in the hands of a future, which will come for it.
NoResultIsLost == \A c \in Calls : result[c] = "sdk" => pending[c] # None \/ work[c] # 0

AppInv ==
  /\ \A n \in Names : app[n] # 0 => made[app[n]].name = n
  /\ \A a \in DOMAIN made : made[a].options = PigeonFirebaseOptionsToAppOptions(made[a].given)

\* A Database is in the cache just if it has its settings.
CacheInv ==
  /\ \A n \in Names, u \in Urls : cache[KeyOf(n, u)] # None =>
       LET d == cache[KeyOf(n, u)] IN
       /\ d.app \in DOMAIN made /\ made[d.app].name = n /\ d.url = u
       /\ configured[d] # None
  /\ \A d \in Databases : configured[d] # None =>
       d.app \in DOMAIN made /\ cache[KeyOf(made[d.app].name, d.url)] # None

UseInv == use # None => configured[use.database] # None

IInv ==
  /\ TypeOK /\ CallInv /\ NoResultIsLost /\ AppInv /\ CacheInv /\ UseInv
  /\ DatabaseServesNamedApp

-----------------------------------------------------------------------------
(* What a step does to the calls, to the Apps and to the cache.             *)

\* An owner gives its result away, or the process ends.
CallStep ==
  \/ \E c \in Calls :
       \/ result[c] = "unsent" /\ result' = [result EXCEPT ![c] = "handler"]
          /\ UNCHANGED <<replies, pending, work>>
       \/ result[c] = "handler" /\ (Answer(c) \/ Discard(c)) /\ UNCHANGED <<pending, work>>
       \/ result[c] = "handler" /\ GiveToSDK(c) /\ UNCHANGED work
          /\ \E d \in Databases : pending' = [pending EXCEPT ![c] = d]
       \/ result[c] = "handler" /\ GiveToSDK(c) /\ UNCHANGED pending
          /\ \E a \in Apps : work' = [work EXCEPT ![c] = a]
       \/ pending[c] # None /\ (Answer(c) \/ Discard(c))
          /\ pending' = [pending EXCEPT ![c] = None] /\ UNCHANGED work
       \/ work[c] # 0 /\ (Answer(c) \/ Discard(c))
          /\ work' = [work EXCEPT ![c] = 0] /\ UNCHANGED pending
  \/ UNCHANGED <<result, replies, pending, work>>

\* A call of firebase_database gets its Database.
Gets ==
  /\ \E n \in Names, u \in Urls, s \in Settings : GetDatabase(n, u, s)
  /\ UNCHANGED <<made, app>>

Keeps == UNCHANGED <<cache, configured, use>>

\* An App is created or deleted.
Creates ==
  /\ \E n \in Names, o \in Options :
       /\ Len(made) < MaxApps
       /\ made' = Append(made, [name |-> n, given |-> o,
                    options |-> PigeonFirebaseOptionsToAppOptions(
                                  ReadValueOfType(WriteValue("PigeonFirebaseOptions", o)))])
       /\ app' = [app EXCEPT ![n] = Len(made) + 1]
  /\ Keeps

Deletes ==
  /\ UNCHANGED made
  /\ \E n \in Names : app' = [app EXCEPT ![n] = 0]
  /\ Keeps

SameApps == UNCHANGED <<made, app>> /\ Keeps

LEMMA MadeIsTyped ==
  ASSUME TypeOK
  PROVE  /\ made \in Seq([name : Names, given : Options, options : AppOptions])
         /\ Len(made) \in Nat /\ Len(made) <= MaxApps
         /\ DOMAIN made = 1 .. Len(made)
         /\ app \in [Names -> 0 .. Len(made)]
<1>1. made \in Seq([name : Names, given : Options, options : AppOptions])
  BY DEF TypeOK
<1>2. Len(made) \in Nat /\ DOMAIN made = 1 .. Len(made)
  BY <1>1
<1> QED BY <1>1, <1>2 DEF TypeOK

LEMMA KeyIsKey == \A n \in Names, u \in Urls : KeyOf(n, u) \in Keys
  BY DEF Keys

LEMMA KeyIsExact ==
  \A n, m \in Names, u, v \in Urls : KeyOf(n, u) = KeyOf(m, v) => n = m /\ u = v
  BY KeysAssumption DEF KeyOf

\* The first colon of a key is the one that ends the scheme of its URL, at the URL's k-th
\* character, when the name has none.
LEMMA FirstColon ==
  ASSUME NEW Characters, NEW colon, NEW k \in Nat, k > 0,
         NEW n \in Seq(Characters), \A i \in 1 .. Len(n) : n[i] # colon,
         NEW u \in Seq(Characters), Len(u) >= k, u[k] = colon, \A i \in 1 .. k - 1 : u[i] # colon
  PROVE  /\ Len(n) + k \in 1 .. Len(n \o u) /\ (n \o u)[Len(n) + k] = colon
         /\ \A i \in 1 .. Len(n) + k - 1 : (n \o u)[i] # colon
<1>1. /\ Len(n) \in Nat /\ Len(u) \in Nat /\ Len(n \o u) = Len(n) + Len(u)
      /\ \A i \in 1 .. Len(n) : (n \o u)[i] = n[i]
      /\ \A i \in Len(n) + 1 .. Len(n) + Len(u) : (n \o u)[i] = u[i - Len(n)]
  OBVIOUS
<1>2. ASSUME NEW i \in 1 .. Len(n) + k - 1
      PROVE  (n \o u)[i] # colon
  <2>1. CASE i \in 1 .. Len(n)
    BY <1>1, <2>1
  <2>2. CASE i \in Len(n) + 1 .. Len(n) + k - 1
    <3>1. i \in Len(n) + 1 .. Len(n) + Len(u) /\ i - Len(n) \in 1 .. k - 1
      BY <1>1, <2>2
    <3> QED BY <1>1, <3>1
  <2> QED BY <1>1, <2>1, <2>2
<1>3. Len(n) + k \in Len(n) + 1 .. Len(n) + Len(u) /\ (Len(n) + k) - Len(n) = k
  BY <1>1
<1> QED BY <1>1, <1>2, <1>3

LEMMA SameParts ==
  ASSUME NEW S, NEW n \in Seq(S), NEW m \in Seq(S), NEW u \in Seq(S), NEW v \in Seq(S),
         n \o u = m \o v, Len(n) = Len(m)
  PROVE  n = m /\ u = v
<1>1. /\ Len(n) \in Nat /\ Len(u) \in Nat /\ Len(v) \in Nat
      /\ Len(u) = Len(v)
  <2>1. \A s, t \in Seq(S) : Len(s \o t) = Len(s) + Len(t)
    OBVIOUS
  <2>2. Len(n \o u) = Len(n) + Len(u) /\ Len(m \o v) = Len(m) + Len(v)
    BY <2>1
  <2> QED BY <2>2
<1>2. \A i \in 1 .. Len(n) : n[i] = m[i]
  <2>1. \A i \in 1 .. Len(n) : (n \o u)[i] = n[i]
    OBVIOUS
  <2>2. \A i \in 1 .. Len(m) : (m \o v)[i] = m[i]
    OBVIOUS
  <2> QED BY <2>1, <2>2
<1>3. \A i \in 1 .. Len(u) : u[i] = v[i]
  <2>1. \A i \in 1 .. Len(u) : (n \o u)[Len(n) + i] = u[i]
    OBVIOUS
  <2>2. \A i \in 1 .. Len(v) : (m \o v)[Len(m) + i] = v[i]
    OBVIOUS
  <2> QED BY <1>1, <2>1, <2>2
<1>4. n = [i \in 1 .. Len(n) |-> n[i]] /\ m = [i \in 1 .. Len(n) |-> m[i]]
  OBVIOUS
<1>5. u = [i \in 1 .. Len(u) |-> u[i]] /\ v = [i \in 1 .. Len(u) |-> v[i]]
  BY <1>1
<1> QED BY <1>2, <1>3, <1>4, <1>5

\* KeysAssumption holds of the names and URLs that programs have as a rule: the URLs share
\* their scheme, whose colon is their k-th character, and no name has a colon
\* (instance_key = app_name + database_url, firebase_database_utils.cc:53).
THEOREM SchemesKeepKeysApart ==
  ASSUME NEW Characters, NEW colon, NEW k \in Nat, k > 0,
         NEW N, \A n \in N : n \in Seq(Characters) /\ \A i \in 1 .. Len(n) : n[i] # colon,
         NEW U, \A u \in U : u \in Seq(Characters) /\
                  (u # << >> => /\ Len(u) >= k /\ u[k] = colon
                                /\ \A i \in 1 .. k - 1 : u[i] # colon)
  PROVE  \A n, m \in N, u, v \in U : n \o u = m \o v => n = m /\ u = v
<1>1. ASSUME NEW n \in N, NEW u \in U, u # << >>
      PROVE  /\ Len(n) + k \in 1 .. Len(n \o u) /\ (n \o u)[Len(n) + k] = colon
             /\ \A i \in 1 .. Len(n) + k - 1 : (n \o u)[i] # colon
  BY <1>1, FirstColon
<1>2. SUFFICES ASSUME NEW n \in N, NEW m \in N, NEW u \in U, NEW v \in U, n \o u = m \o v
               PROVE  n = m /\ u = v
  OBVIOUS
<1>3. /\ n \in Seq(Characters) /\ m \in Seq(Characters)
      /\ u \in Seq(Characters) /\ v \in Seq(Characters)
      /\ Len(n) \in Nat /\ Len(m) \in Nat
  OBVIOUS
<1>4. CASE u = << >> /\ v = << >>
  BY <1>2, <1>3, <1>4
<1>5. CASE u # << >> /\ v = << >>
  <2>1. m = n \o u
    BY <1>2, <1>3, <1>5
  <2> QED BY <1>1, <1>5, <2>1
<1>6. CASE u = << >> /\ v # << >>
  <2>1. n = m \o v
    BY <1>2, <1>3, <1>6
  <2> QED BY <1>1, <1>6, <2>1
<1>7. CASE u # << >> /\ v # << >>
  <2> DEFINE key == n \o u
  <2>1. key[Len(n) + k] = colon /\ \A i \in 1 .. Len(n) + k - 1 : key[i] # colon
    BY <1>1, <1>7
  <2>2. key[Len(m) + k] = colon /\ \A i \in 1 .. Len(m) + k - 1 : key[i] # colon
    BY <1>1, <1>2, <1>7
  <2>3. Len(n) = Len(m)
    <3> HIDE DEF key
    <3> QED BY <1>3, <2>1, <2>2
  <2> QED BY <1>2, <1>3, <2>3, SameParts
<1> QED BY <1>4, <1>5, <1>6, <1>7

\* What GetDatabaseFromArguments returns is a Database of the App and the URL it was given.
LEMMA DatabaseIsTyped ==
  ASSUME TypeOK, NEW n \in Names, NEW u \in Urls, NEW s \in Settings, GetDatabase(n, u, s)
  PROVE  DatabaseOf(n, u) \in Databases
<1>1. CASE cache[KeyOf(n, u)] # None
  BY <1>1, KeyIsKey DEF TypeOK, DatabaseOf
<1>2. CASE cache[KeyOf(n, u)] = None
  <2>1. app[n] # 0
    BY <1>2 DEF GetDatabase
  <2>2. app[n] \in 0 .. Len(made) /\ Len(made) \in Nat /\ Len(made) <= MaxApps
    BY MadeIsTyped
  <2>3. app[n] \in Apps
    BY <2>1, <2>2, MaxAppsAssumption
  <2> QED BY <1>2, <2>3 DEF DatabaseOf, Databases
<1> QED BY <1>1, <1>2

LEMMA CoreStep ==
  ASSUME TypeOK, NEW c \in Calls, Core(c)
  PROVE  /\ CallStep
         /\ Creates \/ Deletes \/ SameApps
         /\ UNCHANGED offline /\ down' \in {down, "create"}
<1> USE DEF callVars, appVars, databaseVars, storageVars, Handle
<1>0. UNCHANGED <<pending, work, offline>> /\ Keeps
  BY DEF Core, Keeps
<1>1. ASSUME NEW n \in Names, NEW o \in Options, CreateApp(c, n, o)
      PROVE  CallStep /\ Creates /\ UNCHANGED down
  <2>1. Creates BY <1>0, <1>1 DEF CreateApp, Creates
  <2>2. CallStep BY <1>0, <1>1 DEF CreateApp, CallStep
  <2> QED BY <1>1, <2>1, <2>2 DEF CreateApp
<1>2. ASSUME NEW n \in Names, NEW o \in Options, FindApp(c, n, o)
      PROVE  CallStep /\ SameApps /\ UNCHANGED down
  BY <1>0, <1>2 DEF FindApp, CallStep, SameApps
<1>3. ASSUME NEW n \in Names, CreateFails(c, n)
      PROVE  CallStep /\ SameApps /\ down' = "create"
  BY <1>0, <1>3 DEF CreateFails, Crash, CallStep, SameApps
<1>4. ASSUME NEW n \in Names, Delete(c, n)
      PROVE  CallStep /\ Deletes /\ UNCHANGED down
  <2>1. CallStep BY <1>0, <1>4 DEF Delete, CallStep
  <2> QED BY <1>0, <1>4, <2>1 DEF Delete, Deletes
<1>5. ASSUME InitializeCore(c) \/ OptionsFromResource(c) \/ SetAutomatic(c) \/ RejectMessage(c)
      PROVE  CallStep /\ SameApps /\ UNCHANGED down
  BY <1>0, <1>5 DEF InitializeCore, OptionsFromResource, SetAutomatic, RejectMessage, CallStep,
                    SameApps
<1> QED BY <1>0, <1>1, <1>2, <1>3, <1>4, <1>5 DEF Core, FirebaseCoreHostApi, FirebaseAppHostApi

LEMMA DatabaseStep ==
  ASSUME TypeOK, NEW c \in Calls, Database(c)
  PROVE  /\ CallStep
         /\ Gets \/ SameApps
         /\ UNCHANGED told /\ down' \in {down, "no app"} /\ offline' \subseteq Databases
<1> USE DEF callVars, appVars, databaseVars, storageVars, Handle
<1>0. UNCHANGED <<made, app, told, work>> /\ offline \subseteq Databases
  BY DEF Database, TypeOK
<1>1. ASSUME NEW n \in Names, NEW u \in Urls, NEW s \in Settings,
             \/ GoOnline(c, n, u, s) \/ GoOffline(c, n, u, s) \/ CallAndAnswer(c, n, u, s)
             \/ CallAndRelease(c, n, u, s)
      PROVE  CallStep /\ Gets /\ UNCHANGED down /\ offline' \subseteq Databases
  <2>1. GetDatabase(n, u, s)
    BY <1>1 DEF GoOnline, GoOffline, CallAndAnswer, CallAndRelease
  <2>2. Gets BY <1>0, <2>1 DEF Gets
  <2>3. DatabaseOf(n, u) \in Databases BY <2>1, DatabaseIsTyped
  <2>4. UNCHANGED down /\ offline' \subseteq Databases
    BY <1>0, <1>1, <2>3 DEF GoOnline, GoOffline, CallAndAnswer, CallAndRelease
  <2>5. CallStep
    BY <1>0, <1>1, <2>3 DEF GoOnline, GoOffline, CallAndAnswer, CallAndRelease, CallStep
  <2> QED BY <2>2, <2>4, <2>5
<1>2. ASSUME NEW n \in Names, NEW u \in Urls, NoApp(c, n, u)
      PROVE  CallStep /\ SameApps /\ down' = "no app" /\ UNCHANGED offline
  BY <1>0, <1>2 DEF NoApp, Crash, CallStep, SameApps, Keeps
<1>3. ASSUME BadCall(c)
      PROVE  CallStep /\ SameApps /\ UNCHANGED <<down, offline>>
  BY <1>0, <1>3 DEF BadCall, CallStep, SameApps, Keeps
<1>4. ASSUME CompleteDatabase(c)
      PROVE  CallStep /\ SameApps /\ UNCHANGED <<down, offline>>
  BY <1>0, <1>4 DEF CompleteDatabase, CallStep, SameApps, Keeps
<1> QED BY <1>0, <1>1, <1>2, <1>3, <1>4 DEF Database, DatabaseCall

LEMMA StorageStep ==
  ASSUME TypeOK, NEW c \in Calls, Storage(c)
  PROVE  /\ CallStep /\ SameApps
         /\ UNCHANGED <<told, offline>> /\ down' \in {down, "moved result"}
<1> USE DEF callVars, appVars, databaseVars, storageVars, Handle
<1>0. UNCHANGED <<told, offline, pending>> /\ SameApps
  BY DEF Storage, SameApps, Keeps
<1>1. ASSUME NEW n \in Names, RejectReference(c, n)
      PROVE  CallStep /\ UNCHANGED down
  BY <1>0, <1>1 DEF RejectReference, Answer, CallStep
<1>2. ASSUME NEW n \in Names, RejectLate(c, n)
      PROVE  CallStep /\ down' = "moved result"
  BY <1>0, <1>2 DEF RejectLate, Crash, CallStep
<1>3. ASSUME NEW n \in Names, StartReference(c, n)
      PROVE  CallStep /\ UNCHANGED down
  <2>1. app[n] \in Apps
    BY <1>3, MaxAppsAssumption DEF StartReference, TypeOK
  <2> QED BY <1>0, <1>3, <2>1 DEF StartReference, CallStep
<1>4. ASSUME NotSupported(c) \/ CompleteReference(c) \/ DropReference(c)
      PROVE  CallStep /\ UNCHANGED down
  BY <1>0, <1>4 DEF NotSupported, CompleteReference, DropReference, CallStep
<1> QED BY <1>0, <1>1, <1>2, <1>3, <1>4 DEF Storage, StorageCall

-----------------------------------------------------------------------------
(* The options, from Dart to the SDK and back.                              *)

LEMMA RequestOptions ==
  ASSUME NEW o \in Options
  PROVE  /\ PigeonFirebaseOptionsToAppOptions(
                ReadValueOfType(WriteValue("PigeonFirebaseOptions", o)))
               = PigeonFirebaseOptionsToAppOptions(o)
         /\ PigeonFirebaseOptionsToAppOptions(o) \in AppOptions
<1>0. ReadValueOfType(WriteValue("PigeonFirebaseOptions", o))
        = FromEncodableList(ToEncodableList(o))
  BY DEF ReadValueOfType, WriteValue
<1>1. PigeonFirebaseOptionsToAppOptions(
        ReadValueOfType(WriteValue("PigeonFirebaseOptions", o)))
        = PigeonFirebaseOptionsToAppOptions(o)
  BY <1>0 DEF PigeonFirebaseOptionsToAppOptions, FromEncodableList, ToEncodableList
<1>2. \A f \in Required \cup Optional : o[f] \in Texts \cup {Null} /\ (f \in Required => o[f] # Null)
  BY OptionsAssumption
<1>3. o.api_key \in Texts /\ o.app_id \in Texts /\ o.messaging_sender_id \in Texts
      /\ o.project_id \in Texts
  BY <1>2 DEF Required, Optional
<1>4. OrEmpty(o.database_u_r_l) \in Texts /\ OrEmpty(o.storage_bucket) \in Texts
      /\ OrEmpty(o.tracking_id) \in Texts
  BY <1>2, TextsAssumption DEF Required, Optional, OrEmpty
<1>5. PigeonFirebaseOptionsToAppOptions(o) \in AppOptions
  BY <1>3, <1>4 DEF PigeonFirebaseOptionsToAppOptions, AppOptions
<1> QED BY <1>1, <1>5

\* What Dart is told of an App that was made of options o.
LEMMA ResponseOptions ==
  ASSUME NEW o \in Options, NEW a,
         a.options = PigeonFirebaseOptionsToAppOptions(o)
  PROVE  Response(a).name = a.name /\ Response(a).options = Kept(o)
<1> DEFINE r == OptionsFromFIROptions(a.options)
<1>0. Response(a) = ResponseFromList(ResponseToList(AppToPigeonInitializeResponse(a)))
  BY DEF Response, ReadValueOfType, WriteValue
<1>1. Response(a).name = a.name /\ Response(a).options = FromEncodableList(ToEncodableList(r))
  BY <1>0 DEF ResponseFromList, ResponseToList, AppToPigeonInitializeResponse
<1>2. FromEncodableList(ToEncodableList(r)) = r
  BY DEF FromEncodableList, ToEncodableList, OptionsFromFIROptions
<1>3. r = Kept(o)
  <2>1. \A f \in Required \cup Optional : o[f] \in Texts \cup {Null}
    BY OptionsAssumption
  <2>2. \A f \in {"database_u_r_l", "storage_bucket", "tracking_id"} :
          OrNull(OrEmpty(o[f])) = IF o[f] # Empty THEN o[f] ELSE Null
    BY TextsAssumption DEF OrNull, OrEmpty
  <2>3. \A f \in Required \cup Optional : r[f] = Kept(o)[f]
    BY <2>2 DEF Required, Optional, Kept, OptionsFromFIROptions, PigeonFirebaseOptionsToAppOptions
  <2>4. r \in [Required \cup Optional -> {r[f] : f \in Required \cup Optional}]
    BY DEF Required, Optional, OptionsFromFIROptions
  <2> QED BY <2>3, <2>4 DEF Kept
<1> QED BY <1>1, <1>2, <1>3

-----------------------------------------------------------------------------
(* The invariant.                                                           *)

LEMMA InitInv == Init => IInv
<1> SUFFICES ASSUME Init PROVE IInv
  OBVIOUS
<1>1. TypeOK
  <2>1. made \in Seq([name : Names, given : Options, options : AppOptions]) /\ Len(made) = 0
    BY DEF Init
  <2>2. app \in [Names -> 0 .. Len(made)] /\ Len(made) <= MaxApps
    BY <2>1, MaxAppsAssumption DEF Init
  <2>3. /\ result \in [Calls -> {"unsent", "handler", "sdk", "gone"}]
        /\ replies \in [Calls -> Nat]
        /\ pending \in [Calls -> Databases \cup {None}]
        /\ work \in [Calls -> 0 .. MaxApps]
    BY MaxAppsAssumption DEF Init
  <2>4. /\ cache \in [Keys -> Databases \cup {None}]
        /\ configured \in [Databases -> Settings \cup {None}]
        /\ offline \subseteq Databases
    BY DEF Init
  <2> QED BY <2>1, <2>2, <2>3, <2>4 DEF Init, TypeOK
<1>2. CallInv /\ AppInv
  BY DEF Init, CallInv, AppInv
<1>3. CacheInv
  BY KeyIsKey DEF Init, CacheInv
<1> QED BY <1>1, <1>2, <1>3 
        DEF Init, IInv, NoResultIsLost, UseInv, DatabaseServesNamedApp

\* Every step is a step of one call, and does one thing to the Apps and the cache.
LEMMA Steps ==
  ASSUME TypeOK, [Next]_vars
  PROVE  /\ CallStep
         /\ Creates \/ Deletes \/ Gets \/ SameApps
         /\ down' \in {"no", "create", "no app", "moved result"}
         /\ offline' \subseteq Databases
<1>0. down \in {"no", "create", "no app", "moved result"}
      /\ offline \subseteq Databases
  BY DEF TypeOK
<1>1. CASE UNCHANGED vars
  BY <1>0, <1>1 DEF vars, callVars, appVars, databaseVars, storageVars, CallStep, SameApps,
                    Keeps
<1>2. ASSUME NEW c \in Calls, Send(c), UNCHANGED <<databaseVars, storageVars>>
      PROVE  CallStep /\ SameApps /\ UNCHANGED <<down, offline>>
  BY <1>2 DEF Send, appVars, databaseVars, storageVars, CallStep, SameApps, Keeps
<1> QED BY <1>0, <1>1, <1>2, CoreStep, DatabaseStep, StorageStep DEF Next

LEMMA NextCall ==
  ASSUME TypeOK, CallInv, CallStep
  PROVE  /\ result' \in [Calls -> {"unsent", "handler", "sdk", "gone"}]
         /\ replies' \in [Calls -> Nat]
         /\ pending' \in [Calls -> Databases \cup {None}]
         /\ work' \in [Calls -> 0 .. MaxApps]
         /\ CallInv'
<1> USE DEF Answer, Discard, GiveToSDK
<1>0. /\ result \in [Calls -> {"unsent", "handler", "sdk", "gone"}]
      /\ replies \in [Calls -> Nat]
      /\ pending \in [Calls -> Databases \cup {None}]
      /\ work \in [Calls -> 0 .. MaxApps]
  BY DEF TypeOK
<1>1. /\ result' \in [Calls -> {"unsent", "handler", "sdk", "gone"}]
      /\ replies' \in [Calls -> Nat]
      /\ pending' \in [Calls -> Databases \cup {None}]
      /\ work' \in [Calls -> 0 .. MaxApps]
  BY <1>0, MaxAppsAssumption DEF CallStep
<1>2. CASE UNCHANGED <<result, replies, pending, work>>
  BY <1>1, <1>2 DEF CallInv
<1>3. ASSUME NEW c \in Calls, result[c] = "unsent",
             result' = [result EXCEPT ![c] = "handler"], UNCHANGED <<replies, pending, work>>
      PROVE  CallInv'
  BY <1>0, <1>3 DEF CallInv
<1>4. ASSUME NEW c \in Calls, result[c] \in {"handler", "sdk"}, Answer(c) \/ Discard(c),
             pending' = pending \/ pending' = [pending EXCEPT ![c] = None],
             work' = work \/ work' = [work EXCEPT ![c] = 0],
             result[c] = "sdk" => pending'[c] = None /\ work'[c] = 0
      PROVE  CallInv'
  <2> SUFFICES ASSUME NEW d \in Calls
               PROVE  /\ replies'[d] = 0 \/ (replies'[d] = 1 /\ result'[d] = "gone")
                      /\ pending'[d] # None => result'[d] = "sdk" /\ work'[d] = 0
                      /\ work'[d] # 0 => result'[d] = "sdk"
    BY DEF CallInv
  <2>1. CASE d # c
    BY <1>0, <1>4, <2>1 DEF CallInv
  <2>2. CASE d = c
    <3>1. pending'[c] = None /\ work'[c] = 0
      BY <1>0, <1>4, MaxAppsAssumption DEF CallInv
    <3>2. replies[c] = 0 /\ result'[c] = "gone" /\ replies'[c] \in {0, 1}
      <4>1. replies[c] = 0
        BY <1>4 DEF CallInv
      <4>2. result'[c] = "gone" /\ (replies'[c] = replies[c] \/ replies'[c] = replies[c] + 1)
        BY <1>0, <1>4
      <4> QED BY <4>1, <4>2
    <3> QED BY <2>2, <3>1, <3>2
  <2> QED BY <2>1, <2>2
<1>5. ASSUME NEW c \in Calls, result[c] = "handler", GiveToSDK(c), UNCHANGED work,
             NEW d \in Databases, pending' = [pending EXCEPT ![c] = d]
      PROVE  CallInv'
  BY <1>0, <1>5 DEF CallInv
<1>6. ASSUME NEW c \in Calls, result[c] = "handler", GiveToSDK(c), UNCHANGED pending,
             NEW a \in Apps, work' = [work EXCEPT ![c] = a]
      PROVE  CallInv'
  BY <1>0, <1>6, MaxAppsAssumption DEF CallInv
<1>7. ASSUME NEW c \in Calls, Answer(c) \/ Discard(c),
             \/ result[c] = "handler" /\ UNCHANGED <<pending, work>>
             \/ /\ pending[c] # None /\ pending' = [pending EXCEPT ![c] = None]
                /\ UNCHANGED work
             \/ work[c] # 0 /\ work' = [work EXCEPT ![c] = 0] /\ UNCHANGED pending
      PROVE  CallInv'
  <2>1. result[c] \in {"handler", "sdk"}
    BY <1>7 DEF CallInv
  <2>2. result[c] = "sdk" => pending'[c] = None /\ work'[c] = 0
    BY <1>0, <1>7 DEF CallInv
  <2> QED BY <1>4, <1>7, <2>1, <2>2
<1> QED BY <1>1, <1>2, <1>3, <1>5, <1>6, <1>7 DEF CallStep

LEMMA NextKeeper ==
  ASSUME TypeOK, NoResultIsLost, CallStep
  PROVE  NoResultIsLost'
<1> SUFFICES ASSUME NEW d \in Calls, result'[d] = "sdk"
             PROVE  pending'[d] # None \/ work'[d] # 0
  BY DEF NoResultIsLost
<1> USE DEF Answer, Discard, GiveToSDK
<1>0. /\ result \in [Calls -> {"unsent", "handler", "sdk", "gone"}]
      /\ pending \in [Calls -> Databases \cup {None}]
      /\ work \in [Calls -> 0 .. MaxApps]
      /\ result[d] = "sdk" => pending[d] # None \/ work[d] # 0
  BY DEF TypeOK, NoResultIsLost
<1>1. CASE UNCHANGED <<result, pending, work>>
  BY <1>0, <1>1
<1>2. ASSUME NEW c \in Calls, result[c] = "unsent",
             result' = [result EXCEPT ![c] = "handler"], UNCHANGED <<pending, work>>
      PROVE  pending'[d] # None \/ work'[d] # 0
  BY <1>0, <1>2
<1>3. ASSUME NEW c \in Calls, Answer(c) \/ Discard(c),
             pending' = pending \/ pending' = [pending EXCEPT ![c] = None],
             work' = work \/ work' = [work EXCEPT ![c] = 0]
      PROVE  pending'[d] # None \/ work'[d] # 0
  BY <1>0, <1>3
<1>4. ASSUME NEW c \in Calls, GiveToSDK(c), UNCHANGED work,
             NEW e \in Databases, pending' = [pending EXCEPT ![c] = e]
      PROVE  pending'[d] # None \/ work'[d] # 0
  BY <1>0, <1>4, NoneAssumption
<1>5. ASSUME NEW c \in Calls, GiveToSDK(c), UNCHANGED pending,
             NEW a \in Apps, work' = [work EXCEPT ![c] = a]
      PROVE  pending'[d] # None \/ work'[d] # 0
  BY <1>0, <1>5, MaxAppsAssumption
<1> QED BY <1>1, <1>2, <1>3, <1>4, <1>5 DEF CallStep

\* made only grows, and an App keeps its index.
LEMMA NextApps ==
  ASSUME TypeOK, AppInv, Creates \/ Deletes \/ Gets \/ SameApps
  PROVE  /\ made' \in Seq([name : Names, given : Options, options : AppOptions])
         /\ Len(made') <= MaxApps
         /\ app' \in [Names -> 0 .. Len(made')]
         /\ AppInv'
         /\ \A a \in DOMAIN made : a \in DOMAIN made' /\ made'[a] = made[a]
<1>0. /\ made \in Seq([name : Names, given : Options, options : AppOptions])
      /\ Len(made) \in Nat /\ Len(made) <= MaxApps
      /\ app \in [Names -> 0 .. Len(made)]
      /\ DOMAIN made = 1 .. Len(made)
  BY MadeIsTyped
<1>1. CASE Creates
  <2>1. PICK n \in Names, o \in Options :
          /\ Len(made) < MaxApps
          /\ made' = Append(made, [name |-> n, given |-> o,
                       options |-> PigeonFirebaseOptionsToAppOptions(o)])
          /\ app' = [app EXCEPT ![n] = Len(made) + 1]
    BY <1>1, RequestOptions DEF Creates
  <2> DEFINE a == [name |-> n, given |-> o, options |-> PigeonFirebaseOptionsToAppOptions(o)]
  <2>2. a \in [name : Names, given : Options, options : AppOptions]
    BY RequestOptions
  <2> HIDE DEF a
  <2>3. /\ made' \in Seq([name : Names, given : Options, options : AppOptions])
        /\ Len(made') = Len(made) + 1 /\ DOMAIN made' = 1 .. Len(made) + 1
        /\ made'[Len(made) + 1] = a
        /\ \A i \in 1 .. Len(made) : made'[i] = made[i]
    BY <1>0, <2>1, <2>2 DEF a
  <2>4. app' \in [Names -> 0 .. Len(made')]
    BY <1>0, <2>1, <2>3
  <2>5. a.name = n /\ a.given = o /\ a.options = PigeonFirebaseOptionsToAppOptions(o)
    BY DEF a
  <2>6. AppInv'
    BY <1>0, <2>1, <2>3, <2>5 DEF AppInv
  <2> QED BY <1>0, <2>1, <2>3, <2>4, <2>6, MaxAppsAssumption
<1>2. CASE Deletes
  BY <1>0, <1>2 DEF Deletes, AppInv
<1>3. CASE Gets \/ SameApps
  BY <1>0, <1>3 DEF Gets, SameApps, AppInv
<1> QED BY <1>1, <1>2, <1>3

\* A call that gets its Database: it is cached, and served.
LEMMA GetsCache ==
  ASSUME TypeOK, AppInv, CacheInv, NEW n \in Names, NEW u \in Urls, NEW s \in Settings,
         GetDatabase(n, u, s), UNCHANGED <<made, app>>
  PROVE  /\ cache' \in [Keys -> Databases \cup {None}]
         /\ configured' \in [Databases -> Settings \cup {None}]
         /\ use' \in [name : Names, url : Urls, database : Databases]
         /\ CacheInv' /\ DatabaseServesNamedApp'
         /\ \A d \in Databases : configured[d] # None => configured'[d] = configured[d]
         /\ configured'[use'.database] # None
<1> DEFINE key == KeyOf(n, u)
           d == DatabaseOf(n, u)
<1>0. /\ cache \in [Keys -> Databases \cup {None}]
      /\ configured \in [Databases -> Settings \cup {None}]
      /\ key \in Keys /\ d \in Databases /\ s # None
  BY KeyIsKey, DatabaseIsTyped, NoneAssumption DEF TypeOK
<1>1. use' = [name |-> n, url |-> u, database |-> d]
  BY DEF GetDatabase
<1>2. CASE cache[key] # None
  <2>1. UNCHANGED <<cache, configured>> /\ d = cache[key]
    BY <1>2 DEF GetDatabase, DatabaseOf
  <2>2. d.app \in DOMAIN made /\ made[d.app].name = n /\ d.url = u /\ configured[d] # None
    BY <1>2, <2>1 DEF CacheInv
  <2>3. CacheInv'
    BY <2>1 DEF CacheInv
  <2> QED BY <1>0, <1>1, <2>1, <2>2, <2>3 DEF DatabaseServesNamedApp
<1>3. CASE cache[key] = None
  <2>1. /\ app[n] # 0 /\ d = [app |-> app[n], url |-> u]
        /\ configured' = [configured EXCEPT ![d] = s]
        /\ cache' = [cache EXCEPT ![key] = d]
    BY <1>3 DEF GetDatabase, DatabaseOf
  <2>2. d.app \in DOMAIN made /\ made[d.app].name = n /\ d.url = u
    BY <2>1, MadeIsTyped DEF AppInv
  <2>3. configured[d] = None
    BY <1>0, <1>3, <2>2 DEF CacheInv
  <2>4. ASSUME NEW m \in Names, NEW v \in Urls, cache'[KeyOf(m, v)] # None
        PROVE  LET e == cache'[KeyOf(m, v)] IN
               /\ e.app \in DOMAIN made /\ made[e.app].name = m /\ e.url = v
               /\ configured'[e] # None
    <3>1. KeyOf(m, v) \in Keys
      BY KeyIsKey
    <3>2. CASE KeyOf(m, v) = key
      <4>1. m = n /\ v = u
        BY <3>2, KeyIsExact
      <4> QED BY <1>0, <2>1, <2>2, <3>2, <4>1
    <3>3. CASE KeyOf(m, v) # key
      <4>1. cache'[KeyOf(m, v)] = cache[KeyOf(m, v)]
        BY <1>0, <2>1, <3>1, <3>3
      <4>2. cache[KeyOf(m, v)] \in Databases
        BY <1>0, <2>4, <3>1, <4>1
      <4> HIDE DEF d, key
      <4> QED BY <1>0, <2>1, <2>4, <4>1, <4>2 DEF CacheInv
    <3> QED BY <3>2, <3>3
  <2>5. ASSUME NEW e \in Databases, configured'[e] # None
        PROVE  e.app \in DOMAIN made /\ cache'[KeyOf(made[e.app].name, e.url)] # None
    <3>1. CASE e = d
      <4>1. KeyOf(made[e.app].name, e.url) = key /\ cache'[key] # None
        BY <1>0, <2>1, <2>2, <3>1, NoneAssumption
      <4> QED BY <2>2, <3>1, <4>1
    <3>2. CASE e # d
      <4>1. configured[e] # None
        <5> HIDE DEF d, key
        <5> QED BY <1>0, <2>1, <2>5, <3>2
      <4>2. e.app \in DOMAIN made /\ cache[KeyOf(made[e.app].name, e.url)] # None
        BY <4>1 DEF CacheInv
      <4> HIDE DEF d, key
      <4> QED BY <1>0, <2>1, <4>2, NoneAssumption
    <3> QED BY <3>1, <3>2
  <2>6. CacheInv'
    BY <2>4, <2>5 DEF CacheInv, KeyOf
  <2>7. /\ cache' \in [Keys -> Databases \cup {None}]
        /\ configured' \in [Databases -> Settings \cup {None}]
        /\ configured'[d] = s
        /\ \A e \in Databases : configured[e] # None => configured'[e] = configured[e]
    <3> HIDE DEF d, key
    <3> QED BY <1>0, <2>1, <2>3
  <2> HIDE DEF d, key
  <2> QED BY <1>0, <1>1, <2>2, <2>6, <2>7 DEF DatabaseServesNamedApp
<1> QED BY <1>2, <1>3

LEMMA NextCache ==
  ASSUME IInv, Creates \/ Deletes \/ Gets \/ SameApps
  PROVE  /\ cache' \in [Keys -> Databases \cup {None}]
         /\ configured' \in [Databases -> Settings \cup {None}]
         /\ use' = None \/ use' \in [name : Names, url : Urls, database : Databases]
         /\ CacheInv' /\ UseInv' /\ DatabaseServesNamedApp'
<1>1. CASE Gets
  BY <1>1, GetsCache DEF Gets, IInv, UseInv
<1>2. CASE Creates \/ Deletes \/ SameApps
  <2>1. Keeps
    BY <1>2 DEF Creates, Deletes, SameApps
  <2>2. \A a \in DOMAIN made : a \in DOMAIN made' /\ made'[a] = made[a]
    BY NextApps DEF IInv
  <2>3. CacheInv'
    BY <2>1, <2>2 DEF Keeps, CacheInv, IInv
  <2>4. DatabaseServesNamedApp'
    BY <2>1, <2>2 DEF Keeps, DatabaseServesNamedApp, IInv
  <2> QED BY <2>1, <2>3, <2>4 DEF Keeps, IInv, UseInv, TypeOK
<1> QED BY <1>1, <1>2

LEMMA NextInv == IInv /\ [Next]_vars => IInv'
<1> SUFFICES ASSUME IInv, [Next]_vars PROVE IInv'
  OBVIOUS
<1>1. TypeOK /\ CallInv /\ AppInv
  BY DEF IInv
<1>2. /\ CallStep /\ (Creates \/ Deletes \/ Gets \/ SameApps)
      /\ down' \in {"no", "create", "no app", "moved result"}
      /\ offline' \subseteq Databases
  BY <1>1, Steps DEF IInv
<1>3. /\ CallInv' /\ NoResultIsLost' /\ AppInv' /\ CacheInv' /\ UseInv'
      /\ DatabaseServesNamedApp'
  BY <1>1, <1>2, NextCall, NextKeeper, NextApps, NextCache DEF IInv
<1>4. TypeOK'
  BY <1>1, <1>2, NextCall, NextApps, NextCache DEF TypeOK
<1> QED BY <1>2, <1>3, <1>4 DEF IInv

-----------------------------------------------------------------------------
(* What Dart is told.                                                       *)

\* Every App tells the options it was given, as far as the SDK keeps them.
LEMMA AppTells ==
  ASSUME TypeOK, AppInv, NEW a \in DOMAIN made
  PROVE  Response(made[a]).name = made[a].name /\ Response(made[a]).options = Kept(made[a].given)
<1>1. made[a].given \in Options
  <2> DEFINE R == [name : Names, given : Options, options : AppOptions]
  <2>1. made \in Seq(R) /\ DOMAIN made = 1 .. Len(made)
    BY MadeIsTyped
  <2>2. made[a] \in R
    <3> HIDE DEF R
    <3> QED BY <2>1
  <2> QED BY <2>2
<1>2. made[a].options = PigeonFirebaseOptionsToAppOptions(made[a].given)
  BY DEF AppInv
<1> QED BY <1>1, <1>2, ResponseOptions

LEMMA NextTold ==
  ASSUME IInv, OptionsSurvive, [Next]_vars
  PROVE  OptionsSurvive'
<1>0. TypeOK /\ AppInv
  BY DEF IInv
<1>1. ASSUME UNCHANGED made, told' \in {told, {}}
      PROVE  OptionsSurvive'
  BY <1>1 DEF OptionsSurvive
<1>2. ASSUME NEW c \in Calls, NEW n \in Names, NEW o \in Options, FindApp(c, n, o)
      PROVE  OptionsSurvive'
  <2>1. app[n] \in DOMAIN made /\ UNCHANGED made /\ told' = {Response(made[app[n]])}
    BY <1>0, <1>2, MadeIsTyped DEF FindApp
  <2> QED BY <1>0, <2>1, AppTells DEF OptionsSurvive
<1>3. ASSUME NEW c \in Calls, NEW n \in Names, NEW o \in Options, CreateApp(c, n, o)
      PROVE  OptionsSurvive'
  <2> DEFINE a == [name |-> n, given |-> o, options |-> PigeonFirebaseOptionsToAppOptions(o)]
  <2>1. made' = Append(made, a) /\ told' = {Response(a)}
    BY <1>3, RequestOptions DEF CreateApp
  <2>2. Response(a).name = n /\ Response(a).options = Kept(o) /\ a.name = n /\ a.given = o
    <3>1. a.name = n /\ a.given = o /\ a.options = PigeonFirebaseOptionsToAppOptions(o)
      OBVIOUS
    <3> HIDE DEF a
    <3> QED BY <3>1, ResponseOptions
  <2>3. Len(made) + 1 \in DOMAIN made' /\ made'[Len(made) + 1] = a
    <3> HIDE DEF a
    <3>1. made \in Seq([name : Names, given : Options, options : AppOptions])
      BY <1>0, MadeIsTyped
    <3> QED BY <2>1, <3>1
  <2> HIDE DEF a
  <2> QED BY <2>1, <2>2, <2>3 DEF OptionsSurvive
<1>4. ASSUME NEW c \in Calls, InitializeCore(c)
      PROVE  OptionsSurvive'
  <2>1. UNCHANGED made /\ told' = {Response(made[app[n]]) : n \in {m \in Names : app[m] # 0}}
    BY <1>4 DEF InitializeCore
  <2>2. \A n \in Names : app[n] # 0 => app[n] \in DOMAIN made
    BY <1>0, MadeIsTyped
  <2> QED BY <1>0, <2>1, <2>2, AppTells DEF OptionsSurvive
<1>5. ASSUME NEW c \in Calls, Core(c)
      PROVE  OptionsSurvive'
  <2>1. ASSUME NEW n \in Names, CreateFails(c, n) \/ Delete(c, n)
        PROVE  UNCHANGED made /\ told' \in {told, {}}
    BY <2>1 DEF CreateFails, Delete, appVars
  <2>2. ASSUME OptionsFromResource(c) \/ SetAutomatic(c) \/ RejectMessage(c)
        PROVE  UNCHANGED made /\ told' \in {told, {}}
    BY <2>2 DEF OptionsFromResource, SetAutomatic, RejectMessage, appVars
  <2> QED BY <1>1, <1>2, <1>3, <1>4, <1>5, <2>1, <2>2
          DEF Core, FirebaseCoreHostApi, FirebaseAppHostApi
<1>6. CASE UNCHANGED vars
  BY <1>1, <1>6 DEF vars, appVars
<1>7. ASSUME NEW c \in Calls, Send(c) \/ Database(c) \/ Storage(c)
      PROVE  OptionsSurvive'
  BY <1>1, <1>7 DEF Send, Database, Storage, appVars
<1> QED BY <1>5, <1>6, <1>7 DEF Next

-----------------------------------------------------------------------------
(* PluginCalls implements the reply contract.                               *)

LEMMA InitReply == Init => MR!Init
  BY DEF Init, MR!Init, replyStatus

LEMMA NextReply == IInv /\ [Next]_vars => [MR!Next]_replyStatus
<1> SUFFICES ASSUME IInv, [Next]_vars PROVE [MR!Next]_replyStatus
  OBVIOUS
<1>0. /\ TypeOK /\ CallInv /\ CallStep
      /\ result \in [Calls -> {"unsent", "handler", "sdk", "gone"}]
      /\ replies \in [Calls -> Nat]
  BY Steps DEF IInv, TypeOK
<1>r. /\ replyStatus = [d \in Calls |-> replyStatus[d]]
      /\ replyStatus' = [d \in Calls |-> replyStatus'[d]]
  BY DEF replyStatus
<1>1. CASE UNCHANGED <<result, replies, pending, work>>
  BY <1>1 DEF replyStatus
<1>2. ASSUME NEW c \in Calls, result[c] = "unsent", UNCHANGED replies,
             result' = [result EXCEPT ![c] = "handler"]
      PROVE  MR!Send(c)
  <2>1. replies[c] = 0
    BY <1>0, <1>2 DEF CallInv
  <2>2. replyStatus[c] = "unsent" /\ replyStatus'[c] = "pending"
    BY <1>0, <1>2, <2>1 DEF replyStatus
  <2>3. \A d \in Calls \ {c} : replyStatus'[d] = replyStatus[d]
    BY <1>0, <1>2 DEF replyStatus
  <2> QED BY <1>r, <2>2, <2>3 DEF MR!Send
<1>3. ASSUME NEW c \in Calls, result[c] = "handler", GiveToSDK(c)
      PROVE  UNCHANGED replyStatus
  BY <1>0, <1>3 DEF GiveToSDK, replyStatus
<1>4. ASSUME NEW c \in Calls, result[c] \in {"handler", "sdk"}, Answer(c)
      PROVE  MR!Answer(c)
  <2>1. replies[c] = 0
    BY <1>0, <1>4 DEF CallInv
  <2>2. replyStatus[c] = "pending" /\ replyStatus'[c] = "answered"
    BY <1>0, <1>4, <2>1 DEF Answer, replyStatus
  <2>3. \A d \in Calls \ {c} : replyStatus'[d] = replyStatus[d]
    BY <1>0, <1>4 DEF Answer, replyStatus
  <2> QED BY <1>r, <2>2, <2>3 DEF MR!Answer
<1>5. ASSUME NEW c \in Calls, result[c] \in {"handler", "sdk"}, Discard(c)
      PROVE  MR!Abandon(c)
  <2>1. replies[c] = 0
    BY <1>0, <1>5 DEF CallInv
  <2>2. replyStatus[c] = "pending" /\ replyStatus'[c] = "abandoned"
    BY <1>0, <1>5, <2>1 DEF Discard, replyStatus
  <2>3. \A d \in Calls \ {c} : replyStatus'[d] = replyStatus[d]
    BY <1>0, <1>5 DEF Discard, replyStatus
  <2> QED BY <1>r, <2>2, <2>3 DEF MR!Abandon
<1>6. \A c \in Calls : pending[c] # None \/ work[c] # 0 => result[c] = "sdk"
  BY <1>0 DEF CallInv
<1> QED BY <1>0, <1>1, <1>2, <1>3, <1>4, <1>5, <1>6 DEF CallStep, MR!Next

-----------------------------------------------------------------------------
(* The theorems.                                                            *)

\* The results, the Apps and the cache fit together whatever Dart calls.
THEOREM Invariance == Safety => []IInv
<1> QED BY InitInv, NextInv, PTL DEF Safety

\* Type correctness.
THEOREM TypeCorrect == Safety => []TypeOK
<1>1. IInv => TypeOK
  BY DEF IInv
<1> QED BY <1>1, Invariance, PTL

\* The cache never serves a Database of another App's name or of another URL.
THEOREM ServesNamedApp == Safety => []DatabaseServesNamedApp
<1>1. IInv => DatabaseServesNamedApp
  BY DEF IInv
<1> QED BY <1>1, Invariance, PTL

\* No MethodResult is lost: one that left its handler unanswered is in the hands of a
\* future, of a Database or of firebase_storage, until that future answers or drops it.
THEOREM ResultsAreKept == Safety => []NoResultIsLost
<1>1. IInv => NoResultIsLost
  BY DEF IInv
<1> QED BY <1>1, Invariance, PTL

\* A Database gets its settings before its first use, and keeps them.
THEOREM SettingsAreFixed == Safety => SettingsFixedByFirstUse
<1>1. IInv /\ [Next]_vars =>
        [/\ \A d \in Databases : configured[d] # None => configured'[d] = configured[d]
         /\ use' # None => configured'[use'.database] # None]_vars
  <2> SUFFICES ASSUME IInv, [Next]_vars
               PROVE  /\ \A d \in Databases : configured[d] # None =>
                                configured'[d] = configured[d]
                      /\ use' # None => configured'[use'.database] # None
    OBVIOUS
  <2>1. Creates \/ Deletes \/ Gets \/ SameApps
    BY Steps DEF IInv
  <2>2. CASE Gets
    BY <2>2, GetsCache DEF Gets, IInv
  <2>3. CASE Keeps
    BY <2>3, NextInv DEF Keeps, IInv, UseInv
  <2> QED BY <2>1, <2>2, <2>3 DEF Creates, Deletes, SameApps
<1> QED BY <1>1, Invariance, PTL DEF Safety, SettingsFixedByFirstUse

\* Dart is told the options an App was created with, through both conversions and the
\* lists of the channel (firebase_core_tizen_plugin.cc:75-125).
THEOREM OptionsAreKept == Safety => []OptionsSurvive
<1>1. Init => OptionsSurvive
  BY DEF Init, OptionsSurvive
<1>2. IInv /\ OptionsSurvive /\ [Next]_vars => OptionsSurvive'
  BY NextTold
<1> QED BY <1>1, <1>2, Invariance, PTL DEF Safety

\* Every call of the three plugins is answered at most once, whatever is called,
\* created and deleted in between.
THEOREM RepliedOnce == Safety => PluginCallsRepliedOnce
<1>1. IInv /\ [Next]_vars => [MR!Next]_replyStatus
  BY NextReply
<1> QED BY <1>1, InitReply, Invariance, PTL DEF Safety, PluginCallsRepliedOnce, MR!Safety
=============================================================================
