---------------------------- MODULE DatabaseCalls ----------------------------
(***************************************************************************)
(* The calls of packages/firebase_database/tizen but runTransaction and    *)
(* observe: the Databases the plugin caches, and the calls that leave the  *)
(* MethodResult to a future of the SDK.  A Database of the SDK is known by *)
(* its App and its URL; it is of no use once its App was deleted.          *)
(***************************************************************************)
EXTENDS FirebaseApps

CONSTANTS
  Urls,      \* the URLs Dart names Databases by, << >> for the App's own
  Settings   \* the settings Dart sends with every call

Databases == [app : Apps, url : Urls]

ASSUME NoneAssumption == None \notin Settings \cup Databases

VARIABLES
  cache,       \* cached_database_map: the Database under a key, or None
  configured,  \* configured[d]: the settings applied to d last, or None
  offline,     \* the Databases that were told to go offline
  use,         \* the last use of a Database: what Dart named, and what it got
  pending      \* pending[c]: the Database whose future has the result of c, or None

databaseVars == <<cache, configured, offline, use, pending>>

\* Mutant of KeyOf: the name of the App is left out.
KeyOfUrl(n, u) == u

\* instance_key.
KeyOf(n, u) == n \o u

Keys == {KeyOf(n, u) : n \in Names, u \in Urls}

\* The key has no separator: names and URLs are such that it needs none.
ASSUME KeysAssumption ==
  \A n, m \in Names, u, v \in Urls : n \o u = m \o v => n = m /\ u = v

\* What GetDatabaseFromArguments returns, if it returns.
DatabaseOf(n, u) ==
  IF cache[KeyOf(n, u)] # None THEN cache[KeyOf(n, u)] ELSE [app |-> app[n], url |-> u]

\* Mutant of GetDatabase: the settings are applied to a cached Database, too.
GetDatabaseConfigures(n, u, s) ==
  /\ cache[KeyOf(n, u)] # None \/ app[n] # 0
  /\ configured' = [configured EXCEPT ![DatabaseOf(n, u)] = s]
  /\ cache' = [cache EXCEPT ![KeyOf(n, u)] = DatabaseOf(n, u)]
  /\ use' = [name |-> n, url |-> u, database |-> DatabaseOf(n, u)]

\* Mutant of GetDatabase: the App is not looked at before a Database is made of it.
GetDatabaseUnchecked(n, u, s) ==
  /\ \/ /\ cache[KeyOf(n, u)] # None
        /\ UNCHANGED <<cache, configured>>
     \/ /\ cache[KeyOf(n, u)] = None
        /\ configured' = [configured EXCEPT ![DatabaseOf(n, u)] = s]
        /\ cache' = [cache EXCEPT ![KeyOf(n, u)] = DatabaseOf(n, u)]
  /\ use' = [name |-> n, url |-> u, database |-> DatabaseOf(n, u)]

\* GetDatabaseFromArguments: a Database gets its settings when it is cached.
GetDatabase(n, u, s) ==
  /\ \/ /\ cache[KeyOf(n, u)] # None
        /\ UNCHANGED <<cache, configured>>
     \/ /\ cache[KeyOf(n, u)] = None
        /\ app[n] # 0
        /\ configured' = [configured EXCEPT ![DatabaseOf(n, u)] = s]
        /\ cache' = [cache EXCEPT ![KeyOf(n, u)] = DatabaseOf(n, u)]
  /\ use' = [name |-> n, url |-> u, database |-> DatabaseOf(n, u)]

\* GetDatabaseFromArguments goes on with the null App it found.
NoApp(c, n, u) ==
  /\ Handle(c)
  /\ cache[KeyOf(n, u)] = None
  /\ app[n] = 0
  /\ Crash("no app")
  /\ UNCHANGED databaseVars

\* The arguments are no map, or the method is unknown.
BadCall(c) ==
  /\ Handle(c)
  /\ Answer(c)
  /\ UNCHANGED <<databaseVars, down>>

GoOnline(c, n, u, s) ==
  /\ Handle(c)
  /\ GetDatabase(n, u, s)
  /\ offline' = offline \ {DatabaseOf(n, u)}
  /\ Answer(c)
  /\ UNCHANGED <<pending, down>>

GoOffline(c, n, u, s) ==
  /\ Handle(c)
  /\ GetDatabase(n, u, s)
  /\ offline' = offline \cup {DatabaseOf(n, u)}
  /\ Answer(c)
  /\ UNCHANGED <<pending, down>>

\* purgeOutstandingWrites and keepSynced.
CallAndAnswer(c, n, u, s) ==
  /\ Handle(c)
  /\ GetDatabase(n, u, s)
  /\ Answer(c)
  /\ UNCHANGED <<offline, pending, down>>

\* Mutant of CallAndRelease: the result is released, but to no callback.
CallAndLeak(c, n, u, s) ==
  /\ Handle(c)
  /\ GetDatabase(n, u, s)
  /\ GiveToSDK(c)
  /\ UNCHANGED <<offline, pending, down>>

\* DatabaseReference#set and its like, OnDisconnect#set and its like, Query#get:
\* the future of the SDK call gets result.release().
CallAndRelease(c, n, u, s) ==
  /\ Handle(c)
  /\ GetDatabase(n, u, s)
  /\ GiveToSDK(c)
  /\ pending' = [pending EXCEPT ![c] = DatabaseOf(n, u)]
  /\ UNCHANGED <<offline, down>>

\* CommonOnCompletionCallback answers if the future is complete, with the error
\* or without, and deletes the result in any case.  The future of a Database
\* without its App does not call it.
CompleteDatabase(c) ==
  /\ down = "no"
  /\ pending[c] # None
  /\ Alive(pending[c].app)
  /\ pending' = [pending EXCEPT ![c] = None]
  /\ Answer(c) \/ Discard(c)
  /\ UNCHANGED <<cache, configured, offline, use, down>>

DatabaseCall(c) ==
  \/ BadCall(c)
  \/ \E n \in Names, u \in Urls :
       \/ NoApp(c, n, u)
       \/ \E s \in Settings :
            \/ GoOnline(c, n, u, s) \/ GoOffline(c, n, u, s)
            \/ CallAndAnswer(c, n, u, s)
            \/ CallAndRelease(c, n, u, s)
=============================================================================
