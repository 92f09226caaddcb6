----------------------------- MODULE PluginCalls -----------------------------
(***************************************************************************)
(* The method calls of firebase_core, firebase_database and                *)
(* firebase_storage in one process: the three plugins share the platform   *)
(* thread and the SDK's table of Apps.                                     *)
(***************************************************************************)
EXTENDS DatabaseCalls, StorageCalls

vars == <<callVars, down, appVars, databaseVars, storageVars>>

TypeOK ==
  /\ result \in [Calls -> {"unsent", "handler", "sdk", "gone"}]
  /\ replies \in [Calls -> Nat]
  /\ down \in {"no", "create", "no app", "moved result"}
  /\ made \in Seq([name : Names, given : Options, options : AppOptions])
  /\ Len(made) <= MaxApps
  /\ app \in [Names -> 0 .. Len(made)]
  /\ cache \in [Keys -> Databases \cup {None}]
  /\ configured \in [Databases -> Settings \cup {None}]
  /\ offline \subseteq Databases
  /\ use = None \/ use \in [name : Names, url : Urls, database : Databases]
  /\ pending \in [Calls -> Databases \cup {None}]
  /\ work \in [Calls -> 0 .. MaxApps]

Init ==
  /\ result = [c \in Calls |-> "unsent"]
  /\ replies = [c \in Calls |-> 0]
  /\ down = "no"
  /\ made = << >> /\ app = [n \in Names |-> 0] /\ told = {}
  /\ cache = [k \in Keys |-> None]
  /\ configured = [d \in Databases |-> None]
  /\ offline = {} /\ use = None
  /\ pending = [c \in Calls |-> None]
  /\ work = [c \in Calls |-> 0]

Core(c) ==
  /\ FirebaseCoreHostApi(c) \/ FirebaseAppHostApi(c)
  /\ UNCHANGED <<databaseVars, storageVars>>

Database(c) ==
  /\ DatabaseCall(c) \/ CompleteDatabase(c)
  /\ UNCHANGED <<appVars, storageVars>>

Storage(c) ==
  /\ StorageCall(c) \/ CompleteReference(c) \/ DropReference(c)
  /\ UNCHANGED <<appVars, databaseVars>>

Next ==
  \E c \in Calls :
    \/ Send(c) /\ UNCHANGED <<databaseVars, storageVars>>
    \/ Core(c) \/ Database(c) \/ Storage(c)

Safety == Init /\ [][Next]_vars

Platform == \E c \in Calls : Handle(c) /\ (Core(c) \/ Database(c) \/ Storage(c))
Online   == \E c \in Calls : pending[c] \notin offline /\ CompleteDatabase(c)
                             /\ UNCHANGED <<appVars, storageVars>>
Transfer == \E c \in Calls : CompleteReference(c) /\ UNCHANGED <<appVars, databaseVars>>

\* The platform thread handles its calls; futures end while their Database is
\* online, and those of firebase_storage end or go with their App.  Dart need not
\* call.
Fairness == WF_vars(Platform) /\ WF_vars(Online) /\ WF_vars(Transfer)

Spec == Safety /\ Fairness

-----------------------------------------------------------------------------
(* Correctness.                                                             *)

\* Whatever was cached, deleted and created before, a call gets a Database of
\* an App with the name and with the URL it sent (GetDatabaseFromArguments).
DatabaseServesNamedApp ==
  use # None => /\ use.database.app \in DOMAIN made
                /\ made[use.database.app].name = use.name
                /\ use.database.url = use.url

\* The settings of a Database are those of its first call, which come before any
\* use of it, and never change (set_persistence_enabled must be the first call).
SettingsFixedByFirstUse ==
  [][/\ \A d \in Databases : configured[d] # None => configured'[d] = configured[d]
     /\ use' # None => configured'[use'.database] # None]_vars

\* What the SDK keeps of options: seven fields; an empty text becomes no text.
Kept(o) ==
  [f \in Required \cup Optional |->
    IF f \in Required THEN o[f]
    ELSE IF f \in {"database_u_r_l", "storage_bucket", "tracking_id"} /\ o[f] # Empty
      THEN o[f] ELSE Null]

\* Dart is told the options an App was created with, as far as the SDK keeps them
\* and whatever else was asked for since, field by field through both conversions
\* and the channel's lists.
OptionsSurvive ==
  \A r \in told : \E a \in DOMAIN made :
    made[a].name = r.name /\ r.options = Kept(made[a].given)

replyStatus ==
  [c \in Calls |->
    CASE replies[c] > 1 -> "repeated"
      [] replies[c] = 1 -> "answered"
      [] replies[c] = 0 /\ result[c] = "gone" -> "abandoned"
      [] replies[c] = 0 /\ result[c] = "unsent" -> "unsent"
      [] OTHER -> "pending"]

MR == INSTANCE MethodReply WITH status <- replyStatus

\* Every call of the three plugins is answered at most once, by its handler, by a
\* catch block or by the callback of a future, and never after it was abandoned.
PluginCallsRepliedOnce == MR!Safety

\* A call is answered or abandoned in the end, unless the process ends, or the
\* result waits for a Database that is offline or whose App was deleted.
PluginCallsSettle ==
  \A c \in Calls : result[c] \in {"handler", "sdk"} ~>
    \/ result[c] = "gone"
    \/ down # "no"
    \/ pending[c] # None /\ (pending[c] \in offline \/ ~Alive(pending[c].app))
=============================================================================
