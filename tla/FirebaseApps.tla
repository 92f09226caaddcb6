---------------------------- MODULE FirebaseApps ----------------------------
(***************************************************************************)
(* packages/firebase_core/tizen: the Apps of the Firebase SDK, and Dart's  *)
(* calls on them.  The other plugins look their Apps up in the same table. *)
(* The calls of all the plugins come through one queue to the platform     *)
(* thread, which handles them one by one; a handler owns the MethodResult, *)
(* or Pigeon's reply function, until it answers it or hands it to a future *)
(* of the SDK.                                                             *)
(***************************************************************************)
EXTENDS Naturals, Sequences, PigeonMessages

CONSTANTS
  MaxCalls,   \* bound: how many calls Dart makes
  MaxApps,    \* bound: how many Apps are created
  Names,      \* the names of Apps, texts as sequences
  Texts,      \* the texts of options
  Options     \* the options Dart has for Apps

Calls == 1 .. MaxCalls
Apps  == 1 .. MaxApps

ASSUME MaxCallsAssumption == MaxCalls \in Nat
ASSUME MaxAppsAssumption  == MaxApps \in Nat
ASSUME TextsAssumption    == Null \notin Texts /\ Empty \in Texts
ASSUME OptionsAssumption  ==
  \A o \in Options : /\ o \in [Required \cup Optional -> Texts \cup {Null}]
                     /\ \A f \in Required : o[f] # Null

\* firebase::AppOptions, as far as the plugin sets it.
AppOptions ==
  [api_key : Texts, app_id : Texts, messaging_sender_id : Texts, project_id : Texts,
   database_url : Texts, storage_bucket : Texts, ga_tracking_id : Texts]

VARIABLES
  result,    \* result[c]: who has the MethodResult of call c
  replies,   \* replies[c]: how often it was answered
  down,      \* what ended the process, or "no"
  made,      \* the Apps that were created, in order; given is what Dart gave
  app,       \* app[n]: the App of name n as an index of made, 0 if there is none
  told       \* the Apps that the last reply of firebase_core told Dart of

callVars == <<result, replies>>
appVars  == <<made, app, told>>

\* The App object still exists.
Alive(a) == app[made[a].name] = a

-----------------------------------------------------------------------------
(* Calls and their results.                                                 *)

\* Dart makes its calls one after another.
Send(c) ==
  /\ result[c] = "unsent"
  /\ \A d \in Calls : d < c => result[d] # "unsent"
  /\ result' = [result EXCEPT ![c] = "handler"]
  /\ UNCHANGED <<replies, down, appVars>>

\* The platform thread turns to c, the first call it has not handled yet.
Handle(c) ==
  /\ down = "no"
  /\ result[c] = "handler"
  /\ \A d \in Calls : d < c => result[d] # "handler"

\* The owner answers and destroys the MethodResult.
Answer(c) ==
  /\ result' = [result EXCEPT ![c] = "gone"]
  /\ replies' = [replies EXCEPT ![c] = @ + 1]

\* The owner destroys it unanswered.
Discard(c) ==
  /\ result' = [result EXCEPT ![c] = "gone"]
  /\ UNCHANGED replies

\* The owner hands it to a future of the SDK.
GiveToSDK(c) ==
  /\ result' = [result EXCEPT ![c] = "sdk"]
  /\ UNCHANGED replies

\* The process ends.
Crash(why) == down' = why /\ UNCHANGED callVars

-----------------------------------------------------------------------------
(* The calls of firebase_core.                                              *)

\* What Dart is told of an App, through the codec of the channel.
AppToPigeonInitializeResponse(a) ==
  [name |-> a.name, options |-> OptionsFromFIROptions(a.options)]

Response(a) ==
  ReadValueOfType(WriteValue("PigeonInitializeResponse", AppToPigeonInitializeResponse(a)))

\* initializeApp of an App that exists, whose options stay.
FindApp(c, n, o) ==
  /\ Handle(c)
  /\ app[n] # 0
  /\ Answer(c)
  /\ told' = {Response(made[app[n]])}
  /\ UNCHANGED <<made, app, down>>

\* initializeApp creates the App.
CreateApp(c, n, o) ==
  /\ Handle(c)
  /\ app[n] = 0
  /\ Len(made) < MaxApps
  /\ LET request == ReadValueOfType(WriteValue("PigeonFirebaseOptions", o))
         a == [name |-> n, given |-> o,
               options |-> PigeonFirebaseOptionsToAppOptions(request)]
     IN  /\ made' = Append(made, a)
         /\ told' = {Response(a)}
  /\ app' = [app EXCEPT ![n] = Len(made) + 1]
  /\ Answer(c)
  /\ UNCHANGED down

\* App::Create fails, and its null pointer is dereferenced.
CreateFails(c, n) ==
  /\ Handle(c)
  /\ app[n] = 0
  /\ Crash("create")
  /\ UNCHANGED appVars

\* initializeCore: all the Apps there are.
InitializeCore(c) ==
  /\ Handle(c)
  /\ told' = {Response(made[app[n]]) : n \in {m \in Names : app[m] # 0}}
  /\ Answer(c)
  /\ UNCHANGED <<made, app, down>>

\* optionsFromResource does nothing: the reply function is destroyed.
OptionsFromResource(c) ==
  /\ Handle(c)
  /\ Discard(c)
  /\ UNCHANGED <<appVars, down>>

\* setAutomaticDataCollectionEnabled and ...ResourceManagementEnabled.
SetAutomatic(c) ==
  /\ Handle(c)
  /\ Answer(c)
  /\ told' = {}
  /\ UNCHANGED <<made, app, down>>

Delete(c, n) ==
  /\ Handle(c)
  /\ app' = [app EXCEPT ![n] = 0]
  /\ told' = {}
  /\ Answer(c)
  /\ UNCHANGED <<made, down>>

\* Pigeon answers for the API: an argument is null, or an exception was thrown.
RejectMessage(c) ==
  /\ Handle(c)
  /\ told' = {}
  /\ Answer(c)
  /\ UNCHANGED <<made, app, down>>

FirebaseCoreHostApi(c) ==
  \/ RejectMessage(c)
  \/ \E n \in Names, o \in Options : FindApp(c, n, o) \/ CreateApp(c, n, o)
  \/ \E n \in Names : CreateFails(c, n)
  \/ InitializeCore(c)
  \/ OptionsFromResource(c)

FirebaseAppHostApi(c) ==
  \/ SetAutomatic(c)
  \/ \E n \in Names : Delete(c, n)
  \/ RejectMessage(c)
=============================================================================
