# Verification of the Tizen FlutterFire plugins

This directory models in TLA+ the native half of the FlutterFire plugins for Tizen
(`packages/*/tizen`, C++), and the command that runs the repository's integration tests on
emulators and devices (`tools/lib/src`, Dart). TLC checks the models on small instances;
TLAPS proves what matters most for every value of the constants. `PROJECT.json` maps each
definition to the lines it stands for, lists the runs, the mutants (one plausible bug per
property, which the run must catch), the hazards of the code and the proved theorems.

    tlc -config CloudFunctions.cfg MCCloudFunctions      # a run
    tlapm CloudFunctions_proofs.tla                      # a proof

## 1. The system

Dart calls a plugin through a `MethodChannel`. The **platform thread** runs
`HandleMethodCall(call, result)`, one call at a time; the `MethodResult` is to
be answered once, now or later. The plugin calls the Firebase C++ SDK, which
answers with futures whose completion callbacks run on **threads of the SDK**,
or inside `OnCompletion` on the platform thread when the future has completed
already. So every plugin has the same hard parts: two kinds of threads over
shared state, C++ objects that must outlive callbacks nobody joins, and a reply
that must be sent once on every path. The repository's second program is
`flutterfire-tizen` (`tools/lib/src`, Dart), which builds the examples and runs
the integration tests on Tizen emulators.

| component | state it keeps | operations | talks to | what is hard, and what makes it correct |
|---|---|---|---|---|
| **cloud functions** (`cloud_functions_plugin.cc`, `queue.hpp`) | a locked queue of `AsyncTask` handlers; for each call a `shared_ptr` to its `HttpsCallableReference`, copied into a `Param` and into a queued handler | `FirebaseFunctions#call`; the completion callback; the drain loop at the start of every call | SDK futures; the queue is shared by both threads | the reference must exist until its call has completed, and go away after; `empty()` and `pop()` lock separately; one reply on each path |
| **database transactions** (`firebase_database_plugin.cc:230-391`) | for each run of the transaction function a mutex, a condition variable, a lock and a shared `WrappedData` | `runTransaction`; the transaction function on the SDK's worker; the three ways Dart's answer arrives; the completion callback | Dart is called back in the middle of a transaction | a rendezvous of two threads over a stack frame; the SDK runs the function again after a conflict; no predicate on `cv.wait`; two answers skip the mutex |
| **database observers** (`:447-741`) | a stream handler with an event sink and a value or child listener, registered on a `Query` | observe, listen, cancel; value, child and error events | the SDK's threads call the listener | an event that races with cancel; the listener's life; filtering by event type |
| **database one-shot operations** (`:64-229`, `:393-445`) | none | set, setWithPriority, update, setPriority, `OnDisconnect#*`, get, keepSynced, goOnline, goOffline, purgeOutstandingWrites | one SDK call and one reply each | the raw `MethodResult` must be deleted once |
| **database instances, query arguments** (`firebase_database_utils.cc`) | a map from App and URL to `Database` | find or create an instance; apply the query's modifiers | core apps | settings are applied only at creation; entries outlive their App |
| **storage tasks** (`firebase_storage_task.*`, `firebase_storage_listener.cc`, plugin `:84-167`, `:267-283`) | `StorageTaskHandler`, a locked map that owns a task under each handle; each task is callback, listener and controller of a transfer | start (4 kinds), pause, resume, cancel; progress and pause events; completion | SDK threads destroy the task that the platform thread may be using | lock held per operation, raw pointers across them; terminal events from two threads |
| **storage reference calls** (plugin `:25-60`, `:169-266`) | `StorageReferenceWork` owns the result of a call | delete, getData, getDownloadURL, getMetadata, list, updateMetadata | SDK futures | who owns the `MethodResult` when an argument is missing; 64-bit `maxSize` against a 32-bit `int` |
| **core apps** (`firebase_core_tizen_plugin.cc`) | the SDK's table of Apps | initializeApp, initializeCore, delete, setters, optionsFromResource | all other plugins look Apps up | an App deleted while plugins cache objects made from it; calls never replied |
| **data conversion** (`dep/conversion.cc`) | none | `EncodableValue` to `Variant` and back | all plugins | integer widths, typed lists and map keys must read back as Dart wrote them |
| **emulators and integration tests** (`device.dart`, `integration_test_command.dart`, `tizen_sdk.dart`) | the devices found, the flags of each test's cleanup, errors and a result per package | find, create, launch, poll, run, retry, close, delete | sdb, em-cli, flutter | each step may fail, and cleanup must undo just what was done; a failed test runs again; timeouts do not stop what they time; profiles are compared by identity |
| **publish, recipe, build commands** | working tree | sequential commands | git, pub | one step of several fails |

The generated messages (Pigeon, `messages.g.*`) carry the options of Apps as lists
of fields by position. Tracing and logging, examples and build files keep no state
these properties depend on; the integration tests and the examples are
read as statements about the plugins.

## 2. What is modelled

| module | what it is |
|---|---|
| `MethodReply` | the abstract promise of every channel call: delivered, then answered at most once or abandoned |
| `CloudFunctions` | cloud functions calls; implements `MethodReply` |
| `DatabaseTransaction` | `runTransaction`; implements `MethodReply` |
| `EventStream` | the abstract promise of an event stream: each event once and in order while Dart listens, the error last |
| `DatabaseObserve` | `Query#observe`: channels, stream handlers, listeners, events, cancel; implements `EventStream` |
| `StorageTasks` | tasks, registry and control calls of firebase_storage |
| `PigeonMessages` | the generated messages of firebase_core: classes as lists, and the option conversions |
| `FirebaseApps` | firebase_core: the SDK's table of Apps, and who owns the `MethodResult` of a call |
| `DatabaseCalls` | the one-shot calls of firebase_database and its map of cached Databases, over `FirebaseApps` |
| `StorageCalls` | the calls `Reference#*` of firebase_storage, over `FirebaseApps` |
| `PluginCalls` | the three plugins composed, on one platform thread and one table of Apps; implements `MethodReply` |
| `Conversion` | `EncodableValue` to `Variant` and back, and what Dart tells apart |
| `DatabaseData` | what database calls write, what a query reads |
| `StorageData` | what storage calls and task events tell of an object, and lists page by page |
| `Plugins` | the plugins of one process side by side: their calls, the data of the database, that of storage |
| `Nothing` | the values that stand for nothing: `None`, `Null`, `Empty` |
| `IntegrationTests` | the command `integration-test`, the emulators and the devices |
| `MC...` | the TLC instances of these |
| `..._proofs` | the inductive invariants and the theorems |

Each module has one action per step between two points where another thread can
come in (a lock, a queue operation, a call into the SDK or into Dart), so that
TLC interleaves exactly what the machine can interleave. A thread's place in the
code is its `pc` (`worker` and `platform` in `DatabaseTransaction`,
`callback[c]` for a completion callback). Payloads are abstracted to what decides
control: the outcome of a future, the kind of an answer, the source of a value.

### CloudFunctions

`pc` walks through `HandleMethodCall` (`:141-257`): `Receive`; the drain loop
`DrainTest` / `Pop` / `RunTask`; `Reject` for the three early returns
(arguments of another type, no App, no Functions); `StartCall` for
`GetHttpsCallable` and `Call`; `Register` for `OnCompletion` with the
`Param`; `Return`. If the future is already complete `Register` goes to `inline`
and the callback runs before `Return`. `CallbackBegin`, `CallbackReply`,
`PostTask` and `CallbackEnd` are the callback (`:217-250`); the end of
`PointerScope` destroys the `Param`. `holders[c]` is the set of live
`shared_ptr` copies, `releasedIn[c]` which of them was the last, hence on which
thread the reference was deleted. `Complete` is the SDK's future.

### DatabaseTransaction

A frame `<<t, n>>` is the n-th run of the transaction function of `t`, with the
stack objects of lines 305-334. `worker` walks through it: `BeginAttempt` (mutex
locked), `InvokeMethod`, `Wait` (`cv.wait` unlocks and waits in one step),
`SpuriousWakeup`, counted in `early`, `Relock`, `Decide` (which also ends the frame). `Answer` is
Dart's answer, which may arrive in `SuccessInternal` ("commit", "abort",
"exception": `Loaded`) or in `ErrorInternal` and `NotImplementedInternal`
(`Refused`, which do not lock); `Lock`, `Set`, `Notify` and `Unlock` are the
steps of these. Its references to the frame's mutex and condition variable may
outlive the frame: `dangling` records any use after that. `Settle` and `Retry`
are the SDK, which runs a function again after a conflict; `Reply` is the
completion callback (`:336-385`). If the future is not complete there (`:341`, outcome
"invalid"), the `PointerScope` destroys the `MethodResult` unanswered, and the reply is
"abandoned". The SDK has one worker thread, so one frame
exists at a time.

### DatabaseObserve

`Observe` is `QueryObserve`: `count` is `listener_count_`, `name` the number in
the channel's name, `channel[n]` the stream whose handler is set on channel n.
`Listen` and `Cancel` are Dart's, `pc` walks through `OnListenInternal`
(`TakeSink`, `CreateListener`, `SetHandler`, `AddListener`) and
`OnCancelInternal` (`ResetSink`, `RemoveListener`, `DestroyListener`,
`UnsetHandler`), for the stream `cur`. The two kinds of listener differ only in
what they may be called with (`Kinds`) and in the filter on `event_type_`
(`Wanted`); `EventType[s]` decides which one a stream has. `sdk` is where the
SDK's event thread is in a callback, and `on` whose listener it calls: `Report`
is the SDK, `TestHandler` the test of the handler outside the mutex,
`LockListener` and `CallHandler` what happens under it. Whether the SDK's
`Remove...Listener` waits for a callback in progress is not for this code to say:
`waits` is chosen once, and `RemoveListener` waits if it is true. Two ghosts record what
would be undefined behaviour: `nosink[s]`, a handler dereferenced a null
`events_`, and `dangling`, a callback used a destroyed listener.

`EventStream` knows no listener and no sink. `Promise` reads it off the state: a stream
is live while Dart listens, closing from `onCancel` until its sink is reset, closed
after that (`StreamState`); what is due is the event in the callback that Dart wants
(`Due`). An event may be lost only on a closed stream.

### StorageTasks

`Create` constructs a task and gives it to the registry; `Run` hands its
callback, listener and controller to the SDK; `RunThrows` is the error path.
`FindTask`, `ControlCall`, `CancelEvent` and `ControlReply` are one control call:
`FindTask` takes a raw pointer out of the registry under its lock, the other
three use it afterwards (`Touch` sets `dangling` if the object is gone; what a
destroyed task answers is arbitrary). `CallbackBegin`, `CallbackEvent` and
`Complete` are the completion callback, whose last act destroys the task.
`Listen` is the progress listener.

### PluginCalls and its parts

`result[c]` says who owns the `MethodResult` of call c: its handler, the SDK (through
a future's callback), or nobody any more. `Handle` is the guard of every handler: the
platform thread turns to calls in the order Dart sent them. `Answer`, `Discard` and
`GiveToSDK` are the only three things that end an owner. `made` is the SDK's history of
Apps and `app[n]` the one with name n now, so that an App created again under a name is
another App. `told` is what the last reply of firebase_core told Dart of Apps: the
options have gone from Dart through `WriteValue` and `ReadValueOfType` (Pigeon's lists),
`PigeonFirebaseOptionsToAppOptions`, the SDK, `OptionsFromFIROptions` and the lists again.

`GetDatabase` is `GetDatabaseFromArguments` (`firebase_database_utils.cc:48-86`): the
cache, its key, the App looked up, the settings applied when a Database enters the
cache. A Database of the SDK is known by its App and its URL. `NoApp` is what happens
when the App is not there: the process ends (`down`), since the null pointer is used.
`CallAndRelease` stands for the handlers that give `result.release()` to a future
(`pending[c]`), `CallAndAnswer` for those that answer at once. `CompleteDatabase` is
`CommonOnCompletionCallback`. In `StorageCalls` `work[c]` is the `StorageReferenceWork`
that a future keeps; `RejectReference` and `RejectLate` are the exceptions before and
after the move of the result into it. The catch blocks answer the first; for the second
they use the moved result, which ends the process (`down`).

### Conversion, DatabaseData and StorageData

`Conversion` has a tree for either kind of value: the function from its positions to
pairs of a type and a content, where a position is the sequence of the keys and indices
that lead to it. The code recurses over a value and builds another on the way back; the
model states what that makes of each position (`Converted`): the same position with its
keys converted, and there the same content under another type. `VariantType` and
`EncodableType` are the two `switch` statements. The recursion itself is thereby not in
the model, and values of every depth can be proved about.

`Plugins` puts `PluginCalls`, `DatabaseData` and `StorageData` side by side. They share no
variable, so an interleaving is one behaviour of each, and `part` says whose steps a
behaviour takes.

`location` is what the SDK stores at one location; `written` is what Dart makes of its
own writes, computed from Dart's arguments and never from a `Variant`, and `later` and
`promised` are the same of the writes that wait for the end of the connection.
`QueryGet` applies the modifiers one by one as the loop of
`GetDatabaseQueryFromArguments` does (`Apply`), lets the SDK run the query (`Run`), and
converts the snapshot. `DartAsksFor` says from Dart's side which children it asked for, by the
modifiers' names and not by their order. As in the code, `startAfter` and `endBefore` are
dropped, and Dart's side asks for what the other modifiers leave.

What the SDK does with values is external, and the property compares two computations that
both order by `RankOf`, one from Variants and one from what Dart wrote. So the model of the
SDK is held against something else: `QueriesAssumption` in `MCPlugins` states what
`query_e2e.dart` expects of the ranges, orders and limits on `{'a': 1, 'b': 2, 'c': 3}` and
of a limit on the text `'foo'` (`:220-226`, null), and TLC evaluates it. A query that
restricts (`Restricts`) and takes nothing gives null. The values are those that the database
keeps as they are (`IsKept`); section 6 says which it does not. `StorageData` has the three
places where `firebase_storage_utils.cc` lists the fields of an object: `ParseMetadata`,
`GetMetadataValue` and `GetPutTaskSuccessEventValue`. `ReferenceList` is one page of Dart's
loop; a page is its two sets of names and its token, and `listed` counts how often Dart was
told each name.

### IntegrationTests

`pc` walks through `initializeRun` and `runForPackage` (`Precache`,
`FindDevices`, `PubGet`, `Example`, `Clean`), `EmulatorDevice.runIntegrationTest`
(`Exists`, `Create`, `Connected`, `Launch`, `Poll`, then the finally block `Close`,
`Closed`, `Delete`) and the test itself (`Start`, `Timeout`, `End`). `Throw` is an
exception of any step: it leads to the finally block, whose own exceptions lead out of
it. `autoCreated` and `autoLaunched` are the flags of the code. `Retry`, `Record` and
`Abort` are what follows a test. `vm[d]` is the state of a device, which boots, shuts
down and gets lost (`Boot`, `Forget`, `Lose`) without regard to the command. `left` is the
set of emulators that a step of their own failed to put back: em-cli or sdb refused, the
emulator crashed, `close()` threw, or it took an emulator that was still booting for closed
(`device.dart:336`). A `Profile` is compared as Dart compares it: `Object` is an
object with its identity.

## 3. The runs

| run | instance | what it shows |
|---|---|---|
| `functions` | 3 calls, fairness | the reference is alive while it is needed, `pop()` always finds an item, nothing but the queue keeps a finished reference, the handler never deletes the reference of its own call; `MethodReply!Safety`; each call settles |
| `functions_hold` | 2 calls, **violation** | see finding 1 |
| `transaction` | 2 transactions, 2 runs each, all 5 answers, at most one early wakeup, fairness | until a wakeup comes early, what is committed was answered and frames outlive answers; in any case nothing is aborted that was not refused, no notify of a locked answer is lost, no decision meets an answer that holds the mutex; each transaction is replied, once, or dropped with a future that is not complete |
| `transaction_spurious` | 2 transactions, 1 run, **violation** | see finding 2 |
| `observe` | a value and a `childAdded` stream, 2 events each, removal waits or does not, fairness | listeners are registered exactly while Dart listens, every wanted event is sent in order, `EventStream!Safety` (nothing is lost before the sink is reset), a handler that runs is alive, no listener is used after its destruction if removal waits; a canceled stream is released, since canceling and calling back do not block each other |
| `storage` | 2 tasks, 3 control calls, fairness | callbacks find their task, the registry is exact, terminal events agree; a started task is destroyed in the end unless left paused |
| `storage_dangling` | 2 tasks, 1 control call, **violation** | see finding 3 |
| `storage_canceled` | 2 tasks, 1 control call, **violation** | see finding 4 |
| `plugins` | 4 calls, 2 Apps to create under 2 names, 2 URLs, 2 settings, fairness; 7 writes with a value of every type, 11 lists of modifiers; metadata set twice, a list of 3 names in pages | a call gets a Database of the App it named; settings come before the first use and stay; options survive the channel; `MethodReply!Safety`; each call settles; Dart reads back what it wrote; metadata and events agree; lists are complete |
| `runner` | 2 packages with 2 examples each, on a generated emulator, or on an attached emulator and a device, one loss, fairness | emulators are left as they were found, results count failures, the command ends unless a test's process does not |
| `runner_profiles` | 1 package, 1 example, **violation** | see finding 5 |
| `runner_hangs` | 1 package, 1 example, no losses, fairness, **violation** | see finding 6 |

**Bounds.** Two calls are needed for one call to drain what another's callback pushed, and
three for a callback to push while a second handler is queued and a third call drains. Two
transactions and two runs each (`MaxAttempts`) give a run behind a blocked one, and a late
answer to an earlier run of the same transaction. Two tasks give a control call on one task
while the other completes; three control calls (`MaxControls`) give pause, resume and cancel
of one task. Two streams, one of each kind of listener, give a callback on one stream while
the other is observed, listened to or canceled; two events (`MaxEvents`) give an event
behind another, an unwanted one before a wanted one, and an error after an event. One early
wakeup (`MaxEarly`) is enough for a run to be decided before its answer, in either run of a
transaction. Four calls (`MaxCalls`) and two Apps (`MaxApps`) let an App be created, used,
deleted and used again from the cache, or created again under its name; two names and two
URLs give two Databases of one App and one URL for two Apps. Two writes may wait for the end
of the connection (`MaxLater`), where their order matters, while others are done at once,
and metadata is set and then changed (`MaxChanges = 2`), in part. Two packages, two examples
and two devices give a test that comes after another in each of the three loops of the
command; one lost device (`MaxLosses`) hits every place of a test. `runner_profiles` and
`runner_hangs` need a single test. All of these are artificial bounds, but for the SDK's own
bound on retries. Deadlock is not checked: Dart may stop calling at any time, a paused
transfer may stay so, and the test command ends. Where blocking would be an error a liveness
property says what must go on (`CallsSettle`, `TransactionsSettle`,
`CanceledStreamIsReleased`, `StartedTaskEnds`, `PluginCallsSettle`, `RunEnds`).

**Fairness.** Weak fairness of the platform thread (it is never blocked but by a
mutex that is released by a step with fairness of its own), of every callback
once the SDK has begun it, and of the SDK ending a future or a running
transfer. All fairness is weak. Dart's answer is fair because the handler
of `callTransactionHandler` is a synchronous function. In `PluginCalls` the platform
thread handles its calls (`Platform`), futures of a Database end while it is online
(`Online`), and those of firebase_storage end (`Transfer`); a future whose App was
deleted need not end. In `IntegrationTests` only the command itself goes on (`Command`):
no emulator need boot or shut down, and no test's process need end. Nothing is assumed that
Dart's program decides: no call need be made, no stream canceled, and no paused
transfer resumed; nor that the SDK has events to report.

## 4. What is proved

For every set of calls, transactions, streams, tasks, handles, names, URLs, options and
devices, every number of packages and examples, and every bound (constants assumed only
as the `ASSUME`s of the modules say):

| theorem | says |
|---|---|
| `CloudFunctions_proofs!TypeCorrect`, `ReferenceAlive`, `PopNeverTimesOut`, `NoOtherOwner` | the invariants of `functions` |
| `CloudFunctions_proofs!RepliedOnce` | `CloudFunctions` implements `MethodReply` |
| `DatabaseTransaction_proofs!TypeCorrect`, `DecisionsExcludeAnswers`, `AbortsAreRefused`, `NoLostNotify` | the invariants of `transaction` that hold however often a wakeup comes early |
| `DatabaseTransaction_proofs!CommitsAreAnswered`, `AnswersFindTheirFrame`, `DecisionsFollowAnswers` | hold until a wakeup comes early |
| `DatabaseTransaction_proofs!RepliedOnce` | `DatabaseTransaction` implements `MethodReply` |
| `DatabaseObserve_proofs!TypeCorrect`, `ListensOnce`, `RegistrationIsExact`, `SinkIsThere`, `HandlersRunOnLiveStreams` | hold whether or not removal waits |
| `DatabaseObserve_proofs!ListenersOutliveCallbacks` | no callback uses a destroyed listener if removal waits |
| `DatabaseObserve_proofs!WantedEventsAreSent` | what was sent is what Dart wants of what the SDK reported, in order |
| `DatabaseObserve_proofs!StreamsImplementEventStream` | `DatabaseObserve` implements `EventStream`, whether or not removal waits |
| `StorageTasks_proofs!TypeCorrect`, `CallbacksFindTheirTask`, `RegistryIsExact`, `OutcomesAgree` | the invariants of `storage` |
| `PluginCalls_proofs!TypeCorrect`, `ServesNamedApp`, `OptionsAreKept` | the invariants of `plugins`' calls |
| `PluginCalls_proofs!ResultsAreKept` | a result its handler left unanswered is in the hands of a future that has not ended |
| `PluginCalls_proofs!SchemesKeepKeysApart` | `KeysAssumption` holds if no name has a colon and the URLs share their scheme |
| `PluginCalls_proofs!SettingsAreFixed` | an action property: settings come before the first use and never change |
| `PluginCalls_proofs!RepliedOnce` | `PluginCalls` implements `MethodReply` |
| `DatabaseData_proofs!ConversionsRoundTrip` | a value of any size and depth is, after both conversions, what Dart told it to be |
| `DatabaseData_proofs!SnapshotsReadBack` | of every value that the database keeps and every list of modifiers, Dart reads what it wrote and asked for |
| `StorageData_proofs!MetadataIsReadBack`, `EventsTellMetadata`, `ListsAreComplete` | the invariants of `plugins`' storage data |
| `CloudFunctions_proofs!QuietCallsAreSettled`, `DatabaseTransaction_proofs!QuietTransactionsSettle`, `DatabaseObserve_proofs!QuietStreamsAreReleased`, `StorageTasks_proofs!QuietTasksAreReleased` | when no thread has a step to take, what the liveness property of the module promises is there |
| `IntegrationTests_proofs!TypeCorrect`, `EmulatorsAsFound`, `ResultsCountFailures` | the invariants of `runner` |
| `IntegrationTests_proofs!AlwaysAdvances` | an action property, `CommandAdvances`: each step of the command brings it nearer to its end |

None of the properties is inductive. The strengthenings are:

- *CloudFunctions*, `IInv`: every copy of a call's reference has exactly one owner
  (`HolderInv`: stack while its handler runs, `Param` while its callback is armed or
  running, queue while queued, task while the drain loop has it), the life of a call has its
  order (`CallInv`), each handler is queued once (`QueuedOnce`), and only the platform
  thread pops (`ThreadInv`). That the copies overlap is then a case analysis. `CallInv` is
  needed because `HolderInv` alone would allow a handler to be queued before its call.
- *DatabaseTransaction*, `IInv` relates the worker's place, its frame and the mutex
  (`FrameInv`, `MutexInv`) and how far the question to Dart is (`AskInv`). `SInv` adds
  `WakeInv`, the rendezvous: an answer under way belongs to the frame that waits, and the
  worker goes on only when it is recorded. It is exactly what a spurious wakeup breaks, so
  what is inductive is `early > 0 \/ SInv`. `AnswerableInv`, for `NoLostNotify`, does not
  need it: the mutex, held from before the question until the wait, is enough.
- *DatabaseObserve*, `IInv`: channels are numbered by the streams observed so far and still
  lead to them (`ChannelInv`), the platform thread does what Dart asked for (`ThreadInv`),
  each flag of a stream is a function of what Dart did and of where the platform thread is
  (`StreamInv`), and a handler runs only while its listener lives (`CallbackInv`). It needs
  no assumption on the SDK's removal, since the destructor takes the mutex. `WaitInv` adds
  that no callback is past its listener's removal, which is what fails if the removal does
  not wait. For the events, `Selects(sub, seq, n, S)` says by a witness, an increasing
  function from the places of `sub` to those of `seq`, what a filter computes by recursion:
  a step appends to both sequences or to one, and the witness is kept or extended.
  `OrderInv` states it for all events but the one whose callback is under way. The
  refinement needs `IInv` only: while a stream is live or closing, its callback finds the
  sink and sends what is due, and a callback that ends otherwise does so on a closed stream.
- *StorageTasks*, `IInv` is `TaskInv` (a task exists before its transfer starts and a
  callback only after it ended), the two registry properties, and `EventInv`, which lists
  the sequences of terminal events possible at each point.
- *StorageData*, `IInv`: the fields of the SDK's object are those Dart set (`ObjectInv`),
  metadata and events that are not old are made of that object (`ToldInv`), and the names
  told so far are those before the token, once each (`ListInv`).
- *DatabaseData*, `IInv`: `Holds` says that what the SDK stores are variants and means to
  Dart what it wrote (`Means`, one conversion after the other), and `LaterInv` the same of
  each write that waits. Its step lemmas rest on four facts about the operators.
  `ConversionsRoundTrip` composes the two conversions and Dart's reading into one change of
  types, type by type; it holds because Dart tells the positions of a value apart
  (`WritesAssumption`), so that no two of them become one on the way. `MergeMeans` and
  `PrunedMeans` say that updating children and leaving children out commute with the
  conversions. `QueryOfModifiers` says what the loop over the modifiers makes of them: each
  part of the query is set by the one modifier of that name, wherever it stands in the list
  (`ModifiersAssumption`); `RankMeans` and `OrderMeans` that the conversions keep what a
  query orders by, whether key, value or child, and with it the order of the children;
  `RestrictsMeans` that a query restricts just if Dart asks for a part; then
  `TakenIsAskedFor` compares the children. `StoreAllMeans` does the writes that wait, one
  after the other. The loop and the writes are recursive functions. Their induction does
  without the library's theorems: `Induction` derives it for an initial segment of the
  numbers from the pigeonhole principle, with a set in the place of a predicate.
- *PluginCalls*, `IInv`: a result has one owner (`CallInv`, `NoResultIsLost`), an App has
  the name it is found under and the options it was created with (`AppInv`), and a Database
  is in the cache just if it was configured (`CacheInv`). The last is what makes the
  settings fixed: a Database made anew can never be one that has settings already. The step
  lemmas first reduce the many handlers to a few kinds of step on the calls, the table of
  Apps and the cache.
- *IntegrationTests*, `IInv`: `EmulatorInv` gives the state of the emulator under test as a
  function of the place and of the two flags of the finally block, and says that every other
  one is as it was found. `RunInv` relates `errors` to what passed: `PassedInv` and
  `ErrorInv` say what a test in progress has recorded, `CountInv` that there are no errors
  just if all tests that are over have passed, and `FutureInv` that nothing is recorded of
  packages to come. `CommandAdvances` orders the places of the command by package, stage,
  example, device, run and step of a test, lexicographically; `TypeOK` bounds each of them.
  What `RunEnds` adds is that the command is never stuck.

The proofs have one lemma per action. Each invariant was checked by TLC on the
instances of the runs first.

**Only model-checked**: `CallsSettle`, `TransactionsSettle`,
`CanceledStreamIsReleased`, `StartedTaskEnds`, `PluginCallsSettle` and `RunEnds`, which
are liveness under fairness and out of the prover's reach. Every other property of the
passing runs is a theorem.

What safety says of these six is proved. `Quiet` names, guard by guard, the states in which
no step with fairness can be taken; `QuietIsSettled` and `QuietIsReleased` say that such a
state has nothing left to do: no call without its reply (but of a future that was not
complete), no reference, listener or task that nobody will let go of, and no threads that
wait for each other. So a liveness property could fail only if the threads had steps to take
for ever. That `Quiet` is not too narrow (`QuietIsExact` in the MC modules, with ENABLED)
was checked by TLC on the instances of the runs, by adding it to their invariants.
`QuietTasksAreReleased` needs `RestInv` beside `IInv` (which tasks have a transfer, by the
reply of their start), and `QuietStreamsAreReleased` needs `UnsetInv` (the channel of a
canceled stream). For `PluginCalls` and `IntegrationTests`, `ResultsAreKept` and
`AlwaysAdvances` say the like.

**Assumptions.** The constants are assumed as the modules' `ASSUME`s say, and TLC
evaluates these on the instances. Those that say something of the program's environment
are: Dart's handles are unique (`HandlesAssumption`), keys of the Database cache differ
(`KeysAssumption`), Dart's codec sends finite trees without custom values whose positions
Dart can tell apart, and Dart writes what the database keeps as it is (`IsKept`; both in
`WritesAssumption`), and Dart's `Query` sends one order and one modifier of each name, which
its own assertions check, with cursors that are scalars, limits of at least 1, and paths of
one key (`ModifiersAssumption`).

## 5. Findings

1. *The queue does not always hold the reference* (`functions_hold`,
   `QueueHoldsReference`). The comment at `cloud_functions_plugin.cc:252` gives
   holding the `shared_ptr` as the purpose of the queued handler. Another call
   may drain it after `push` and before the callback has ended; the `Param` then
   has the last copy, and the reference is deleted on the SDK's thread, inside
   the completion callback of its own future.
2. *A spurious wakeup decides a transaction* (`transaction_spurious`,
   `CommittedAsAnswered`). `cv.wait(lock)` (`firebase_database_plugin.cc:327`)
   has no predicate: the run then returns success with the server's value before
   Dart has answered, and the late answer locks a mutex that is gone.
3. *A control call may use a destroyed task* (`storage_dangling`,
   `ControlUsesLiveTask`). `GetTask` unlocks before the pointer is used; the
   completion callback may remove the task in between.
4. *The failure of a canceled task may precede its cancellation*
   (`storage_canceled`, `CanceledComesFirst`). The two events are sent by two
   threads in no fixed order.
5. *A device with a requested profile is not found* (`runner_profiles`,
   `FindsMatchingDevices`). `integration_test_command.dart:279` promises "devices that
   match any of those profiles"; line 300 asks `profiles.contains(profile)`, which
   compares objects, and `Profile` (`tizen_sdk.dart:78`) has no `operator ==`.
6. *A test that hangs is never reported* (`runner_hangs`, `TimedOutTestReturns`).
   `device.dart:115-116` says that `runIntegrationTest` "Returns null if all tests
   have passed successfully before [timeout], otherwise returns a string with the error
   details", and `integration_test_command.dart:61` calls the timeout the time to wait for
   each test to finish. At the timeout (`device.dart:150`) the code notes that time is up; it does
   not end the process, whose output is then awaited. `RunEnds`, in the run `runner`, shows that the
   command ends in every other case.

Four more observations have no statement in the repository to contradict and are
kept as hazards. First, with an answer that arrives in `ErrorInternal` or
`NotImplementedInternal`, which notify without the mutex, a notify between
`InvokeMethod` and `cv.wait` is lost, and the SDK's worker stays blocked.
`WaitIsAnswerable` and `TransactionsSettle` therefore exempt these two answers;
Dart's handler gives the other three. Second,
`OnCancelInternal` resets `events_` before it removes the listener, so an event in
between dereferences a null sink; `StreamsKeepPromise` shows that there is no
other time when this can happen. Third, a cached Database outlives its App: after
`delete` and a second `initializeApp` under the same name the cache still serves the
Database of the first App, whose calls are not answered any more. Fourth,
`OptionsFromResource` never replies. `PluginCallsSettle` allows these two, and a Database that is
offline, and shows that no other call waits forever while the process runs.

## 6. What is not modelled, and why

- The destruction of a plugin at engine shutdown: no code here drives it.
- The bytes of `putData` and `putString` and the base64 decoding, the texts of errors,
  and the messages of exceptions: no state depends on them.
- The output of sdb and em-cli and how `tizen_sdk.dart` parses it: a query answers what
  the device's state says, or fails.
- The publish, recipe and build commands: each is a chain of commands over git, pub and
  the file system that ends when one of them fails, and no two of them share state.
- Two pairs of an App's name and a URL with one key of the cache
  (`KeysAssumption`): the key has no separator, but the names are the application's.
  Names without a colon are safe (`SchemesKeepKeysApart`).
- Values that the database does not keep as Dart wrote them (`IsKept`): keys that are
  no texts, which it makes texts, or lists of maps with integer keys
  (`data_snapshot_e2e.dart:48-85`); a list at the location itself; null and empty parts,
  which it drops. What becomes of these is the SDK's. Children are without priorities of
  their own, a child to order by is named by one key, and the priority that a restricted
  query reports is left open. `childKeys` is a set: its order is the order of the query.
- That the SDK gives different Databases for no URL and for the App's own URL
  (`firebase_database_utils.cc:55-71`) is assumed: the cache has two entries then, and if they
  were one Database it could be configured twice.
- The torn read of `aborted` and of the value when an answer without the mutex meets a worker
  that woke up early (`firebase_database_plugin.cc:256-329`): `Set` writes both in one step.
  What is shown is that with locked answers, or without an early wakeup, nobody reads while
  they are written.
- What the checks exempt by name: an emulator in `left`, a result that a late refusal or a
  deleted App loses (`down`), an event that meets a null sink, answers without the mutex. The
  hazards say which.
- Crashes of the process other than those named in `down`: `OnDisconnect` on a Database whose
  App is deleted, `*metadata.result()` before the error is looked at (storage plugin, `getData`),
  and a `bad_optional_access` that no handler catches.
- A second registration of the database plugin: the static table of its methods
  (`firebase_database_plugin.cc:121`) is bound to the first. Whether it is registered twice in
  one process is the embedder's.
- The SDK beyond its contract as used here: futures complete once, a callback
  runs once, the database has one worker thread, listeners are called by one
  thread and not again after `OnCancelled`, `Cancel` of a finished transfer is
  refused. Whether `Remove...Listener` waits for a callback in progress is left
  open (`waits`); the properties that need it say so. An update of metadata leaves what is
  not set as it is; a list is in the order of names, with a token where it goes on.
- A second `listen` on the channel of a canceled stream: Dart's side of
  `Query#observe` makes a new channel for each stream.
- Real time. Timeouts are nondeterministic choices.
- Dart's handle counter restarting after a hot restart (`StorageTasks` assumes
  unique handles, `HandlesAssumption`).
- Tracing and logging, which are output only.

## 7. What may come next

1. A table of Apps shared by `PluginCalls` and `CloudFunctions`, so that an App deleted
   while a cloud function runs is seen in both.
2. The publish command, as a sequence of steps that may be run again after a failure.
