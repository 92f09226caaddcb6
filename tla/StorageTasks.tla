---------------------------- MODULE StorageTasks ----------------------------
(***************************************************************************)
(* Upload and download tasks of packages/firebase_storage/tizen.  The      *)
(* platform thread starts a task and controls it (Task#pause, #resume,     *)
(* #cancel) through StorageTaskHandler, a registry that owns the task      *)
(* objects under their handles; the Firebase SDK's threads report          *)
(* progress, run the completion callback, and with it destroy the task.    *)
(* The registry's mutex is held inside each of its operations only.        *)
(***************************************************************************)
EXTENDS Naturals, Sequences

CONSTANTS
  Tasks,        \* the tasks Dart starts, each of them once
  Handles,      \* the handles Dart numbers them with
  HandleOf,     \* HandleOf[t]: the handle of task t
  None,         \* no task
  MaxControls   \* bound: how many control calls Dart makes

\* Dart counts handles up and never gives one twice.
ASSUME HandlesAssumption ==
  /\ HandleOf \in [Tasks -> Handles]
  /\ \A t, u \in Tasks : HandleOf[t] = HandleOf[u] => t = u
ASSUME NoneAssumption == None \notin Tasks
ASSUME MaxControlsAssumption == MaxControls \in Nat

VARIABLES
  pc,         \* where the platform thread is in HandleMethodCall
  cur,        \* the StorageTask* it works on, or None
  kind,       \* the control method it handles
  status,     \* what the control callback returned
  start,      \* start[t]: what became of the Task#start... call of t
  registry,   \* tasks_: the task registered under a handle, or None
  object,     \* object[t]: whether the StorageTask of t exists
  transfer,   \* transfer[t]: the SDK's side of t
  shown,      \* shown[t]: the last of Task#onProgress and Task#onPaused sent
  callback,   \* callback[t]: where the completion callback of t is
  events,     \* events[t]: the terminal events sent to Dart, in order
  canceled,   \* canceled[t]: Dart was told that cancel() succeeded
  dangling,   \* the platform thread used a StorageTask that was destroyed
  controls    \* control calls made so far

vars == <<pc, cur, kind, status, start, registry, object, transfer, shown,
          callback, events, canceled, dangling, controls>>

Control == {"pause", "resume", "cancel"}
Ended   == {"ok", "error", "canceled"}

TypeOK ==
  /\ pc \in {"idle", "run", "started", "control", "event", "reply"}
  /\ cur \in Tasks \cup {None}
  /\ kind \in Control
  /\ status \in BOOLEAN
  /\ start \in [Tasks -> {"unsent", "pending", "success", "error"}]
  /\ registry \in [Handles -> Tasks \cup {None}]
  /\ object \in [Tasks -> {"none", "alive", "freed"}]
  /\ transfer \in [Tasks -> {"none", "running", "paused"} \cup Ended]
  /\ shown \in [Tasks -> {"none", "progress", "paused"}]
  /\ callback \in [Tasks -> {"none", "event", "complete", "done"}]
  /\ events \in [Tasks -> Seq({"onSuccess", "onFailure", "onCanceled"})]
  /\ canceled \in [Tasks -> BOOLEAN]
  /\ dangling \in BOOLEAN
  /\ controls \in 0 .. MaxControls

Init ==
  /\ pc = "idle" /\ cur = None /\ kind = "pause" /\ status = FALSE
  /\ start = [t \in Tasks |-> "unsent"]
  /\ registry = [h \in Handles |-> None]
  /\ object = [t \in Tasks |-> "none"]
  /\ transfer = [t \in Tasks |-> "none"]
  /\ shown = [t \in Tasks |-> "none"]
  /\ callback = [t \in Tasks |-> "none"]
  /\ events = [t \in Tasks |-> << >>]
  /\ canceled = [t \in Tasks |-> FALSE]
  /\ dangling = FALSE
  /\ controls = 0

\* The task registered under h is destroyed by its unique_ptr, if there is one.
Destroy(h) ==
  IF registry[h] = None THEN object ELSE [object EXCEPT ![registry[h]] = "freed"]

-----------------------------------------------------------------------------
(* The platform thread: Task#startPutData, #startPutString, #startPutFile   *)
(* and #writeToFile.                                                        *)

\* The constructor throws: a missing argument, or no such App.
StartRejected(t) ==
  /\ pc = "idle"
  /\ start[t] = "unsent"
  /\ start' = [start EXCEPT ![t] = "error"]
  /\ UNCHANGED <<pc, cur, kind, status, registry, object, transfer, shown,
                 callback, events, canceled, dangling, controls>>

\* Mutant of Create: AddTask is missing.
CreateUnregistered(t) ==
  /\ pc = "idle"
  /\ start[t] = "unsent"
  /\ start' = [start EXCEPT ![t] = "pending"]
  /\ object' = [object EXCEPT ![t] = "alive"]
  /\ cur' = t
  /\ pc' = "run"
  /\ UNCHANGED <<kind, status, registry, transfer, shown, callback, events,
                 canceled, dangling, controls>>

\* StorageTask::Create: construct the task and AddTask it.
Create(t) ==
  /\ pc = "idle"
  /\ start[t] = "unsent"
  /\ start' = [start EXCEPT ![t] = "pending"]
  /\ object' = [Destroy(HandleOf[t]) EXCEPT ![t] = "alive"]
  /\ registry' = [registry EXCEPT ![HandleOf[t]] = t]
  /\ cur' = t
  /\ pc' = "run"
  /\ UNCHANGED <<kind, status, transfer, shown, callback, events, canceled,
                 dangling, controls>>

\* Run: the SDK starts the transfer and takes the callback, the listener and
\* the controller, all of them parts of the task.
Run ==
  /\ pc = "run"
  /\ transfer' = [transfer EXCEPT ![cur] = "running"]
  /\ pc' = "started"
  /\ UNCHANGED <<cur, kind, status, start, registry, object, shown, callback,
                 events, canceled, dangling, controls>>

\* Run throws for a missing or undecodable argument; the task stays registered.
RunThrows ==
  /\ pc = "run"
  /\ start' = [start EXCEPT ![cur] = "error"]
  /\ pc' = "idle"
  /\ cur' = None
  /\ UNCHANGED <<kind, status, registry, object, transfer, shown, callback,
                 events, canceled, dangling, controls>>

StartReply ==
  /\ pc = "started"
  /\ start' = [start EXCEPT ![cur] = "success"]
  /\ pc' = "idle"
  /\ cur' = None
  /\ UNCHANGED <<kind, status, registry, object, transfer, shown, callback,
                 events, canceled, dangling, controls>>

-----------------------------------------------------------------------------
(* The platform thread: TaskStorageControl.                                 *)

\* GetTask: a handle without a task is answered task-not-found at once, else
\* the raw pointer is taken and the registry unlocked.
FindTask(t, k) ==
  /\ pc = "idle"
  /\ start[t] \in {"success", "error"}
  /\ controls < MaxControls
  /\ controls' = controls + 1
  /\ kind' = k
  /\ cur' = registry[HandleOf[t]]
  /\ pc' = IF registry[HandleOf[t]] = None THEN "idle" ELSE "control"
  /\ UNCHANGED <<status, start, registry, object, transfer, shown, callback,
                 events, canceled, dangling>>

\* The pointer is used; it may dangle.
Touch == dangling' = (dangling \/ object[cur] # "alive")

\* Whether the SDK's Controller accepts control k of task t, and what it does.
Accepts(t, k) ==
  \/ k = "pause"  /\ transfer[t] = "running"
  \/ k = "resume" /\ transfer[t] = "paused"
  \/ k = "cancel" /\ transfer[t] \in {"running", "paused"}

Effect(k) == CASE k = "pause" -> "paused" [] k = "resume" -> "running" [] k = "cancel" -> "canceled"

\* The control callback calls Pause, Resume or Cancel; what it gets from a
\* destroyed task is arbitrary.
ControlCall ==
  /\ pc = "control"
  /\ Touch
  /\ IF object[cur] = "alive"
       THEN /\ status' = Accepts(cur, kind)
            /\ transfer' = IF status' THEN [transfer EXCEPT ![cur] = Effect(kind)]
                                      ELSE transfer
       ELSE status' \in BOOLEAN /\ UNCHANGED transfer
  /\ pc' = IF kind = "cancel" /\ status' THEN "event" ELSE "reply"
  /\ UNCHANGED <<cur, kind, start, registry, object, shown, callback, events,
                 canceled, controls>>

\* Mutant of CancelEvent: a canceled task is removed from the registry at once.
CancelEventRemoves ==
  /\ pc = "event"
  /\ events' = [events EXCEPT ![cur] = Append(@, "onCanceled")]
  /\ object' = Destroy(HandleOf[cur])
  /\ registry' = [registry EXCEPT ![HandleOf[cur]] = None]
  /\ pc' = "reply"
  /\ UNCHANGED <<cur, kind, status, start, transfer, shown, callback, canceled,
                 dangling, controls>>

\* Task#onCanceled, through the task's channel.
CancelEvent ==
  /\ pc = "event"
  /\ Touch
  /\ events' = [events EXCEPT ![cur] = Append(@, "onCanceled")]
  /\ pc' = "reply"
  /\ UNCHANGED <<cur, kind, status, start, registry, object, transfer, shown,
                 callback, canceled, controls>>

\* The status and a snapshot of the task's path and controller.
ControlReply ==
  /\ pc = "reply"
  /\ Touch
  /\ canceled' = [canceled EXCEPT ![cur] = @ \/ (kind = "cancel" /\ status)]
  /\ pc' = "idle"
  /\ cur' = None
  /\ UNCHANGED <<kind, status, start, registry, object, transfer, shown,
                 callback, events, controls>>

-----------------------------------------------------------------------------
(* The SDK's threads.                                                       *)

\* StorageListener::OnProgress and ::OnPaused.
Listen(t) ==
  /\ transfer[t] \in {"running", "paused"}
  /\ shown' = [shown EXCEPT ![t] = IF transfer[t] = "running" THEN "progress" ELSE "paused"]
  /\ UNCHANGED <<pc, cur, kind, status, start, registry, object, transfer,
                 callback, events, canceled, dangling, controls>>

Finish(t, outcome) ==
  /\ transfer[t] = "running"
  /\ transfer' = [transfer EXCEPT ![t] = outcome]
  /\ UNCHANGED <<pc, cur, kind, status, start, registry, object, shown,
                 callback, events, canceled, dangling, controls>>

CallbackBegin(t) ==
  /\ transfer[t] \in Ended
  /\ callback[t] = "none"
  /\ callback' = [callback EXCEPT ![t] = "event"]
  /\ UNCHANGED <<pc, cur, kind, status, start, registry, object, transfer,
                 shown, events, canceled, dangling, controls>>

\* Mutant of CallbackEvent: the failure goes out under another name.
CallbackEventMisnamed(t) ==
  /\ callback[t] = "event"
  /\ events' = [events EXCEPT ![t] =
                  Append(@, IF transfer[t] = "ok" THEN "onSuccess" ELSE "onError")]
  /\ callback' = [callback EXCEPT ![t] = "complete"]
  /\ UNCHANGED <<pc, cur, kind, status, start, registry, object, transfer,
                 shown, canceled, dangling, controls>>

\* Mutant of CallbackEvent: the else is missing.
CallbackEventFallsThrough(t) ==
  /\ callback[t] = "event"
  /\ events' = [events EXCEPT ![t] =
                  IF transfer[t] = "ok" THEN @ \o <<"onSuccess", "onFailure">>
                                        ELSE Append(@, "onFailure")]
  /\ callback' = [callback EXCEPT ![t] = "complete"]
  /\ UNCHANGED <<pc, cur, kind, status, start, registry, object, transfer,
                 shown, canceled, dangling, controls>>

\* Success or Fail.
CallbackEvent(t) ==
  /\ callback[t] = "event"
  /\ events' = [events EXCEPT ![t] =
                  Append(@, IF transfer[t] = "ok" THEN "onSuccess" ELSE "onFailure")]
  /\ callback' = [callback EXCEPT ![t] = "complete"]
  /\ UNCHANGED <<pc, cur, kind, status, start, registry, object, transfer,
                 shown, canceled, dangling, controls>>

\* Mutant of Complete: the task stays in the registry.
CompleteKeeps(t) ==
  /\ callback[t] = "complete"
  /\ callback' = [callback EXCEPT ![t] = "done"]
  /\ UNCHANGED <<pc, cur, kind, status, start, registry, object, transfer,
                 shown, events, canceled, dangling, controls>>

\* Complete: RemoveTask erases whatever task is registered under the handle.
Complete(t) ==
  /\ callback[t] = "complete"
  /\ object' = Destroy(HandleOf[t])
  /\ registry' = [registry EXCEPT ![HandleOf[t]] = None]
  /\ callback' = [callback EXCEPT ![t] = "done"]
  /\ UNCHANGED <<pc, cur, kind, status, start, transfer, shown, events,
                 canceled, dangling, controls>>

-----------------------------------------------------------------------------
Handler == Run \/ RunThrows \/ StartReply \/ ControlCall \/ CancelEvent \/ ControlReply

Callback(t) == CallbackBegin(t) \/ CallbackEvent(t) \/ Complete(t)

Next ==
  \/ \E t \in Tasks : StartRejected(t) \/ Create(t)
  \/ \E t \in Tasks, k \in Control : FindTask(t, k)
  \/ Handler
  \/ \E t \in Tasks : Listen(t) \/ Callback(t)
  \/ \E t \in Tasks, outcome \in {"ok", "error"} : Finish(t, outcome)

Safety == Init /\ [][Next]_vars

\* The platform thread runs, the SDK ends every transfer that is not paused
\* and runs its callback.
Fairness ==
  /\ WF_vars(Handler)
  /\ \A t \in Tasks :
       /\ WF_vars(Callback(t))
       /\ WF_vars(\E outcome \in {"ok", "error"} : Finish(t, outcome))

Spec == Safety /\ Fairness

-----------------------------------------------------------------------------
(* Correctness.                                                             *)

\* A transfer's callback and listener find their task: userdata is a raw
\* pointer to it, and only this callback removes it from the registry.
CallbackFindsTask ==
  \A t \in Tasks :
    transfer[t] # "none" /\ callback[t] # "done" => object[t] = "alive"

\* The registry owns exactly the tasks that exist, each under its own handle,
\* so that a control call never reaches another task.
RegistryOwnsTasks ==
  /\ \A t \in Tasks : object[t] = "alive" => registry[HandleOf[t]] = t
  /\ \A h \in Handles : registry[h] # None =>
       object[registry[h]] = "alive" /\ HandleOf[registry[h]] = h

Sent(t, e) == \E i \in 1 .. Len(events[t]) : events[t][i] = e

\* A task ends in success alone, or in failure; Task#onCanceled never goes with
\* Task#onSuccess, and no terminal event is repeated, as long as no control
\* call has used a destroyed task.
OneOutcome ==
  ~dangling => \A t \in Tasks :
    /\ Sent(t, "onSuccess") => Len(events[t]) = 1
    /\ \A i, j \in 1 .. Len(events[t]) : events[t][i] = events[t][j] => i = j

\* A started task is destroyed in the end, unless Dart leaves it paused.
StartedTaskEnds ==
  \A t \in Tasks :
    start[t] = "success" ~> (object[t] = "freed" \/ [](transfer[t] = "paused"))

\* A control call never uses a task that is gone: it is answered
\* "A task does not exist." (firebase_storage_error.cc:72-73).
ControlUsesLiveTask == ~dangling

\* The first terminal event of a canceled task is its cancellation
\* (task_e2e.dart:238-243 expects the code canceled of the task's exception).
CanceledComesFirst ==
  \A t \in Tasks : canceled[t] /\ ~dangling => events[t][1] = "onCanceled"

\* No thread has a step to take: the platform thread waits for Dart, and the SDK
\* has neither a transfer nor a callback.
Quiet ==
  /\ pc = "idle"
  /\ \A t \in Tasks : /\ transfer[t] # "running"
                      /\ transfer[t] \in Ended => callback[t] = "done"
                      /\ callback[t] \in {"none", "done"}

\* A started task is paused, or Dart knows its end and the registry has let go of it.
\* What is registered beside the paused tasks are those whose Run threw.
Released(t) ==
  /\ start[t] = "success" /\ transfer[t] # "paused" =>
       /\ object[t] = "freed" /\ registry[HandleOf[t]] # t
       /\ ~dangling => events[t] # << >>
  /\ registry[HandleOf[t]] = t =>
       \/ start[t] = "success" /\ transfer[t] = "paused"
       \/ start[t] = "error" /\ transfer[t] = "none"

\* When no thread has a step to take, every task is released.
QuietIsReleased == Quiet => \A t \in Tasks : Released(t)
=============================================================================
