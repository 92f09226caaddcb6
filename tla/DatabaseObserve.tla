-------------------------- MODULE DatabaseObserve --------------------------
(***************************************************************************)
(* Query#observe of packages/firebase_database/tizen.  Each stream has an  *)
(* event channel of its own, whose stream handler owns the sink to Dart    *)
(* and, while Dart listens, a value or child listener that is registered   *)
(* on the Query.  The platform thread observes, listens and cancels; the   *)
(* SDK's event thread calls the listeners, one at a time.  A listener's    *)
(* mutex guards its handler, and nothing guards the sink.                  *)
(***************************************************************************)
EXTENDS Naturals, Sequences, FiniteSets

CONSTANTS
  Streams,      \* the streams Dart observes, each of them once
  EventType,    \* EventType[s]: the eventType Dart listens to s with
  None,         \* no stream
  MaxEvents     \* bound: how many events the SDK has for one stream

ChildEvents == {"childAdded", "childChanged", "childMoved", "childRemoved"}

ASSUME StreamsAssumption == IsFiniteSet(Streams) /\ None \notin Streams
ASSUME EventTypeAssumption == EventType \in [Streams -> {"value"} \cup ChildEvents]
ASSUME MaxEventsAssumption == MaxEvents \in Nat

\* What the SDK calls a listener with; "error" is OnCancelled.
Kinds(s) == {"error"} \cup (IF EventType[s] = "value" THEN {"value"} ELSE ChildEvents)

\* What is sent to Dart of it: observe_handler_ filters, cancel_handler_ does not.
Wanted(s) == {EventType[s], "error"}

\* The channels: one for each stream, numbered by listener_count_.
Names == 1 .. Cardinality(Streams)

VARIABLES
  dart,        \* dart[s]: what Dart did with s last
  count,       \* listener_count_
  channel,     \* channel[n]: the stream whose handler is set on channel n, or None
  name,        \* name[s]: the channel Dart was told to listen to, 0 before that
  pc,          \* where the platform thread is in OnListen or OnCancel
  cur,         \* the stream whose handler runs, or None
  sink,        \* sink[s]: events_ is not null
  listener,    \* listener[s]: whether the listener of s exists
  handler,     \* handler[s]: its observe_handler_ and cancel_handler_ are set
  registered,  \* registered[s]: the SDK has it
  reported,    \* reported[s]: what the SDK called it with, in order
  sdk,         \* where the SDK's event thread is in the callback
  on,          \* the stream whose listener it calls, or None
  sent,        \* sent[s]: what went into the sink, in order
  nosink,      \* nosink[s]: the null events_ of s was used
  dangling,    \* a listener that was destroyed was used
  waits        \* the SDK's Remove...Listener waits for a callback in progress

vars == <<dart, count, channel, name, pc, cur, sink, listener, handler,
          registered, reported, sdk, on, sent, nosink, dangling, waits>>

TypeOK ==
  /\ dart \in [Streams -> {"none", "observed", "listening", "canceled"}]
  /\ count \in 0 .. Cardinality(Streams)
  /\ channel \in [Names -> Streams \cup {None}]
  /\ name \in [Streams -> Names \cup {0}]
  /\ pc \in {"idle", "sink", "create", "handler", "add", "reset", "remove", "destroy", "unset"}
  /\ cur \in Streams \cup {None}
  /\ sink \in [Streams -> BOOLEAN]
  /\ listener \in [Streams -> {"none", "alive", "freed"}]
  /\ handler \in [Streams -> BOOLEAN]
  /\ registered \in [Streams -> BOOLEAN]
  /\ reported \in [Streams -> Seq({"value", "error"} \cup ChildEvents)]
  /\ sdk \in {"idle", "test", "lock", "call"}
  /\ on \in Streams \cup {None}
  /\ sent \in [Streams -> Seq({"value", "error"} \cup ChildEvents)]
  /\ nosink \in [Streams -> BOOLEAN]
  /\ dangling \in BOOLEAN /\ waits \in BOOLEAN

Init ==
  /\ dart = [s \in Streams |-> "none"]
  /\ count = 0
  /\ channel = [n \in Names |-> None]
  /\ name = [s \in Streams |-> 0]
  /\ pc = "idle" /\ cur = None
  /\ sink = [s \in Streams |-> FALSE]
  /\ listener = [s \in Streams |-> "none"]
  /\ handler = [s \in Streams |-> FALSE]
  /\ registered = [s \in Streams |-> FALSE]
  /\ reported = [s \in Streams |-> << >>]
  /\ sdk = "idle" /\ on = None
  /\ sent = [s \in Streams |-> << >>]
  /\ nosink = [s \in Streams |-> FALSE]
  /\ dangling = FALSE
  /\ waits \in BOOLEAN

-----------------------------------------------------------------------------
(* The platform thread: Query#observe, and OnListenInternal.                *)

\* Mutant of Observe: listener_count_ is incremented for the name and once more.
ObserveCountsTwice(s) ==
  /\ pc = "idle"
  /\ dart[s] = "none"
  /\ dart' = [dart EXCEPT ![s] = "observed"]
  /\ count' = count + 2
  /\ name' = [name EXCEPT ![s] = count + 1]
  /\ channel' = [channel EXCEPT ![count + 1] = s]
  /\ UNCHANGED <<pc, cur, sink, listener, handler, registered, reported, sdk, on,
                 sent, nosink, dangling, waits>>

\* A new channel with a stream handler of its own; Dart is told its name.
Observe(s) ==
  /\ pc = "idle"
  /\ dart[s] = "none"
  /\ dart' = [dart EXCEPT ![s] = "observed"]
  /\ count' = count + 1
  /\ name' = [name EXCEPT ![s] = count + 1]
  /\ channel' = [channel EXCEPT ![count + 1] = s]
  /\ UNCHANGED <<pc, cur, sink, listener, handler, registered, reported, sdk,
                 on, sent, nosink, dangling, waits>>

\* Dart listens, once, and the channel's handler is called.
Listen(s) ==
  /\ pc = "idle"
  /\ dart[s] = "observed"
  /\ dart' = [dart EXCEPT ![s] = "listening"]
  /\ cur' = channel[name[s]]
  /\ pc' = "sink"
  /\ UNCHANGED <<count, channel, name, sink, listener, handler, registered,
                 reported, sdk, on, sent, nosink, dangling, waits>>

\* Mutant of TakeSink: the sink of the stream is moved to a local and lost.
TakeSinkLost ==
  /\ pc = "sink"
  /\ pc' = "create"
  /\ UNCHANGED <<dart, count, channel, name, cur, sink, listener, handler,
                 registered, reported, sdk, on, sent, nosink, dangling, waits>>

TakeSink ==
  /\ pc = "sink"
  /\ sink' = [sink EXCEPT ![cur] = TRUE]
  /\ pc' = "create"
  /\ UNCHANGED <<dart, count, channel, name, cur, listener, handler,
                 registered, reported, sdk, on, sent, nosink, dangling, waits>>

\* Mutant of CreateListener: the constructor registers the listener.
CreateListenerRegistered ==
  /\ pc = "create"
  /\ listener' = [listener EXCEPT ![cur] = "alive"]
  /\ registered' = [registered EXCEPT ![cur] = TRUE]
  /\ pc' = "handler"
  /\ UNCHANGED <<dart, count, channel, name, cur, sink, handler, reported,
                 sdk, on, sent, nosink, dangling, waits>>

CreateListener ==
  /\ pc = "create"
  /\ listener' = [listener EXCEPT ![cur] = "alive"]
  /\ pc' = "handler"
  /\ UNCHANGED <<dart, count, channel, name, cur, sink, handler, registered,
                 reported, sdk, on, sent, nosink, dangling, waits>>

SetHandler ==
  /\ pc = "handler"
  /\ handler' = [handler EXCEPT ![cur] = TRUE]
  /\ pc' = "add"
  /\ UNCHANGED <<dart, count, channel, name, cur, sink, listener, registered,
                 reported, sdk, on, sent, nosink, dangling, waits>>

AddListener ==
  /\ pc = "add"
  /\ registered' = [registered EXCEPT ![cur] = TRUE]
  /\ pc' = "idle"
  /\ cur' = None
  /\ UNCHANGED <<dart, count, channel, name, sink, listener, handler,
                 reported, sdk, on, sent, nosink, dangling, waits>>

-----------------------------------------------------------------------------
(* The platform thread: OnCancelInternal.                                   *)

Cancel(s) ==
  /\ pc = "idle"
  /\ dart[s] = "listening"
  /\ dart' = [dart EXCEPT ![s] = "canceled"]
  /\ cur' = channel[name[s]]
  /\ pc' = "reset"
  /\ UNCHANGED <<count, channel, name, sink, listener, handler, registered,
                 reported, sdk, on, sent, nosink, dangling, waits>>

ResetSink ==
  /\ pc = "reset"
  /\ sink' = [sink EXCEPT ![cur] = FALSE]
  /\ pc' = "remove"
  /\ UNCHANGED <<dart, count, channel, name, cur, listener, handler,
                 registered, reported, sdk, on, sent, nosink, dangling, waits>>

\* Mutant of RemoveListener: only value listeners are removed.
RemoveListenerSkipped ==
  /\ pc = "remove"
  /\ registered' = [registered EXCEPT ![cur] = @ /\ EventType[cur] # "value"]
  /\ pc' = "destroy"
  /\ UNCHANGED <<dart, count, channel, name, cur, sink, listener, handler,
                 reported, sdk, on, sent, nosink, dangling, waits>>

\* RemoveValueListener or RemoveChildListener.
RemoveListener ==
  /\ pc = "remove"
  /\ waits => on # cur
  /\ registered' = [registered EXCEPT ![cur] = FALSE]
  /\ pc' = "destroy"
  /\ UNCHANGED <<dart, count, channel, name, cur, sink, listener, handler,
                 reported, sdk, on, sent, nosink, dangling, waits>>

\* Mutant of DestroyListener: the destructor does not reset the handlers.
DestroyUnlocked ==
  /\ pc = "destroy"
  /\ listener' = [listener EXCEPT ![cur] = "freed"]
  /\ pc' = "unset"
  /\ UNCHANGED <<dart, count, channel, name, cur, sink, handler, registered,
                 reported, sdk, on, sent, nosink, dangling, waits>>

\* The destructor takes the listener's mutex to reset the handlers.
DestroyListener ==
  /\ pc = "destroy"
  /\ ~(sdk = "call" /\ on = cur)
  /\ handler' = [handler EXCEPT ![cur] = FALSE]
  /\ listener' = [listener EXCEPT ![cur] = "freed"]
  /\ pc' = "unset"
  /\ UNCHANGED <<dart, count, channel, name, cur, sink, registered, reported,
                 sdk, on, sent, nosink, dangling, waits>>

\* SetStreamHandler(nullptr) destroys the stream handler.
UnsetHandler ==
  /\ pc = "unset"
  /\ channel' = [channel EXCEPT ![name[cur]] = None]
  /\ pc' = "idle"
  /\ cur' = None
  /\ UNCHANGED <<dart, count, name, sink, listener, handler, registered,
                 reported, sdk, on, sent, nosink, dangling, waits>>

-----------------------------------------------------------------------------
(* The SDK's event thread.                                                  *)

\* A listener that is registered is called; OnCancelled is its last call.
Report(s, k) ==
  /\ sdk = "idle"
  /\ registered[s]
  /\ Len(reported[s]) < MaxEvents
  /\ reported' = [reported EXCEPT ![s] = Append(@, k)]
  /\ registered' = [registered EXCEPT ![s] = k # "error"]
  /\ on' = s
  /\ sdk' = "test"
  /\ UNCHANGED <<dart, count, channel, name, pc, cur, sink, listener, handler,
                 sent, nosink, dangling, waits>>

\* if (observe_handler_), or if (cancel_handler_), without the mutex.
TestHandler ==
  /\ sdk = "test"
  /\ dangling' = (dangling \/ listener[on] # "alive")
  /\ IF handler[on] THEN sdk' = "lock" /\ on' = on
                    ELSE sdk' = "idle" /\ on' = None
  /\ UNCHANGED <<dart, count, channel, name, pc, cur, sink, listener, handler,
                 registered, reported, sent, nosink, waits>>

\* The mutex of the listener, which may be gone by now.
LockListener ==
  /\ sdk = "lock"
  /\ dangling' = (dangling \/ listener[on] # "alive")
  /\ IF listener[on] = "alive" THEN sdk' = "call" /\ on' = on
                                ELSE sdk' = "idle" /\ on' = None
  /\ UNCHANGED <<dart, count, channel, name, pc, cur, sink, listener, handler,
                 registered, reported, sent, nosink, waits>>

\* What the listener was called with.
Event == reported[on][Len(reported[on])]

\* Mutant of CallHandler: the event is sent by the platform thread.
CallHandlerWaits ==
  /\ sdk = "call"
  /\ pc = "idle"
  /\ sent' = [sent EXCEPT ![on] =
               IF sink[on] /\ Event \in Wanted(on) THEN Append(@, Event) ELSE @]
  /\ nosink' = [nosink EXCEPT ![on] = @ \/ (~sink[on] /\ Event \in Wanted(on))]
  /\ sdk' = "idle"
  /\ on' = None
  /\ UNCHANGED <<dart, count, channel, name, pc, cur, sink, listener, handler,
                 registered, reported, dangling, waits>>

\* The handler sends what Dart wants, and the mutex is released.
CallHandler ==
  /\ sdk = "call"
  /\ sent' = [sent EXCEPT ![on] =
               IF sink[on] /\ Event \in Wanted(on) THEN Append(@, Event) ELSE @]
  /\ nosink' = [nosink EXCEPT ![on] = @ \/ (~sink[on] /\ Event \in Wanted(on))]
  /\ sdk' = "idle"
  /\ on' = None
  /\ UNCHANGED <<dart, count, channel, name, pc, cur, sink, listener, handler,
                 registered, reported, dangling, waits>>

-----------------------------------------------------------------------------
Stream ==
  \/ TakeSink \/ CreateListener \/ SetHandler \/ AddListener
  \/ ResetSink \/ RemoveListener \/ DestroyListener \/ UnsetHandler

Callback == TestHandler \/ LockListener \/ CallHandler

Next ==
  \/ \E s \in Streams : Observe(s) \/ Listen(s) \/ Cancel(s)
  \/ Stream
  \/ \E s \in Streams : \E k \in Kinds(s) : Report(s, k)
  \/ Callback

Safety == Init /\ [][Next]_vars

\* Both threads run; Dart need not cancel and the SDK need not report.
Fairness == WF_vars(Stream) /\ WF_vars(Callback)

Spec == Safety /\ Fairness

-----------------------------------------------------------------------------
(* The event streams that Dart observes.                                    *)

\* sub is what the first n elements of seq have of S, in order.
Selects(sub, seq, n, S) ==
  \E f \in [1 .. Len(sub) -> 1 .. n] :
    /\ \A i, j \in 1 .. Len(sub) : i < j => f[i] < f[j]
    /\ \A i \in 1 .. Len(sub) : sub[i] = seq[f[i]]
    /\ \A k \in 1 .. n : seq[k] \in S <=> \E i \in 1 .. Len(sub) : f[i] = k

Failed(s) == \E i \in 1 .. Len(reported[s]) : reported[s][i] = "error"

StreamState(s) ==
  CASE dart[s] \in {"none", "observed"} -> "silent"
    [] dart[s] = "listening"            -> "live"
    [] dart[s] = "canceled"             -> IF sink[s] THEN "closing" ELSE "closed"

\* The event in the callback of s that Dart waits for.
Due(s) == IF on = s /\ Event \in Wanted(s) THEN <<Event>> ELSE << >>

streamState == [s \in Streams |-> StreamState(s)]
due         == [s \in Streams |-> Due(s)]
ended       == [s \in Streams |-> Failed(s)]

Promise == INSTANCE EventStream WITH Events <- Wanted, state <- streamState, seen <- sent

-----------------------------------------------------------------------------
(* Correctness.                                                             *)

\* CHECK_NULL of OnListenInternal (firebase_database_plugin.cc:603-605): every
\* stream has a handler of its own, that was never listened to before.
ListenFindsFreshHandler == pc = "sink" => ~sink[cur] /\ listener[cur] = "none"

\* Between the calls of the platform thread a listener is registered exactly
\* while Dart listens to its stream, unless the SDK has ended it by an error.
RegisteredWhileListening ==
  pc = "idle" => \A s \in Streams :
    registered[s] <=> dart[s] = "listening"
                      /\ \A i \in 1 .. Len(reported[s]) : reported[s][i] # "error"

\* Dart gets each event of its type that the SDK reports, in order, and the
\* error that ends the stream; nothing is lost between registering and the first
\* event.  An event that finds no sink ends this, and so may canceling when the SDK
\* does not wait for its callback.
SentAsReported ==
  \A s \in Streams : on # s /\ ~nosink[s] /\ (waits \/ dart[s] # "canceled") =>
    Selects(sent[s], reported[s], Len(reported[s]), Wanted(s))

\* Every stream is an EventStream: from the moment Dart listens until its sink is
\* reset nothing it wants is lost, sent twice or out of order, and nothing is sent
\* to it before or after that.
StreamsKeepPromise == Promise!Safety

\* An event finds no sink only while its stream is canceled: ResetSink comes
\* before RemoveListener.
SinkLostOnlyByCancel == \A s \in Streams : nosink[s] => dart[s] = "canceled"

\* The SDK never calls a listener that was destroyed, if Remove...Listener waits
\* for the callback in progress.
ListenerOutlivesCallback == waits => ~dangling

\* While a handler runs, its listener and the stream handler it refers to exist,
\* also if Remove...Listener does not wait: the listener's destructor does.
HandlerRunsOnLiveStream ==
  sdk = "call" => listener[on] = "alive" /\ handler[on] /\ channel[name[on]] = on

\* A canceled stream is released, stream handler and all: OnCancelInternal and the
\* callback in progress do not wait for each other.
CanceledStreamIsReleased ==
  \A s \in Streams : dart[s] = "canceled" ~> (listener[s] = "freed" /\ channel[name[s]] = None)

\* No thread has a step to take: the platform thread waits for Dart, or in
\* OnCancelInternal for the callback, and the SDK's thread for an event.
Quiet ==
  /\ \/ pc = "idle"
     \/ pc = "remove" /\ waits /\ on = cur
     \/ pc = "destroy" /\ sdk = "call" /\ on = cur
  /\ sdk = "idle"

\* Then a canceled stream has nothing left: neither sink nor listener, neither in
\* the SDK nor on the channel.
QuietIsReleased ==
  Quiet => \A s \in Streams : dart[s] = "canceled" =>
    /\ ~sink[s] /\ ~registered[s] /\ ~handler[s]
    /\ listener[s] = "freed" /\ channel[name[s]] = None
=============================================================================
