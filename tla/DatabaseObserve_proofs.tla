------------------------ MODULE DatabaseObserve_proofs ------------------------
(***************************************************************************)
(* Proofs about DatabaseObserve for any finite set of streams, event types *)
(* and number of events.  IInv holds whether Remove...Listener waits for   *)
(* the callback in progress or not; WaitInv says what holds if it does.    *)
(***************************************************************************)
EXTENDS DatabaseObserve, FiniteSetTheorems, TLAPS

\* The stages of OnListenInternal and OnCancelInternal.
Listening == {"sink", "create", "handler", "add"}
Canceling == {"reset", "remove", "destroy", "unset"}

\* The platform thread works on stream s, at one of the places P.
At(s, P) == cur = s /\ pc \in P

Observed == {s \in Streams : dart[s] # "none"}

\* Each observed stream has a channel of its own, and its handler is on it until
\* the stream is canceled.
ChannelInv ==
  /\ count = Cardinality(Observed)
  /\ \A s \in Streams : IF dart[s] = "none" THEN name[s] = 0
                                            ELSE name[s] \in 1 .. count
  /\ \A s, u \in Streams : name[s] = name[u] /\ dart[s] # "none" => s = u
  /\ \A s \in Streams :
       dart[s] \in {"observed", "listening"} \/ At(s, Canceling) => channel[name[s]] = s

\* What the platform thread is doing is what Dart asked for.
ThreadInv ==
  /\ pc = "idle" <=> cur = None
  /\ pc \in Listening => dart[cur] = "listening"
  /\ pc \in Canceling => dart[cur] = "canceled"

\* How far stream s is: its sink, its listener, its handlers, its registration.
StreamInv(s) ==
  /\ sink[s] <=> (dart[s] = "listening" /\ ~At(s, {"sink"})) \/ At(s, {"reset"})
  /\ listener[s] = "none" <=> dart[s] \in {"none", "observed"} \/ At(s, {"sink", "create"})
  /\ listener[s] = "freed" <=> dart[s] = "canceled" /\ ~At(s, {"reset", "remove", "destroy"})
  /\ handler[s] <=> listener[s] = "alive" /\ ~At(s, {"handler"})
  /\ registered[s] <=>
       /\ (dart[s] = "listening" /\ ~At(s, Listening)) \/ At(s, {"reset", "remove"})
       /\ \A i \in 1 .. Len(reported[s]) : reported[s][i] # "error"
  /\ dart[s] \in {"none", "observed"} \/ At(s, Listening) => reported[s] = << >>
  /\ nosink[s] => dart[s] = "canceled"

\* The SDK's thread is in the callback of a stream that Dart listened to, and in
\* its handler only as long as the listener exists.
CallbackInv ==
  /\ sdk = "idle" <=> on = None
  /\ sdk # "idle" => dart[on] \in {"listening", "canceled"} /\ ~At(on, Listening)
  /\ sdk = "call" => listener[on] = "alive"

IInv == TypeOK /\ ChannelInv /\ ThreadInv /\ (\A s \in Streams : StreamInv(s)) /\ CallbackInv

\* If Remove...Listener waits, no callback is in progress when it has returned.
WaitInv ==
  waits =>
    /\ ~dangling
    /\ sdk # "idle" => dart[on] = "listening" \/ At(on, {"reset", "remove"})

\* The events of s that the SDK's thread has finished with.
Settled(s) == IF on = s THEN Len(reported[s]) - 1 ELSE Len(reported[s])

\* What was sent is what was wanted of them.
OrderInv ==
  /\ sdk # "idle" => reported[on] # << >>
  /\ \A s \in Streams : ~nosink[s] /\ (waits \/ dart[s] # "canceled") =>
       Selects(sent[s], reported[s], Settled(s), Wanted(s))

-----------------------------------------------------------------------------
LEMMA InitInv == Init => IInv /\ WaitInv
<1> SUFFICES ASSUME Init PROVE IInv /\ WaitInv
  OBVIOUS
<1> USE StreamsAssumption DEF Init
<1>1. Observed = {} /\ Cardinality(Observed) = 0 /\ Cardinality(Streams) \in Nat
  BY FS_EmptySet, FS_CardinalityType DEF Observed
<1>2. TypeOK
  <2>1. << >> \in Seq({"value", "error"} \cup ChildEvents)
    OBVIOUS
  <2>2. count \in 0 .. Cardinality(Streams)
    BY <1>1
  <2>3. name \in [Streams -> Names \cup {0}]
    OBVIOUS
  <2> QED BY <2>1, <2>2, <2>3 DEF TypeOK
<1>3. ChannelInv /\ ThreadInv /\ CallbackInv /\ WaitInv
  BY <1>1 DEF ChannelInv, ThreadInv, CallbackInv, WaitInv, At, Listening, Canceling
<1>4. \A s \in Streams : StreamInv(s)
  BY DEF StreamInv, At
<1> QED BY <1>2, <1>3, <1>4 DEF IInv

-----------------------------------------------------------------------------
(* One lemma for each action.                                               *)

LEMMA ObserveInv ==
  ASSUME IInv, NEW s \in Streams, Observe(s)
  PROVE  IInv'
<1> USE StreamsAssumption DEF IInv
<1>a. /\ Observed \subseteq Streams /\ IsFiniteSet(Observed)
      /\ s \in Streams \ Observed /\ Observed' = Observed \cup {s}
      /\ Observed' \subseteq Streams
  BY FS_Subset DEF TypeOK, Observed, Observe
<1>b. /\ Cardinality(Observed') = Cardinality(Observed) + 1
      /\ Cardinality(Observed') <= Cardinality(Streams)
      /\ Cardinality(Observed) \in Nat /\ Cardinality(Streams) \in Nat
  BY <1>a, FS_AddElement, FS_Subset, FS_CardinalityType
<1>c. count' = count + 1 /\ count + 1 \in Names /\ count' = Cardinality(Observed')
  BY <1>b DEF ChannelInv, Names, Observe
<1>1. TypeOK'
  <2>1. count' \in 0 .. Cardinality(Streams)
    BY <1>b, <1>c
  <2>2. name' \in [Streams -> Names \cup {0}] /\ channel' \in [Names -> Streams \cup {None}]
    BY <1>c DEF TypeOK, Observe
  <2> QED BY <2>1, <2>2 DEF TypeOK, Observe
<1>2. ChannelInv'
  <2>1. /\ count \in Nat
        /\ \A u \in Streams : name[u] # count + 1
        /\ dart[s] = "none" /\ name[s] = 0
    BY <1>b DEF ChannelInv, Observe
  <2>2. \A u \in Streams : IF dart'[u] = "none" THEN name'[u] = 0
                                               ELSE name'[u] \in 1 .. count'
    BY <2>1, <1>c DEF TypeOK, ChannelInv, Observe
  <2>3. \A u, w \in Streams : name'[u] = name'[w] /\ dart'[u] # "none" => u = w
    BY <2>1 DEF TypeOK, ChannelInv, Observe
  <2>4. ASSUME NEW u \in Streams,
               dart'[u] \in {"observed", "listening"} \/ At(u, Canceling)'
        PROVE  channel'[name'[u]] = u
    <3>1. CASE u = s
      BY <3>1, <1>c DEF TypeOK, Observe
    <3>2. CASE u # s
      <4>1. channel[name[u]] = u
        BY <2>4, <3>2 DEF ChannelInv, At, Observe
      <4>2. name'[u] = name[u] /\ name[u] # count + 1
        BY <2>1, <3>2 DEF Observe
      <4>3. name[u] \in Names
        BY <2>4, <3>2, <1>b DEF TypeOK, ChannelInv, At, Observe, Canceling
      <4> QED BY <4>1, <4>2, <4>3, <1>c DEF Observe
    <3> QED BY <3>1, <3>2
  <2> QED BY <1>c, <2>2, <2>3, <2>4 DEF ChannelInv
<1>3. ThreadInv'
  BY DEF ThreadInv, Observe
<1>4. ASSUME NEW u \in Streams PROVE StreamInv(u)'
  BY DEF StreamInv, At, Canceling, Observe
<1>5. CallbackInv'
  BY DEF CallbackInv, At, Observe
<1> QED BY <1>1, <1>2, <1>3, <1>4, <1>5

LEMMA ListenInv ==
  ASSUME IInv, NEW s \in Streams, Listen(s)
  PROVE  IInv'
<1> USE StreamsAssumption DEF IInv
<1>a. channel[name[s]] = s
  BY DEF ChannelInv, Listen
<1>1. TypeOK'
  BY <1>a DEF TypeOK, Listen
<1>2. ChannelInv'
  BY <1>a DEF ChannelInv, Observed, At, Listen
<1>3. ThreadInv'
  BY <1>a DEF TypeOK, ThreadInv, Canceling, Listen
<1>4. ASSUME NEW u \in Streams PROVE StreamInv(u)'
  BY <1>a DEF TypeOK, StreamInv, At, Listening, Listen
<1>5. CallbackInv'
  BY <1>a DEF CallbackInv, At, Listen
<1> QED BY <1>1, <1>2, <1>3, <1>4, <1>5

LEMMA TakeSinkInv ==
  ASSUME IInv, TakeSink
  PROVE  IInv'
<1> USE StreamsAssumption DEF IInv
<1>1. TypeOK'
  BY DEF TypeOK, TakeSink
<1>2. ChannelInv'
  BY DEF TypeOK, ChannelInv, Observed, At, Canceling, TakeSink
<1>3. ThreadInv'
  BY DEF ThreadInv, Listening, Canceling, TakeSink
<1>4. ASSUME NEW u \in Streams PROVE StreamInv(u)'
  BY DEF TypeOK, ChannelInv, ThreadInv, StreamInv, At, Listening, TakeSink
<1>5. CallbackInv'
  BY DEF CallbackInv, At, Listening, TakeSink
<1> QED BY <1>1, <1>2, <1>3, <1>4, <1>5

LEMMA CreateListenerInv ==
  ASSUME IInv, CreateListener
  PROVE  IInv'
<1> USE StreamsAssumption DEF IInv
<1>1. TypeOK'
  BY DEF TypeOK, CreateListener
<1>2. ChannelInv'
  BY DEF TypeOK, ChannelInv, Observed, At, Canceling, CreateListener
<1>3. ThreadInv'
  BY DEF ThreadInv, Listening, Canceling, CreateListener
<1>4. ASSUME NEW u \in Streams PROVE StreamInv(u)'
  BY DEF TypeOK, ChannelInv, ThreadInv, StreamInv, At, Listening, CreateListener
<1>5. CallbackInv'
  BY DEF CallbackInv, At, Listening, CreateListener
<1> QED BY <1>1, <1>2, <1>3, <1>4, <1>5

LEMMA SetHandlerInv ==
  ASSUME IInv, SetHandler
  PROVE  IInv'
<1> USE StreamsAssumption DEF IInv
<1>1. TypeOK'
  BY DEF TypeOK, SetHandler
<1>2. ChannelInv'
  BY DEF TypeOK, ChannelInv, Observed, At, Canceling, SetHandler
<1>3. ThreadInv'
  BY DEF ThreadInv, Listening, Canceling, SetHandler
<1>4. ASSUME NEW u \in Streams PROVE StreamInv(u)'
  BY DEF TypeOK, ChannelInv, ThreadInv, StreamInv, At, Listening, SetHandler
<1>5. CallbackInv'
  BY DEF CallbackInv, At, Listening, SetHandler
<1> QED BY <1>1, <1>2, <1>3, <1>4, <1>5

LEMMA AddListenerInv ==
  ASSUME IInv, AddListener
  PROVE  IInv'
<1> USE StreamsAssumption DEF IInv
<1>1. TypeOK'
  BY DEF TypeOK, AddListener
<1>2. ChannelInv'
  BY DEF ChannelInv, Observed, At, AddListener
<1>3. ThreadInv'
  BY DEF ThreadInv, Listening, Canceling, AddListener
<1>4. ASSUME NEW u \in Streams PROVE StreamInv(u)'
  BY DEF TypeOK, ChannelInv, ThreadInv, StreamInv, At, Listening, AddListener
<1>5. CallbackInv'
  BY DEF CallbackInv, At, AddListener
<1> QED BY <1>1, <1>2, <1>3, <1>4, <1>5

LEMMA CancelInv ==
  ASSUME IInv, NEW s \in Streams, Cancel(s)
  PROVE  IInv'
<1> USE StreamsAssumption DEF IInv
<1>a. channel[name[s]] = s
  BY DEF ChannelInv, Cancel
<1>1. TypeOK'
  BY <1>a DEF TypeOK, Cancel
<1>2. ChannelInv'
  BY <1>a DEF ChannelInv, Observed, At, Cancel
<1>3. ThreadInv'
  BY <1>a DEF TypeOK, ThreadInv, Listening, Cancel
<1>4. ASSUME NEW u \in Streams PROVE StreamInv(u)'
  BY <1>a DEF TypeOK, StreamInv, At, Listening, Cancel
<1>5. CallbackInv'
  BY <1>a DEF CallbackInv, At, Listening, Cancel
<1> QED BY <1>1, <1>2, <1>3, <1>4, <1>5

LEMMA ResetSinkInv ==
  ASSUME IInv, ResetSink
  PROVE  IInv'
<1> USE StreamsAssumption DEF IInv
<1>1. TypeOK'
  BY DEF TypeOK, ResetSink
<1>2. ChannelInv'
  BY DEF TypeOK, ChannelInv, Observed, At, Canceling, ResetSink
<1>3. ThreadInv'
  BY DEF ThreadInv, Listening, Canceling, ResetSink
<1>4. ASSUME NEW u \in Streams PROVE StreamInv(u)'
  BY DEF TypeOK, ChannelInv, ThreadInv, StreamInv, At, Listening, Canceling, ResetSink
<1>5. CallbackInv'
  BY DEF CallbackInv, At, Listening, ResetSink
<1> QED BY <1>1, <1>2, <1>3, <1>4, <1>5

LEMMA RemoveListenerInv ==
  ASSUME IInv, RemoveListener
  PROVE  IInv'
<1> USE StreamsAssumption DEF IInv
<1>1. TypeOK'
  BY DEF TypeOK, RemoveListener
<1>2. ChannelInv'
  BY DEF TypeOK, ChannelInv, Observed, At, Canceling, RemoveListener
<1>3. ThreadInv'
  BY DEF ThreadInv, Listening, Canceling, RemoveListener
<1>4. ASSUME NEW u \in Streams PROVE StreamInv(u)'
  BY DEF TypeOK, ChannelInv, ThreadInv, StreamInv, At, Listening, Canceling, RemoveListener
<1>5. CallbackInv'
  BY DEF CallbackInv, At, Listening, RemoveListener
<1> QED BY <1>1, <1>2, <1>3, <1>4, <1>5

LEMMA DestroyListenerInv ==
  ASSUME IInv, DestroyListener
  PROVE  IInv'
<1> USE StreamsAssumption DEF IInv
<1>1. TypeOK'
  BY DEF TypeOK, DestroyListener
<1>2. ChannelInv'
  BY DEF TypeOK, ChannelInv, Observed, At, Canceling, DestroyListener
<1>3. ThreadInv'
  BY DEF ThreadInv, Listening, Canceling, DestroyListener
<1>4. ASSUME NEW u \in Streams PROVE StreamInv(u)'
  BY DEF TypeOK, ChannelInv, ThreadInv, StreamInv, At, Listening, Canceling, DestroyListener
<1>5. CallbackInv'
  BY DEF CallbackInv, At, Listening, DestroyListener
<1> QED BY <1>1, <1>2, <1>3, <1>4, <1>5

LEMMA UnsetHandlerInv ==
  ASSUME IInv, UnsetHandler
  PROVE  IInv'
<1> USE StreamsAssumption DEF IInv
<1>1. TypeOK'
  BY DEF TypeOK, UnsetHandler
<1>2. ChannelInv'
  BY DEF TypeOK, ChannelInv, ThreadInv, Observed, At, Listening, Canceling, UnsetHandler
<1>3. ThreadInv'
  BY DEF ThreadInv, Listening, Canceling, UnsetHandler
<1>4. ASSUME NEW u \in Streams PROVE StreamInv(u)'
  BY DEF TypeOK, StreamInv, At, Listening, UnsetHandler
<1>5. CallbackInv'
  BY DEF CallbackInv, At, UnsetHandler
<1> QED BY <1>1, <1>2, <1>3, <1>4, <1>5

LEMMA ReportInv ==
  ASSUME IInv, NEW s \in Streams, NEW k \in Kinds(s), Report(s, k)
  PROVE  IInv'
<1> USE StreamsAssumption DEF IInv
<1>a. k \in {"value", "error"} \cup ChildEvents
  BY EventTypeAssumption DEF Kinds
<1>b. /\ reported' = [reported EXCEPT ![s] = Append(reported[s], k)]
      /\ reported[s] \in Seq({"value", "error"} \cup ChildEvents)
      /\ registered' = [registered EXCEPT ![s] = (k # "error")]
  BY DEF TypeOK, Report
<1>c. Append(reported[s], k) \in Seq({"value", "error"} \cup ChildEvents)
  BY <1>a, <1>b
<1>d. /\ \A i \in 1 .. Len(reported[s]) : reported[s][i] # "error"
      /\ (dart[s] = "listening" /\ ~At(s, Listening)) \/ At(s, {"reset", "remove"})
  BY DEF StreamInv, Report
<1>e. (\A i \in 1 .. Len(Append(reported[s], k)) : Append(reported[s], k)[i] # "error") <=> k # "error"
  <2>1. /\ Len(Append(reported[s], k)) = Len(reported[s]) + 1 /\ Len(reported[s]) \in Nat
        /\ Append(reported[s], k)[Len(reported[s]) + 1] = k
        /\ \A i \in 1 .. Len(reported[s]) : Append(reported[s], k)[i] = reported[s][i]
    BY <1>a, <1>b
  <2>2. Len(reported[s]) + 1 \in 1 .. Len(Append(reported[s], k))
    BY <2>1
  <2>3. \A i \in 1 .. Len(Append(reported[s], k)) : i \in 1 .. Len(reported[s]) \/ i = Len(reported[s]) + 1
    BY <2>1
  <2> QED BY <2>1, <2>2, <2>3, <1>d
<1>1. TypeOK'
  <2>1. reported' \in [Streams -> Seq({"value", "error"} \cup ChildEvents)]
    BY <1>b, <1>c DEF TypeOK
  <2>2. registered' \in [Streams -> BOOLEAN]
    BY <1>b DEF TypeOK
  <2> QED BY <2>1, <2>2 DEF TypeOK, Report
<1>2. ChannelInv'
  BY DEF ChannelInv, Observed, At, Report
<1>3. ThreadInv'
  BY DEF ThreadInv, Report
<1>4. ASSUME NEW u \in Streams PROVE StreamInv(u)'
  <2>1. CASE u = s
    <3>1. reported'[s] = Append(reported[s], k) /\ (registered'[s] <=> k # "error")
      BY <1>b DEF TypeOK
    <3>2. (registered'[s] <=>
             /\ (dart[s] = "listening" /\ ~At(s, Listening)) \/ At(s, {"reset", "remove"})
             /\ \A i \in 1 .. Len(reported'[s]) : reported'[s][i] # "error")
      BY <3>1, <1>d, <1>e
    <3>3. ~(dart[s] \in {"none", "observed"} \/ At(s, Listening))
      BY <1>d DEF ThreadInv, At, Canceling
    <3> QED BY <2>1, <3>2, <3>3 DEF StreamInv, At, Report
  <2>2. CASE u # s
    <3>1. reported'[u] = reported[u] /\ registered'[u] = registered[u]
      BY <1>b, <2>2 DEF TypeOK
    <3>2. UNCHANGED <<dart, pc, cur, sink, listener, handler, nosink>>
      BY DEF Report
    <3>3. StreamInv(u)
      OBVIOUS
    <3> QED BY <3>1, <3>2, <3>3 DEF StreamInv, At
  <2> QED BY <2>1, <2>2
<1>5. CallbackInv'
  BY DEF TypeOK, ThreadInv, StreamInv, CallbackInv, At, Canceling, Report
<1> QED BY <1>1, <1>2, <1>3, <1>4, <1>5

LEMMA TestHandlerInv ==
  ASSUME IInv, TestHandler
  PROVE  IInv'
<1> USE StreamsAssumption DEF IInv
<1>1. TypeOK'
  BY DEF TypeOK, TestHandler
<1>2. ChannelInv'
  BY DEF ChannelInv, Observed, At, TestHandler
<1>3. ThreadInv'
  BY DEF ThreadInv, TestHandler
<1>4. ASSUME NEW u \in Streams PROVE StreamInv(u)'
  BY DEF StreamInv, At, Canceling, TestHandler
<1>5. CallbackInv'
  BY DEF CallbackInv, At, TestHandler
<1> QED BY <1>1, <1>2, <1>3, <1>4, <1>5

LEMMA LockListenerInv ==
  ASSUME IInv, LockListener
  PROVE  IInv'
<1> USE StreamsAssumption DEF IInv
<1>1. TypeOK'
  BY DEF TypeOK, LockListener
<1>2. ChannelInv'
  BY DEF ChannelInv, Observed, At, LockListener
<1>3. ThreadInv'
  BY DEF ThreadInv, LockListener
<1>4. ASSUME NEW u \in Streams PROVE StreamInv(u)'
  BY DEF StreamInv, At, Canceling, LockListener
<1>5. CallbackInv'
  BY DEF CallbackInv, At, LockListener
<1> QED BY <1>1, <1>2, <1>3, <1>4, <1>5

LEMMA CallHandlerInv ==
  ASSUME IInv, CallHandler
  PROVE  IInv'
<1> USE StreamsAssumption DEF IInv
<1>1. TypeOK'
  <2>1. on \in Streams
    BY DEF TypeOK, CallbackInv, CallHandler
  <2>2. Wanted(on) \subseteq {"value", "error"} \cup ChildEvents
    BY <2>1, EventTypeAssumption DEF Wanted
  <2>3. sent' \in [Streams -> Seq({"value", "error"} \cup ChildEvents)]
    <3>1. Event \in Wanted(on) =>
            Append(sent[on], Event) \in Seq({"value", "error"} \cup ChildEvents)
      BY <2>1, <2>2 DEF TypeOK
    <3> QED BY <2>1, <3>1 DEF TypeOK, CallHandler
  <2>4. nosink' \in [Streams -> BOOLEAN]
    BY <2>1 DEF TypeOK, CallHandler
  <2> QED BY <2>3, <2>4 DEF TypeOK, CallHandler
<1>2. ChannelInv'
  BY DEF ChannelInv, Observed, At, CallHandler
<1>3. ThreadInv'
  BY DEF ThreadInv, CallHandler
<1>4. ASSUME NEW u \in Streams PROVE StreamInv(u)'
  BY DEF TypeOK, CallbackInv, StreamInv, At, Canceling, CallHandler
<1>5. CallbackInv'
  BY DEF CallbackInv, CallHandler
<1> QED BY <1>1, <1>2, <1>3, <1>4, <1>5

-----------------------------------------------------------------------------
LEMMA NextInv == IInv /\ [Next]_vars => IInv'
<1> SUFFICES ASSUME IInv, [Next]_vars PROVE IInv'
  OBVIOUS
<1>1. ASSUME NEW s \in Streams, Observe(s) PROVE IInv'
  BY <1>1, ObserveInv
<1>2. ASSUME NEW s \in Streams, Listen(s) PROVE IInv'
  BY <1>2, ListenInv
<1>3. CASE TakeSink
  BY <1>3, TakeSinkInv
<1>4. CASE CreateListener
  BY <1>4, CreateListenerInv
<1>5. CASE SetHandler
  BY <1>5, SetHandlerInv
<1>6. CASE AddListener
  BY <1>6, AddListenerInv
<1>7. ASSUME NEW s \in Streams, Cancel(s) PROVE IInv'
  BY <1>7, CancelInv
<1>8. CASE ResetSink
  BY <1>8, ResetSinkInv
<1>9. CASE RemoveListener
  BY <1>9, RemoveListenerInv
<1>10. CASE DestroyListener
  BY <1>10, DestroyListenerInv
<1>11. CASE UnsetHandler
  BY <1>11, UnsetHandlerInv
<1>12. ASSUME NEW s \in Streams, NEW k \in Kinds(s), Report(s, k) PROVE IInv'
  BY <1>12, ReportInv
<1>13. CASE TestHandler
  BY <1>13, TestHandlerInv
<1>14. CASE LockListener
  BY <1>14, LockListenerInv
<1>15. CASE CallHandler
  BY <1>15, CallHandlerInv
<1>16. CASE UNCHANGED vars
  BY <1>16 DEF IInv, TypeOK, ChannelInv, ThreadInv, StreamInv, CallbackInv, Observed, At, vars
<1> QED BY <1>1, <1>2, <1>3, <1>4, <1>5, <1>6, <1>7, <1>8, <1>9, <1>10, <1>11, <1>12, <1>13, <1>14, <1>15, <1>16
        DEF Next, Stream, Callback

\* Where Remove...Listener waits, a callback is over before its listener is destroyed.
LEMMA NextWaitInv == IInv /\ WaitInv /\ [Next]_vars => WaitInv'
<1> SUFFICES ASSUME IInv, WaitInv, [Next]_vars PROVE WaitInv'
  OBVIOUS
<1> USE StreamsAssumption DEF IInv, WaitInv
<1>1. ASSUME NEW s \in Streams, Observe(s) PROVE WaitInv'
  BY <1>1 DEF At, Observe
<1>2. ASSUME NEW s \in Streams, Listen(s) PROVE WaitInv'
  BY <1>2 DEF At, Listen
<1>3. CASE TakeSink
  BY <1>3 DEF At, TakeSink
<1>4. CASE CreateListener
  BY <1>4 DEF At, CreateListener
<1>5. CASE SetHandler
  BY <1>5 DEF At, SetHandler
<1>6. CASE AddListener
  BY <1>6 DEF At, AddListener
<1>7. ASSUME NEW s \in Streams, Cancel(s) PROVE WaitInv'
  <2>1. cur' = s
    BY <1>7 DEF ChannelInv, Cancel
  <2> QED BY <1>7, <2>1 DEF At, Cancel
<1>8. CASE ResetSink
  BY <1>8 DEF At, ResetSink
<1>9. CASE RemoveListener
  BY <1>9 DEF At, RemoveListener
<1>10. CASE DestroyListener
  BY <1>10 DEF At, DestroyListener
<1>11. CASE UnsetHandler
  BY <1>11 DEF At, UnsetHandler
<1>12. ASSUME NEW s \in Streams, NEW k \in Kinds(s), Report(s, k) PROVE WaitInv'
  BY <1>12 DEF StreamInv, At, Report
<1>13. CASE TestHandler
  BY <1>13 DEF TypeOK, StreamInv, CallbackInv, At, Listening, TestHandler
<1>14. CASE LockListener
  BY <1>14 DEF TypeOK, StreamInv, CallbackInv, At, Listening, LockListener
<1>15. CASE CallHandler
  BY <1>15 DEF CallHandler
<1>16. CASE UNCHANGED vars
  BY <1>16 DEF At, vars
<1> QED BY <1>1, <1>2, <1>3, <1>4, <1>5, <1>6, <1>7, <1>8, <1>9, <1>10, <1>11, <1>12, <1>13, <1>14, <1>15, <1>16
        DEF Next, Stream, Callback

-----------------------------------------------------------------------------
(* What was sent is what was wanted.                                        *)

Payloads == {"value", "error"} \cup ChildEvents

\* How to show that sub is selected: by the places f it comes from.
LEMMA SelectsBy ==
  ASSUME NEW sub, NEW seq, NEW S, NEW n, NEW f \in [1 .. Len(sub) -> 1 .. n],
         \A i, j \in 1 .. Len(sub) : i < j => f[i] < f[j],
         \A i \in 1 .. Len(sub) : sub[i] = seq[f[i]],
         \A k \in 1 .. n : seq[k] \in S <=> \E i \in 1 .. Len(sub) : f[i] = k
  PROVE  Selects(sub, seq, n, S)
BY DEF Selects

\* Selecting from the empty sequence, from a longer one, and from one element more.
LEMMA SelectsNothing == ASSUME NEW S PROVE Selects(<< >>, << >>, 0, S)
<1>1. Len(<< >>) = 0 /\ 1 .. 0 = {}
  OBVIOUS
<1>2. [i \in {} |-> i] \in [{} -> {}]
  OBVIOUS
<1> QED BY <1>1, <1>2, SelectsBy

LEMMA SelectsLonger ==
  ASSUME NEW sub \in Seq(Payloads), NEW seq \in Seq(Payloads), NEW S, NEW e \in Payloads,
         NEW n \in 0 .. Len(seq), Selects(sub, seq, n, S)
  PROVE  Selects(sub, Append(seq, e), n, S)
<1>1. \A k \in 1 .. n : Append(seq, e)[k] = seq[k]
  OBVIOUS
<1>2. PICK f \in [1 .. Len(sub) -> 1 .. n] :
        /\ \A i, j \in 1 .. Len(sub) : i < j => f[i] < f[j]
        /\ \A i \in 1 .. Len(sub) : sub[i] = seq[f[i]]
        /\ \A k \in 1 .. n : seq[k] \in S <=> \E i \in 1 .. Len(sub) : f[i] = k
  BY DEF Selects
<1>3. \A i \in 1 .. Len(sub) : sub[i] = Append(seq, e)[f[i]]
  BY <1>1, <1>2
<1>4. \A k \in 1 .. n : Append(seq, e)[k] \in S <=> \E i \in 1 .. Len(sub) : f[i] = k
  BY <1>1, <1>2
<1> QED BY <1>2, <1>3, <1>4, SelectsBy

LEMMA SelectsNext ==
  ASSUME NEW sub \in Seq(Payloads), NEW seq \in Seq(Payloads), NEW S,
         NEW n \in Nat, n < Len(seq), Selects(sub, seq, n, S)
  PROVE  Selects(IF seq[n + 1] \in S THEN Append(sub, seq[n + 1]) ELSE sub, seq, n + 1, S)
<1>1. PICK f \in [1 .. Len(sub) -> 1 .. n] :
        /\ \A i, j \in 1 .. Len(sub) : i < j => f[i] < f[j]
        /\ \A i \in 1 .. Len(sub) : sub[i] = seq[f[i]]
        /\ \A k \in 1 .. n : seq[k] \in S <=> \E i \in 1 .. Len(sub) : f[i] = k
  BY DEF Selects
<1>2. CASE seq[n + 1] \notin S
  <2>1. f \in [1 .. Len(sub) -> 1 .. n + 1]
    OBVIOUS
  <2>2. \A k \in 1 .. n + 1 : seq[k] \in S <=> \E i \in 1 .. Len(sub) : f[i] = k
    <3>1. ASSUME NEW k \in 1 .. n + 1
          PROVE  seq[k] \in S <=> \E i \in 1 .. Len(sub) : f[i] = k
      <4>1. CASE k = n + 1
        <5>1. \A i \in 1 .. Len(sub) : f[i] # n + 1
          OBVIOUS
        <5> QED BY <1>2, <4>1, <5>1
      <4>2. CASE k \in 1 .. n
        BY <1>1, <4>2
      <4> QED BY <4>1, <4>2
    <3> QED BY <3>1
  <2>3. Selects(sub, seq, n + 1, S)
    BY <1>1, <2>1, <2>2, SelectsBy
  <2> QED BY <1>2, <2>3
<1>3. CASE seq[n + 1] \in S
  <2> DEFINE m == Len(sub) + 1
             more == Append(sub, seq[n + 1])
             g == [i \in 1 .. m |-> IF i = m THEN n + 1 ELSE f[i]]
  <2>1. /\ Len(sub) \in Nat /\ Len(more) = m /\ more[m] = seq[n + 1]
        /\ \A i \in 1 .. Len(sub) : more[i] = sub[i]
    OBVIOUS
  <2>2. \A i \in 1 .. m : i = m \/ i \in 1 .. Len(sub)
    BY <2>1
  <2>3. g \in [1 .. m -> 1 .. n + 1]
    BY <2>2
  <2>4. ASSUME NEW i \in 1 .. m, NEW j \in 1 .. m, i < j
        PROVE  g[i] < g[j]
    <3>1. i \in 1 .. Len(sub) /\ g[i] = f[i] /\ f[i] \in 1 .. n
      BY <2>1, <2>4
    <3>2. CASE j = m
      BY <3>1, <3>2
    <3>3. CASE j \in 1 .. Len(sub)
      <4>1. g[j] = f[j]
        BY <2>1, <3>3
      <4> QED BY <1>1, <2>4, <3>1, <3>3, <4>1
    <3> QED BY <2>2, <3>2, <3>3
  <2>5. \A i \in 1 .. m : more[i] = seq[g[i]]
    BY <1>1, <2>1, <2>2
  <2>6. \A k \in 1 .. n + 1 : seq[k] \in S <=> \E i \in 1 .. m : g[i] = k
    <3> SUFFICES ASSUME NEW k \in 1 .. n + 1
                 PROVE  seq[k] \in S <=> \E i \in 1 .. m : g[i] = k
      OBVIOUS
    <3>1. CASE k = n + 1
      <4>1. m \in 1 .. m /\ g[m] = n + 1
        BY <2>1
      <4> QED BY <1>3, <3>1, <4>1
    <3>2. CASE k \in 1 .. n
      <4>1. \A i \in 1 .. Len(sub) : i \in 1 .. m /\ g[i] = f[i]
        BY <2>1
      <4>2. \A i \in 1 .. m : g[i] = k => i \in 1 .. Len(sub) /\ f[i] = k
        BY <2>1, <2>2, <3>2
      <4> QED BY <1>1, <3>2, <4>1, <4>2
    <3> QED BY <3>1, <3>2
  <2> HIDE DEF g, more, m
  <2>7. /\ g \in [1 .. Len(more) -> 1 .. n + 1]
        /\ \A i, j \in 1 .. Len(more) : i < j => g[i] < g[j]
        /\ \A i \in 1 .. Len(more) : more[i] = seq[g[i]]
        /\ \A k \in 1 .. n + 1 : seq[k] \in S <=> \E i \in 1 .. Len(more) : g[i] = k
    BY <2>1, <2>3, <2>4, <2>5, <2>6
  <2>8. Selects(more, seq, n + 1, S)
    BY <2>7, SelectsBy
  <2> QED BY <1>3, <2>8 DEF more
<1> QED BY <1>2, <1>3

LEMMA InitOrder == Init => OrderInv
<1> SUFFICES ASSUME Init, NEW s \in Streams
             PROVE  Selects(sent[s], reported[s], Settled(s), Wanted(s))
  BY DEF Init, OrderInv
<1>1. sent[s] = << >> /\ reported[s] = << >> /\ Settled(s) = 0
  BY StreamsAssumption DEF Init, Settled
<1> QED BY <1>1, SelectsNothing

LEMMA NextOrder == IInv /\ WaitInv /\ OrderInv /\ [Next]_vars => OrderInv'
<1> SUFFICES ASSUME IInv, WaitInv, OrderInv, [Next]_vars PROVE OrderInv'
  OBVIOUS
<1> USE StreamsAssumption
<1>0. /\ reported \in [Streams -> Seq(Payloads)] /\ sent \in [Streams -> Seq(Payloads)]
      /\ on \in Streams \cup {None} /\ (sdk # "idle" => on \in Streams)
      /\ sink \in [Streams -> BOOLEAN] /\ nosink \in [Streams -> BOOLEAN]
  BY DEF IInv, TypeOK, CallbackInv, Payloads
\* The platform thread and Dart change nothing that the order is about.
<1>1. ASSUME UNCHANGED <<reported, sdk, on, sent, nosink, waits>>,
             \A s \in Streams : dart[s] = "canceled" => dart'[s] = "canceled"
      PROVE  OrderInv'
  BY <1>1 DEF OrderInv, Settled
<1>2. (\E s \in Streams : Observe(s) \/ Listen(s) \/ Cancel(s)) =>
        /\ UNCHANGED <<reported, sdk, on, sent, nosink, waits>>
        /\ \A s \in Streams : dart[s] = "canceled" => dart'[s] = "canceled"
  BY DEF IInv, TypeOK, Observe, Listen, Cancel
<1>3. Stream \/ UNCHANGED vars =>
        UNCHANGED <<reported, sdk, on, sent, nosink, waits, dart>>
  BY DEF Stream, TakeSink, CreateListener, SetHandler, AddListener, ResetSink,
         RemoveListener, DestroyListener, UnsetHandler, vars
<1>4. ASSUME NEW s \in Streams, NEW k \in Kinds(s), Report(s, k)
      PROVE  OrderInv'
  <2>1. /\ k \in Payloads /\ on = None /\ on' = s
        /\ reported' = [reported EXCEPT ![s] = Append(reported[s], k)]
    BY <1>4, EventTypeAssumption DEF Kinds, Payloads, Report, IInv, CallbackInv
  <2>a. /\ reported[s] \in Seq(Payloads) /\ Len(reported[s]) \in 0 .. Len(reported[s])
        /\ reported'[s] = Append(reported[s], k)
        /\ Len(Append(reported[s], k)) = Len(reported[s]) + 1
    BY <1>0, <2>1
  <2>2. /\ reported'[s] # << >>
        /\ Settled(s) = Len(reported[s]) /\ Settled(s)' = Len(reported[s])
    BY <2>1, <2>a DEF Settled
  <2>3. UNCHANGED <<sent, nosink, waits, dart>>
    BY <1>4 DEF Report
  <2>4. ASSUME NEW u \in Streams, ~nosink[u] /\ (waits \/ dart[u] # "canceled")
        PROVE  Selects(sent[u], reported'[u], Settled(u)', Wanted(u))
    <3>1. Selects(sent[u], reported[u], Settled(u), Wanted(u))
      BY <2>4 DEF OrderInv
    <3>2. CASE u = s
      BY <1>0, <2>1, <2>a, <2>2, <3>1, <3>2, SelectsLonger
    <3>3. CASE u # s
      BY <1>0, <2>1, <3>1, <3>3 DEF Settled
    <3> QED BY <3>2, <3>3
  <2> QED BY <2>1, <2>2, <2>3, <2>4 DEF OrderInv
\* A callback that ends before its handler is of a stream whose events may be lost.
<1>5. ASSUME TestHandler \/ LockListener
      PROVE  OrderInv'
  <2>1. /\ sdk # "idle" /\ on \in Streams /\ UNCHANGED <<reported, sent, nosink, waits, dart>>
        /\ (on' = on /\ sdk' # "idle") \/ (on' = None /\ sdk' = "idle")
    <3>1. CASE TestHandler
      BY <1>0, <3>1 DEF TestHandler
    <3>2. CASE LockListener
      BY <1>0, <3>2 DEF LockListener
    <3> QED BY <1>5, <3>1, <3>2
  <2>2. CASE on' = on /\ sdk' # "idle"
    BY <2>1, <2>2 DEF OrderInv, Settled
  <2>3. CASE on' = None /\ sdk' = "idle"
    <3>1. ~(waits \/ dart[on] # "canceled")
      <4>1. ~handler[on] \/ listener[on] # "alive"
        BY <1>5, <2>1, <2>3 DEF TestHandler, LockListener
      <4>2. listener[on] = "freed" /\ dart[on] = "canceled" /\ ~At(on, {"reset", "remove"})
        BY <2>1, <4>1 DEF IInv, TypeOK, StreamInv, CallbackInv, At, Listening
      <4> QED BY <2>1, <4>2 DEF WaitInv
    <3>2. \A u \in Streams \ {on} : Settled(u)' = Settled(u)
      BY <2>1, <2>3 DEF Settled
    <3> QED BY <2>1, <2>3, <3>1, <3>2 DEF OrderInv
  <2> QED BY <2>1, <2>2, <2>3
<1>6. ASSUME CallHandler
      PROVE  OrderInv'
  <2> DEFINE n == Len(reported[on]) - 1
             e == reported[on][n + 1]
  <2>1. /\ on \in Streams /\ on' = None /\ sdk' = "idle"
        /\ UNCHANGED <<reported, waits, dart, sink>>
        /\ sent' = [sent EXCEPT ![on] = IF sink[on] /\ Event \in Wanted(on)
                                       THEN Append(sent[on], Event) ELSE sent[on]]
        /\ nosink' = [nosink EXCEPT ![on] = nosink[on] \/ (~sink[on] /\ Event \in Wanted(on))]
        /\ reported[on] # << >>
    BY <1>0, <1>6 DEF CallHandler, OrderInv
  <2>2. /\ reported[on] \in Seq(Payloads) /\ sent[on] \in Seq(Payloads)
        /\ n \in Nat /\ n + 1 = Len(reported[on]) /\ n < Len(reported[on])
        /\ Event = e /\ Settled(on) = n
    <3>1. reported[on] \in Seq(Payloads) /\ Len(reported[on]) \in Nat \ {0}
      BY <1>0, <2>1
    <3> QED BY <1>0, <2>1, <3>1 DEF Event, Settled
  <2> HIDE DEF n, e
  <2>3. ASSUME NEW u \in Streams, ~nosink'[u] /\ (waits \/ dart[u] # "canceled")
        PROVE  Selects(sent'[u], reported[u], Settled(u)', Wanted(u))
    <3>1. CASE u # on
      BY <1>0, <2>1, <2>3, <3>1 DEF OrderInv, Settled
    <3>2. CASE u = on
      <4>1. ~nosink[on] /\ (Event \in Wanted(on) => sink[on])
        BY <1>0, <2>1, <2>3, <3>2
      <4>2. Selects(sent[on], reported[on], n, Wanted(on))
        BY <2>1, <2>2, <2>3, <3>2, <4>1 DEF OrderInv
      <4>3. sent'[on] = IF reported[on][n + 1] \in Wanted(on)
                          THEN Append(sent[on], reported[on][n + 1]) ELSE sent[on]
        BY <1>0, <2>1, <2>2, <4>1 DEF e
      <4>4. Selects(sent'[on], reported[on], n + 1, Wanted(on))
        BY <2>2, <4>2, <4>3, SelectsNext
      <4>5. Settled(u)' = n + 1
        BY <1>0, <2>1, <2>2, <3>2 DEF Settled
      <4> QED BY <3>2, <4>4, <4>5
    <3> QED BY <3>1, <3>2
  <2> QED BY <2>1, <2>3 DEF OrderInv
<1> QED BY <1>1, <1>2, <1>3, <1>4, <1>5, <1>6 DEF Next, Callback

-----------------------------------------------------------------------------
(* Each stream keeps the promise of EventStream.                            *)

LEMMA InitPromise == Init => Promise!Init
BY StreamsAssumption DEF Init, Promise!Init, streamState, StreamState, due, Due, ended, Failed

\* What the mapped variables are functions of.
LEMMA SameStates ==
  ASSUME UNCHANGED <<dart, sink>> PROVE UNCHANGED streamState
BY DEF streamState, StreamState

LEMMA SameEvents ==
  ASSUME UNCHANGED <<on, reported>> PROVE UNCHANGED <<due, ended>>
BY DEF due, Due, Event, ended, Failed

LEMMA ObserveKeeps ==
  ASSUME IInv, NEW s \in Streams, Observe(s)
  PROVE  UNCHANGED Promise!vars
<1>1. UNCHANGED streamState
  BY DEF IInv, TypeOK, Observe, streamState, StreamState
<1> QED BY <1>1, SameEvents DEF Observe, Promise!vars

LEMMA ListenKeeps ==
  ASSUME IInv, NEW s \in Streams, Listen(s)
  PROVE  Promise!Listen(s)
<1>1. streamState[s] = "silent" /\ streamState' = [streamState EXCEPT ![s] = "live"]
  BY DEF IInv, TypeOK, Listen, streamState, StreamState
<1> QED BY <1>1, SameEvents DEF Listen, Promise!Listen, Promise!Move

\* The sink is there when Dart cancels, so the stream is open until it is reset.
LEMMA CancelKeeps ==
  ASSUME IInv, NEW s \in Streams, Cancel(s)
  PROVE  Promise!Cancel(s)
<1>1. sink[s]
  BY StreamsAssumption DEF IInv, ThreadInv, StreamInv, At, Cancel
<1>2. streamState[s] = "live" /\ streamState' = [streamState EXCEPT ![s] = "closing"]
  BY <1>1 DEF IInv, TypeOK, Cancel, streamState, StreamState
<1> QED BY <1>2, SameEvents DEF Cancel, Promise!Cancel, Promise!Move

LEMMA ResetSinkKeeps ==
  ASSUME IInv, ResetSink
  PROVE  cur \in Streams /\ Promise!Close(cur)
<1>1. cur \in Streams /\ dart[cur] = "canceled" /\ sink[cur]
  BY StreamsAssumption DEF IInv, TypeOK, ThreadInv, StreamInv, At, Canceling, ResetSink
<1>2. streamState[cur] = "closing" /\ streamState' = [streamState EXCEPT ![cur] = "closed"]
  BY <1>1 DEF IInv, TypeOK, ResetSink, streamState, StreamState
<1> QED BY <1>1, <1>2, SameEvents DEF ResetSink, Promise!Close, Promise!Move

\* The rest of OnListenInternal and OnCancelInternal is not seen by Dart.
LEMMA StreamKeeps ==
  ASSUME IInv, Stream, ~ResetSink
  PROVE  UNCHANGED Promise!vars
<1>1. UNCHANGED <<dart, on, reported, sent>>
  BY DEF Stream, TakeSink, CreateListener, SetHandler, AddListener, RemoveListener,
         DestroyListener, UnsetHandler
<1>2. CASE TakeSink
  <2>1. dart[cur] = "listening"
    BY <1>2 DEF IInv, ThreadInv, Listening, TakeSink
  <2>2. UNCHANGED streamState
    BY <1>1, <1>2, <2>1 DEF IInv, TypeOK, TakeSink, streamState, StreamState
  <2> QED BY <1>1, <2>2, SameEvents DEF Promise!vars
<1>3. CASE ~TakeSink
  <2>1. UNCHANGED sink
    BY <1>3 DEF Stream, CreateListener, SetHandler, AddListener, RemoveListener,
                DestroyListener, UnsetHandler
  <2> QED BY <1>1, <2>1, SameStates, SameEvents DEF Promise!vars
<1> QED BY <1>2, <1>3

LEMMA ReportKeeps ==
  ASSUME IInv, NEW s \in Streams, NEW k \in Kinds(s), Report(s, k)
  PROVE  [Promise!Happen(s, k) /\ k \in Wanted(s)]_Promise!vars
<1> USE StreamsAssumption
<1>1. /\ k \in Payloads /\ on = None /\ on' = s
      /\ reported[s] \in Seq(Payloads)
      /\ reported' = [reported EXCEPT ![s] = Append(reported[s], k)]
      /\ reported \in [Streams -> Seq(Payloads)]
  BY EventTypeAssumption DEF Kinds, Payloads, Report, IInv, TypeOK, CallbackInv
<1>2. /\ reported'[s] = Append(reported[s], k)
      /\ Len(reported'[s]) = Len(reported[s]) + 1 /\ Len(reported[s]) \in Nat
      /\ reported'[s][Len(reported'[s])] = k
      /\ \A i \in 1 .. Len(reported[s]) : reported'[s][i] = reported[s][i]
      /\ \A u \in Streams \ {s} : reported'[u] = reported[u]
  BY <1>1
<1>3. /\ streamState[s] # "silent" /\ UNCHANGED streamState /\ ~Failed(s)
      /\ UNCHANGED sent
  <2>1. dart[s] \in {"listening", "canceled"} /\ ~Failed(s)
    BY DEF IInv, TypeOK, ThreadInv, StreamInv, At, Canceling, Report, Failed
  <2> QED BY <2>1, SameStates DEF Report, streamState, StreamState
<1>4. Failed(s)' <=> k = "error"
  <2>1. \A i \in 1 .. Len(reported'[s]) : i \in 1 .. Len(reported[s]) \/ i = Len(reported'[s])
    BY <1>2
  <2>2. Len(reported'[s]) \in 1 .. Len(reported'[s])
    BY <1>2
  <2> QED BY <1>2, <1>3, <2>1, <2>2 DEF Failed
<1>5. ended[s] = FALSE /\ ended' = [ended EXCEPT ![s] = (k = "error")]
  <2>1. \A u \in Streams \ {s} : Failed(u)' = Failed(u)
    BY <1>2 DEF Failed
  <2>2. Failed(s) = FALSE /\ Failed(s)' = (k = "error")
    BY <1>3, <1>4 DEF Failed
  <2> QED BY <2>1, <2>2 DEF ended
<1>6. /\ due = [u \in Streams |-> << >>]
      /\ due' = [u \in Streams |-> IF u = s /\ k \in Wanted(s) THEN <<k>> ELSE << >>]
  BY <1>1, <1>2 DEF due, Due, Event
<1>7. CASE k \in Wanted(s)
  <2>1. due' = [due EXCEPT ![s] = Append(due[s], k)]
    BY <1>6, <1>7
  <2> QED BY <1>3, <1>5, <1>7, <2>1 DEF Promise!Happen
<1>8. CASE k \notin Wanted(s)
  <2>1. UNCHANGED <<due, ended>>
    BY <1>3, <1>5, <1>6, <1>8 DEF Wanted, ended
  <2> QED BY <1>3, <2>1 DEF Promise!vars
<1> QED BY <1>7, <1>8

\* A callback that ends before its handler loses its event, which is so only when
\* the stream is closed.
LEMMA ReturnKeeps ==
  ASSUME IInv, TestHandler \/ LockListener
  PROVE  [Promise!Lose(on) /\ on \in Streams]_Promise!vars
<1>1. /\ on \in Streams /\ UNCHANGED <<reported, sent, dart, sink>>
      /\ on' = on \/ (on' = None /\ (~handler[on] \/ listener[on] # "alive"))
  BY DEF IInv, TypeOK, CallbackInv, TestHandler, LockListener
<1>2. UNCHANGED <<streamState, ended>>
  BY <1>1, SameStates DEF ended, Failed
<1>3. CASE on' = on
  BY <1>1, <1>2, <1>3, SameEvents DEF Promise!vars
<1>4. CASE on' = None /\ (~handler[on] \/ listener[on] # "alive")
  <2>1. dart[on] = "canceled" /\ ~sink[on]
    BY <1>1, <1>4 DEF IInv, TypeOK, StreamInv, CallbackInv, At, Listening, TestHandler, LockListener
  <2>2. streamState[on] = "closed"
    BY <1>1, <2>1 DEF streamState, StreamState
  <2>3. due[on] \in {<< >>, <<Event>>} /\ due' = [due EXCEPT ![on] = << >>]
    BY StreamsAssumption, <1>1, <1>4 DEF due, Due
  <2>4. CASE due[on] = << >>
    BY <1>1, <1>2, <2>3, <2>4 DEF due, Promise!vars
  <2>5. CASE due[on] = <<Event>>
    BY <1>1, <1>2, <2>2, <2>3, <2>5 DEF Promise!Lose
  <2> QED BY <2>3, <2>4, <2>5
<1> QED BY <1>1, <1>3, <1>4

LEMMA CallHandlerKeeps ==
  ASSUME IInv, CallHandler
  PROVE  [(Promise!Deliver(on) \/ Promise!Lose(on)) /\ on \in Streams]_Promise!vars
<1>1. /\ on \in Streams /\ on' = None /\ UNCHANGED <<reported, dart, sink>>
      /\ sent' = [sent EXCEPT ![on] = IF sink[on] /\ Event \in Wanted(on)
                                     THEN Append(sent[on], Event) ELSE sent[on]]
      /\ sent = [u \in Streams |-> sent[u]]
  BY DEF IInv, TypeOK, CallbackInv, CallHandler
<1>2. UNCHANGED <<streamState, ended>>
  BY <1>1, SameStates DEF ended, Failed
<1>3. /\ due[on] = IF Event \in Wanted(on) THEN <<Event>> ELSE << >>
      /\ due' = [due EXCEPT ![on] = << >>]
  BY StreamsAssumption, <1>1 DEF due, Due
<1>4. streamState[on] = IF sink[on] THEN IF dart[on] = "listening" THEN "live" ELSE "closing"
                                    ELSE "closed"
  <2>1. dart[on] \in {"listening", "canceled"} /\ (dart[on] = "listening" => sink[on])
    BY <1>1 DEF IInv, StreamInv, CallbackInv, At, Listening, CallHandler
  <2> QED BY <1>1, <2>1 DEF streamState, StreamState
<1>5. CASE Event \notin Wanted(on)
  <2>1. sent' = sent /\ due' = due
    BY <1>1, <1>3, <1>5 DEF due
  <2> QED BY <1>2, <2>1 DEF Promise!vars
<1>6. CASE Event \in Wanted(on) /\ sink[on]
  BY <1>1, <1>2, <1>3, <1>4, <1>6 DEF Promise!Deliver
<1>7. CASE Event \in Wanted(on) /\ ~sink[on]
  <2>1. sent' = sent
    BY <1>1, <1>7
  <2> QED BY <1>1, <1>2, <1>3, <1>4, <1>7, <2>1 DEF Promise!Lose
<1> QED BY <1>5, <1>6, <1>7

LEMMA NextPromise == IInv /\ [Next]_vars => [Promise!Next]_Promise!vars
<1> SUFFICES ASSUME IInv, [Next]_vars PROVE [Promise!Next]_Promise!vars
  OBVIOUS
<1>1. ASSUME NEW s \in Streams, Observe(s) PROVE UNCHANGED Promise!vars
  BY <1>1, ObserveKeeps
<1>2. ASSUME NEW s \in Streams, Listen(s) PROVE Promise!Next
  BY <1>2, ListenKeeps DEF Promise!Next
<1>3. ASSUME NEW s \in Streams, Cancel(s) PROVE Promise!Next
  BY <1>3, CancelKeeps DEF Promise!Next
<1>4. CASE ResetSink
  BY <1>4, ResetSinkKeeps DEF Promise!Next
<1>5. CASE Stream /\ ~ResetSink
  BY <1>5, StreamKeeps
<1>6. ASSUME NEW s \in Streams, NEW k \in Kinds(s), Report(s, k)
      PROVE  [Promise!Next]_Promise!vars
  BY <1>6, ReportKeeps DEF Promise!Next
<1>7. CASE TestHandler \/ LockListener
  BY <1>7, ReturnKeeps DEF Promise!Next
<1>8. CASE CallHandler
  BY <1>8, CallHandlerKeeps DEF Promise!Next
<1>9. CASE UNCHANGED vars
  BY <1>9, SameStates, SameEvents DEF vars, Promise!vars
<1> QED BY <1>1, <1>2, <1>3, <1>4, <1>5, <1>6, <1>7, <1>8, <1>9 DEF Next, Callback

-----------------------------------------------------------------------------
\* The invariant of DatabaseObserve, whether or not removing a listener waits.
THEOREM Invariance == Safety => []IInv
<1>1. Init => IInv
  BY InitInv
<1>2. IInv /\ [Next]_vars => IInv'
  BY NextInv
<1> QED BY <1>1, <1>2, PTL DEF Safety

\* Type correctness; listener_count_ never exceeds the streams.
THEOREM TypeCorrect == Safety => []TypeOK
<1>1. IInv => TypeOK
  BY DEF IInv
<1> QED BY <1>1, Invariance, PTL

\* The CHECK_NULLs of OnListenInternal never fail.
THEOREM ListensOnce == Safety => []ListenFindsFreshHandler
<1>1. ASSUME IInv PROVE ListenFindsFreshHandler
  <2>1. pc = "sink" => cur \in Streams
    BY <1>1 DEF IInv, TypeOK, ThreadInv
  <2> QED BY <1>1, <2>1 DEF IInv, StreamInv, At, ListenFindsFreshHandler
<1> QED BY <1>1, Invariance, PTL

\* A listener is registered exactly while Dart listens.
THEOREM RegistrationIsExact == Safety => []RegisteredWhileListening
<1>1. IInv => RegisteredWhileListening
  BY StreamsAssumption DEF IInv, StreamInv, At, RegisteredWhileListening, Listening
<1> QED BY <1>1, Invariance, PTL

\* Outside cancel every event finds the sink.
THEOREM SinkIsThere == Safety => []SinkLostOnlyByCancel
<1>1. IInv => SinkLostOnlyByCancel
  BY DEF IInv, StreamInv, SinkLostOnlyByCancel
<1> QED BY <1>1, Invariance, PTL

\* The listener's mutex keeps listener and stream handler alive while a handler runs.
THEOREM HandlersRunOnLiveStreams == Safety => []HandlerRunsOnLiveStream
<1>1. ASSUME IInv PROVE HandlerRunsOnLiveStream
  <2> SUFFICES ASSUME sdk = "call"
               PROVE  listener[on] = "alive" /\ handler[on] /\ channel[name[on]] = on
    BY DEF HandlerRunsOnLiveStream
  <2>1. on \in Streams /\ listener[on] = "alive" /\ ~At(on, Listening)
    BY <1>1 DEF IInv, TypeOK, CallbackInv
  <2>2. handler[on] /\ (dart[on] = "listening" \/ At(on, Canceling))
    BY <1>1, <2>1 DEF IInv, TypeOK, StreamInv, At, Listening, Canceling
  <2> QED BY <1>1, <2>1, <2>2 DEF IInv, ChannelInv
<1> QED BY <1>1, Invariance, PTL

\* If removing a listener waits for its callback, no listener is used after it was
\* destroyed.
THEOREM ListenersOutliveCallbacks == Safety => []ListenerOutlivesCallback
<1>1. Init => IInv /\ WaitInv
  BY InitInv
<1>2. IInv /\ WaitInv /\ [Next]_vars => IInv' /\ WaitInv'
  BY NextInv, NextWaitInv
<1>3. WaitInv => ListenerOutlivesCallback
  BY DEF WaitInv, ListenerOutlivesCallback
<1> QED BY <1>1, <1>2, <1>3, PTL DEF Safety

\* What Dart gets is what the SDK reported of its type, in order.
THEOREM WantedEventsAreSent == Safety => []SentAsReported
<1>1. Init => IInv /\ WaitInv /\ OrderInv
  BY InitInv, InitOrder
<1>2. IInv /\ WaitInv /\ OrderInv /\ [Next]_vars => IInv' /\ WaitInv' /\ OrderInv'
  BY NextInv, NextWaitInv, NextOrder
<1>3. OrderInv => SentAsReported
  BY DEF OrderInv, Settled, SentAsReported
<1> QED BY <1>1, <1>2, <1>3, PTL DEF Safety

\* DatabaseObserve implements EventStream.
THEOREM StreamsImplementEventStream == Safety => StreamsKeepPromise
<1>1. IInv /\ [Next]_vars => [Promise!Next]_Promise!vars
  BY NextPromise
<1> QED BY <1>1, InitPromise, Invariance, PTL DEF Safety, StreamsKeepPromise, Promise!Safety

-----------------------------------------------------------------------------
(* What safety says of CanceledStreamIsReleased.                            *)

\* The channel of a canceled stream has no handler any more.
UnsetInv ==
  \A s \in Streams : dart[s] = "canceled" /\ ~At(s, Canceling) => channel[name[s]] = None

LEMMA NextUnset == IInv /\ UnsetInv /\ [Next]_vars => UnsetInv'
<1> SUFFICES ASSUME IInv, UnsetInv, [Next]_vars PROVE UnsetInv'
  OBVIOUS
<1> USE StreamsAssumption DEF IInv, TypeOK, ThreadInv, UnsetInv, At, Canceling
<1>1. ASSUME NEW s \in Streams, Observe(s) PROVE UnsetInv'
  <2>1. ASSUME NEW u \in Streams, dart[u] = "canceled"
        PROVE  u # s /\ name'[u] = name[u] /\ name[u] \in 1 .. count /\ channel'[name[u]] = channel[name[u]]
    BY <1>1, <2>1 DEF Observe, ChannelInv
  <2> QED BY <1>1, <2>1 DEF Observe
<1>2. ASSUME NEW s \in Streams, Listen(s) PROVE UnsetInv'
  BY <1>2 DEF Listen
<1>3. CASE TakeSink \/ CreateListener \/ SetHandler \/ AddListener
  BY <1>3 DEF TakeSink, CreateListener, SetHandler, AddListener
<1>4. ASSUME NEW s \in Streams, Cancel(s) PROVE UnsetInv'
  BY <1>4 DEF Cancel, ChannelInv
<1>5. CASE ResetSink \/ RemoveListener \/ DestroyListener
  BY <1>5 DEF ResetSink, RemoveListener, DestroyListener
<1>6. CASE UnsetHandler
  BY <1>6 DEF UnsetHandler, ChannelInv
<1>7. ASSUME NEW s \in Streams, NEW k \in Kinds(s), Report(s, k) PROVE UnsetInv'
  BY <1>7 DEF Report
<1>8. CASE Callback
  BY <1>8 DEF Callback, TestHandler, LockListener, CallHandler
<1>9. CASE UNCHANGED vars
  BY <1>9 DEF vars
<1> QED BY <1>1, <1>2, <1>3, <1>4, <1>5, <1>6, <1>7, <1>8, <1>9 DEF Next, Stream

\* OnCancelInternal and the callback in progress never wait for each other, and when
\* neither has a step to take a canceled stream is released.  What
\* CanceledStreamIsReleased adds is that the threads get there.
THEOREM QuietStreamsAreReleased == Safety => []QuietIsReleased
<1>1. ASSUME IInv, UnsetInv, Quiet, NEW s \in Streams, dart[s] = "canceled"
      PROVE  /\ ~sink[s] /\ ~registered[s] /\ ~handler[s]
             /\ listener[s] = "freed" /\ channel[name[s]] = None
  <2>1. pc = "idle"
    <3>1. ~(pc = "remove" /\ on = cur)
      BY <1>1, StreamsAssumption DEF Quiet, IInv, ThreadInv, CallbackInv
    <3> QED BY <1>1, <3>1 DEF Quiet
  <2>2. cur = None /\ ~At(s, Listening) /\ ~At(s, Canceling)
    BY <1>1, <2>1 DEF IInv, ThreadInv, At, Listening, Canceling
  <2>3. listener[s] = "freed" /\ ~sink[s] /\ ~registered[s] /\ ~handler[s]
    BY <1>1, <2>1 DEF IInv, TypeOK, StreamInv, At
  <2> QED BY <1>1, <2>2, <2>3 DEF UnsetInv
<1>2. IInv /\ UnsetInv => QuietIsReleased
  BY <1>1 DEF QuietIsReleased
<1>3. Init => IInv /\ UnsetInv
  <2>1. Init => UnsetInv
    BY DEF Init, UnsetInv
  <2> QED BY <2>1, InitInv
<1>4. IInv /\ UnsetInv /\ [Next]_vars => IInv' /\ UnsetInv'
  BY NextInv, NextUnset
<1> QED BY <1>2, <1>3, <1>4, PTL DEF Safety
=============================================================================
