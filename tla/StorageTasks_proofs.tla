------------------------- MODULE StorageTasks_proofs -------------------------
(***************************************************************************)
(* Proofs about StorageTasks for any tasks, handles and control calls.     *)
(* TaskInv is the life of a task, from which the registry's properties     *)
(* follow; EventInv is what was sent of it, which is known only as long as *)
(* no control call has used a destroyed task.                              *)
(***************************************************************************)
EXTENDS StorageTasks, SequenceTheorems, TLAPS

\* The platform thread's task exists until its transfer is started, and only a
\* transfer that has ended has a callback.
TaskInv ==
  /\ pc = "idle" <=> cur = None
  /\ pc = "run" => transfer[cur] = "none" /\ object[cur] = "alive"
  /\ \A t \in Tasks : start[t] = "unsent" =>
       object[t] = "none" /\ transfer[t] = "none" /\ t # cur
  /\ \A t \in Tasks : callback[t] # "none" => transfer[t] \in Ended

\* The callback of t has sent its event.
Reported(t) == callback[t] \in {"complete", "done"}

\* The terminal events that may have been sent of t, in their order.
Outcomes(t) ==
  IF transfer[t] = "canceled"
  THEN IF Reported(t)
       THEN {<<"onFailure">>, <<"onCanceled", "onFailure">>, <<"onFailure", "onCanceled">>}
       ELSE {<< >>, <<"onCanceled">>}
  ELSE IF ~Reported(t) THEN {<< >>}
  ELSE IF transfer[t] = "ok" THEN {<<"onSuccess">>} ELSE {<<"onFailure">>}

\* Task#onCanceled is sent once, of a transfer that was canceled.
EventInv ==
  ~dangling =>
    /\ \A t \in Tasks : events[t] \in Outcomes(t)
    /\ pc = "event" =>
         transfer[cur] = "canceled" /\ events[cur] \in {<< >>, <<"onFailure">>}

IInv == TypeOK /\ TaskInv /\ CallbackFindsTask /\ RegistryOwnsTasks /\ EventInv

-----------------------------------------------------------------------------
Event == {"onSuccess", "onFailure", "onCanceled"}

\* What Append makes of the sequences EventInv names.
LEMMA AppendOne ==
  ASSUME NEW e
  PROVE  Append(<< >>, e) = <<e>>
  OBVIOUS

LEMMA AppendTwo ==
  ASSUME NEW d \in Event, NEW e \in Event
  PROVE  Append(<<d>>, e) = <<d, e>>
<1>1. <<d>> \in Seq(Event) /\ Len(<<d>>) = 1
  OBVIOUS
<1>2. Append(<<d>>, e) \in Seq(Event) /\ Len(Append(<<d>>, e)) = 2
  BY <1>1
<1>3. Append(<<d>>, e)[1] = d /\ Append(<<d>>, e)[2] = e
  BY <1>1
<1>4. <<d, e>> \in Seq(Event) /\ Len(<<d, e>>) = 2 /\ <<d, e>>[1] = d /\ <<d, e>>[2] = e
  OBVIOUS
<1>5. \A i \in 1 .. 2 : i = 1 \/ i = 2
  OBVIOUS
<1>6. \A i \in 1 .. Len(Append(<<d>>, e)) : Append(<<d>>, e)[i] = <<d, e>>[i]
  BY <1>2, <1>3, <1>4, <1>5
<1> QED BY <1>2, <1>4, <1>6, SeqEqual

LEMMA InitInv == Init => IInv
<1> SUFFICES ASSUME Init PROVE IInv
  OBVIOUS
<1> USE DEF Init
<1>1. TypeOK
  <2>1. << >> \in Seq({"onSuccess", "onFailure", "onCanceled"}) /\ 0 \in 0 .. MaxControls
    BY MaxControlsAssumption
  <2> QED BY <2>1 DEF TypeOK, Control
<1>2. TaskInv /\ CallbackFindsTask /\ RegistryOwnsTasks
  BY NoneAssumption, HandlesAssumption DEF TaskInv, CallbackFindsTask, RegistryOwnsTasks
<1>3. EventInv
  BY DEF EventInv, Outcomes, Reported
<1> QED BY <1>1, <1>2, <1>3 DEF IInv

-----------------------------------------------------------------------------
(* One lemma for each action.                                               *)

LEMMA StartRejectedInv ==
  ASSUME IInv, NEW t \in Tasks, StartRejected(t)
  PROVE  IInv'
<1> USE NoneAssumption, HandlesAssumption DEF IInv
<1>1. TypeOK'
  BY DEF TypeOK, StartRejected
<1>2. TaskInv'
  BY DEF TaskInv, StartRejected
<1>3. CallbackFindsTask'
  BY DEF CallbackFindsTask, StartRejected
<1>4. RegistryOwnsTasks'
  BY DEF RegistryOwnsTasks, StartRejected
<1>5. EventInv'
  BY DEF EventInv, Outcomes, Reported, StartRejected
<1> QED BY <1>1, <1>2, <1>3, <1>4, <1>5

LEMMA CreateInv ==
  ASSUME IInv, NEW t \in Tasks, Create(t)
  PROVE  IInv'
<1> USE NoneAssumption, HandlesAssumption DEF IInv
<1>1. HandleOf[t] \in Handles /\ registry[HandleOf[t]] = None
  <2>1. HandleOf[t] \in Handles
    OBVIOUS
  <2>2. object[t] = "none"
    BY DEF TaskInv, Create
  <2>3. ASSUME registry[HandleOf[t]] # None PROVE FALSE
    <3>1. registry[HandleOf[t]] \in Tasks
      BY <2>1, <2>3 DEF TypeOK
    <3>2. registry[HandleOf[t]] = t /\ object[t] = "alive"
      BY <2>1, <2>3, <3>1 DEF RegistryOwnsTasks
    <3> QED BY <2>2, <3>2
  <2> QED BY <2>1, <2>3
<1>2. object' = [object EXCEPT ![t] = "alive"]
  BY <1>1 DEF Create, Destroy
<1>3. TypeOK'
  BY <1>2 DEF TypeOK, Create
<1>4. TaskInv'
  BY <1>2 DEF TypeOK, TaskInv, Create
<1>5. CallbackFindsTask'
  BY <1>2 DEF TypeOK, CallbackFindsTask, Create
<1>6. RegistryOwnsTasks'
  BY <1>1, <1>2 DEF TypeOK, RegistryOwnsTasks, Create
<1>7. EventInv'
  BY DEF EventInv, Outcomes, Reported, Create
<1> QED BY <1>3, <1>4, <1>5, <1>6, <1>7

LEMMA RunInv ==
  ASSUME IInv, Run
  PROVE  IInv'
<1> USE NoneAssumption, HandlesAssumption DEF IInv
<1>1. TypeOK'
  BY DEF TypeOK, Run
<1>2. TaskInv'
  BY DEF TaskInv, Ended, Run
<1>3. CallbackFindsTask'
  BY DEF TaskInv, CallbackFindsTask, Run
<1>4. RegistryOwnsTasks'
  BY DEF RegistryOwnsTasks, Run
<1>5. EventInv'
  BY DEF TaskInv, EventInv, Outcomes, Reported, Run
<1> QED BY <1>1, <1>2, <1>3, <1>4, <1>5

LEMMA RunThrowsInv ==
  ASSUME IInv, RunThrows
  PROVE  IInv'
<1> USE NoneAssumption, HandlesAssumption DEF IInv
<1>1. TypeOK'
  BY DEF TypeOK, RunThrows
<1>2. TaskInv'
  BY DEF TaskInv, RunThrows
<1>3. CallbackFindsTask'
  BY DEF CallbackFindsTask, RunThrows
<1>4. RegistryOwnsTasks'
  BY DEF RegistryOwnsTasks, RunThrows
<1>5. EventInv'
  BY DEF EventInv, Outcomes, Reported, RunThrows
<1> QED BY <1>1, <1>2, <1>3, <1>4, <1>5

LEMMA StartReplyInv ==
  ASSUME IInv, StartReply
  PROVE  IInv'
<1> USE NoneAssumption, HandlesAssumption DEF IInv
<1>1. TypeOK'
  BY DEF TypeOK, StartReply
<1>2. TaskInv'
  BY DEF TaskInv, StartReply
<1>3. CallbackFindsTask'
  BY DEF CallbackFindsTask, StartReply
<1>4. RegistryOwnsTasks'
  BY DEF RegistryOwnsTasks, StartReply
<1>5. EventInv'
  BY DEF EventInv, Outcomes, Reported, StartReply
<1> QED BY <1>1, <1>2, <1>3, <1>4, <1>5

LEMMA FindTaskInv ==
  ASSUME IInv, NEW t \in Tasks, NEW k \in Control, FindTask(t, k)
  PROVE  IInv'
<1> USE NoneAssumption, HandlesAssumption, MaxControlsAssumption DEF IInv
<1>1. TypeOK'
  BY DEF TypeOK, FindTask
<1>2. TaskInv'
  BY DEF TaskInv, RegistryOwnsTasks, FindTask
<1>3. CallbackFindsTask'
  BY DEF CallbackFindsTask, FindTask
<1>4. RegistryOwnsTasks'
  BY DEF RegistryOwnsTasks, FindTask
<1>5. EventInv'
  BY DEF EventInv, Outcomes, Reported, FindTask
<1> QED BY <1>1, <1>2, <1>3, <1>4, <1>5

LEMMA ControlCallInv ==
  ASSUME IInv, ControlCall
  PROVE  IInv'
<1> USE NoneAssumption, HandlesAssumption DEF IInv
<1>1. cur \in Tasks /\ kind \in Control /\ status' \in BOOLEAN
  BY DEF TypeOK, TaskInv, ControlCall, Accepts
<1>2. dangling' \in BOOLEAN /\ (~dangling' => ~dangling /\ object[cur] = "alive")
  BY DEF ControlCall, Touch
<1>3. pc' \in {"event", "reply"} /\ (pc' = "event" => kind = "cancel" /\ status')
  BY <1>1 DEF ControlCall
<1>4. \/ transfer' = transfer
      \/ /\ object[cur] = "alive" /\ transfer[cur] \in {"running", "paused"}
         /\ \E x \in {"running", "paused", "canceled"} : transfer' = [transfer EXCEPT ![cur] = x]
  BY <1>1 DEF ControlCall, Accepts, Effect
<1>5. pc' = "event" /\ ~dangling' => /\ transfer[cur] \in {"running", "paused"}
                                    /\ transfer' = [transfer EXCEPT ![cur] = "canceled"]
  BY <1>1, <1>2, <1>3 DEF ControlCall, Accepts, Effect
<1>6. TypeOK'
  <2>1. transfer' \in [Tasks -> {"none", "running", "paused"} \cup Ended]
    BY <1>1, <1>4 DEF TypeOK, Ended
  <2>2. status' \in BOOLEAN /\ dangling' \in BOOLEAN /\ pc' \in {"event", "reply"}
    BY <1>1, <1>2, <1>3
  <2> QED BY <2>1, <2>2 DEF TypeOK, ControlCall
<1>7. TaskInv'
  BY <1>1, <1>3, <1>4 DEF TypeOK, TaskInv, ControlCall, Ended
<1>8. CallbackFindsTask'
  BY <1>1, <1>4 DEF TypeOK, CallbackFindsTask, ControlCall
<1>9. RegistryOwnsTasks'
  BY DEF RegistryOwnsTasks, ControlCall
<1>10. EventInv'
  <2> SUFFICES ASSUME ~dangling' PROVE EventInv'
    BY DEF EventInv
  <2>1. \A t \in Tasks : events[t] \in Outcomes(t)
    BY <1>2 DEF EventInv
  <2>2. transfer[cur] \in {"running", "paused"} => callback[cur] = "none" /\ events[cur] = << >>
    BY <1>1, <2>1 DEF TaskInv, Ended, Outcomes, Reported
  <2>3. \A t \in Tasks : (events[t] \in Outcomes(t))'
    BY <1>1, <1>4, <2>1, <2>2 DEF TypeOK, Outcomes, Reported, ControlCall
  <2>4. pc' = "event" => transfer'[cur] = "canceled" /\ events[cur] = << >>
    BY <1>1, <1>5, <2>2 DEF TypeOK
  <2> QED BY <2>3, <2>4 DEF EventInv, ControlCall
<1> QED BY <1>6, <1>7, <1>8, <1>9, <1>10

LEMMA CancelEventInv ==
  ASSUME IInv, CancelEvent
  PROVE  IInv'
<1> USE NoneAssumption, HandlesAssumption DEF IInv
<1>1. TypeOK'
  BY DEF TypeOK, TaskInv, CancelEvent, Touch
<1>2. TaskInv'
  BY DEF TaskInv, CancelEvent
<1>3. CallbackFindsTask'
  BY DEF CallbackFindsTask, CancelEvent
<1>4. RegistryOwnsTasks'
  BY DEF RegistryOwnsTasks, CancelEvent
<1>5. EventInv'
  <2> SUFFICES ASSUME ~dangling' PROVE EventInv'
    BY DEF EventInv
  <2>1. ~dangling /\ cur \in Tasks /\ transfer[cur] = "canceled" /\ events[cur] \in {<< >>, <<"onFailure">>}
    BY DEF TypeOK, TaskInv, EventInv, CancelEvent, Touch
  <2>2. events' = [events EXCEPT ![cur] = Append(events[cur], "onCanceled")]
    BY DEF CancelEvent
  <2>3. events'[cur] \in {<<"onCanceled">>, <<"onFailure", "onCanceled">>}
    BY <2>1, <2>2, AppendOne, AppendTwo DEF TypeOK, Event
  <2>4. events[cur] \in Outcomes(cur)
    BY <2>1 DEF EventInv
  <2>5. /\ Reported(cur) => events[cur] = <<"onFailure">>
        /\ ~Reported(cur) => events[cur] = << >>
    <3>1. /\ << >> # <<"onFailure">>
          /\ << >> \notin {<<"onFailure">>, <<"onCanceled", "onFailure">>, <<"onFailure", "onCanceled">>}
          /\ <<"onFailure">> \notin {<< >>, <<"onCanceled">>}
      OBVIOUS
    <3> QED BY <2>1, <2>4, <3>1 DEF Outcomes
  <2>6. events'[cur] = IF Reported(cur) THEN <<"onFailure", "onCanceled">> ELSE <<"onCanceled">>
    BY <2>1, <2>2, <2>5, AppendOne, AppendTwo DEF TypeOK, Event
  <2>7. ASSUME NEW t \in Tasks PROVE (events[t] \in Outcomes(t))'
    BY <2>1, <2>2, <2>6 DEF EventInv, Outcomes, Reported, CancelEvent
  <2> QED BY <2>7 DEF EventInv, CancelEvent
<1> QED BY <1>1, <1>2, <1>3, <1>4, <1>5

LEMMA ControlReplyInv ==
  ASSUME IInv, ControlReply
  PROVE  IInv'
<1> USE NoneAssumption, HandlesAssumption DEF IInv
<1>1. TypeOK'
  BY DEF TypeOK, ControlReply, Touch
<1>2. TaskInv'
  BY DEF TaskInv, ControlReply
<1>3. CallbackFindsTask'
  BY DEF CallbackFindsTask, ControlReply
<1>4. RegistryOwnsTasks'
  BY DEF RegistryOwnsTasks, ControlReply
<1>5. EventInv'
  BY DEF EventInv, Outcomes, Reported, ControlReply, Touch
<1> QED BY <1>1, <1>2, <1>3, <1>4, <1>5

LEMMA ListenInv ==
  ASSUME IInv, NEW t \in Tasks, Listen(t)
  PROVE  IInv'
<1> USE NoneAssumption, HandlesAssumption DEF IInv
<1>1. TypeOK'
  BY DEF TypeOK, Listen
<1>2. TaskInv'
  BY DEF TaskInv, Listen
<1>3. CallbackFindsTask'
  BY DEF CallbackFindsTask, Listen
<1>4. RegistryOwnsTasks'
  BY DEF RegistryOwnsTasks, Listen
<1>5. EventInv'
  BY DEF EventInv, Outcomes, Reported, Listen
<1> QED BY <1>1, <1>2, <1>3, <1>4, <1>5

LEMMA FinishInv ==
  ASSUME IInv, NEW t \in Tasks, NEW outcome \in {"ok", "error"}, Finish(t, outcome)
  PROVE  IInv'
<1> USE NoneAssumption, HandlesAssumption DEF IInv
<1>1. TypeOK'
  BY DEF TypeOK, Ended, Finish
<1>2. TaskInv'
  BY DEF TaskInv, Ended, Finish
<1>3. CallbackFindsTask'
  BY DEF CallbackFindsTask, Finish
<1>4. RegistryOwnsTasks'
  BY DEF RegistryOwnsTasks, Finish
<1>5. EventInv'
  <2>1. transfer[t] = "running" /\ callback[t] = "none"
    BY DEF TaskInv, Ended, Finish
  <2>2. transfer' = [transfer EXCEPT ![t] = outcome] /\ outcome # "canceled"
    BY DEF Finish
  <2>3. ASSUME ~dangling, NEW u \in Tasks PROVE (events[u] \in Outcomes(u))'
    BY <2>1, <2>2, <2>3 DEF EventInv, Outcomes, Reported, Finish
  <2>4. ASSUME ~dangling, pc = "event" PROVE transfer'[cur] = "canceled"
    BY <2>1, <2>2, <2>4 DEF EventInv
  <2> QED BY <2>3, <2>4 DEF EventInv, Finish
<1> QED BY <1>1, <1>2, <1>3, <1>4, <1>5

LEMMA CallbackBeginInv ==
  ASSUME IInv, NEW t \in Tasks, CallbackBegin(t)
  PROVE  IInv'
<1> USE NoneAssumption, HandlesAssumption DEF IInv
<1>1. TypeOK'
  BY DEF TypeOK, CallbackBegin
<1>2. TaskInv'
  BY DEF TaskInv, CallbackBegin
<1>3. CallbackFindsTask'
  BY DEF CallbackFindsTask, CallbackBegin
<1>4. RegistryOwnsTasks'
  BY DEF RegistryOwnsTasks, CallbackBegin
<1>5. EventInv'
  BY DEF EventInv, Outcomes, Reported, CallbackBegin
<1> QED BY <1>1, <1>2, <1>3, <1>4, <1>5

LEMMA CallbackEventInv ==
  ASSUME IInv, NEW t \in Tasks, CallbackEvent(t)
  PROVE  IInv'
<1> USE NoneAssumption, HandlesAssumption DEF IInv
<1>1. TypeOK'
  BY DEF TypeOK, CallbackEvent
<1>2. TaskInv'
  BY DEF TaskInv, CallbackEvent
<1>3. CallbackFindsTask'
  BY DEF CallbackFindsTask, CallbackEvent
<1>4. RegistryOwnsTasks'
  BY DEF RegistryOwnsTasks, CallbackEvent
<1>5. EventInv'
  <2> SUFFICES ASSUME ~dangling' PROVE EventInv'
    BY DEF EventInv
  <2> DEFINE e == IF transfer[t] = "ok" THEN "onSuccess" ELSE "onFailure"
  <2>1. /\ ~dangling
        /\ transfer[t] \in Ended
        /\ events[t] \in Outcomes(t)
        /\ ~Reported(t)
    BY DEF TaskInv, EventInv, Reported, CallbackEvent
  <2>2. events' = [events EXCEPT ![t] = Append(events[t], e)]
    BY DEF CallbackEvent
  <2>3. events'[t] = IF events[t] = << >> THEN <<e>> ELSE <<"onCanceled", e>>
    BY <2>1, <2>2, AppendOne, AppendTwo DEF TypeOK, Outcomes, Event
  <2>4. callback' = [callback EXCEPT ![t] = "complete"] /\ transfer' = transfer
    BY DEF CallbackEvent
  <2>5. (events[t] \in Outcomes(t))'
    BY <2>1, <2>3, <2>4 DEF TypeOK, Outcomes, Reported
  <2>6. ASSUME NEW u \in Tasks, u # t PROVE (events[u] \in Outcomes(u))'
    BY <2>1, <2>2, <2>4, <2>6 DEF EventInv, Outcomes, Reported
  <2>7. ASSUME pc = "event" PROVE transfer[cur] = "canceled" /\ events'[cur] \in {<< >>, <<"onFailure">>}
    <3>1. transfer[cur] = "canceled" /\ events[cur] \in {<< >>, <<"onFailure">>}
      BY <2>1, <2>7 DEF EventInv
    <3>2. CASE cur = t
      <4>1. events[t] = << >>
        BY <2>1, <3>1, <3>2 DEF Outcomes
      <4> QED BY <2>3, <3>1, <3>2, <4>1
    <3>3. CASE cur # t
      BY <2>2, <3>1, <3>3 DEF TypeOK
    <3> QED BY <3>2, <3>3
  <2> QED BY <2>5, <2>6, <2>7 DEF EventInv, CallbackEvent
<1> QED BY <1>1, <1>2, <1>3, <1>4, <1>5

LEMMA CompleteInv ==
  ASSUME IInv, NEW t \in Tasks, Complete(t)
  PROVE  IInv'
<1> USE NoneAssumption, HandlesAssumption DEF IInv
<1>1. HandleOf[t] \in Handles /\ transfer[t] \in Ended /\ registry[HandleOf[t]] = t
  <2>1. HandleOf[t] \in Handles
    OBVIOUS
  <2>2. transfer[t] \in Ended /\ callback[t] = "complete"
    BY DEF TaskInv, Complete
  <2>3. object[t] = "alive"
    BY <2>2 DEF CallbackFindsTask, Ended
  <2> QED BY <2>1, <2>2, <2>3 DEF RegistryOwnsTasks
<1>2. object' = [object EXCEPT ![t] = "freed"]
  BY <1>1 DEF Complete, Destroy
<1>3. TypeOK'
  BY <1>2 DEF TypeOK, Complete
<1>4. TaskInv'
  BY <1>1, <1>2 DEF TaskInv, Complete, Ended
<1>5. CallbackFindsTask'
  BY <1>2 DEF TypeOK, CallbackFindsTask, Complete
<1>6. RegistryOwnsTasks'
  BY <1>1, <1>2 DEF TypeOK, RegistryOwnsTasks, Complete
<1>7. EventInv'
  BY DEF EventInv, Outcomes, Reported, Complete
<1> QED BY <1>3, <1>4, <1>5, <1>6, <1>7

-----------------------------------------------------------------------------
LEMMA NextInv == IInv /\ [Next]_vars => IInv'
<1> SUFFICES ASSUME IInv, [Next]_vars PROVE IInv'
  OBVIOUS
<1>1. ASSUME NEW t \in Tasks, StartRejected(t) PROVE IInv'
  BY <1>1, StartRejectedInv
<1>2. ASSUME NEW t \in Tasks, Create(t) PROVE IInv'
  BY <1>2, CreateInv
<1>3. CASE Run
  BY <1>3, RunInv
<1>4. CASE RunThrows
  BY <1>4, RunThrowsInv
<1>5. CASE StartReply
  BY <1>5, StartReplyInv
<1>6. ASSUME NEW t \in Tasks, NEW k \in Control, FindTask(t, k) PROVE IInv'
  BY <1>6, FindTaskInv
<1>7. CASE ControlCall
  BY <1>7, ControlCallInv
<1>8. CASE CancelEvent
  BY <1>8, CancelEventInv
<1>9. CASE ControlReply
  BY <1>9, ControlReplyInv
<1>10. ASSUME NEW t \in Tasks, Listen(t) PROVE IInv'
  BY <1>10, ListenInv
<1>11. ASSUME NEW t \in Tasks, NEW outcome \in {"ok", "error"}, Finish(t, outcome) PROVE IInv'
  BY <1>11, FinishInv
<1>12. ASSUME NEW t \in Tasks, CallbackBegin(t) PROVE IInv'
  BY <1>12, CallbackBeginInv
<1>13. ASSUME NEW t \in Tasks, CallbackEvent(t) PROVE IInv'
  BY <1>13, CallbackEventInv
<1>14. ASSUME NEW t \in Tasks, Complete(t) PROVE IInv'
  BY <1>14, CompleteInv
<1>15. CASE UNCHANGED vars
  BY <1>15 DEF IInv, TypeOK, TaskInv, CallbackFindsTask, RegistryOwnsTasks, EventInv,
             Outcomes, Reported, vars
<1> QED BY <1>1, <1>2, <1>3, <1>4, <1>5, <1>6, <1>7, <1>8, <1>9, <1>10, <1>11, <1>12, <1>13, <1>14, <1>15
        DEF Next, Handler, Callback

\* The invariant of StorageTasks: each task in the registry exists under its own
\* handle, until its own callback destroys it.
THEOREM Invariance == Safety => []IInv
<1>1. Init => IInv
  BY InitInv
<1>2. IInv /\ [Next]_vars => IInv'
  BY NextInv
<1> QED BY <1>1, <1>2, PTL DEF Safety

\* Type correctness.
THEOREM TypeCorrect == Safety => []TypeOK
<1>1. IInv => TypeOK
  BY DEF IInv
<1> QED BY <1>1, Invariance, PTL

\* The raw pointers of the callback and the listener never dangle
\* (StoragePutTask::Run, StorageWriteToFileTask::Run).
THEOREM CallbacksFindTheirTask == Safety => []CallbackFindsTask
<1>1. IInv => CallbackFindsTask
  BY DEF IInv
<1> QED BY <1>1, Invariance, PTL

\* StorageTaskHandler owns exactly the live tasks, each under its own handle.
THEOREM RegistryIsExact == Safety => []RegistryOwnsTasks
<1>1. IInv => RegistryOwnsTasks
  BY DEF IInv
<1> QED BY <1>1, Invariance, PTL

\* The terminal events of a task agree, unless a control call has used a
\* destroyed task.
THEOREM OutcomesAgree == Safety => []OneOutcome
<1>1. ASSUME IInv PROVE OneOutcome
  <2> SUFFICES ASSUME ~dangling, NEW t \in Tasks
               PROVE  /\ Sent(t, "onSuccess") => Len(events[t]) = 1
                      /\ \A i, j \in 1 .. Len(events[t]) : events[t][i] = events[t][j] => i = j
    BY DEF OneOutcome
  <2>1. events[t] \in {<< >>, <<"onSuccess">>, <<"onFailure">>, <<"onCanceled">>,
                      <<"onCanceled", "onFailure">>, <<"onFailure", "onCanceled">>}
    BY <1>1 DEF IInv, EventInv, Outcomes
  <2>2. CASE events[t] = << >>
    BY <2>2 DEF Sent
  <2>3. CASE events[t] \in {<<"onSuccess">>, <<"onFailure">>, <<"onCanceled">>}
    BY <2>3 DEF Sent
  <2>4. CASE events[t] = <<"onCanceled", "onFailure">>
    BY <2>4 DEF Sent
  <2>5. CASE events[t] = <<"onFailure", "onCanceled">>
    BY <2>5 DEF Sent
  <2> QED BY <2>1, <2>2, <2>3, <2>4, <2>5
<1> QED BY <1>1, Invariance, PTL

-----------------------------------------------------------------------------
(* What safety says of StartedTaskEnds.                                     *)

\* Whose transfer was started, and what became of the tasks whose callback is over or
\* whose Run threw.
RestInv ==
  /\ pc = "started" => transfer[cur] # "none" /\ start[cur] = "pending"
  /\ pc = "run" => start[cur] = "pending"
  /\ \A t \in Tasks :
       /\ start[t] = "success" => transfer[t] # "none"
       /\ start[t] = "pending" => t = cur /\ pc \in {"run", "started"}
       /\ start[t] = "error" => transfer[t] = "none"
       /\ callback[t] = "done" => object[t] = "freed"

LEMMA InitRest == Init => RestInv
  BY DEF Init, RestInv

LEMMA NextRest == IInv /\ RestInv /\ [Next]_vars => RestInv'
<1> SUFFICES ASSUME IInv, RestInv, [Next]_vars PROVE RestInv'
  OBVIOUS
<1> USE NoneAssumption, HandlesAssumption DEF IInv, TypeOK, TaskInv, RestInv
<1>1. ASSUME NEW t \in Tasks, StartRejected(t) PROVE RestInv'
  BY <1>1 DEF StartRejected
<1>2. ASSUME NEW t \in Tasks, Create(t) PROVE RestInv'
  BY <1>2 DEF Create, Destroy, Ended
<1>3. ASSUME Run PROVE RestInv'
  BY <1>3 DEF Run
<1>4. ASSUME RunThrows PROVE RestInv'
  BY <1>4 DEF RunThrows
<1>5. ASSUME StartReply PROVE RestInv'
  BY <1>5 DEF StartReply
<1>6. ASSUME NEW t \in Tasks, NEW k \in Control, FindTask(t, k) PROVE RestInv'
  BY <1>6 DEF FindTask
<1>7. ASSUME ControlCall PROVE RestInv'
  <2>1. /\ UNCHANGED <<start, object, callback, cur>> /\ pc' \in {"event", "reply"}
        /\ cur \in Tasks
    BY <1>7 DEF ControlCall
  <2>2. transfer' = transfer \/
          /\ transfer' = [transfer EXCEPT ![cur] = Effect(kind)]
          /\ transfer[cur] \in {"running", "paused"} /\ Effect(kind) # "none"
    BY <1>7 DEF ControlCall, Accepts, Effect, Control
  <2>3. \A t \in Tasks : transfer'[t] = "none" <=> transfer[t] = "none"
    BY <2>1, <2>2
  <2> QED BY <1>7, <2>1, <2>3 DEF ControlCall
<1>8. ASSUME CancelEvent PROVE RestInv'
  BY <1>8 DEF CancelEvent
<1>9. ASSUME ControlReply PROVE RestInv'
  BY <1>9 DEF ControlReply
<1>10. ASSUME NEW t \in Tasks, Listen(t) PROVE RestInv'
  BY <1>10 DEF Listen
<1>11. ASSUME NEW t \in Tasks, NEW outcome \in {"ok", "error"}, Finish(t, outcome) PROVE RestInv'
  BY <1>11 DEF Finish
<1>12. ASSUME NEW t \in Tasks, CallbackBegin(t) PROVE RestInv'
  BY <1>12 DEF CallbackBegin
<1>13. ASSUME NEW t \in Tasks, CallbackEvent(t) PROVE RestInv'
  BY <1>13 DEF CallbackEvent
<1>14. ASSUME NEW t \in Tasks, Complete(t) PROVE RestInv'
  <2>1. object[t] = "alive" /\ registry[HandleOf[t]] = t /\ t # None
    BY <1>14 DEF Complete, CallbackFindsTask, RegistryOwnsTasks, Ended
  <2>2. object' = [object EXCEPT ![t] = "freed"]
    BY <1>14, <2>1 DEF Complete, Destroy
  <2> QED BY <1>14, <2>2 DEF Complete
<1>15. CASE UNCHANGED vars
  BY <1>15 DEF vars
<1> QED BY <1>1, <1>2, <1>3, <1>4, <1>5, <1>6, <1>7, <1>8, <1>9, <1>10, <1>11, <1>12, <1>13, <1>14, <1>15
        DEF Next, Handler, Callback

\* When no thread has a step to take, each started task is paused or its end is told
\* and its object gone; what else is registered are the tasks whose Run threw, which
\* nothing removes.  What StartedTaskEnds adds is that the threads get there.
THEOREM QuietTasksAreReleased == Safety => []QuietIsReleased
<1>1. ASSUME IInv, RestInv PROVE QuietIsReleased
  <2> SUFFICES ASSUME Quiet, NEW t \in Tasks
               PROVE  Released(t)
    BY Zenon DEF QuietIsReleased
  <2>1. registry[HandleOf[t]] = t => object[t] = "alive"
    BY <1>1, NoneAssumption, HandlesAssumption DEF IInv, RegistryOwnsTasks
  <2>2. ASSUME start[t] = "success", transfer[t] # "paused"
        PROVE  callback[t] = "done" /\ object[t] = "freed"
    BY <1>1, <2>2 DEF IInv, TypeOK, RestInv, Quiet
  <2>3. ASSUME start[t] = "success", transfer[t] # "paused", ~dangling PROVE events[t] # << >>
    <3>1. events[t] \in Outcomes(t) /\ Reported(t)
      BY <1>1, <2>2, <2>3 DEF IInv, EventInv, Reported
    <3> QED BY <3>1 DEF Outcomes
  <2>4. ASSUME object[t] = "alive" PROVE start[t] \in {"success", "error"}
    BY <1>1, <2>4 DEF IInv, TypeOK, TaskInv, RestInv, Quiet
  <2>5. start[t] = "error" => transfer[t] = "none"
    BY <1>1 DEF RestInv
  <2>6. registry[HandleOf[t]] = t =>
          \/ start[t] = "success" /\ transfer[t] = "paused"
          \/ start[t] = "error" /\ transfer[t] = "none"
    BY <2>1, <2>2, <2>4, <2>5
  <2>7. start[t] = "success" /\ transfer[t] # "paused" =>
          object[t] = "freed" /\ registry[HandleOf[t]] # t
    BY <2>1, <2>2
  <2> QED BY <2>3, <2>6, <2>7 DEF Released
<1>2. Init => IInv /\ RestInv
  BY InitInv, InitRest
<1>3. IInv /\ RestInv /\ [Next]_vars => IInv' /\ RestInv'
  BY NextInv, NextRest
<1> QED BY <1>1, <1>2, <1>3, PTL DEF Safety
=============================================================================
