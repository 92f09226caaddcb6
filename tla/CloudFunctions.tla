--------------------------- MODULE CloudFunctions ---------------------------
(***************************************************************************)
(* packages/cloud_functions/tizen: the platform thread runs                *)
(* HandleMethodCall for one FirebaseFunctions#call at a time, and the      *)
(* Firebase SDK runs each completion callback on a thread of its own (or   *)
(* inside OnCompletion when the future has completed already).  The        *)
(* HttpsCallableReference of a call must outlive the call, so it is held   *)
(* by a shared_ptr whose copies live on the handler's stack, in the Param  *)
(* of the callback, and at last in a queued AsyncTask that the next        *)
(* HandleMethodCall drops.                                                 *)
(***************************************************************************)
EXTENDS Naturals, Sequences

CONSTANTS Calls,      \* the method calls Dart makes, each of them once
          None        \* no call

ASSUME NoneAssumption == None \notin Calls

VARIABLES
  pc,          \* where the platform thread is in HandleMethodCall
  current,     \* the call HandleMethodCall runs for, or None
  queue,       \* async_task_queue_: each handler named by the call it holds
  task,        \* the drain loop's local AsyncTask, or None while handler is null
  future,      \* future[c]: the SDK's future of the HTTPS request
  callback,    \* callback[c]: where the completion callback of c is
  holders,     \* holders[c]: the live shared_ptr copies of c's reference
  releasedIn,  \* releasedIn[c]: who dropped the last copy
  replies      \* replies[c]: how often the MethodResult of c was answered

vars == <<pc, current, queue, task, future, callback, holders, releasedIn, replies>>

Holder  == {"stack", "param", "queue", "task"}
\* How a future ends: "invalid" is a status other than kFutureStatusComplete.
Outcome == {"success", "error", "invalid"}

TypeOK ==
  /\ pc \in {"idle", "drain", "pop", "run", "parse", "register", "inline", "return"}
  /\ current \in Calls \cup {None}
  /\ queue \in Seq(Calls)
  /\ task \in Calls \cup {None}
  /\ future \in [Calls -> {"none", "pending"} \cup Outcome]
  /\ callback \in [Calls -> {"none", "armed", "reply", "push", "release", "done"}]
  /\ holders \in [Calls -> SUBSET Holder]
  /\ releasedIn \in [Calls -> {"none", "stack", "param", "task"}]
  /\ replies \in [Calls -> Nat]

Init ==
  /\ pc = "idle"
  /\ current = None
  /\ queue = << >>
  /\ task = None
  /\ future = [c \in Calls |-> "none"]
  /\ callback = [c \in Calls |-> "none"]
  /\ holders = [c \in Calls |-> {}]
  /\ releasedIn = [c \in Calls |-> "none"]
  /\ replies = [c \in Calls |-> 0]

\* A call was not delivered yet: nothing in the plugin knows of it.
Unsent(c) == c # current /\ future[c] = "none" /\ replies[c] = 0

\* The copy h of c's shared_ptr is destroyed; the last one deletes the reference.
Drop(c, h) ==
  /\ holders' = [holders EXCEPT ![c] = @ \ {h}]
  /\ releasedIn' = IF holders[c] = {h} THEN [releasedIn EXCEPT ![c] = h] ELSE releasedIn

-----------------------------------------------------------------------------
(* The platform thread: HandleMethodCall.                                   *)

Receive(c) ==
  /\ pc = "idle"
  /\ Unsent(c)
  /\ pc' = "drain"
  /\ current' = c
  /\ UNCHANGED <<queue, task, future, callback, holders, releasedIn, replies>>

\* Mutant of DrainTest: do ... while.
DrainUntested ==
  /\ pc = "drain"
  /\ pc' = "pop"
  /\ UNCHANGED <<current, queue, task, future, callback, holders, releasedIn, replies>>

\* while (async_task_queue_.empty() == false): empty() locks the queue and
\* unlocks it again before pop() is called.
DrainTest ==
  /\ pc = "drain"
  /\ pc' = IF queue = << >> THEN "parse" ELSE "pop"
  /\ UNCHANGED <<current, queue, task, future, callback, holders, releasedIn, replies>>

\* Mutant of Pop: the front is removed without having been copied.
PopDiscards ==
  /\ pc = "pop"
  /\ queue # << >>
  /\ queue' = Tail(queue)
  /\ Drop(Head(queue), "queue")
  /\ pc' = "drain"
  /\ UNCHANGED <<current, task, future, callback, replies>>

\* Mutant of Pop: the front is copied and stays.
PopPeeks ==
  /\ pc = "pop"
  /\ queue # << >>
  /\ task' = Head(queue)
  /\ holders' = [holders EXCEPT ![Head(queue)] = @ \cup {"task"}]
  /\ pc' = "run"
  /\ UNCHANGED <<current, queue, future, callback, releasedIn, replies>>

\* pop(task, 0): the front is copied into task and removed.  On an empty
\* queue it times out at once and leaves handler null.
Pop ==
  /\ pc = "pop"
  /\ IF queue = << >>
       THEN /\ pc' = "drain"
            /\ UNCHANGED <<queue, task, holders>>
       ELSE /\ pc' = "run"
            /\ task' = Head(queue)
            /\ queue' = Tail(queue)
            /\ holders' = [holders EXCEPT ![Head(queue)] = (@ \ {"queue"}) \cup {"task"}]
  /\ UNCHANGED <<current, future, callback, releasedIn, replies>>

\* The handler does nothing; the end of the iteration destroys the task.
RunTask ==
  /\ pc = "run"
  /\ Drop(task, "task")
  /\ task' = None
  /\ pc' = "drain"
  /\ UNCHANGED <<current, queue, future, callback, replies>>

\* Mutant of Reject: the Error reply without the return.
RejectFallsThrough ==
  /\ pc = "parse"
  /\ replies' = [replies EXCEPT ![current] = @ + 1]
  /\ UNCHANGED <<pc, current, queue, task, future, callback, holders, releasedIn>>

\* No argument map, no such App, or no Functions instance: an Error reply.
Reject ==
  /\ pc = "parse"
  /\ replies' = [replies EXCEPT ![current] = @ + 1]
  /\ current' = None
  /\ pc' = "idle"
  /\ UNCHANGED <<queue, task, future, callback, holders, releasedIn>>

\* The reference is allocated and Call() starts the request.
StartCall ==
  /\ pc = "parse"
  /\ holders' = [holders EXCEPT ![current] = {"stack"}]
  /\ future' = [future EXCEPT ![current] = "pending"]
  /\ pc' = "register"
  /\ UNCHANGED <<current, queue, task, callback, releasedIn, replies>>

\* Mutant of Register: post_task does not capture the reference.
RegisterUncaptured ==
  /\ pc = "register"
  /\ callback' = [callback EXCEPT ![current] =
                    IF future[current] = "pending" THEN "armed" ELSE "reply"]
  /\ pc' = IF future[current] = "pending" THEN "return" ELSE "inline"
  /\ UNCHANGED <<current, queue, task, future, holders, releasedIn, replies>>

\* OnCompletion takes the Param; a future that is complete already calls
\* back at once, on this thread.
Register ==
  /\ pc = "register"
  /\ holders' = [holders EXCEPT ![current] = @ \cup {"param"}]
  /\ IF future[current] = "pending"
       THEN /\ callback' = [callback EXCEPT ![current] = "armed"]
            /\ pc' = "return"
       ELSE /\ callback' = [callback EXCEPT ![current] = "reply"]
            /\ pc' = "inline"
  /\ UNCHANGED <<current, queue, task, future, releasedIn, replies>>

\* HandleMethodCall returns and its shared_ptr goes out of scope.
Return ==
  /\ \/ pc = "return"
     \/ pc = "inline" /\ callback[current] = "done"
  /\ Drop(current, "stack")
  /\ current' = None
  /\ pc' = "idle"
  /\ UNCHANGED <<queue, task, future, callback, replies>>

-----------------------------------------------------------------------------
(* The Firebase SDK, and the completion callback of call c.                 *)

Complete(c, outcome) ==
  /\ future[c] = "pending"
  /\ future' = [future EXCEPT ![c] = outcome]
  /\ UNCHANGED <<pc, current, queue, task, callback, holders, releasedIn, replies>>

CallbackBegin(c) ==
  /\ callback[c] = "armed"
  /\ future[c] \in Outcome
  /\ callback' = [callback EXCEPT ![c] = "reply"]
  /\ UNCHANGED <<pc, current, queue, task, future, holders, releasedIn, replies>>

\* Success or Error, and nothing at all unless the status is complete.
CallbackReply(c) ==
  /\ callback[c] = "reply"
  /\ replies' = IF future[c] = "invalid" THEN replies ELSE [replies EXCEPT ![c] = @ + 1]
  /\ callback' = [callback EXCEPT ![c] = "push"]
  /\ UNCHANGED <<pc, current, queue, task, future, holders, releasedIn>>

\* Mutant of PostTask: the queued handler does not capture the reference.
PostTaskUncaptured(c) ==
  /\ callback[c] = "push"
  /\ queue' = Append(queue, c)
  /\ callback' = [callback EXCEPT ![c] = "release"]
  /\ UNCHANGED <<pc, current, task, future, holders, releasedIn, replies>>

\* post_task(): a handler with a copy of the reference enters the queue.
PostTask(c) ==
  /\ callback[c] = "push"
  /\ queue' = Append(queue, c)
  /\ holders' = [holders EXCEPT ![c] = @ \cup {"queue"}]
  /\ callback' = [callback EXCEPT ![c] = "release"]
  /\ UNCHANGED <<pc, current, task, future, releasedIn, replies>>

\* The end of the callback: PointerScope deletes the Param.
CallbackEnd(c) ==
  /\ callback[c] = "release"
  /\ Drop(c, "param")
  /\ callback' = [callback EXCEPT ![c] = "done"]
  /\ UNCHANGED <<pc, current, queue, task, future, replies>>

-----------------------------------------------------------------------------
Handler == DrainTest \/ Pop \/ RunTask \/ Reject \/ StartCall
             \/ Register \/ Return

Callback(c) == CallbackBegin(c) \/ CallbackReply(c) \/ PostTask(c) \/ CallbackEnd(c)

Next ==
  \/ \E c \in Calls : Receive(c)
  \/ Handler
  \/ \E c \in Calls, outcome \in Outcome : Complete(c, outcome)
  \/ \E c \in Calls : Callback(c)

Safety == Init /\ [][Next]_vars

\* The platform thread runs, a started callback runs to its end, and the SDK
\* completes every request (it has its own timeout).  Nothing obliges Dart to
\* make another call.
Fairness ==
  /\ WF_vars(Handler)
  /\ \A c \in Calls : WF_vars(Callback(c))
  /\ \A c \in Calls : WF_vars(\E outcome \in Outcome : Complete(c, outcome))

Spec == Safety /\ Fairness
-----------------------------------------------------------------------------
(* Correctness.                                                             *)

\* The reference exists from Call() until the callback has queued its handler:
\* the copies on the stack, in the Param and in the queue overlap
\* (cloud_functions_plugin.cc:210, 251-253).
ReferenceAliveWhileCalling ==
  \A c \in Calls :
    future[c] # "none" /\ callback[c] \notin {"release", "done"} => holders[c] # {}

\* Between empty() and pop() the lock is released; still pop() finds an item,
\* whatever the SDK's threads push meanwhile, as nobody else pops.
PopFindsItem == pc = "pop" => queue # << >>

\* Once the callback of a call is over and no call is being handled, the queue
\* alone keeps the call's reference: no other copy was leaked.  And HandleMethodCall
\* never deletes the reference of the very call it returns from, also when the
\* callback ran inside OnCompletion: what the callback queued stays queued until a
\* later call drains it.
OnlyQueueRetains ==
  /\ pc = "idle" => \A c \in Calls :
       callback[c] \in {"none", "done"} => holders[c] \subseteq {"queue"}
  /\ \A c \in Calls : releasedIn[c] # "stack"

\* A handler that was queued is what keeps its reference: the reference is
\* not deleted by the end of the completion callback.  The comment at
\* cloud_functions_plugin.cc:252 gives this as the purpose of the queue.
QueueHoldsReference == \A c \in Calls : releasedIn[c] # "param"

\* What became of c's MethodResult, which dies with the Param.
replyStatus ==
  [c \in Calls |->
    CASE replies[c] > 1 -> "repeated"
      [] replies[c] = 1 -> "answered"
      [] replies[c] = 0 /\ callback[c] = "done" -> "abandoned"
      [] replies[c] = 0 /\ callback[c] # "done" /\ Unsent(c) -> "unsent"
      [] OTHER -> "pending"]

MR == INSTANCE MethodReply WITH status <- replyStatus

\* Every FirebaseFunctions#call is answered at most once, by the early returns
\* of HandleMethodCall or by the callback, and never after it was abandoned.
CallsRepliedOnce == MR!Safety

\* Every call that was delivered is answered or abandoned in the end: the drain loop
\* it begins with ends although other threads push meanwhile.
CallsSettle ==
  \A c \in Calls : replyStatus[c] = "pending" ~> replyStatus[c] \in {"answered", "abandoned"}

\* No thread has a step to take: the platform thread waits for Dart, or in
\* OnCompletion for the callback, and the SDK has neither a request nor a callback.
Quiet ==
  /\ \/ pc = "idle"
     \/ pc = "inline" /\ callback[current] # "done"
  /\ \A c \in Calls :
       /\ future[c] # "pending"
       /\ \/ callback[c] \in {"none", "done"}
          \/ callback[c] = "armed" /\ future[c] \notin Outcome

\* c does not wait for its reply, and had one unless its future was never complete;
\* its reference is that of a queued handler, if it exists.
Settled(c) ==
  /\ replyStatus[c] # "pending"
  /\ replyStatus[c] = "abandoned" => future[c] = "invalid"
  /\ holders[c] = IF \E i \in DOMAIN queue : queue[i] = c THEN {"queue"} ELSE {}

\* When no thread has a step to take, every call is settled: none was forgotten on
\* its way, nor its reference leaked.
QuietIsSettled == Quiet => \A c \in Calls : Settled(c)
=============================================================================
