------------------------ MODULE CloudFunctions_proofs ------------------------
(***************************************************************************)
(* Proofs about CloudFunctions for any set of calls.  IInv ties each copy  *)
(* of a call's shared_ptr to the place in the program that owns it; the    *)
(* safety properties follow from that.                                     *)
(***************************************************************************)
EXTENDS CloudFunctions, TLAPS

InQueue(c) == \E i \in 1 .. Len(queue) : queue[i] = c

\* A handler is queued once, and never while the drain loop has it.
QueuedOnce ==
  /\ \A i, j \in 1 .. Len(queue) : queue[i] = queue[j] => i = j
  /\ task # None => ~InQueue(task)

\* Where the platform thread is, and what it has in its hands.
ThreadInv ==
  /\ pc = "idle" <=> current = None
  /\ pc = "run" <=> task # None
  /\ pc = "pop" => queue # << >>
  /\ pc \in {"drain", "pop", "run", "parse"} => future[current] = "none"
  /\ pc = "register" => future[current] # "none" /\ callback[current] = "none"
  /\ pc \in {"return", "inline"} => callback[current] # "none"

\* The life of call c: the future, then the callback, then the handler.
CallInv(c) ==
  /\ future[c] = "none" => callback[c] = "none"
  /\ future[c] # "none" /\ callback[c] = "none" => c = current /\ pc = "register"
  /\ callback[c] \notin {"none", "armed"} => future[c] \in Outcome
  /\ InQueue(c) \/ task = c => callback[c] \in {"release", "done"}
  /\ c = current /\ callback[c] \in {"release", "done"} => InQueue(c)

\* Each copy of c's shared_ptr has its owner.
HolderInv(c) ==
  /\ "stack" \in holders[c] <=> c = current /\ pc \in {"register", "return", "inline"}
  /\ "param" \in holders[c] <=> callback[c] \in {"armed", "reply", "push", "release"}
  /\ "queue" \in holders[c] <=> InQueue(c)
  /\ "task" \in holders[c] <=> task = c
  /\ releasedIn[c] # "stack"

\* The replies of call c follow from where it is.
ReplyInv(c) ==
  /\ future[c] = "none" => replies[c] \in {0, 1} /\ (c = current => replies[c] = 0)
  /\ future[c] # "none" /\ callback[c] \in {"none", "armed", "reply"} => replies[c] = 0
  /\ callback[c] \in {"push", "release", "done"} =>
       replies[c] = IF future[c] = "invalid" THEN 0 ELSE 1

IInv ==
  /\ TypeOK
  /\ QueuedOnce
  /\ ThreadInv
  /\ \A c \in Calls : CallInv(c) /\ HolderInv(c) /\ ReplyInv(c)
-----------------------------------------------------------------------------
(* The queue.                                                               *)

\* What Append does to the elements of a sequence without repetitions.
LEMMA AppendElements ==
  ASSUME NEW S, NEW q \in Seq(S), NEW x \in S
  PROVE  /\ Append(q, x) \in Seq(S)
         /\ Len(Append(q, x)) = Len(q) + 1
         /\ \A i \in 1 .. Len(q) : Append(q, x)[i] = q[i]
         /\ Append(q, x)[Len(q) + 1] = x
  OBVIOUS

\* What Tail does.
LEMMA TailElements ==
  ASSUME NEW S, NEW q \in Seq(S), q # << >>
  PROVE  /\ Head(q) \in S
         /\ Head(q) = q[1]
         /\ Tail(q) \in Seq(S)
         /\ Len(q) \in Nat \ {0}
         /\ Len(Tail(q)) = Len(q) - 1
         /\ \A i \in 1 .. Len(q) - 1 : Tail(q)[i] = q[i + 1]
  OBVIOUS

-----------------------------------------------------------------------------
(* The invariant.                                                           *)

LEMMA InitInv == Init => IInv
  BY NoneAssumption DEF Init, IInv, TypeOK, QueuedOnce, ThreadInv, CallInv, HolderInv,
       ReplyInv, InQueue, Outcome, Holder

LEMMA ReceiveInv ==
  ASSUME IInv, NEW c \in Calls, Receive(c)
  PROVE  IInv'
<1> USE NoneAssumption DEF IInv, Outcome, Holder
<1>1. TypeOK'
  BY DEF TypeOK, Receive
<1>2. QueuedOnce' /\ ThreadInv'
  BY DEF Receive, Unsent, ThreadInv, QueuedOnce
<1>3. ASSUME NEW d \in Calls PROVE CallInv(d)' /\ HolderInv(d)' /\ ReplyInv(d)'
  <2>1. CallInv(d)'
    BY DEF Receive, Unsent, CallInv, InQueue
  <2>2. HolderInv(d)'
    BY DEF Receive, HolderInv, InQueue
  <2>3. ReplyInv(d)'
    BY DEF Receive, Unsent, ReplyInv
  <2> QED BY <2>1, <2>2, <2>3
<1> QED BY <1>1, <1>2, <1>3

LEMMA DrainTestInv ==
  ASSUME IInv, DrainTest
  PROVE  IInv'
<1> USE NoneAssumption DEF IInv, Outcome, Holder
<1>1. TypeOK'
  BY DEF TypeOK, DrainTest
<1>2. QueuedOnce' /\ ThreadInv'
  BY DEF DrainTest, ThreadInv, QueuedOnce
<1>3. ASSUME NEW d \in Calls PROVE CallInv(d)' /\ HolderInv(d)' /\ ReplyInv(d)'
  <2>1. CallInv(d)'
    BY DEF DrainTest, CallInv, InQueue
  <2>2. HolderInv(d)'
    BY DEF DrainTest, HolderInv, InQueue
  <2>3. ReplyInv(d)'
    BY DEF DrainTest, ReplyInv
  <2> QED BY <2>1, <2>2, <2>3
<1> QED BY <1>1, <1>2, <1>3

LEMMA PopInv ==
  ASSUME IInv, Pop
  PROVE  IInv'
<1> DEFINE h == Head(queue)
<1> USE NoneAssumption DEF IInv, Outcome, Holder
<1>1. queue # << >> /\ task = None
  BY DEF Pop, ThreadInv
<1>2. /\ h \in Calls /\ h = queue[1]
      /\ Tail(queue) \in Seq(Calls)
      /\ Len(queue) \in Nat \ {0}
      /\ Len(Tail(queue)) = Len(queue) - 1
      /\ \A i \in 1 .. Len(queue) - 1 : Tail(queue)[i] = queue[i + 1]
  <2>1. queue \in Seq(Calls)
    BY DEF TypeOK
  <2> QED BY <1>1, <2>1, TailElements
<1>3. /\ pc = "pop" /\ pc' = "run" /\ task' = h /\ queue' = Tail(queue)
      /\ holders' = [holders EXCEPT ![h] = (@ \ {"queue"}) \cup {"task"}]
      /\ UNCHANGED <<current, future, callback, releasedIn, replies>>
  BY <1>1 DEF Pop
<1> HIDE DEF h
<1>4. \A i, j \in 1 .. Len(queue) : queue[i] = queue[j] => i = j
  BY DEF QueuedOnce
<1>5. ASSUME NEW d PROVE InQueue(d)' <=> InQueue(d) /\ d # h
  <2>1. ASSUME NEW i \in 1 .. Len(queue'), queue'[i] = d PROVE InQueue(d) /\ d # h
    <3>1. i \in 1 .. Len(queue) - 1 /\ i + 1 \in 1 .. Len(queue) /\ queue[i + 1] = d /\ i + 1 # 1
      BY <1>2, <1>3, <2>1
    <3> QED BY <1>2, <1>4, <3>1 DEF InQueue
  <2>2. ASSUME NEW i \in 1 .. Len(queue), queue[i] = d, d # h PROVE InQueue(d)'
    <3>1. i - 1 \in 1 .. Len(queue') /\ queue'[i - 1] = queue[i]
      BY <1>2, <1>3, <2>2
    <3> QED BY <2>2, <3>1 DEF InQueue
  <2> QED BY <2>1, <2>2 DEF InQueue
<1>6. InQueue(h)
  BY <1>2 DEF InQueue
<1>7. TypeOK'
  BY <1>2, <1>3 DEF TypeOK
<1>8. QueuedOnce'
  <2>1. \A i, j \in 1 .. Len(queue') : queue'[i] = queue'[j] => i = j
    BY <1>2, <1>3, <1>4
  <2> QED BY <1>3, <1>5, <2>1 DEF QueuedOnce
<1>9. ThreadInv'
  BY <1>2, <1>3 DEF ThreadInv
<1>10. ASSUME NEW d \in Calls PROVE CallInv(d)' /\ HolderInv(d)' /\ ReplyInv(d)'
  <2>1. CallInv(d)'
    BY <1>1, <1>3, <1>5, <1>6 DEF CallInv, ThreadInv
  <2>2. HolderInv(d)'
    BY <1>1, <1>2, <1>3, <1>5, <1>6 DEF HolderInv, TypeOK
  <2>3. ReplyInv(d)'
    BY <1>3 DEF ReplyInv
  <2> QED BY <2>1, <2>2, <2>3
<1> QED BY <1>7, <1>8, <1>9, <1>10

LEMMA RunTaskInv ==
  ASSUME IInv, RunTask
  PROVE  IInv'
<1> USE NoneAssumption DEF IInv, Outcome, Holder
<1>1. TypeOK'
  BY DEF TypeOK, RunTask, Drop
<1>2. QueuedOnce' /\ ThreadInv'
  BY DEF RunTask, ThreadInv, QueuedOnce
<1>3. ASSUME NEW d \in Calls PROVE CallInv(d)' /\ HolderInv(d)' /\ ReplyInv(d)'
  <2>1. CallInv(d)'
    BY DEF RunTask, CallInv, InQueue
  <2>2. HolderInv(d)'
    BY DEF TypeOK, RunTask, Drop, HolderInv, InQueue
  <2>3. ReplyInv(d)'
    BY DEF RunTask, ReplyInv
  <2> QED BY <2>1, <2>2, <2>3
<1> QED BY <1>1, <1>2, <1>3

LEMMA RejectInv ==
  ASSUME IInv, Reject
  PROVE  IInv'
<1> USE NoneAssumption DEF IInv, Outcome, Holder
<1>1. TypeOK'
  BY DEF TypeOK, Reject, ThreadInv
<1>2. QueuedOnce' /\ ThreadInv'
  BY DEF Reject, ThreadInv, QueuedOnce
<1>3. ASSUME NEW d \in Calls PROVE CallInv(d)' /\ HolderInv(d)' /\ ReplyInv(d)'
  <2>1. CallInv(d)'
    BY DEF Reject, CallInv, InQueue
  <2>2. HolderInv(d)'
    BY DEF Reject, HolderInv, InQueue
  <2>3. ReplyInv(d)'
    BY DEF Reject, ThreadInv, ReplyInv
  <2> QED BY <2>1, <2>2, <2>3
<1> QED BY <1>1, <1>2, <1>3

LEMMA StartCallInv ==
  ASSUME IInv, StartCall
  PROVE  IInv'
<1> USE NoneAssumption DEF IInv, Outcome, Holder
<1>1. TypeOK'
  BY DEF TypeOK, StartCall
<1>2. QueuedOnce' /\ ThreadInv'
  BY DEF TypeOK, StartCall, ThreadInv, QueuedOnce, CallInv
<1>3. ASSUME NEW d \in Calls PROVE CallInv(d)' /\ HolderInv(d)' /\ ReplyInv(d)'
  <2>1. CallInv(d)'
    BY DEF StartCall, ThreadInv, CallInv, InQueue
  <2>2. HolderInv(d)'
    BY DEF TypeOK, StartCall, ThreadInv, CallInv, HolderInv, InQueue
  <2>3. ReplyInv(d)'
    BY DEF StartCall, ThreadInv, ReplyInv
  <2> QED BY <2>1, <2>2, <2>3
<1> QED BY <1>1, <1>2, <1>3

LEMMA RegisterInv ==
  ASSUME IInv, Register
  PROVE  IInv'
<1> USE NoneAssumption DEF IInv, Outcome, Holder
<1>1. TypeOK'
  BY DEF TypeOK, Register
<1>2. QueuedOnce' /\ ThreadInv'
  BY DEF TypeOK, Register, ThreadInv, QueuedOnce
<1>3. ASSUME NEW d \in Calls PROVE CallInv(d)' /\ HolderInv(d)' /\ ReplyInv(d)'
  <2>1. CallInv(d)'
    BY DEF TypeOK, Register, ThreadInv, CallInv, InQueue
  <2>2. HolderInv(d)'
    BY DEF TypeOK, Register, HolderInv, InQueue
  <2>3. ReplyInv(d)'
    BY DEF TypeOK, Register, ThreadInv, ReplyInv
  <2> QED BY <2>1, <2>2, <2>3
<1> QED BY <1>1, <1>2, <1>3

LEMMA ReturnInv ==
  ASSUME IInv, Return
  PROVE  IInv'
<1> USE NoneAssumption DEF IInv, Outcome, Holder
<1>1. TypeOK'
  BY DEF TypeOK, Return, Drop
<1>2. QueuedOnce' /\ ThreadInv'
  BY DEF Return, ThreadInv, QueuedOnce
<1>3. ASSUME NEW d \in Calls PROVE CallInv(d)' /\ HolderInv(d)' /\ ReplyInv(d)'
  <2>1. CallInv(d)'
    BY DEF Return, CallInv, InQueue
  <2>2. HolderInv(d)'
    BY DEF TypeOK, Return, Drop, ThreadInv, CallInv, HolderInv, InQueue
  <2>3. ReplyInv(d)'
    BY DEF Return, ReplyInv
  <2> QED BY <2>1, <2>2, <2>3
<1> QED BY <1>1, <1>2, <1>3

LEMMA CompleteInv ==
  ASSUME IInv, NEW c \in Calls, NEW outcome \in Outcome, Complete(c, outcome)
  PROVE  IInv'
<1> USE NoneAssumption DEF IInv, Outcome, Holder
<1>1. TypeOK'
  BY DEF TypeOK, Complete
<1>2. QueuedOnce' /\ ThreadInv'
  BY DEF Complete, ThreadInv, QueuedOnce, InQueue
<1>3. ASSUME NEW d \in Calls PROVE CallInv(d)' /\ HolderInv(d)' /\ ReplyInv(d)'
  <2>1. CallInv(d)'
    BY DEF Complete, CallInv, InQueue
  <2>2. HolderInv(d)'
    BY DEF Complete, HolderInv, InQueue
  <2>3. ReplyInv(d)'
    BY DEF Complete, CallInv, ReplyInv
  <2> QED BY <2>1, <2>2, <2>3
<1> QED BY <1>1, <1>2, <1>3

LEMMA CallbackBeginInv ==
  ASSUME IInv, NEW c \in Calls, CallbackBegin(c)
  PROVE  IInv'
<1> USE NoneAssumption DEF IInv, Outcome, Holder
<1>1. TypeOK'
  BY DEF TypeOK, CallbackBegin
<1>2. QueuedOnce' /\ ThreadInv'
  BY DEF CallbackBegin, ThreadInv, QueuedOnce, InQueue
<1>3. ASSUME NEW d \in Calls PROVE CallInv(d)' /\ HolderInv(d)' /\ ReplyInv(d)'
  <2>1. CallInv(d)'
    BY DEF CallbackBegin, CallInv, InQueue
  <2>2. HolderInv(d)'
    BY DEF CallbackBegin, HolderInv, InQueue
  <2>3. ReplyInv(d)'
    BY DEF CallbackBegin, ReplyInv
  <2> QED BY <2>1, <2>2, <2>3
<1> QED BY <1>1, <1>2, <1>3

LEMMA CallbackReplyInv ==
  ASSUME IInv, NEW c \in Calls, CallbackReply(c)
  PROVE  IInv'
<1> USE NoneAssumption DEF IInv, Outcome, Holder
<1>1. TypeOK'
  BY DEF TypeOK, CallbackReply
<1>2. QueuedOnce' /\ ThreadInv'
  BY DEF CallbackReply, ThreadInv, QueuedOnce, InQueue
<1>3. ASSUME NEW d \in Calls PROVE CallInv(d)' /\ HolderInv(d)' /\ ReplyInv(d)'
  <2>1. CallInv(d)'
    BY DEF CallbackReply, CallInv, InQueue
  <2>2. HolderInv(d)'
    BY DEF CallbackReply, HolderInv, InQueue
  <2>3. ReplyInv(d)'
    BY DEF TypeOK, CallbackReply, CallInv, ReplyInv
  <2> QED BY <2>1, <2>2, <2>3
<1> QED BY <1>1, <1>2, <1>3

LEMMA PostTaskInv ==
  ASSUME IInv, NEW c \in Calls, PostTask(c)
  PROVE  IInv'
<1> USE NoneAssumption DEF IInv, Outcome, Holder
<1>1. queue \in Seq(Calls) /\ Len(queue) \in Nat
  BY DEF TypeOK
<1>2. /\ queue' \in Seq(Calls)
      /\ Len(queue') = Len(queue) + 1
      /\ \A i \in 1 .. Len(queue) : queue'[i] = queue[i]
      /\ queue'[Len(queue) + 1] = c
  BY <1>1, AppendElements DEF PostTask
<1>3. ~InQueue(c) /\ task # c
  BY DEF PostTask, CallInv
<1>4. ASSUME NEW d PROVE InQueue(d)' <=> InQueue(d) \/ d = c
  BY <1>1, <1>2 DEF InQueue
<1>5. TypeOK'
  BY <1>2 DEF TypeOK, PostTask
<1>6. QueuedOnce'
  <2>1. \A i, j \in 1 .. Len(queue') : queue'[i] = queue'[j] => i = j
    BY <1>1, <1>2, <1>3 DEF QueuedOnce, InQueue
  <2> QED BY <1>3, <1>4, <2>1 DEF QueuedOnce, PostTask
<1>7. ThreadInv'
  BY <1>1, <1>2 DEF ThreadInv, PostTask
<1>8. ASSUME NEW d \in Calls PROVE CallInv(d)' /\ HolderInv(d)' /\ ReplyInv(d)'
  <2>1. CallInv(d)'
    BY <1>4 DEF CallInv, PostTask, TypeOK
  <2>2. HolderInv(d)'
    BY <1>4 DEF HolderInv, PostTask, TypeOK
  <2>3. ReplyInv(d)'
    BY DEF ReplyInv, PostTask
  <2> QED BY <2>1, <2>2, <2>3
<1> QED BY <1>5, <1>6, <1>7, <1>8

LEMMA CallbackEndInv ==
  ASSUME IInv, NEW c \in Calls, CallbackEnd(c)
  PROVE  IInv'
<1> USE NoneAssumption DEF IInv, Outcome, Holder
<1>1. TypeOK'
  BY DEF TypeOK, CallbackEnd, Drop
<1>2. QueuedOnce' /\ ThreadInv'
  BY DEF CallbackEnd, ThreadInv, QueuedOnce, InQueue
<1>3. ASSUME NEW d \in Calls PROVE CallInv(d)' /\ HolderInv(d)' /\ ReplyInv(d)'
  <2>1. CallInv(d)'
    BY DEF CallbackEnd, CallInv, InQueue
  <2>2. HolderInv(d)'
    BY DEF TypeOK, CallbackEnd, Drop, HolderInv, InQueue
  <2>3. ReplyInv(d)'
    BY DEF CallbackEnd, ReplyInv
  <2> QED BY <2>1, <2>2, <2>3
<1> QED BY <1>1, <1>2, <1>3


LEMMA NextInv == IInv /\ [Next]_vars => IInv'
<1> SUFFICES ASSUME IInv, [Next]_vars PROVE IInv'
  OBVIOUS
<1>1. CASE UNCHANGED vars
  BY <1>1 DEF vars, IInv, TypeOK, QueuedOnce, ThreadInv, CallInv, HolderInv, ReplyInv, InQueue
<1>2. ASSUME NEW c \in Calls, Receive(c) PROVE IInv'
  BY <1>2, ReceiveInv
<1>3. CASE Handler
  BY <1>3, DrainTestInv, PopInv, RunTaskInv, RejectInv, StartCallInv, RegisterInv,
     ReturnInv DEF Handler
<1>4. ASSUME NEW c \in Calls, NEW outcome \in Outcome, Complete(c, outcome) PROVE IInv'
  BY <1>4, CompleteInv
<1>5. ASSUME NEW c \in Calls, Callback(c) PROVE IInv'
  BY <1>5, CallbackBeginInv, CallbackReplyInv, PostTaskInv, CallbackEndInv DEF Callback
<1> QED BY <1>1, <1>2, <1>3, <1>4, <1>5 DEF Next

-----------------------------------------------------------------------------
(* Theorems.                                                                *)

\* IInv is an inductive invariant, for every set of calls.
THEOREM Invariance == Safety => []IInv
  BY InitInv, NextInv, PTL DEF Safety

\* Every variable keeps its type.
THEOREM TypeCorrect == Safety => []TypeOK
<1>1. IInv => TypeOK
  BY DEF IInv
<1> QED BY <1>1, Invariance, PTL

\* The HttpsCallableReference of a call is not deleted between Call() and the
\* moment its handler is queued (cloud_functions_plugin.cc:210-254).
THEOREM ReferenceAlive == Safety => []ReferenceAliveWhileCalling
<1>1. IInv => ReferenceAliveWhileCalling
  <2> SUFFICES ASSUME IInv, NEW c \in Calls,
                      future[c] # "none", callback[c] \notin {"release", "done"}
               PROVE  holders[c] # {}
    BY DEF ReferenceAliveWhileCalling
  <2>1. "stack" \in holders[c] \/ "param" \in holders[c]
    BY DEF IInv, TypeOK, CallInv, HolderInv
  <2> QED BY <2>1
<1> QED BY <1>1, Invariance, PTL

\* pop() always finds an item: empty() cannot be outdated by another consumer
\* (cloud_functions_plugin.cc:147-149).
THEOREM PopNeverTimesOut == Safety => []PopFindsItem
<1>1. IInv => PopFindsItem
  BY DEF IInv, ThreadInv, PopFindsItem
<1> QED BY <1>1, Invariance, PTL

\* Between two method calls the queue is the only owner of finished references, and
\* HandleMethodCall never deletes the reference of the call it returns from.
THEOREM NoOtherOwner == Safety => []OnlyQueueRetains
<1>1. IInv => OnlyQueueRetains
  BY NoneAssumption DEF IInv, TypeOK, ThreadInv, HolderInv, OnlyQueueRetains, Holder
<1> QED BY <1>1, Invariance, PTL

-----------------------------------------------------------------------------
(* CloudFunctions implements the reply contract.                            *)

LEMMA InitReply == Init => MR!Init
  BY NoneAssumption DEF Init, MR!Init, replyStatus, Unsent

LEMMA NextReply == IInv /\ [Next]_vars => [MR!Next]_replyStatus
<1> SUFFICES ASSUME IInv, [Next]_vars PROVE [MR!Next]_replyStatus
  OBVIOUS
<1> USE NoneAssumption DEF Outcome
<1>0. /\ replyStatus = [d \in Calls |-> replyStatus[d]]
      /\ replyStatus' = [d \in Calls |-> replyStatus'[d]]
  BY DEF replyStatus
<1>1. CASE UNCHANGED vars
  BY <1>1 DEF vars, replyStatus
<1>2. ASSUME NEW c \in Calls, Receive(c) PROVE MR!Send(c)
  <2>1. c # current /\ future[c] = "none" /\ replies[c] = 0 /\ callback[c] = "none"
        /\ current' = c /\ current = None /\ UNCHANGED <<future, replies, callback>>
    BY <1>2 DEF Receive, Unsent, IInv, ThreadInv, CallInv
  <2>2. replyStatus[c] = "unsent" /\ replyStatus'[c] = "pending"
    BY <2>1 DEF replyStatus, Unsent
  <2>3. \A d \in Calls \ {c} : replyStatus'[d] = replyStatus[d]
    BY <2>1 DEF replyStatus
  <2> QED BY <1>0, <2>2, <2>3 DEF MR!Send
<1>3. ASSUME Reject PROVE MR!Answer(current) /\ current \in Calls
  <2>1. /\ current \in Calls /\ current' = None /\ UNCHANGED <<future, callback>>
        /\ callback[current] = "none" /\ replies[current] = 0
    BY <1>3 DEF Reject, IInv, ThreadInv, CallInv, ReplyInv, TypeOK
  <2>2. replies'[current] = 1 /\ \A d \in Calls \ {current} : replies'[d] = replies[d]
    BY <1>3, <2>1 DEF Reject, IInv, TypeOK
  <2>3. replyStatus[current] = "pending" /\ replyStatus'[current] = "answered"
    BY <2>1, <2>2 DEF replyStatus, Unsent
  <2>4. \A d \in Calls \ {current} : replyStatus'[d] = replyStatus[d]
    BY <2>1, <2>2 DEF replyStatus, Unsent
  <2> QED BY <1>0, <2>1, <2>3, <2>4 DEF MR!Answer
<1>4. ASSUME NEW c \in Calls, CallbackReply(c)
      PROVE  MR!Answer(c) \/ UNCHANGED replyStatus
  <2>1. /\ callback[c] = "reply" /\ callback'[c] = "push" /\ replies[c] = 0
        /\ future[c] \in Outcome /\ UNCHANGED <<current, future>>
    BY <1>4 DEF CallbackReply, IInv, CallInv, ReplyInv, TypeOK
  <2>2. replies'[c] \in {0, 1}
    BY <1>4, <2>1 DEF CallbackReply
  <2>3. \A d \in Calls \ {c} : replies'[d] = replies[d] /\ callback'[d] = callback[d]
    BY <1>4 DEF CallbackReply
  <2>4. replyStatus[c] = "pending" /\ replyStatus'[c] \in {"pending", "answered"}
    BY <2>1, <2>2 DEF replyStatus, Unsent
  <2>5. \A d \in Calls \ {c} : replyStatus'[d] = replyStatus[d]
    BY <2>1, <2>3 DEF replyStatus, Unsent
  <2> QED BY <1>0, <2>4, <2>5 DEF MR!Answer
<1>5. ASSUME NEW c \in Calls, CallbackEnd(c)
      PROVE  MR!Abandon(c) \/ UNCHANGED replyStatus
  BY <1>5 DEF CallbackEnd, Unsent, MR!Abandon, replyStatus, IInv, CallInv, ReplyInv, TypeOK
<1>6. ASSUME StartCall \/ Return PROVE UNCHANGED replyStatus
  BY <1>6 DEF StartCall, Return, Unsent, replyStatus, IInv, ThreadInv, CallInv, TypeOK
<1>7. ASSUME DrainTest \/ Pop \/ RunTask \/ Register PROVE UNCHANGED replyStatus
  BY <1>7 DEF DrainTest, Pop, RunTask, Register, Unsent, replyStatus, IInv, ThreadInv, TypeOK
<1>8. ASSUME NEW c \in Calls, NEW outcome \in Outcome, Complete(c, outcome)
      PROVE  UNCHANGED replyStatus
  BY <1>8 DEF Complete, replyStatus
<1>9. ASSUME NEW c \in Calls, CallbackBegin(c) \/ PostTask(c) PROVE UNCHANGED replyStatus
  BY <1>9 DEF CallbackBegin, PostTask, Unsent, replyStatus, IInv, TypeOK
<1> QED
  BY <1>1, <1>2, <1>3, <1>4, <1>5, <1>6, <1>7, <1>8, <1>9
     DEF Next, Handler, Callback, MR!Next

\* Every FirebaseFunctions#call is answered at most once, and not after its
\* MethodResult was abandoned, for any number of calls and callbacks.
THEOREM RepliedOnce == Safety => CallsRepliedOnce
  BY InitReply, NextReply, Invariance, PTL DEF Safety, CallsRepliedOnce, MR!Safety

-----------------------------------------------------------------------------
(* What safety says of CallsSettle.                                         *)

\* When no thread has a step to take, no call waits for its reply and nothing but the
\* queue has kept a reference: what CallsSettle adds is that the threads get there.
THEOREM QuietCallsAreSettled == Safety => []QuietIsSettled
<1>1. ASSUME IInv PROVE QuietIsSettled
  <2> SUFFICES ASSUME Quiet, NEW c \in Calls
               PROVE  Settled(c)
    BY Zenon DEF QuietIsSettled
  <2>1. pc = "idle"
    <3> SUFFICES ASSUME pc = "inline" PROVE FALSE
      BY <1>1 DEF Quiet
    <3>1. current \in Calls /\ callback[current] # "none"
      BY <1>1 DEF IInv, ThreadInv, TypeOK
    <3>2. callback[current] = "armed" /\ future[current] \in {"none", "pending"} \cup Outcome
      BY <1>1, <3>1 DEF Quiet, IInv, TypeOK
    <3> QED BY <1>1, <3>1, <3>2 DEF Quiet, IInv, CallInv
  <2>2. current = None /\ task = None /\ c # None
    BY <1>1, <2>1, NoneAssumption DEF IInv, ThreadInv
  <2>3. callback[c] \in {"none", "done"} /\ future[c] \in {"none"} \cup Outcome
    <3>1. future[c] \in {"none", "pending"} \cup Outcome /\ future[c] # "pending"
      BY <1>1 DEF Quiet, IInv, TypeOK
    <3> QED BY <1>1, <3>1 DEF Quiet, IInv, CallInv
  <2>4. callback[c] = "none" => future[c] = "none"
    BY <1>1, <2>1 DEF IInv, CallInv
  <2>5. replyStatus[c] # "pending" /\ (replyStatus[c] = "abandoned" => future[c] = "invalid")
    <3>1. future[c] = "none" => replies[c] \in {0, 1}
      BY <1>1 DEF IInv, ReplyInv
    <3>2. callback[c] = "done" => replies[c] = IF future[c] = "invalid" THEN 0 ELSE 1
      BY <1>1 DEF IInv, ReplyInv
    <3> QED BY <1>1, <2>2, <2>3, <2>4, <3>1, <3>2 DEF replyStatus, Unsent, Outcome
  <2>6. holders[c] \subseteq {"queue"} /\ ("queue" \in holders[c] <=> InQueue(c))
    BY <1>1, <2>1, <2>2, <2>3 DEF IInv, TypeOK, HolderInv, Holder
  <2>7. InQueue(c) <=> \E i \in DOMAIN queue : queue[i] = c
    <3>1. queue \in Seq(Calls)
      BY <1>1 DEF IInv, TypeOK
    <3> QED BY <3>1 DEF InQueue
  <2>8. holders[c] = IF InQueue(c) THEN {"queue"} ELSE {}
    BY <2>6
  <2> QED BY <2>5, <2>7, <2>8 DEF Settled
<1> QED BY <1>1, Invariance, PTL
=============================================================================
