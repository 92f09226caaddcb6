---------------------- MODULE DatabaseTransaction_proofs ----------------------
(***************************************************************************)
(* Proofs about DatabaseTransaction for any transactions, number of runs   *)
(* and answers.  MutexInv holds whenever the worker may wake up; WakeInv,   *)
(* the rendezvous of the worker with the answer, holds if cv.wait returns  *)
(* only when it was notified.                                              *)
(***************************************************************************)
EXTENDS DatabaseTransaction, TLAPS

\* The frame on the worker's stack is the running transaction's last run.
FrameInv ==
  /\ worker = "idle" <=> frame = None
  /\ frame # None => frame = Last(frame[1])
  /\ \A t \in Txns : txn[t] = "running" <=> frame # None /\ frame = Last(t)
  /\ \A t \in Txns : txn[t] \notin {"unsent", "scheduled", "invalid"} => attempt[t] > 0
  /\ \A t \in Txns : txn[t] = "scheduled" => attempt[t] < MaxAttempts
  /\ \A t \in Txns : txn[t] = "unsent" => attempt[t] = 0

\* How far the question to Dart is in each frame.
AskInv ==
  /\ \A t \in Txns, n \in 1 .. MaxAttempts :
       attempt[t] < n => asked[<<t, n>>] = "no"
  /\ worker = "invoke" => asked[frame] = "no"
  /\ worker \in {"wait", "waiting", "woken", "decide"} => asked[frame] # "no"
  /\ platform = "idle" <=> answering = None
  /\ answering # None => asked[answering] \in Answers
  /\ platform \in {"lock", "unlock"} => asked[answering] \in Loaded
  /\ \A f \in Frames : aborted[f] => asked[f] \in Answers \ {"commit"}
  /\ \A t \in Txns : txn[t] = "aborting" => asked[Last(t)] \in Answers \ {"commit"}

\* The mutex is that of the frame on the worker's stack.
MutexInv ==
  /\ worker \in {"invoke", "wait", "decide"} => mutex = "worker"
  /\ worker \in {"waiting", "woken"} => mutex # "worker"
  /\ worker = "idle" => mutex = "free"
  /\ mutex = "platform" => /\ answering = frame /\ platform \in {"set", "notify", "unlock"}
                           /\ asked[answering] \in Loaded
  /\ answering = frame /\ platform \in {"set", "notify", "unlock"}
       /\ asked[answering] \in Loaded => mutex = "platform"

\* What became of a MethodResult agrees with the outcome of its transaction.
DoneInv ==
  \A t \in Txns :
    \/ reply[t] = "none"
    \/ reply[t] = txn[t] /\ txn[t] \in {"committed", "uncommitted"}
    \/ reply[t] = "error" /\ txn[t] = "failed"
    \/ reply[t] = "abandoned" /\ txn[t] = "invalid"

IInv == TypeOK /\ FrameInv /\ AskInv /\ MutexInv /\ DoneInv

-----------------------------------------------------------------------------
(* Until a wakeup comes early.                                              *)

\* What the answer of frame f did once it is complete.
Recorded(f) ==
  /\ aborted[f] <=> asked[f] # "commit"
  /\ asked[f] = "commit" => data[f] = "dart"

\* An answer under way belongs to the frame that waits for it, and the worker
\* goes on only when that answer is recorded.
WakeInv ==
  /\ ~dangling
  /\ \A f \in Frames : asked[f] = "asked" => f = frame
  /\ platform \in {"lock", "set", "notify"} =>
       answering = frame /\ worker \in {"wait", "waiting"}
  /\ platform = "unlock" => answering = frame /\ worker = "woken"
  /\ platform \in {"notify", "unlock"} => Recorded(answering)
  /\ worker \in {"woken", "decide"} => asked[frame] \in Answers /\ Recorded(frame)

\* What the SDK was given is what Dart answered.
OutcomeInv ==
  \A t \in Txns :
    txn[t] \in {"proposed", "committed"} \/ reply[t] = "committed" =>
      asked[Last(t)] = "commit" /\ data[Last(t)] = "dart"

SInv == IInv /\ WakeInv /\ OutcomeInv
-----------------------------------------------------------------------------
(* Frames.                                                                  *)

\* A frame is a transaction and the number of one of its runs.
LEMMA FrameFacts ==
  /\ \A f \in Frames : f[1] \in Txns /\ f[2] \in 1 .. MaxAttempts /\ f = <<f[1], f[2]>>
  /\ \A t \in Txns, n \in 1 .. MaxAttempts :
       <<t, n>> \in Frames /\ <<t, n>>[1] = t /\ <<t, n>>[2] = n /\ <<t, n>> # None
  BY NoneAssumption DEF Frames

LEMMA AnswerFacts == "no" \notin Answers /\ "asked" \notin Answers
  BY AnswersAssumption DEF Loaded, Refused

-----------------------------------------------------------------------------
(* The invariant that holds whenever the worker wakes up.                   *)

LEMMA InitInv == Init => IInv
<1> SUFFICES ASSUME Init PROVE IInv
  OBVIOUS
<1> USE DEF Init
<1>1. TypeOK
  <2>1. 0 \in 0 .. MaxAttempts
    BY MaxAttemptsAssumption
  <2>2. attempt \in [Txns -> 0 .. MaxAttempts]
    BY <2>1
  <2>3. early \in 0 .. MaxEarly
    BY MaxEarlyAssumption
  <2> QED BY <2>2, <2>3, FrameFacts DEF TypeOK
<1>2. FrameInv
  BY MaxAttemptsAssumption DEF FrameInv
<1>3. AskInv
  BY FrameFacts DEF AskInv
<1>4. MutexInv /\ DoneInv
  BY DEF MutexInv, DoneInv
<1> QED BY <1>1, <1>2, <1>3, <1>4 DEF IInv

LEMMA RunTransactionInv ==
  ASSUME IInv, NEW t \in Txns, RunTransaction(t)
  PROVE  IInv'
<1> USE NoneAssumption, MaxAttemptsAssumption, FrameFacts, AnswerFacts DEF IInv
<1>1. TypeOK'
  BY DEF TypeOK, RunTransaction
<1>2. FrameInv'
  BY DEF FrameInv, Last, RunTransaction
<1>3. AskInv'
  BY DEF AskInv, Last, RunTransaction
<1>4. MutexInv'
  BY DEF MutexInv, RunTransaction
<1>5. DoneInv'
  BY DEF DoneInv, RunTransaction
<1> QED BY <1>1, <1>2, <1>3, <1>4, <1>5

LEMMA BeginAttemptInv ==
  ASSUME IInv, NEW t \in Txns, BeginAttempt(t)
  PROVE  IInv'
<1> USE NoneAssumption, MaxAttemptsAssumption, FrameFacts, AnswerFacts DEF IInv
<1>1. TypeOK'
  BY DEF TypeOK, FrameInv, BeginAttempt
<1>2. FrameInv'
  BY DEF TypeOK, FrameInv, Last, BeginAttempt
<1>3. AskInv'
  BY DEF TypeOK, FrameInv, AskInv, Last, BeginAttempt
<1>4. MutexInv'
  BY DEF TypeOK, AskInv, MutexInv, BeginAttempt
<1>5. DoneInv'
  BY DEF DoneInv, BeginAttempt
<1> QED BY <1>1, <1>2, <1>3, <1>4, <1>5

LEMMA InvokeMethodInv ==
  ASSUME IInv, InvokeMethod
  PROVE  IInv'
<1> USE NoneAssumption, MaxAttemptsAssumption, FrameFacts, AnswerFacts DEF IInv
<1>1. TypeOK'
  BY DEF TypeOK, InvokeMethod
<1>2. FrameInv'
  BY DEF FrameInv, Last, InvokeMethod
<1>3. AskInv'
  BY DEF TypeOK, FrameInv, AskInv, Last, InvokeMethod
<1>4. MutexInv'
  BY DEF MutexInv, Loaded, InvokeMethod
<1>5. DoneInv'
  BY DEF DoneInv, InvokeMethod
<1> QED BY <1>1, <1>2, <1>3, <1>4, <1>5

LEMMA WaitInv ==
  ASSUME IInv, Wait
  PROVE  IInv'
<1> USE NoneAssumption, MaxAttemptsAssumption, FrameFacts, AnswerFacts DEF IInv
<1>1. TypeOK'
  BY DEF TypeOK, Wait
<1>2. FrameInv'
  BY DEF FrameInv, Last, Wait
<1>3. AskInv'
  BY DEF AskInv, Last, Wait
<1>4. MutexInv'
  BY DEF MutexInv, Wait
<1>5. DoneInv'
  BY DEF DoneInv, Wait
<1> QED BY <1>1, <1>2, <1>3, <1>4, <1>5

LEMMA SpuriousWakeupInv ==
  ASSUME IInv, SpuriousWakeup
  PROVE  IInv'
<1> USE NoneAssumption, MaxAttemptsAssumption, FrameFacts, AnswerFacts DEF IInv
<1>1. TypeOK'
  <2>1. early + 1 \in 0 .. MaxEarly
    BY MaxEarlyAssumption DEF TypeOK, SpuriousWakeup
  <2> QED BY <2>1 DEF TypeOK, SpuriousWakeup
<1>2. FrameInv'
  BY DEF FrameInv, Last, SpuriousWakeup
<1>3. AskInv'
  BY DEF AskInv, Last, SpuriousWakeup
<1>4. MutexInv'
  BY DEF MutexInv, SpuriousWakeup
<1>5. DoneInv'
  BY DEF DoneInv, SpuriousWakeup
<1> QED BY <1>1, <1>2, <1>3, <1>4, <1>5

LEMMA RelockInv ==
  ASSUME IInv, Relock
  PROVE  IInv'
<1> USE NoneAssumption, MaxAttemptsAssumption, FrameFacts, AnswerFacts DEF IInv
<1>1. TypeOK'
  BY DEF TypeOK, Relock
<1>2. FrameInv'
  BY DEF FrameInv, Last, Relock
<1>3. AskInv'
  BY DEF AskInv, Last, Relock
<1>4. MutexInv'
  BY DEF MutexInv, Relock
<1>5. DoneInv'
  BY DEF DoneInv, Relock
<1> QED BY <1>1, <1>2, <1>3, <1>4, <1>5

LEMMA DecideInv ==
  ASSUME IInv, Decide
  PROVE  IInv'
<1> USE NoneAssumption, MaxAttemptsAssumption, FrameFacts, AnswerFacts DEF IInv
<1>1. TypeOK'
  BY DEF TypeOK, Decide
<1>2. FrameInv'
  BY DEF TypeOK, FrameInv, Last, Decide
<1>3. AskInv'
  BY SMTT(30) DEF TypeOK, FrameInv, AskInv, Last, Decide
<1>4. MutexInv'
  BY DEF AskInv, MutexInv, Decide
<1>5. DoneInv'
  BY DEF FrameInv, DoneInv, Decide
<1> QED BY <1>1, <1>2, <1>3, <1>4, <1>5

LEMMA AnswerInv ==
  ASSUME IInv, NEW f \in Frames, NEW a \in Answers, Answer(f, a)
  PROVE  IInv'
<1> USE NoneAssumption, MaxAttemptsAssumption, FrameFacts, AnswerFacts DEF IInv
<1>1. TypeOK'
  BY DEF TypeOK, Answer
<1>2. FrameInv'
  BY DEF FrameInv, Last, Answer
<1>3. AskInv'
  BY DEF TypeOK, AskInv, Last, Answer
<1>4. MutexInv'
  BY DEF MutexInv, Loaded, Answer
<1>5. DoneInv'
  BY DEF DoneInv, Answer
<1> QED BY <1>1, <1>2, <1>3, <1>4, <1>5

LEMMA LockInv ==
  ASSUME IInv, Lock
  PROVE  IInv'
<1> USE NoneAssumption, MaxAttemptsAssumption, FrameFacts, AnswerFacts DEF IInv
<1>1. TypeOK'
  BY DEF TypeOK, Lock
<1>2. FrameInv'
  BY DEF FrameInv, Last, Lock
<1>3. AskInv'
  BY DEF AskInv, Last, Lock
<1>4. MutexInv'
  BY DEF FrameInv, AskInv, MutexInv, Lock
<1>5. DoneInv'
  BY DEF DoneInv, Lock
<1> QED BY <1>1, <1>2, <1>3, <1>4, <1>5

LEMMA SetInv ==
  ASSUME IInv, Set
  PROVE  IInv'
<1> USE NoneAssumption, MaxAttemptsAssumption, FrameFacts, AnswerFacts DEF IInv
<1>1. TypeOK'
  BY DEF TypeOK, Set
<1>2. FrameInv'
  BY DEF FrameInv, Last, Set
<1>3. AskInv'
  BY DEF TypeOK, AskInv, Last, Set
<1>4. MutexInv'
  BY DEF MutexInv, Set
<1>5. DoneInv'
  BY DEF DoneInv, Set
<1> QED BY <1>1, <1>2, <1>3, <1>4, <1>5

LEMMA NotifyInv ==
  ASSUME IInv, Notify
  PROVE  IInv'
<1> USE NoneAssumption, MaxAttemptsAssumption, FrameFacts, AnswerFacts DEF IInv
<1>1. TypeOK'
  BY DEF TypeOK, Notify
<1>2. FrameInv'
  BY DEF FrameInv, Last, Notify
<1>3. AskInv'
  BY DEF AskInv, Last, Notify
<1>4. MutexInv'
  BY DEF MutexInv, Notify
<1>5. DoneInv'
  BY DEF DoneInv, Notify
<1> QED BY <1>1, <1>2, <1>3, <1>4, <1>5

LEMMA UnlockInv ==
  ASSUME IInv, Unlock
  PROVE  IInv'
<1> USE NoneAssumption, MaxAttemptsAssumption, FrameFacts, AnswerFacts DEF IInv
<1>1. TypeOK'
  BY DEF TypeOK, Unlock
<1>2. FrameInv'
  BY DEF FrameInv, Last, Unlock
<1>3. AskInv'
  BY DEF AskInv, Last, Unlock
<1>4. MutexInv'
  BY DEF MutexInv, Unlock
<1>5. DoneInv'
  BY DEF DoneInv, Unlock
<1> QED BY <1>1, <1>2, <1>3, <1>4, <1>5

LEMMA SettleInv ==
  ASSUME IInv, NEW t \in Txns, NEW outcome \in Outcomes, Settle(t, outcome)
  PROVE  IInv'
<1> USE NoneAssumption, MaxAttemptsAssumption, FrameFacts, AnswerFacts DEF IInv
<1>1. TypeOK'
  BY DEF TypeOK, Settle, Outcomes
<1>2. FrameInv'
  BY DEF FrameInv, Settle
<1>3. AskInv'
  BY DEF AskInv, Last, Settle
<1>4. MutexInv'
  BY DEF MutexInv, Settle
<1>5. DoneInv'
  BY DEF DoneInv, Settle, Outcomes
<1> QED BY <1>1, <1>2, <1>3, <1>4, <1>5

LEMMA RetryInv ==
  ASSUME IInv, NEW t \in Txns, Retry(t)
  PROVE  IInv'
<1> USE NoneAssumption, MaxAttemptsAssumption, FrameFacts, AnswerFacts DEF IInv
<1>1. TypeOK'
  BY DEF TypeOK, Retry
<1>2. FrameInv'
  BY DEF FrameInv, Retry
<1>3. AskInv'
  BY DEF AskInv, Last, Retry
<1>4. MutexInv'
  BY DEF MutexInv, Retry
<1>5. DoneInv'
  BY DEF DoneInv, Retry
<1> QED BY <1>1, <1>2, <1>3, <1>4, <1>5

LEMMA ReplyInv ==
  ASSUME IInv, NEW t \in Txns, Reply(t)
  PROVE  IInv'
<1> USE NoneAssumption, MaxAttemptsAssumption, FrameFacts, AnswerFacts DEF IInv
<1>1. TypeOK'
  BY DEF TypeOK, Reply, Outcomes
<1>2. FrameInv'
  BY DEF FrameInv, Reply
<1>3. AskInv'
  BY DEF AskInv, Last, Reply
<1>4. MutexInv'
  BY DEF MutexInv, Reply
<1>5. DoneInv'
  BY DEF TypeOK, DoneInv, Reply, Outcomes
<1> QED BY <1>1, <1>2, <1>3, <1>4, <1>5


LEMMA NextInv == IInv /\ [Next]_vars => IInv'
<1> SUFFICES ASSUME IInv, [Next]_vars PROVE IInv'
  OBVIOUS
<1>1. CASE UNCHANGED vars
  BY <1>1 DEF vars, IInv, TypeOK, FrameInv, AskInv, MutexInv, DoneInv, Last
<1>2. ASSUME NEW t \in Txns, RunTransaction(t) \/ Retry(t) \/ Reply(t) PROVE IInv'
  BY <1>2, RunTransactionInv, RetryInv, ReplyInv
<1>3. ASSUME NEW t \in Txns, NEW outcome \in Outcomes, Settle(t, outcome)
      PROVE  IInv'
  BY <1>3, SettleInv
<1>4. ASSUME NEW f \in Frames, NEW a \in Answers, Answer(f, a) PROVE IInv'
  BY <1>4, AnswerInv
<1>5. CASE Worker
  BY <1>5, BeginAttemptInv, InvokeMethodInv, WaitInv, RelockInv, DecideInv DEF Worker
<1>6. CASE SpuriousWakeup
  BY <1>6, SpuriousWakeupInv
<1>7. CASE Platform
  BY <1>7, LockInv, SetInv, NotifyInv, UnlockInv DEF Platform
<1> QED BY <1>1, <1>2, <1>3, <1>4, <1>5, <1>6, <1>7 DEF Next

\* IInv is inductive, whatever wakes the worker up.
THEOREM Invariance == Safety => []IInv
  BY InitInv, NextInv, PTL DEF Safety

\* Every variable keeps its type; in particular the SDK's runs stay bounded.
THEOREM TypeCorrect == Safety => []TypeOK
<1>1. IInv => TypeOK
  BY DEF IInv
<1> QED BY <1>1, Invariance, PTL

\* The mutex keeps a decision and an answer that takes it apart, spurious
\* wakeups included (firebase_database_plugin.cc:236, 322-333).
THEOREM DecisionsExcludeAnswers == Safety => []LockedAnswerExcludesDecision
<1>1. IInv => LockedAnswerExcludesDecision
  BY AnswersAssumption DEF IInv, AskInv, MutexInv, LockedAnswerExcludesDecision
<1> QED BY <1>1, Invariance, PTL

\* No transaction is aborted that Dart did not refuse.
THEOREM AbortsAreRefused == Safety => []AbortOnlyOnRefusal
<1>1. IInv => AbortOnlyOnRefusal
  BY DEF IInv, AskInv, AbortOnlyOnRefusal
<1> QED BY <1>1, Invariance, PTL

-----------------------------------------------------------------------------
(* The invariant that holds until a wakeup comes early.                     *)

LEMMA InitWake == Init => SInv
<1> SUFFICES ASSUME Init PROVE SInv
  OBVIOUS
<1> QED BY InitInv DEF Init, SInv, WakeInv, OutcomeInv

LEMMA RunTransactionWake ==
  ASSUME SInv, NEW t \in Txns, RunTransaction(t)
  PROVE  SInv'
<1> USE FrameFacts, AnswerFacts, AnswersAssumption DEF SInv
<1>1. IInv'
  BY RunTransactionInv
<1>2. WakeInv'
  BY DEF WakeInv, Recorded, RunTransaction
<1>3. OutcomeInv'
  BY DEF OutcomeInv, Last, RunTransaction
<1> QED BY <1>1, <1>2, <1>3

LEMMA BeginAttemptWake ==
  ASSUME SInv, NEW t \in Txns, BeginAttempt(t)
  PROVE  SInv'
<1> USE FrameFacts, AnswerFacts, AnswersAssumption DEF SInv
<1>1. IInv'
  BY BeginAttemptInv
<1>2. WakeInv'
  BY DEF IInv, FrameInv, WakeInv, BeginAttempt
<1>3. OutcomeInv'
  BY DEF IInv, OutcomeInv, DoneInv, Last, BeginAttempt
<1> QED BY <1>1, <1>2, <1>3

LEMMA InvokeMethodWake ==
  ASSUME SInv, InvokeMethod
  PROVE  SInv'
<1> USE FrameFacts, AnswerFacts, AnswersAssumption DEF SInv
<1>1. IInv'
  BY InvokeMethodInv
<1>2. WakeInv'
  BY DEF WakeInv, InvokeMethod
<1>3. OutcomeInv'
  BY DEF IInv, AskInv, OutcomeInv, Last, InvokeMethod
<1> QED BY <1>1, <1>2, <1>3

LEMMA WaitWake ==
  ASSUME SInv, Wait
  PROVE  SInv'
<1> USE FrameFacts, AnswerFacts, AnswersAssumption DEF SInv
<1>1. IInv'
  BY WaitInv
<1>2. WakeInv'
  BY DEF WakeInv, Recorded, Wait
<1>3. OutcomeInv'
  BY DEF OutcomeInv, Last, Wait
<1> QED BY <1>1, <1>2, <1>3

LEMMA RelockWake ==
  ASSUME SInv, Relock
  PROVE  SInv'
<1> USE FrameFacts, AnswerFacts, AnswersAssumption DEF SInv
<1>1. IInv'
  BY RelockInv
<1>2. WakeInv'
  BY DEF IInv, AskInv, MutexInv, WakeInv, Recorded, Relock
<1>3. OutcomeInv'
  BY DEF OutcomeInv, Last, Relock
<1> QED BY <1>1, <1>2, <1>3

LEMMA DecideWake ==
  ASSUME SInv, Decide
  PROVE  SInv'
<1> USE FrameFacts, AnswerFacts, AnswersAssumption DEF SInv
<1>1. IInv'
  BY DecideInv
<1>2. WakeInv'
  BY DEF WakeInv, Decide
<1>3. OutcomeInv'
  BY DEF IInv, FrameInv, WakeInv, Recorded, OutcomeInv, Last, Decide
<1> QED BY <1>1, <1>2, <1>3

LEMMA AnswerWake ==
  ASSUME SInv, NEW f \in Frames, NEW a \in Answers, Answer(f, a)
  PROVE  SInv'
<1> USE FrameFacts, AnswerFacts, AnswersAssumption DEF SInv
<1>1. IInv'
  BY AnswerInv
<1>2. WakeInv'
  BY DEF IInv, TypeOK, FrameInv, AskInv, WakeInv, Answer
<1>3. OutcomeInv'
  BY DEF OutcomeInv, Last, Answer
<1> QED BY <1>1, <1>2, <1>3

LEMMA LockWake ==
  ASSUME SInv, Lock
  PROVE  SInv'
<1> USE FrameFacts, AnswerFacts, AnswersAssumption DEF SInv
<1>1. IInv'
  BY LockInv
<1>2. WakeInv'
  BY DEF WakeInv, Lock
<1>3. OutcomeInv'
  BY DEF OutcomeInv, Last, Lock
<1> QED BY <1>1, <1>2, <1>3

LEMMA SetWake ==
  ASSUME SInv, Set
  PROVE  SInv'
<1> USE FrameFacts, AnswerFacts, AnswersAssumption DEF SInv
<1>1. IInv'
  BY SetInv
<1>2. WakeInv'
  <2>1. /\ answering = frame /\ answering \in Frames /\ worker \in {"wait", "waiting"}
        /\ platform' = "notify" /\ UNCHANGED <<frame, worker, asked, answering>>
    BY NoneAssumption DEF Set, IInv, TypeOK, AskInv, WakeInv
  <2>2. /\ aborted'[answering] <=> aborted[answering] \/ asked[answering] # "commit"
        /\ asked[answering] \in Loaded => data'[answering] = "dart"
    BY <2>1 DEF Set, IInv, TypeOK
  <2>3. Recorded(answering)'
    BY <2>1, <2>2 DEF Recorded, IInv, AskInv, Loaded
  <2>4. ~dangling'
    BY <2>1 DEF Set, WakeInv
  <2> QED BY <2>1, <2>3, <2>4 DEF WakeInv
<1>3. OutcomeInv'
  BY DEF OutcomeInv, Last, Set
<1> QED BY <1>1, <1>2, <1>3

LEMMA NotifyWake ==
  ASSUME SInv, Notify
  PROVE  SInv'
<1> USE FrameFacts, AnswerFacts, AnswersAssumption DEF SInv
<1>1. IInv'
  BY NotifyInv
<1>2. WakeInv'
  BY DEF IInv, TypeOK, AskInv, MutexInv, WakeInv, Recorded, Notify
<1>3. OutcomeInv'
  BY DEF OutcomeInv, Last, Notify
<1> QED BY <1>1, <1>2, <1>3

LEMMA UnlockWake ==
  ASSUME SInv, Unlock
  PROVE  SInv'
<1> USE FrameFacts, AnswerFacts, AnswersAssumption DEF SInv
<1>1. IInv'
  BY UnlockInv
<1>2. WakeInv'
  BY DEF WakeInv, Recorded, Unlock
<1>3. OutcomeInv'
  BY DEF OutcomeInv, Last, Unlock
<1> QED BY <1>1, <1>2, <1>3

LEMMA SettleWake ==
  ASSUME SInv, NEW t \in Txns, NEW outcome \in Outcomes, Settle(t, outcome)
  PROVE  SInv'
<1> USE FrameFacts, AnswerFacts, AnswersAssumption DEF SInv
<1>1. IInv'
  BY SettleInv
<1>2. WakeInv'
  BY DEF WakeInv, Settle
<1>3. OutcomeInv'
  BY DEF OutcomeInv, Last, Settle
<1> QED BY <1>1, <1>2, <1>3

LEMMA RetryWake ==
  ASSUME SInv, NEW t \in Txns, Retry(t)
  PROVE  SInv'
<1> USE FrameFacts, AnswerFacts, AnswersAssumption DEF SInv
<1>1. IInv'
  BY RetryInv
<1>2. WakeInv'
  BY DEF WakeInv, Retry
<1>3. OutcomeInv'
  BY DEF OutcomeInv, Last, Retry
<1> QED BY <1>1, <1>2, <1>3

LEMMA ReplyWake ==
  ASSUME SInv, NEW t \in Txns, Reply(t)
  PROVE  SInv'
<1> USE FrameFacts, AnswerFacts, AnswersAssumption DEF SInv
<1>1. IInv'
  BY ReplyInv
<1>2. WakeInv'
  BY DEF WakeInv, Reply
<1>3. OutcomeInv'
  BY DEF OutcomeInv, Last, Reply
<1> QED BY <1>1, <1>2, <1>3


LEMMA NextWake == SInv /\ [Next]_vars => early' > 0 \/ SInv'
<1> SUFFICES ASSUME SInv, [Next]_vars PROVE early' > 0 \/ SInv'
  OBVIOUS
<1>1. CASE UNCHANGED vars
  BY <1>1, NextInv DEF vars, SInv, WakeInv, Recorded, OutcomeInv, Last
<1>2. ASSUME NEW t \in Txns, RunTransaction(t) \/ Retry(t) \/ Reply(t) PROVE SInv'
  BY <1>2, RunTransactionWake, RetryWake, ReplyWake
<1>3. ASSUME NEW t \in Txns, NEW outcome \in Outcomes, Settle(t, outcome)
      PROVE  SInv'
  BY <1>3, SettleWake
<1>4. ASSUME NEW f \in Frames, NEW a \in Answers, Answer(f, a) PROVE SInv'
  BY <1>4, AnswerWake
<1>5. CASE Worker
  BY <1>5, BeginAttemptWake, InvokeMethodWake, WaitWake, RelockWake, DecideWake DEF Worker
<1>6. CASE SpuriousWakeup
  BY <1>6, MaxEarlyAssumption DEF SpuriousWakeup, SInv, IInv, TypeOK
<1>7. CASE Platform
  BY <1>7, LockWake, SetWake, NotifyWake, UnlockWake DEF Platform
<1> QED BY <1>1, <1>2, <1>3, <1>4, <1>5, <1>6, <1>7 DEF Next

\* A wakeup that came early stays so.
LEMMA NextEarly == IInv /\ early > 0 /\ [Next]_vars => early' > 0
BY MaxEarlyAssumption
   DEF IInv, TypeOK, vars, Next, Worker, Platform, RunTransaction, Retry, Reply, Settle, Answer,
       BeginAttempt, InvokeMethod, Wait, Relock, Decide, SpuriousWakeup, Lock, Set,
       Notify, Unlock

LEMMA WakeInvariance == Safety => [](early > 0 \/ SInv)
<1>1. IInv /\ (early > 0 \/ SInv) /\ [Next]_vars => (early > 0 \/ SInv)'
  BY NextWake, NextEarly
<1> QED BY <1>1, InitWake, Invariance, PTL DEF Safety

\* Until a wakeup comes early a committed transaction is the one Dart answered,
\* however often the SDK ran the function (firebase_database_plugin.cc:305-349).
THEOREM CommitsAreAnswered == Safety => []CommittedUnlessEarly
<1>1. SInv => CommittedAsAnswered
  BY DEF SInv, OutcomeInv, CommittedAsAnswered
<1>2. early > 0 \/ SInv => CommittedUnlessEarly
  BY <1>1 DEF CommittedUnlessEarly
<1> QED BY <1>2, WakeInvariance, PTL

\* Until a wakeup comes early the mutex and the condition variable outlive every
\* use of them by the thread that answers.
THEOREM AnswersFindTheirFrame == Safety => []FrameOutlivesAnswer
<1>1. early > 0 \/ SInv => FrameOutlivesAnswer
  BY DEF SInv, WakeInv, FrameOutlivesAnswer
<1> QED BY <1>1, WakeInvariance, PTL

\* Until a wakeup comes early the worker never reads what an answer is writing,
\* also when the answer bypasses the mutex.
THEOREM DecisionsFollowAnswers == Safety => []DecideAfterAnswer
<1>1. early > 0 \/ SInv => DecideAfterAnswer
  BY DEF SInv, WakeInv, DecideAfterAnswer
<1> QED BY <1>1, WakeInvariance, PTL

-----------------------------------------------------------------------------
(* No lost notify, unless an answer bypasses the mutex.                     *)

\* As WaitIsAnswerable, from the moment the question was posted.
AnswerableInv ==
  worker \in {"wait", "waiting"} =>
    \/ asked[frame] = "asked"
    \/ answering = frame /\ platform \in {"lock", "set", "notify"}
    \/ asked[frame] \in Refused

LEMMA NextAnswerable == IInv /\ AnswerableInv /\ [Next]_vars => AnswerableInv'
<1> SUFFICES ASSUME IInv, AnswerableInv, [Next]_vars PROVE AnswerableInv'
  OBVIOUS
<1> USE NoneAssumption, AnswerFacts DEF AnswerableInv, IInv, TypeOK
<1>1. CASE UNCHANGED vars
  BY <1>1 DEF vars
<1>2. ASSUME NEW t \in Txns, RunTransaction(t) \/ Retry(t) \/ Reply(t) PROVE AnswerableInv'
  BY <1>2 DEF RunTransaction, Retry, Reply
<1>3. ASSUME NEW t \in Txns, NEW outcome \in Outcomes, Settle(t, outcome)
      PROVE  AnswerableInv'
  BY <1>3 DEF Settle
<1>4. ASSUME NEW f \in Frames, NEW a \in Answers, Answer(f, a) PROVE AnswerableInv'
  BY <1>4 DEF Answer
<1>5. ASSUME NEW t \in Txns, BeginAttempt(t) PROVE AnswerableInv'
  BY <1>5 DEF BeginAttempt
<1>6. ASSUME InvokeMethod PROVE AnswerableInv'
  BY <1>6 DEF InvokeMethod, FrameInv
<1>7. ASSUME Wait \/ Relock \/ Decide \/ SpuriousWakeup PROVE AnswerableInv'
  BY <1>7 DEF Wait, Relock, Decide, SpuriousWakeup
<1>8. ASSUME Lock \/ Set PROVE AnswerableInv'
  BY <1>8 DEF Lock, Set
<1>9. ASSUME Notify PROVE AnswerableInv'
  <2>1. CASE answering = frame
    \* An answer in SuccessInternal has the mutex, so the worker is not between
    \* the question and the wait.
    <3>1. CASE asked[frame] \in Refused
      BY <1>9, <3>1 DEF Notify
    <3>2. CASE asked[frame] \notin Refused
      <4>1. asked[frame] \in Loaded
        BY <1>9, <2>1, <3>2, AnswersAssumption DEF Notify, AskInv
      <4>2. mutex = "platform"
        BY <1>9, <2>1, <4>1 DEF Notify, MutexInv
      <4>3. worker # "wait"
        BY <4>2 DEF MutexInv
      <4> QED BY <1>9, <2>1, <4>3 DEF Notify
    <3> QED BY <3>1, <3>2
  <2>2. CASE answering # frame
    BY <1>9, <2>2 DEF Notify
  <2> QED BY <2>1, <2>2
<1>10. ASSUME Unlock PROVE AnswerableInv'
  BY <1>10 DEF Unlock
<1> QED
  BY <1>1, <1>2, <1>3, <1>4, <1>5, <1>6, <1>7, <1>8, <1>9, <1>10 DEF Next, Worker, Platform

\* The worker never waits for a notify that is gone unless the answer bypassed the
\* mutex, spurious wakeups included: the mutex is held from
\* before InvokeMethod until the wait (firebase_database_plugin.cc:322-327).
THEOREM NoLostNotify == Safety => []WaitIsAnswerable
<1>1. Init => AnswerableInv
  BY DEF Init, AnswerableInv
<1>2. IInv /\ AnswerableInv /\ [Next]_vars => AnswerableInv'
  BY NextAnswerable
<1>3. AnswerableInv => WaitIsAnswerable
  BY DEF AnswerableInv, WaitIsAnswerable
<1> QED BY <1>1, <1>2, <1>3, Invariance, PTL DEF Safety

-----------------------------------------------------------------------------
(* DatabaseTransaction implements the reply contract.                       *)

\* Every runTransaction is answered at most once, and only after it was
\* delivered, whatever the runs, the answers and the wakeups.
THEOREM RepliedOnce == Safety => TransactionsRepliedOnce
<1>1. Init => MR!Init
  BY DEF Init, MR!Init, replyStatus
<1>2. IInv /\ [Next]_vars => [MR!Next]_replyStatus
  <2> SUFFICES ASSUME IInv, [Next]_vars PROVE [MR!Next]_replyStatus
    OBVIOUS
  <2>1. ASSUME NEW t \in Txns, RunTransaction(t) PROVE MR!Send(t)
    BY <2>1 DEF RunTransaction, MR!Send, replyStatus, IInv, TypeOK, DoneInv
  <2>2. ASSUME NEW t \in Txns, Reply(t) PROVE MR!Answer(t) \/ MR!Abandon(t)
    BY <2>2 DEF Reply, MR!Answer, MR!Abandon, replyStatus, IInv, TypeOK, Outcomes, DoneInv
  <2>3. ASSUME NEW t \in Txns, BeginAttempt(t) \/ Retry(t) PROVE UNCHANGED replyStatus
    BY <2>3 DEF BeginAttempt, Retry, replyStatus, IInv, TypeOK
  <2>4. ASSUME NEW t \in Txns, NEW outcome \in Outcomes,
               Settle(t, outcome)
        PROVE  UNCHANGED replyStatus
    BY <2>4 DEF Settle, replyStatus
  <2>5. ASSUME Decide PROVE UNCHANGED replyStatus
    BY <2>5, FrameFacts DEF Decide, replyStatus, IInv, FrameInv
  <2>6. CASE UNCHANGED <<txn, reply>>
    BY <2>6 DEF replyStatus
  <2> QED
    BY <2>1, <2>2, <2>3, <2>4, <2>5, <2>6 DEF Next, Worker, Platform, vars, MR!Next,
       InvokeMethod, Wait, Relock, SpuriousWakeup, Answer, Lock, Set, Notify, Unlock
<1> QED BY <1>1, <1>2, Invariance, PTL DEF Safety, TransactionsRepliedOnce, MR!Safety

-----------------------------------------------------------------------------
(* What safety says of TransactionsSettle.                                  *)

\* The worker, the platform thread and the transactions behind them never all wait for
\* each other, wakeups that come early included, unless a notify without the mutex was
\* lost: each transaction is answered then, and only one that the SDK has given up is
\* abandoned (firebase_database_plugin.cc:341).  What TransactionsSettle adds is that
\* the threads go on.
THEOREM QuietTransactionsAreSettled == Safety => []QuietIsSettled
<1>1. ASSUME IInv, WaitIsAnswerable PROVE QuietIsSettled
  <2> SUFFICES ASSUME Quiet, ~(worker = "waiting" /\ asked[frame] \in Refused), NEW t \in Txns,
                      txn[t] # "unsent"
               PROVE  Answered(t) \/ (txn[t] = "invalid" /\ reply[t] = "abandoned")
    BY DEF QuietIsSettled
  <2>1. ASSUME mutex # "free", worker \in {"waiting", "woken"}
        PROVE  platform \in {"set", "notify", "unlock"}
    BY <1>1, <2>1 DEF IInv, TypeOK, MutexInv
  <2>2. worker # "woken"
    BY <2>1 DEF Quiet
  <2>3. worker # "waiting"
    <3> SUFFICES ASSUME worker = "waiting" PROVE FALSE
      OBVIOUS
    <3>1. frame \in Frames
      BY <1>1 DEF IInv, TypeOK, FrameInv
    <3>2. asked[frame] = "asked" \/ platform \in {"lock", "set", "notify"}
      BY <1>1 DEF WaitIsAnswerable
    <3> QED BY <2>1, <3>1, <3>2 DEF Quiet
  <2>4. worker = "idle"
    BY <2>2, <2>3 DEF Quiet
  <2>5. txn[t] # "running"
    BY <1>1, <2>4 DEF IInv, FrameInv
  <2>6. reply[t] # "none"
    BY <2>4, <2>5 DEF Quiet
  <2> QED BY <1>1, <2>6 DEF IInv, DoneInv, Answered
<1> QED BY <1>1, Invariance, NoLostNotify, PTL
=============================================================================
