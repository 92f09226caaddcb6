------------------------ MODULE DatabaseTransaction ------------------------
(***************************************************************************)
(* DatabaseReference#runTransaction of packages/firebase_database/tizen.   *)
(* The Firebase SDK runs the transaction function on its worker thread,    *)
(* once per attempt; each run is a frame with a mutex and a condition      *)
(* variable of its own, posts FirebaseDatabase#callTransactionHandler to   *)
(* Dart and waits.  The platform thread brings Dart's answer into a        *)
(* TransactionMethodResult that refers to the frame's mutex and condition  *)
(* variable, and wakes the worker.                                         *)
(***************************************************************************)
EXTENDS Naturals

CONSTANTS
  Txns,             \* the runTransaction calls Dart makes
  None,             \* no transaction, no frame
  MaxAttempts,      \* how often the SDK runs a transaction function at most
  Answers,          \* the answers Dart may give
  MaxEarly          \* bound: how often cv.wait returns without a notify

\* Answers that arrive in SuccessInternal, and those that arrive elsewhere.
Loaded  == {"commit", "abort", "exception"}
Refused == {"error", "notImplemented"}

ASSUME MaxAttemptsAssumption == MaxAttempts \in Nat \ {0}
ASSUME MaxEarlyAssumption == MaxEarly \in Nat
ASSUME AnswersAssumption == Answers \subseteq Loaded \cup Refused

Frames == Txns \X (1 .. MaxAttempts)

\* How the SDK's future ends: with no error, with the error of an abort or with
\* another one; or it is given up and never complete.
Outcomes == {"committed", "uncommitted", "failed", "invalid"}

ASSUME NoneAssumption == None \notin Txns /\ None \notin Frames

VARIABLES
  txn,        \* txn[t]: the SDK's view of transaction t, in the end its outcome
  attempt,    \* attempt[t]: the transaction function's runs so far
  frame,      \* the frame on the worker's stack, or None
  worker,     \* where the worker is in the transaction function
  mutex,      \* who holds the mutex of the frame on the worker's stack
  asked,      \* asked[f]: whether Dart was asked in frame f, and its answer
  answering,  \* the frame whose answer the platform thread delivers, or None
  platform,   \* where the platform thread is in that TransactionMethodResult
  aborted,    \* aborted[f]: WrappedData.aborted || WrappedData.exception
  data,       \* data[f]: who set the value of the frame's MutableData
  dangling,   \* an answer reached a mutex or variable that no longer exists
  reply,      \* reply[t]: what became of the MethodResult of t
  early       \* how often cv.wait has returned without a notify

vars == <<early, txn, attempt, frame, worker, mutex, asked, answering, platform,
          aborted, data, dangling, reply>>

TypeOK ==
  /\ txn \in [Txns -> {"unsent", "scheduled", "running", "aborting", "proposed"} \cup Outcomes]
  /\ attempt \in [Txns -> 0 .. MaxAttempts]
  /\ frame \in Frames \cup {None}
  /\ worker \in {"idle", "invoke", "wait", "waiting", "woken", "decide"}
  /\ mutex \in {"free", "worker", "platform"}
  /\ asked \in [Frames -> {"no", "asked"} \cup Answers]
  /\ answering \in Frames \cup {None}
  /\ platform \in {"idle", "lock", "set", "notify", "unlock"}
  /\ aborted \in [Frames -> BOOLEAN]
  /\ data \in [Frames -> {"server", "dart"}]
  /\ dangling \in BOOLEAN
  /\ reply \in [Txns -> {"none", "committed", "uncommitted", "error", "abandoned"}]
  /\ early \in 0 .. MaxEarly

Init ==
  /\ txn = [t \in Txns |-> "unsent"]
  /\ attempt = [t \in Txns |-> 0]
  /\ frame = None
  /\ worker = "idle"
  /\ mutex = "free"
  /\ asked = [f \in Frames |-> "no"]
  /\ answering = None
  /\ platform = "idle"
  /\ aborted = [f \in Frames |-> FALSE]
  /\ data = [f \in Frames |-> "server"]
  /\ dangling = FALSE
  /\ reply = [t \in Txns |-> "none"]
  /\ early = 0

-----------------------------------------------------------------------------
(* The platform thread hands the transaction to the SDK.                    *)

\* Mutant of RunTransaction: answered when it is started, as goOnline is.
RunTransactionAnswers(t) ==
  /\ platform = "idle"
  /\ txn[t] = "unsent"
  /\ txn' = [txn EXCEPT ![t] = "scheduled"]
  /\ reply' = [reply EXCEPT ![t] = "uncommitted"]
  /\ UNCHANGED <<early, attempt, frame, worker, mutex, asked, answering, platform,
                 aborted, data, dangling>>

RunTransaction(t) ==
  /\ platform = "idle"
  /\ txn[t] = "unsent"
  /\ txn' = [txn EXCEPT ![t] = "scheduled"]
  /\ UNCHANGED <<early, attempt, frame, worker, mutex, asked, answering, platform,
                 aborted, data, dangling, reply>>

-----------------------------------------------------------------------------
(* The worker thread: one run of the transaction function.                  *)

\* Mutant of BeginAttempt: InvokeMethod is called before the mutex is locked.
BeginUnlocked(t) ==
  /\ worker = "idle"
  /\ txn[t] = "scheduled"
  /\ txn' = [txn EXCEPT ![t] = "running"]
  /\ attempt' = [attempt EXCEPT ![t] = @ + 1]
  /\ frame' = <<t, attempt[t] + 1>>
  /\ mutex' = "free"
  /\ worker' = "invoke"
  /\ UNCHANGED <<early, asked, answering, platform, aborted, data, dangling, reply>>

\* The frame's mutex is created and locked; nobody else knows it yet.
BeginAttempt(t) ==
  /\ worker = "idle"
  /\ txn[t] = "scheduled"
  /\ txn' = [txn EXCEPT ![t] = "running"]
  /\ attempt' = [attempt EXCEPT ![t] = @ + 1]
  /\ frame' = <<t, attempt[t] + 1>>
  /\ mutex' = "worker"
  /\ worker' = "invoke"
  /\ UNCHANGED <<early, asked, answering, platform, aborted, data, dangling, reply>>

InvokeMethod ==
  /\ worker = "invoke"
  /\ asked' = [asked EXCEPT ![frame] = "asked"]
  /\ worker' = "wait"
  /\ UNCHANGED <<early, txn, attempt, frame, mutex, answering, platform, aborted,
                 data, dangling, reply>>

\* Mutant of Wait: the wait has a timeout.
WaitTimed ==
  /\ worker = "wait"
  /\ mutex' = "free"
  /\ worker' \in {"waiting", "woken"}
  /\ UNCHANGED <<early, txn, attempt, frame, asked, answering, platform, aborted,
                 data, dangling, reply>>

\* cv.wait(lock) joins the wait set and unlocks in one step, with no predicate.
Wait ==
  /\ worker = "wait"
  /\ mutex' = "free"
  /\ worker' = "waiting"
  /\ UNCHANGED <<early, txn, attempt, frame, asked, answering, platform, aborted,
                 data, dangling, reply>>

\* cv.wait may return without a notify.
SpuriousWakeup ==
  /\ worker = "waiting"
  /\ worker' = "woken"
  /\ early < MaxEarly
  /\ early' = early + 1
  /\ UNCHANGED <<txn, attempt, frame, mutex, asked, answering, platform,
                 aborted, data, dangling, reply>>

\* The wait returns with the mutex locked again.
Relock ==
  /\ worker = "woken"
  /\ mutex = "free"
  /\ mutex' = "worker"
  /\ worker' = "decide"
  /\ UNCHANGED <<early, txn, attempt, frame, asked, answering, platform, aborted,
                 data, dangling, reply>>

\* Abort or Success, and the frame ceases to exist.
Decide ==
  /\ worker = "decide"
  /\ txn' = [txn EXCEPT ![frame[1]] = IF aborted[frame] THEN "aborting" ELSE "proposed"]
  /\ frame' = None
  /\ mutex' = "free"
  /\ worker' = "idle"
  /\ UNCHANGED <<early, attempt, asked, answering, platform, aborted, data, dangling, reply>>

-----------------------------------------------------------------------------
(* Dart answers on the platform thread.                                     *)

\* The answer to an asked frame enters SuccessInternal, which locks first, or
\* ErrorInternal or NotImplementedInternal, which do not lock.
Answer(f, a) ==
  /\ platform = "idle"
  /\ asked[f] = "asked"
  /\ asked' = [asked EXCEPT ![f] = a]
  /\ answering' = f
  /\ platform' = IF a \in Loaded THEN "lock" ELSE "set"
  /\ UNCHANGED <<early, txn, attempt, frame, worker, mutex, aborted, data, dangling, reply>>

\* Mutant of Lock: SuccessInternal has no lock_guard.
LockNothing ==
  /\ platform = "lock"
  /\ platform' = "set"
  /\ UNCHANGED <<early, txn, attempt, frame, worker, mutex, asked, answering, aborted, data,
                 dangling, reply>>

Lock ==
  /\ platform = "lock"
  /\ answering = frame => mutex = "free"
  /\ mutex' = IF answering = frame THEN "platform" ELSE mutex
  /\ dangling' = (dangling \/ answering # frame)
  /\ platform' = "set"
  /\ UNCHANGED <<early, txn, attempt, frame, worker, asked, answering, aborted, data, reply>>

\* Mutant of Set: an answer that refuses leaves aborted as it was.
SetForgetsRefusal ==
  /\ platform = "set"
  /\ data' = IF answering = frame THEN [data EXCEPT ![answering] = "dart"] ELSE data
  /\ platform' = "notify"
  /\ UNCHANGED <<early, txn, attempt, frame, worker, mutex, asked, answering, aborted,
                 dangling, reply>>

\* Mutant of Set: aborted is set by the wrong answers.
SetInverted ==
  /\ platform = "set"
  /\ aborted' = [aborted EXCEPT ![answering] = asked[answering] = "commit"]
  /\ platform' = "notify"
  /\ UNCHANGED <<early, txn, attempt, frame, worker, mutex, asked, answering, data,
                 dangling, reply>>

\* WrappedData is shared and still there; its current_data points into the
\* SDK's frame.
Set ==
  /\ platform = "set"
  /\ aborted' = [aborted EXCEPT ![answering] = @ \/ asked[answering] # "commit"]
  /\ data' = IF asked[answering] \in Loaded /\ answering = frame
               THEN [data EXCEPT ![answering] = "dart"] ELSE data
  /\ dangling' = (dangling \/ (asked[answering] \in Loaded /\ answering # frame))
  /\ platform' = "notify"
  /\ UNCHANGED <<early, txn, attempt, frame, worker, mutex, asked, answering, reply>>

\* Mutant of Notify: nobody is woken.
NotifyNobody ==
  /\ platform = "notify"
  /\ platform' = "unlock"
  /\ UNCHANGED <<early, txn, attempt, frame, worker, mutex, asked, answering, aborted,
                 data, dangling, reply>>

\* notify_one wakes the worker if it waits, and is lost if it does not.
Notify ==
  /\ platform = "notify"
  /\ worker' = IF answering = frame /\ worker = "waiting" THEN "woken" ELSE worker
  /\ dangling' = (dangling \/ answering # frame)
  /\ IF asked[answering] \in Loaded
       THEN platform' = "unlock" /\ answering' = answering
       ELSE platform' = "idle"   /\ answering' = None
  /\ UNCHANGED <<early, txn, attempt, frame, mutex, asked, aborted, data, reply>>

\* The lock_guard of SuccessInternal goes out of scope.
Unlock ==
  /\ platform = "unlock"
  /\ mutex' = IF answering = frame /\ mutex = "platform" THEN "free" ELSE mutex
  /\ dangling' = (dangling \/ answering # frame)
  /\ answering' = None
  /\ platform' = "idle"
  /\ UNCHANGED <<early, txn, attempt, frame, worker, asked, aborted, data, reply>>

-----------------------------------------------------------------------------
(* The SDK settles the transaction, between the runs on its worker thread.  *)

\* The server accepts what the function proposed, or rejects it with an error; or the
\* SDK gives the transaction up, with its Database.
Settle(t, outcome) ==
  /\ worker = "idle"
  /\ \/ txn[t] = "proposed" /\ outcome \in {"committed", "uncommitted", "failed"}
     \/ txn[t] = "aborting" /\ outcome = "uncommitted"
     \/ txn[t] \in {"scheduled", "proposed", "aborting"} /\ outcome = "invalid"
  /\ txn' = [txn EXCEPT ![t] = outcome]
  /\ UNCHANGED <<early, attempt, frame, worker, mutex, asked, answering, platform,
                 aborted, data, dangling, reply>>

\* The server's data had changed: the function runs again.
Retry(t) ==
  /\ worker = "idle"
  /\ txn[t] = "proposed"
  /\ attempt[t] < MaxAttempts
  /\ txn' = [txn EXCEPT ![t] = "scheduled"]
  /\ UNCHANGED <<early, attempt, frame, worker, mutex, asked, answering, platform,
                 aborted, data, dangling, reply>>

\* Mutant of Reply: an error the SDK reports is a Success with that error.
ReplyRaw(t) ==
  /\ worker = "idle"
  /\ txn[t] \in Outcomes /\ reply[t] = "none"
  /\ reply' = [reply EXCEPT ![t] = txn[t]]
  /\ UNCHANGED <<early, txn, attempt, frame, worker, mutex, asked, answering, platform,
                 aborted, data, dangling>>

\* OnCompletion: kErrorNone is committed, AbortedByUser and WriteCanceled are a Success
\* that is not committed, every other error is an Error.  Of a future that is not
\* complete the PointerScope destroys the MethodResult unanswered.
Reply(t) ==
  /\ worker = "idle"
  /\ txn[t] \in Outcomes /\ reply[t] = "none"
  /\ reply' = [reply EXCEPT ![t] = CASE txn[t] = "failed"  -> "error"
                                    [] txn[t] = "invalid" -> "abandoned"
                                    [] OTHER              -> txn[t]]
  /\ UNCHANGED <<early, txn, attempt, frame, worker, mutex, asked, answering, platform,
                 aborted, data, dangling>>

-----------------------------------------------------------------------------
Worker ==
  \/ \E t \in Txns : BeginAttempt(t)
  \/ InvokeMethod \/ Wait \/ Relock \/ Decide

Platform == Lock \/ Set \/ Notify \/ Unlock

Next ==
  \/ \E t \in Txns : RunTransaction(t) \/ Retry(t) \/ Reply(t)
  \/ \E t \in Txns, outcome \in Outcomes : Settle(t, outcome)
  \/ \E f \in Frames, a \in Answers : Answer(f, a)
  \/ Worker
  \/ SpuriousWakeup
  \/ Platform

Safety == Init /\ [][Next]_vars

\* Both threads run, Dart's handler answers (it is a synchronous function),
\* and the SDK settles and reports what it was given.  Nothing forces a
\* transaction to be requested, a spurious wakeup, or a particular outcome.  Weak
\* fairness of all transactions together is enough, as each has but a few steps.
DartAnswers == \E f \in Frames, a \in Answers : Answer(f, a)
Settling == \E t \in Txns :
  Retry(t) \/ Reply(t) \/ \E outcome \in Outcomes : Settle(t, outcome)

Fairness ==
  WF_vars(Worker) /\ WF_vars(Platform) /\ WF_vars(DartAnswers) /\ WF_vars(Settling)

Spec == Safety /\ Fairness
-----------------------------------------------------------------------------
(* Correctness.                                                             *)

\* The frame of t's last run.
Last(t) == <<t, attempt[t]>>

\* A transaction is reported committed only if Dart's handler answered the
\* last run with a value, and the value is the one the SDK was given
\* (database_reference_e2e.dart:150-151 expects both of a committed transaction).
CommittedAsAnswered ==
  \A t \in Txns : reply[t] = "committed" =>
    asked[Last(t)] = "commit" /\ data[Last(t)] = "dart"

\* Until a wakeup comes early, nothing is committed but what Dart answered, however
\* often the SDK runs the function again.
CommittedUnlessEarly == early = 0 => CommittedAsAnswered

\* Until a wakeup comes early the worker decides only after the answer to this very
\* run was recorded, so it never reads aborted and the value while the platform
\* thread writes them, whether the answer took the lock or not.
DecideAfterAnswer ==
  worker = "decide" /\ early = 0 =>
    asked[frame] \in Answers /\ ~(answering = frame /\ platform \in {"lock", "set", "notify"})

\* An answer finds the mutex and the condition variable of the run that asked:
\* the frame stays on the worker's stack until the answer has let go of it, unless a
\* wakeup came early.
FrameOutlivesAnswer == dangling => early > 0

\* The worker, blocked in a wait, is waiting for an answer that is still to
\* come: no notify was lost, unless the answer bypassed the mutex
\* (ErrorInternal, NotImplementedInternal).
WaitIsAnswerable ==
  worker = "waiting" =>
    \/ asked[frame] = "asked"
    \/ answering = frame /\ platform \in {"lock", "set", "notify"}
    \/ asked[frame] \in Refused

\* Even when cv.wait returns early, a run decides on an answer that takes the
\* mutex either before the answer is recorded or after it is complete; only an
\* answer that bypasses the mutex may be under way.
LockedAnswerExcludesDecision ==
  worker = "decide" /\ answering = frame /\ platform \in {"set", "notify", "unlock"} =>
    asked[frame] \in Refused

\* A transaction is aborted only if Dart refused its last run, whenever the
\* worker woke up.
AbortOnlyOnRefusal ==
  \A t \in Txns : txn[t] = "aborting" =>
    asked[Last(t)] \in Answers \ {"commit"}

replyStatus ==
  [t \in Txns |->
    IF txn[t] = "unsent" THEN "unsent"
    ELSE CASE reply[t] = "none"      -> "pending"
           [] reply[t] = "abandoned" -> "abandoned"
           [] OTHER                  -> "answered"]

MR == INSTANCE MethodReply WITH Calls <- Txns, status <- replyStatus

\* Every runTransaction is answered at most once, retries included, and never after
\* it was abandoned.
TransactionsRepliedOnce == MR!Safety

Answered(t) == reply[t] \in {"committed", "uncommitted", "error"}

\* Every runTransaction is answered in the end if the SDK completes its future: neither
\* the worker nor the transactions behind it stay blocked, unless an answer bypassed
\* the mutex.
TransactionsSettle ==
  \A t \in Txns : txn[t] # "unsent" ~>
    \/ Answered(t)
    \/ txn[t] = "invalid" /\ reply[t] = "abandoned"
    \/ \E f \in Frames : asked[f] \in Refused

\* No thread has a step to take but to wake up early: the worker has nothing to run,
\* waits for a notify or for the mutex, no answer is under way that does not wait for
\* the mutex too, Dart was not asked, and the SDK has nothing to settle.
Quiet ==
  /\ \/ /\ worker = "idle"
        /\ \A t \in Txns : \/ txn[t] \in {"unsent", "running"}
                           \/ txn[t] \in Outcomes /\ reply[t] # "none"
     \/ worker = "waiting"
     \/ worker = "woken" /\ mutex # "free"
  /\ \/ platform = "idle" /\ \A f \in Frames : asked[f] # "asked"
     \/ platform = "lock" /\ answering = frame /\ mutex # "free"

\* Then every transaction was answered, or its future was not complete, unless the
\* notify of an answer that bypassed the mutex was lost: the mutex itself blocks nobody
\* for ever.
QuietIsSettled ==
  Quiet =>
    \/ \A t \in Txns : txn[t] # "unsent" =>
         Answered(t) \/ (txn[t] = "invalid" /\ reply[t] = "abandoned")
    \/ worker = "waiting" /\ asked[frame] \in Refused
=============================================================================
