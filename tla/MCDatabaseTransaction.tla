----------------------- MODULE MCDatabaseTransaction -----------------------
(* TLC instances of DatabaseTransaction. *)
EXTENDS DatabaseTransaction

CONSTANTS t1, t2

MCTxns == {t1, t2}

\* What MethodChannelDatabase's handler answers when it is there.
HandlerAnswers == Loaded

\* With the answers that bypass the mutex: Dart's handler threw, or is gone.
AllAnswers == Loaded \cup Refused

\* Quiet names just the states in which no step with fairness can be taken.
QuietIsExact ==
  Quiet <=> ~ENABLED (Worker \/ Platform \/ DartAnswers \/ Settling)
=============================================================================
