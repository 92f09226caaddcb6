--------------------------- MODULE MCStorageTasks ---------------------------
(* TLC instances of StorageTasks: tasks t1 and t2 under the handles 0 and 1. *)
EXTENDS StorageTasks, TLC

CONSTANTS t1, t2

MCTasks == {t1, t2}
MCHandles == {0, 1}
MCHandleOf == t1 :> 0 @@ t2 :> 1

\* Quiet names just the states in which no step with fairness can be taken.
QuietIsExact ==
  Quiet <=> ~ENABLED (Handler \/ \E t \in Tasks :
            Callback(t) \/ \E outcome \in {"ok", "error"} : Finish(t, outcome))
=============================================================================
