------------------------- MODULE MCDatabaseObserve -------------------------
(* TLC instances of DatabaseObserve: a value stream and a child stream. *)
EXTENDS DatabaseObserve, TLC

CONSTANTS s1, s2

MCStreams == {s1, s2}
MCEventType == s1 :> "value" @@ s2 :> "childAdded"

\* Quiet names just the states in which no step with fairness can be taken.
QuietIsExact ==
  Quiet <=> ~ENABLED (Stream \/ Callback)
=============================================================================
