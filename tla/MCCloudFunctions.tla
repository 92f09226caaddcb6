-------------------------- MODULE MCCloudFunctions --------------------------
(* TLC instances of CloudFunctions. *)
EXTENDS CloudFunctions

CONSTANTS c1, c2, c3

MCCalls == {c1, c2, c3}
TwoCalls == {c1, c2}

\* Quiet names just the states in which no step with fairness can be taken.
QuietIsExact ==
  Quiet <=> ~ENABLED (Handler \/ \E c \in Calls : Callback(c) \/ \E outcome \in Outcome : Complete(c, outcome))
=============================================================================
