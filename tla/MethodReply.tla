---------------------------- MODULE MethodReply ----------------------------
(***************************************************************************)
(* What every platform-channel method call of the plugins promises to      *)
(* Dart: the MethodResult handed to HandleMethodCall is answered at most   *)
(* once, only after the call was delivered, and in the end it is either    *)
(* answered or abandoned (destroyed unanswered: the Dart future of an      *)
(* abandoned call never completes).  The detailed modules implement this   *)
(* specification through INSTANCE.                                         *)
(***************************************************************************)
CONSTANT Calls        \* the method calls Dart makes

VARIABLE status       \* status[c]: what became of the MethodResult of c

Status == {"unsent", "pending", "answered", "abandoned"}

Init == status = [c \in Calls |-> "unsent"]

Send(c)    == status[c] = "unsent"  /\ status' = [status EXCEPT ![c] = "pending"]
Answer(c)  == status[c] = "pending" /\ status' = [status EXCEPT ![c] = "answered"]
Abandon(c) == status[c] = "pending" /\ status' = [status EXCEPT ![c] = "abandoned"]

Next == \E c \in Calls : Send(c) \/ Answer(c) \/ Abandon(c)

\* A delivered call is settled eventually.
Settle(c) == Answer(c) \/ Abandon(c)

Safety == Init /\ [][Next]_status

Spec == Safety /\ \A c \in Calls : WF_status(Settle(c))
=============================================================================
