---------------------------- MODULE EventStream ----------------------------
(***************************************************************************)
(* What Query#observe promises to Dart.  While Dart listens to a stream it *)
(* sees each event of it, once and in the order they happened; an error is *)
(* the last event.  An event may still come while the stream is being      *)
(* closed; one that comes later is lost, and no other is.  DatabaseObserve *)
(* implements this specification through INSTANCE.                         *)
(***************************************************************************)
EXTENDS Sequences

CONSTANTS
  Streams,    \* the streams
  Events(_)   \* Events(s): what may happen on s, "error" among it

VARIABLES
  state,      \* state[s]: how far stream s is
  due,        \* due[s]: what happened and Dart did not see yet, in order
  seen,       \* seen[s]: what Dart saw, in order
  ended       \* ended[s]: the error has happened

vars == <<state, due, seen, ended>>

Init ==
  /\ state = [s \in Streams |-> "silent"]
  /\ due = [s \in Streams |-> << >>]
  /\ seen = [s \in Streams |-> << >>]
  /\ ended = [s \in Streams |-> FALSE]

Move(s, from, to) ==
  /\ state[s] = from
  /\ state' = [state EXCEPT ![s] = to]
  /\ UNCHANGED <<due, seen, ended>>

Listen(s) == Move(s, "silent", "live")
Cancel(s) == Move(s, "live", "closing")
Close(s)  == Move(s, "closing", "closed")

Happen(s, e) ==
  /\ state[s] # "silent"
  /\ ~ended[s]
  /\ due' = [due EXCEPT ![s] = Append(@, e)]
  /\ ended' = [ended EXCEPT ![s] = e = "error"]
  /\ UNCHANGED <<state, seen>>

Deliver(s) ==
  /\ state[s] \in {"live", "closing"}
  /\ due[s] # << >>
  /\ seen' = [seen EXCEPT ![s] = Append(@, Head(due[s]))]
  /\ due' = [due EXCEPT ![s] = Tail(@)]
  /\ UNCHANGED <<state, ended>>

Lose(s) ==
  /\ state[s] = "closed"
  /\ due[s] # << >>
  /\ due' = [due EXCEPT ![s] = Tail(@)]
  /\ UNCHANGED <<state, seen, ended>>

Next ==
  \E s \in Streams :
    \/ Listen(s) \/ Cancel(s) \/ Close(s)
    \/ \E e \in Events(s) : Happen(s, e)
    \/ Deliver(s) \/ Lose(s)

Safety == Init /\ [][Next]_vars
=============================================================================
