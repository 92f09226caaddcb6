---------------------------- MODULE StorageCalls ----------------------------
(***************************************************************************)
(* The calls Reference#* of packages/firebase_storage/tizen.  A handler    *)
(* moves the MethodResult into a StorageReferenceWork, which the callback  *)
(* of the SDK's future keeps; exceptions thrown on the way are caught, and *)
(* answered with the handler's own pointer.                                *)
(***************************************************************************)
EXTENDS FirebaseApps

VARIABLE work   \* work[c]: the App of the future that keeps the work of c, or 0

storageVars == work

\* No arguments, or a method the plugin does not implement: useEmulator, listAll.
NotSupported(c) ==
  /\ Handle(c)
  /\ Answer(c)
  /\ UNCHANGED <<work, down>>

\* StorageReferenceWork looks the App up before it takes the result: the catch block
\* still has it.
RejectReference(c, n) ==
  /\ Handle(c)
  /\ app[n] = 0
  /\ Answer(c)
  /\ UNCHANGED <<work, down>>

\* getData, list and updateMetadata look up arguments of their own when the work has
\* the result: maxSize may not fit an int.  The catch block uses a null pointer.
RejectLate(c, n) ==
  /\ Handle(c)
  /\ app[n] # 0
  /\ Crash("moved result")
  /\ UNCHANGED work

\* The future gets a callback that keeps the work.
StartReference(c, n) ==
  /\ Handle(c)
  /\ app[n] # 0
  /\ GiveToSDK(c)
  /\ work' = [work EXCEPT ![c] = app[n]]
  /\ UNCHANGED down

\* Mutant of CompleteReference: Success is not the end of the callback.
CompleteReferenceTwice(c) ==
  /\ down = "no"
  /\ work[c] # 0
  /\ result' = [result EXCEPT ![c] = "gone"]
  /\ replies' = [replies EXCEPT ![c] = @ + 2]
  /\ work' = [work EXCEPT ![c] = 0]
  /\ UNCHANGED down

\* Success or Fail, and the work is destroyed with the callback.
CompleteReference(c) ==
  /\ down = "no"
  /\ work[c] # 0
  /\ Answer(c)
  /\ work' = [work EXCEPT ![c] = 0]
  /\ UNCHANGED down

\* The SDK gives the future up with its App.
DropReference(c) ==
  /\ down = "no"
  /\ work[c] # 0
  /\ ~Alive(work[c])
  /\ Discard(c)
  /\ work' = [work EXCEPT ![c] = 0]
  /\ UNCHANGED down

StorageCall(c) ==
  \/ NotSupported(c)
  \/ \E n \in Names :
       RejectReference(c, n) \/ RejectLate(c, n) \/ StartReference(c, n)
=============================================================================
