----------------------- MODULE IntegrationTests_proofs -----------------------
(***************************************************************************)
(* Proofs of the safety properties of IntegrationTests.  EmulatorInv says  *)
(* how far a test has changed its emulator, as a function of the flags of  *)
(* the finally block; CountInv says which of the tests of the package are  *)
(* over, and that errors tells whether all of these have passed.           *)
(***************************************************************************)
EXTENDS IntegrationTests, TLAPS

-----------------------------------------------------------------------------
(* The invariant.                                                           *)

\* Where a test may end, and where it is under way.
Ending == {"close", "closed", "delete"}
Testing == {"exists", "create", "connected", "launch", "poll", "test", "run"} \cup Ending

\* What the test on emulator d has done to it so far, if all went well.
Changed(d) ==
  /\ autoCreated => mode = "generate"
  /\ autoLaunched => autoCreated
  /\ ~autoCreated => vm[d] = Found
  /\ autoCreated /\ ~autoLaunched => vm[d] \in {"none", "off"}
  /\ autoLaunched => vm[d] \in {"off", "booting", "offline", "on", "closing"}
  /\ pc = "exists" => ~autoCreated
  /\ pc = "create" => autoCreated /\ ~autoLaunched /\ vm[d] = "none"
  /\ pc \in {"connected", "launch"} /\ autoCreated => vm[d] = "off"
  /\ pc = "connected" => ~autoLaunched /\ (mode = "generate" => autoCreated)
  /\ pc \in {"launch", "closed"} => autoLaunched
  /\ pc = "closed" => vm[d] \in {"closing", "off"}
  /\ pc = "delete" /\ autoCreated => vm[d] \in {"none", "off"}

EmulatorInv ==
  \A d \in (Emulators \cap Devices) \ left :
    IF pc \in Testing /\ d = device THEN Changed(d) ELSE vm[d] = Found

\* The tests of the package that are over, or passed over.
Over(e, d) ==
  \/ pc = "clean"
  \/ e < example
  \/ pc \in Testing \cup {"tested"} /\ e = example /\ d \notin todo \cup {device}

\* The device of the test, and those that come after it.
TurnInv ==
  /\ pc \in {"precache", "find", "pub get"} => errors = 0 /\ example = 1
  /\ pc \in Testing \cup {"pub get", "example", "clean", "tested"} => devices[package] # {}
  /\ pc \in Testing \cup {"tested"} =>
       /\ device \in devices[package]
       /\ todo \subseteq devices[package] \ {device}
  /\ pc \notin Testing \cup {"tested"} => ~autoCreated /\ ~autoLaunched

\* The package in progress.
PassedInv ==
  pc # "done" => \A e \in 1 .. MaxExample, d \in Devices :
    <<package, e, d>> \in passed =>
      \/ Over(e, d)
      \/ e = example /\ d = device /\ pc \in Ending \cup {"tested"} /\ error # "failed"

ErrorInv ==
  pc \in Ending \cup {"tested"} /\ error = "null" => <<package, example, device>> \in passed

CountInv ==
  pc # "done" =>
    (errors = 0 <=> \A e \in 1 .. MaxExample, d \in devices[package] :
                      Over(e, d) => <<package, e, d>> \in passed)

\* The packages that are still to come.
FutureInv ==
  /\ \A p \in 1 .. MaxPackage :
       p > package \/ (p = package /\ pc # "done") => result[p] = "none" /\ p \notin aborted
  /\ \A p \in 1 .. MaxPackage, e \in 1 .. MaxExample, d \in Devices :
       p > package => <<p, e, d>> \notin passed

RunInv == TurnInv /\ PassedInv /\ ErrorInv /\ CountInv /\ FutureInv /\ ResultCountsFailures

IInv == TypeOK /\ EmulatorInv /\ RunInv

-----------------------------------------------------------------------------
(* Types.                                                                   *)

LEMMA InitType == Init => TypeOK
<1> SUFFICES ASSUME Init PROVE TypeOK
  OBVIOUS
<1> USE BoundsAssumption DEF Init, Devices, Found
<1>1. devices \in [1 .. MaxPackage -> SUBSET Devices]
  OBVIOUS
<1>2. vm \in [Devices -> {"none", "off", "booting", "offline", "on", "closing"}]
  OBVIOUS
<1>3. result \in [1 .. MaxPackage -> {"none", "success", "fail"}]
  OBVIOUS
<1>4. package \in 1 .. MaxPackage /\ example \in 1 .. MaxExample /\ losses \in 0 .. MaxLosses
  OBVIOUS
<1>5. 1 \in 1 .. 5 /\ 0 \in Nat /\ 1 \in 1 .. 2
  OBVIOUS
<1> QED BY <1>1, <1>2, <1>3, <1>4, <1>5 DEF TypeOK

LEMMA EndPackageType ==
  ASSUME TypeOK, NEW r \in {"success", "fail"}, EndPackage(r)
  PROVE  /\ result' \in [1 .. MaxPackage -> {"none", "success", "fail"}]
         /\ errors' \in Nat /\ example' \in 1 .. MaxExample
         /\ package' \in 1 .. MaxPackage /\ pc' \in {"done", "find"}
         /\ device' = None /\ todo' = {}
<1>1. result' \in [1 .. MaxPackage -> {"none", "success", "fail"}]
  BY DEF TypeOK, EndPackage
<1>2. errors' \in Nat /\ example' \in 1 .. MaxExample
  BY BoundsAssumption DEF EndPackage
<1>3. package' \in 1 .. MaxPackage
  <2>1. package \in 1 .. MaxPackage
    BY DEF TypeOK
  <2> QED BY <2>1, BoundsAssumption DEF EndPackage
<1> QED BY <1>1, <1>2, <1>3 DEF EndPackage

LEMMA NextExampleType ==
  ASSUME TypeOK, NextExample
  PROVE  device' = None /\ example' \in 1 .. MaxExample /\ pc' \in {"clean", "example"}
<1>1. example' \in 1 .. MaxExample
  <2>1. example \in 1 .. MaxExample
    BY DEF TypeOK
  <2> QED BY <2>1, BoundsAssumption DEF NextExample
<1> QED BY <1>1 DEF NextExample

LEMMA TurnType ==
  ASSUME TypeOK, NEW d \in Devices, Turn(d)
  PROVE  device' \in Devices /\ pc' \in {"exists", "test"}
  BY DEF Turn

LEMMA NextType ==
  ASSUME TypeOK, TurnInv, [Next]_vars
  PROVE  TypeOK'
<1> USE DEF TypeOK, Devices, emulators, position, test, outcome
<1>0. pc \in Testing \cup {"tested"} => device \in Devices
  BY DEF TurnInv
<1>1. CASE Precache
  <2>1. attempt' \in 1 .. 5
    BY <1>1 DEF Precache
  <2> QED BY <1>1, <2>1 DEF Precache
<1>2. CASE FindDevices
  <2>1. Candidates \subseteq Devices
    BY DEF Candidates
  <2>2. CASE UNCHANGED devices /\ EndPackage("fail")
    BY <1>2, <2>2, EndPackageType DEF FindDevices
  <2>3. CASE devices' = [devices EXCEPT ![package] = Candidates]
    BY <1>2, <2>1, <2>3, EndPackageType DEF FindDevices
  <2> QED BY <1>2, <2>2, <2>3 DEF FindDevices
<1>3. CASE PubGet
  BY <1>3, EndPackageType DEF PubGet
<1>4. CASE Example
  <2>1. CASE errors' = errors + 1 /\ NextExample /\ UNCHANGED todo
    <3>1. errors' \in Nat
      <4>1. errors \in Nat
        OBVIOUS
      <4> HIDE DEF TypeOK
      <4> QED BY <2>1, <4>1
    <3>2. device' = None /\ example' \in 1 .. MaxExample /\ pc' \in {"clean", "example"}
      BY <2>1, NextExampleType
    <3> QED BY <1>4, <2>1, <3>1, <3>2 DEF Example
  <2>2. CASE \E d \in devices[package] :
               Turn(d) /\ todo' = devices[package] \ {d} /\ UNCHANGED <<example, errors>>
    BY <1>4, <2>2, TurnType DEF Example
  <2> QED BY <1>4, <2>1, <2>2 DEF Example
<1>5. CASE Clean
  BY <1>5, EndPackageType DEF Clean
<1>6. CASE Exists
  BY <1>6 DEF Exists, Throw
<1>7. CASE Create
  BY <1>7 DEF Create, Throw
<1>8. CASE Connected
  BY <1>8 DEF Connected, Throw
<1>9. CASE Launch
  BY <1>0, <1>9 DEF Launch, Throw, Testing, Ending
<1>10. CASE Poll
  BY <1>10 DEF Poll, Throw
<1>11. CASE Start
  BY <1>11 DEF Start, Throw
<1>12. CASE Timeout
  BY <1>12 DEF Timeout
<1>13. CASE Close
  BY <1>0, <1>13 DEF Close, Testing, Ending
<1>14. CASE Closed
  BY <1>0, <1>14 DEF Closed, Testing, Ending
<1>15. CASE Delete
  BY <1>0, <1>15 DEF Delete, Testing, Ending
<1>16. CASE Retry
  <2>1. device' \in Devices /\ pc' \in {"exists", "test"}
    BY <1>0, <1>16, TurnType DEF Retry
  <2>2. try' \in 1 .. 2
    BY <1>16 DEF Retry
  <2> QED BY <1>16, <2>1, <2>2 DEF Retry, Reset
<1>17. CASE Record
  <2>1. errors' \in Nat
    BY <1>17 DEF Record
  <2>4. try' \in 1 .. 2
    BY <1>17 DEF Record, NextTest
  <2>2. CASE todo = {} /\ NextExample /\ UNCHANGED todo
    <3>1. device' = None /\ example' \in 1 .. MaxExample /\ pc' \in {"clean", "example"}
      BY <2>2, NextExampleType
    <3> QED BY <1>17, <2>1, <2>2, <2>4, <3>1 DEF Record, NextTest, Reset
  <2>3. CASE \E d \in todo : Turn(d) /\ todo' = todo \ {d} /\ UNCHANGED example
    <3>1. device' \in Devices /\ pc' \in {"exists", "test"} /\ todo' \subseteq Devices
      BY <2>3, TurnType
    <3> QED BY <1>17, <2>1, <2>3, <2>4, <3>1 DEF Record, NextTest, Reset
  <2> QED BY <1>17, <2>2, <2>3 DEF Record, NextTest
<1>18. CASE Abort
  <2>1. EndPackage("fail")
    BY <1>18 DEF Abort
  <2>2. aborted' \subseteq 1 .. MaxPackage
    BY <1>18 DEF Abort
  <2>3. try' \in 1 .. 2
    BY <1>18 DEF Abort
  <2> QED BY <1>18, <2>1, <2>2, <2>3, EndPackageType DEF Abort, Reset
<1>19. CASE End
  <2>1. passed' \subseteq (1 .. MaxPackage) \X (1 .. MaxExample) \X Devices
    BY <1>0, <1>19 DEF End, Testing
  <2>2. error' \in {"null", "failed"}
    BY <1>19 DEF End
  <2> QED BY <1>19, <2>1, <2>2 DEF End
<1>20. ASSUME NEW d \in DOMAIN vm, Boot(d) \/ Forget(d) \/ Lose(d)
       PROVE  TypeOK'
  <2>1. vm' \in [Devices -> {"none", "off", "booting", "offline", "on", "closing"}]
    BY <1>20 DEF Boot, Forget, Lose
  <2>2. losses' \in 0 .. MaxLosses
    <3>1. losses \in 0 .. MaxLosses
      OBVIOUS
    <3>2. losses' = losses \/ (losses < MaxLosses /\ losses' = losses + 1)
      BY <1>20 DEF Boot, Forget, Lose
    <3> HIDE DEF TypeOK
    <3> QED BY <3>1, <3>2, BoundsAssumption
  <2>3. left' \subseteq Devices
    BY <1>20 DEF Boot, Forget, Lose
  <2>4. UNCHANGED <<pc, position, test, outcome>>
    BY <1>20 DEF Boot, Forget, Lose
  <2> QED BY <2>1, <2>2, <2>3, <2>4
<1>21. CASE UNCHANGED vars
  BY <1>21 DEF vars
<1> QED
  BY <1>1, <1>2, <1>3, <1>4, <1>5, <1>6, <1>7, <1>8, <1>9, <1>10, <1>11, <1>12, <1>13,
     <1>14, <1>15, <1>16, <1>17, <1>18, <1>19, <1>20, <1>21 DEF Next, Command

-----------------------------------------------------------------------------
(* The emulators.                                                           *)

\* A step outside the tests, which touches no device.
LEMMA BetweenTests ==
  ASSUME EmulatorInv, pc \notin Testing,
         pc' \notin Testing \/ (pc' \in {"exists", "test"} /\ ~autoCreated' /\ ~autoLaunched'),
         UNCHANGED <<vm, left, mode>>
  PROVE  EmulatorInv'
  BY DEF EmulatorInv, Changed, Testing, Ending, Found, Devices

\* A step of a test, on its own device.
LEMMA OwnDevice ==
  ASSUME EmulatorInv, pc \in Testing, UNCHANGED <<mode, device>>, left \subseteq left',
         \A d \in Devices \ {device} : vm'[d] = vm[d],
         device \in (Emulators \cap Devices) \ left' /\ Changed(device) =>
           IF pc' \in Testing THEN Changed(device)' ELSE vm'[device] = Found
  PROVE  EmulatorInv'
<1> SUFFICES ASSUME NEW d \in (Emulators \cap Devices) \ left'
             PROVE  IF pc' \in Testing /\ d = device THEN Changed(d)' ELSE vm'[d] = Found
  BY DEF EmulatorInv, Found, Devices
<1>1. IF d = device THEN Changed(d) ELSE vm[d] = Found
  BY DEF EmulatorInv
<1>2. CASE d = device
  BY <1>1, <1>2
<1>3. CASE d # device
  BY <1>1, <1>3
<1> QED BY <1>2, <1>3

LEMMA NextEmulator ==
  ASSUME TypeOK, TurnInv, EmulatorInv, [Next]_vars
  PROVE  EmulatorInv'
<1> USE DEF emulators, position, test, outcome
<1>0. /\ vm \in [Devices -> {"none", "off", "booting", "offline", "on", "closing"}]
      /\ pc \in Testing => device \in Devices
      /\ pc \notin Testing \cup {"tested"} => ~autoCreated /\ ~autoLaunched
  BY DEF TypeOK, TurnInv
<1>1. CASE Precache
  BY <1>0, <1>1, BetweenTests DEF Precache, Testing, Ending
<1>2. CASE FindDevices
  BY <1>0, <1>2, BetweenTests DEF FindDevices, EndPackage, Testing, Ending
<1>3. CASE PubGet
  BY <1>0, <1>3, BetweenTests DEF PubGet, EndPackage, Testing, Ending
<1>4. CASE Example
  BY <1>0, <1>4, BetweenTests DEF Example, NextExample, Turn, Testing, Ending
<1>5. CASE Clean
  BY <1>0, <1>5, BetweenTests DEF Clean, EndPackage, Testing, Ending
<1>6. CASE Retry
  BY <1>0, <1>6, BetweenTests DEF Retry, Turn, Reset, Testing, Ending
<1>7. CASE Record
  BY <1>0, <1>7, BetweenTests DEF Record, NextTest, NextExample, Turn, Reset, Testing, Ending
<1>8. CASE Abort
  BY <1>0, <1>8, BetweenTests DEF Abort, EndPackage, Reset, Testing, Ending
<1>9. CASE Exists
  BY <1>0, <1>9, OwnDevice DEF Exists, Throw, Changed, Found, Testing, Ending
<1>10. CASE Create
  BY <1>0, <1>10, OwnDevice DEF Create, Throw, Changed, Found, Testing, Ending
<1>11. CASE Connected
  BY <1>0, <1>11, OwnDevice DEF Connected, Throw, isConnected, Changed, Found, Testing, Ending
<1>12. CASE Launch
  BY <1>0, <1>12, OwnDevice DEF Launch, Throw, isConnected, Changed, Found, Testing, Ending
<1>13. CASE Poll
  BY <1>0, <1>13, OwnDevice DEF Poll, Throw, Changed, Found, Testing, Ending
<1>14. CASE Start
  BY <1>0, <1>14, OwnDevice DEF Start, Throw, isConnected, Changed, Found, Testing, Ending
<1>15. CASE Timeout
  BY <1>0, <1>15, OwnDevice DEF Timeout, Changed, Found, Testing, Ending
<1>16. CASE Close
  BY <1>0, <1>16, OwnDevice DEF Close, isConnected, Changed, Found, Testing, Ending
<1>17. CASE Closed
  BY <1>0, <1>17, OwnDevice DEF Closed, Changed, Found, Testing, Ending
<1>18. CASE Delete
  BY <1>0, <1>18, OwnDevice DEF Delete, Changed, Found, Testing, Ending
<1>19. CASE End
  BY <1>0, <1>19, OwnDevice DEF End, Changed, Found, Testing, Ending
<1>20. ASSUME NEW d \in DOMAIN vm, Boot(d) \/ Forget(d) \/ Lose(d)
       PROVE  EmulatorInv'
  BY <1>0, <1>20 DEF Boot, Forget, Lose, EmulatorInv, Changed, Found, Devices, Testing, Ending
<1>21. CASE UNCHANGED vars
  BY <1>21 DEF vars, EmulatorInv, Changed, Found, Devices
<1> QED
  BY <1>1, <1>2, <1>3, <1>4, <1>5, <1>6, <1>7, <1>8, <1>9, <1>10, <1>11, <1>12, <1>13,
     <1>14, <1>15, <1>16, <1>17, <1>18, <1>19, <1>20, <1>21 DEF Next, Command

-----------------------------------------------------------------------------
(* The results.                                                             *)

LEMMA AllPassed ==
  ASSUME NEW p, NEW D, NEW S
  PROVE  /\ {p} \X (1 .. MaxExample) \X D \subseteq S <=>
              \A e \in 1 .. MaxExample, d \in D : <<p, e, d>> \in S
         /\ {p} \X (1 .. MaxExample) \X D # {} <=> D # {}
<1> DEFINE E == 1 .. MaxExample
<1>1. 1 \in E
  BY BoundsAssumption
<1> HIDE DEF E
<1>2. {p} \X E \X D \subseteq S <=> \A e \in E, d \in D : <<p, e, d>> \in S
  OBVIOUS
<1>3. {p} \X E \X D # {} <=> D # {}
  <2>1. ASSUME NEW d \in D PROVE <<p, 1, d>> \in {p} \X E \X D
    BY <1>1
  <2> QED BY <2>1
<1> QED BY <1>2, <1>3 DEF E

\* What the result of package p must be.
Right(p) ==
  result[p] = "success" <=>
    /\ devices[p] # {} /\ p \notin aborted
    /\ \A e \in 1 .. MaxExample, d \in devices[p] : <<p, e, d>> \in passed

LEMMA ResultsRight ==
  ResultCountsFailures <=> \A p \in 1 .. MaxPackage : result[p] # "none" => Right(p)
  BY AllPassed DEF ResultCountsFailures, Right, Tests

\* A step within a test, which changes neither the position nor the outcome.
LEMMA InsideTest ==
  ASSUME RunInv, pc \in Testing, pc' \in Testing \cup {"tested"},
         UNCHANGED <<position, outcome>>,
         pc \in Ending => pc' \in Ending \cup {"tested"} /\ error' \in {error, "exception"},
         pc \notin Ending => pc' # "tested" /\ (pc' \in Ending => error' # "null")
  PROVE  RunInv'
<1> USE DEF RunInv, position, outcome
<1>1. TurnInv'
  BY DEF TurnInv, Testing, Ending
<1>2. PassedInv'
  BY DEF PassedInv, Over, Devices, Testing, Ending
<1>3. ErrorInv'
  BY DEF ErrorInv, Testing, Ending
<1>4. CountInv'
  BY DEF CountInv, Over, Testing, Ending
<1>5. FutureInv'
  BY DEF FutureInv, Devices, Testing, Ending
<1>6. ResultCountsFailures'
  BY DEF ResultCountsFailures, Tests
<1> QED BY <1>1, <1>2, <1>3, <1>4, <1>5, <1>6

\* The results stay right while those that are there do not change.
LEMMA ResultsKept ==
  ASSUME RunInv, NEW q \in 1 .. MaxPackage,
         \A p \in 1 .. MaxPackage \ {q} :
           /\ result'[p] = result[p] /\ devices'[p] = devices[p]
           /\ p \in aborted' <=> p \in aborted
           /\ \A e \in 1 .. MaxExample, d \in devices[p] :
                <<p, e, d>> \in passed' <=> <<p, e, d>> \in passed,
         result'[q] # "none" => Right(q)'
  PROVE  ResultCountsFailures'
<1>1. ASSUME NEW p \in 1 .. MaxPackage, result'[p] # "none"
      PROVE  Right(p)'
  <2>1. CASE p = q
    BY <1>1, <2>1
  <2>2. CASE p # q
    <3>1. Right(p)
      BY <1>1, <2>2, ResultsRight DEF RunInv
    <3> QED BY <1>1, <2>2, <3>1 DEF Right
  <2> QED BY <2>1, <2>2
<1> QED BY <1>1, AllPassed DEF ResultCountsFailures, Tests, Right

\* A package ends, with the right result.
LEMMA PackageEnds ==
  ASSUME TypeOK, RunInv, pc # "done", NEW r \in {"success", "fail"}, EndPackage(r),
         UNCHANGED <<mode, passed>>, ~autoCreated', ~autoLaunched',
         \A p \in 1 .. MaxPackage \ {package} : devices'[p] = devices[p],
         aborted' = aborted \/ aborted' = aborted \cup {package},
         r = "success" <=>
           /\ devices'[package] # {} /\ package \notin aborted'
           /\ \A e \in 1 .. MaxExample, d \in devices'[package] : <<package, e, d>> \in passed
  PROVE  RunInv'
<1>0. /\ package \in 1 .. MaxPackage /\ MaxPackage \in Nat /\ MaxExample \in Nat
      /\ result \in [1 .. MaxPackage -> {"none", "success", "fail"}]
      /\ result' = [result EXCEPT ![package] = r]
      /\ \/ package = MaxPackage /\ pc' = "done" /\ package' = package
         \/ package # MaxPackage /\ pc' = "find" /\ package' = package + 1
      /\ errors' = 0 /\ example' = 1 /\ todo' = {} /\ device' = None
  BY BoundsAssumption DEF TypeOK, EndPackage
<1>1. TurnInv'
  BY <1>0 DEF TurnInv, Testing, Ending
<1>2. PassedInv'
  BY <1>0 DEF PassedInv, RunInv, FutureInv, Devices
<1>3. ErrorInv'
  BY <1>0 DEF ErrorInv, Ending
<1>4. CountInv'
  BY <1>0 DEF CountInv, Over, Testing, Ending
<1>5. FutureInv'
  BY <1>0 DEF RunInv, FutureInv, Devices
<1>6. ResultCountsFailures'
  <2>1. ASSUME NEW q \in 1 .. MaxPackage, q = package PROVE Right(q)'
    BY <1>0, <2>1 DEF Right
  <2> QED BY <1>0, <2>1, ResultsKept
<1> QED BY <1>1, <1>2, <1>3, <1>4, <1>5, <1>6 DEF RunInv

LEMMA FirstExample == 1 \in 1 .. MaxExample /\ \A e \in 1 .. MaxExample : ~(e < 1)
  BY BoundsAssumption

\* Where no test of the package is over, none has passed.
LEMMA NoneOver ==
  ASSUME TypeOK, TurnInv, PassedInv, pc \in {"precache", "find", "pub get"}
  PROVE  /\ \A e \in 1 .. MaxExample, d \in Devices : ~Over(e, d) /\ <<package, e, d>> \notin passed
         /\ 1 \in 1 .. MaxExample
  BY FirstExample DEF TurnInv, PassedInv, Over, Testing, Ending

LEMMA OverNextExample ==
  ASSUME TypeOK, NextExample, NEW e \in 1 .. MaxExample, NEW d
  PROVE  Over(e, d)' <=> e <= example
<1>1. example \in 1 .. MaxExample /\ MaxExample \in Nat
  BY BoundsAssumption DEF TypeOK
<1> QED BY <1>1 DEF NextExample, Over, Testing, Ending

LEMMA PrecacheRun ==
  ASSUME TypeOK, RunInv, Precache
  PROVE  RunInv'
<1> USE DEF RunInv, Precache, position, test, outcome
<1>1. TurnInv' /\ ErrorInv'
  BY DEF TurnInv, ErrorInv, Testing, Ending
<1>2. PassedInv' /\ CountInv'
  BY NoneOver DEF TurnInv, PassedInv, CountInv, Over, Devices, Testing, Ending
<1>3. FutureInv'
  BY DEF FutureInv, Devices
<1>4. ResultCountsFailures'
  BY DEF ResultCountsFailures, Tests
<1> QED BY <1>1, <1>2, <1>3, <1>4

LEMMA FindDevicesRun ==
  ASSUME TypeOK, RunInv, FindDevices
  PROVE  RunInv'
<1>0. /\ pc = "find" /\ package \in 1 .. MaxPackage
      /\ devices \in [1 .. MaxPackage -> SUBSET Devices]
      /\ ~autoCreated' /\ ~autoLaunched' /\ UNCHANGED <<mode, passed, error>>
  BY DEF FindDevices, TypeOK, RunInv, TurnInv, Testing, Ending, test
<1>1. CASE EndPackage("fail") /\ Candidates = {} /\ UNCHANGED aborted
           /\ devices' = [devices EXCEPT ![package] = Candidates]
  BY <1>0, <1>1, PackageEnds
<1>2. CASE EndPackage("fail") /\ UNCHANGED devices /\ aborted' = aborted \cup {package}
  BY <1>0, <1>2, PackageEnds
<1>3. CASE /\ Candidates # {} /\ UNCHANGED aborted /\ pc' = "pub get"
           /\ devices' = [devices EXCEPT ![package] = Candidates]
           /\ UNCHANGED <<package, example, device, todo, errors, result>>
  <2> USE <1>0, <1>3 DEF RunInv
  <2>1. TurnInv' /\ ErrorInv'
    BY DEF TurnInv, ErrorInv, Testing, Ending
  <2>2. PassedInv'
    BY NoneOver DEF PassedInv, Devices
  <2>5. CountInv'
    BY FirstExample DEF TurnInv, CountInv, Over, Testing, Ending
  <2>3. FutureInv'
    BY DEF FutureInv, Devices
  <2>4. ResultCountsFailures'
    BY ResultsKept DEF FutureInv
  <2> QED BY <2>1, <2>2, <2>3, <2>4, <2>5
<1> QED BY <1>1, <1>2, <1>3 DEF FindDevices

LEMMA PubGetRun ==
  ASSUME TypeOK, RunInv, PubGet
  PROVE  RunInv'
<1>0. /\ pc = "pub get" /\ package \in 1 .. MaxPackage
      /\ devices[package] # {} /\ devices[package] \subseteq Devices
      /\ UNCHANGED <<mode, passed, error, devices, aborted, autoCreated, autoLaunched>>
      /\ ~autoCreated /\ ~autoLaunched
  BY DEF PubGet, TypeOK, RunInv, TurnInv, Testing, Ending, test
<1>1. CASE EndPackage("fail")
  BY <1>0, <1>1, NoneOver, PackageEnds DEF RunInv
<1>2. CASE pc' = "example" /\ UNCHANGED <<package, example, device, todo, errors, result>>
  <2> USE <1>0, <1>2 DEF RunInv
  <2>1. TurnInv' /\ ErrorInv'
    BY DEF TurnInv, ErrorInv, Testing, Ending
  <2>2. PassedInv' /\ CountInv'
    BY NoneOver DEF TurnInv, PassedInv, CountInv, Over, Devices, Testing, Ending
  <2>3. FutureInv'
    BY DEF FutureInv, Devices
  <2>4. ResultCountsFailures'
    BY DEF ResultCountsFailures, Tests
  <2> QED BY <2>1, <2>2, <2>3, <2>4
<1> QED BY <1>1, <1>2 DEF PubGet

LEMMA ExampleRun ==
  ASSUME TypeOK, RunInv, Example
  PROVE  RunInv'
<1>0. /\ pc = "example" /\ package \in 1 .. MaxPackage
      /\ example \in 1 .. MaxExample /\ MaxExample \in Nat /\ errors \in Nat
      /\ devices[package] # {} /\ devices[package] \subseteq Devices
      /\ UNCHANGED <<mode, devices, package, passed, aborted, result>>
      /\ UNCHANGED <<autoCreated, autoLaunched, error>> /\ ~autoCreated /\ ~autoLaunched
  BY BoundsAssumption DEF Example, TypeOK, RunInv, TurnInv, Testing, Ending, test
<1>1. ASSUME NEW e \in 1 .. MaxExample, NEW d PROVE Over(e, d) <=> e < example
  BY <1>0 DEF Over, Testing, Ending
<1>2. CASE errors' = errors + 1 /\ NextExample /\ UNCHANGED todo
  <2>1. /\ pc' \in {"clean", "example"} /\ errors' # 0
        /\ \A e \in 1 .. MaxExample : \A d : Over(e, d)' <=> e <= example
    BY <1>0, <1>2, OverNextExample DEF NextExample
  <2>2. TurnInv' /\ ErrorInv'
    BY <1>0, <2>1 DEF TurnInv, ErrorInv, Testing, Ending
  <2>3. PassedInv'
    BY <1>0, <1>1, <2>1 DEF RunInv, PassedInv, Devices, Testing, Ending
  <2>4. CountInv'
    <3>1. PICK d \in devices[package] : <<package, example, d>> \notin passed
      BY <1>0, <1>1 DEF RunInv, PassedInv, Ending
    <3> QED BY <1>0, <2>1, <3>1 DEF CountInv
  <2>5. FutureInv'
    BY <1>0, <2>1 DEF RunInv, FutureInv, Devices
  <2>6. ResultCountsFailures'
    BY <1>0 DEF RunInv, ResultCountsFailures, Tests
  <2> QED BY <2>2, <2>3, <2>4, <2>5, <2>6 DEF RunInv
<1>3. ASSUME NEW d \in devices[package], Turn(d), todo' = devices[package] \ {d},
             UNCHANGED <<example, errors>>
      PROVE  RunInv'
  <2>1. /\ pc' \in {"exists", "test"} /\ device' = d
        /\ \A e \in 1 .. MaxExample, c \in devices[package] : Over(e, c)' <=> e < example
        /\ \A e \in 1 .. MaxExample : \A c : e < example => Over(e, c)'
    BY <1>0, <1>3 DEF Turn, Over, Testing, Ending
  <2>2. TurnInv' /\ ErrorInv'
    BY <1>0, <1>3, <2>1 DEF TurnInv, ErrorInv, Testing, Ending
  <2>3. PassedInv'
    BY <1>0, <1>1, <2>1 DEF RunInv, PassedInv, Devices, Testing, Ending
  <2>4. CountInv'
    BY <1>0, <1>1, <1>3, <2>1 DEF RunInv, CountInv
  <2>5. FutureInv'
    BY <1>0, <2>1 DEF RunInv, FutureInv, Devices
  <2>6. ResultCountsFailures'
    BY <1>0 DEF RunInv, ResultCountsFailures, Tests
  <2> QED BY <2>2, <2>3, <2>4, <2>5, <2>6 DEF RunInv
<1> QED BY <1>2, <1>3 DEF Example

LEMMA CleanRun ==
  ASSUME TypeOK, RunInv, Clean
  PROVE  RunInv'
<1>0. /\ pc = "clean" /\ package \in 1 .. MaxPackage /\ devices[package] # {}
      /\ UNCHANGED <<mode, devices, passed, aborted>> /\ package \notin aborted
      /\ ~autoCreated' /\ ~autoLaunched'
  BY DEF Clean, TypeOK, RunInv, TurnInv, FutureInv, Testing, Ending, test
<1>1. errors = 0 <=> \A e \in 1 .. MaxExample, d \in devices[package] : <<package, e, d>> \in passed
  BY <1>0 DEF RunInv, CountInv, Over
<1>2. CASE errors = 0
  BY <1>0, <1>1, <1>2, PackageEnds DEF Clean
<1>3. CASE errors # 0
  BY <1>0, <1>1, <1>3, PackageEnds DEF Clean
<1> QED BY <1>2, <1>3

LEMMA AbortRun ==
  ASSUME TypeOK, RunInv, Abort
  PROVE  RunInv'
  BY PackageEnds DEF Abort, Reset

LEMMA EndRun ==
  ASSUME TypeOK, RunInv, End
  PROVE  RunInv'
<1>0. /\ pc = "run" /\ pc' = "close" /\ package \in 1 .. MaxPackage
      /\ UNCHANGED <<mode, devices, package, example, device, todo, errors, aborted, result>>
      /\ UNCHANGED <<autoCreated, autoLaunched>>
      /\ \/ error' = "null" /\ passed' = passed \cup {<<package, example, device>>}
         \/ error' = "failed" /\ passed' = passed
      /\ result[package] = "none"
      /\ device \in devices[package] /\ devices[package] \subseteq Devices
      /\ example \in 1 .. MaxExample
  BY DEF End, TypeOK, RunInv, TurnInv, FutureInv, position, Testing, Ending
<1>1. ASSUME NEW e, NEW d PROVE Over(e, d)' <=> Over(e, d)
  BY <1>0 DEF Over, Testing, Ending
<1>2. ~Over(example, device)
  BY <1>0 DEF Over, TypeOK
<1>3. TurnInv' /\ ErrorInv'
  BY <1>0 DEF RunInv, TurnInv, ErrorInv, Testing, Ending
<1>4. PassedInv'
  BY <1>0, <1>1 DEF RunInv, PassedInv, Devices, Testing, Ending
<1>5. CountInv'
  BY <1>0, <1>1, <1>2 DEF RunInv, CountInv
<1>6. FutureInv'
  BY <1>0 DEF RunInv, FutureInv, Devices, TypeOK
<1>7. ResultCountsFailures'
  BY <1>0, ResultsKept
<1> QED BY <1>3, <1>4, <1>5, <1>6, <1>7 DEF RunInv

LEMMA RetryRun ==
  ASSUME TypeOK, RunInv, Retry
  PROVE  RunInv'
<1> USE DEF RunInv, Retry, Turn, Reset, outcome
<1>1. ASSUME NEW e, NEW d PROVE Over(e, d)' <=> Over(e, d)
  BY DEF Over, Testing, Ending
<1>2. TurnInv' /\ ErrorInv'
  BY DEF TurnInv, ErrorInv, Testing, Ending
<1>3. PassedInv'
  BY <1>1 DEF PassedInv, Devices
<1>4. CountInv'
  BY <1>1 DEF CountInv
<1>5. FutureInv' /\ ResultCountsFailures'
  BY DEF FutureInv, Devices, ResultCountsFailures, Tests
<1> QED BY <1>2, <1>3, <1>4, <1>5

LEMMA RecordRun ==
  ASSUME TypeOK, RunInv, Record
  PROVE  RunInv'
<1>0. /\ pc = "tested" /\ package \in 1 .. MaxPackage /\ errors \in Nat
      /\ example \in 1 .. MaxExample /\ MaxExample \in Nat
      /\ device \in devices[package] /\ devices[package] \subseteq Devices
      /\ todo \subseteq devices[package] \ {device}
      /\ errors' = IF error = "null" THEN errors ELSE errors + 1
      /\ error \in {"null", "failed"}
      /\ UNCHANGED <<mode, devices, package, passed, aborted, result>>
      /\ ~autoCreated' /\ ~autoLaunched' /\ error' = "null"
  BY BoundsAssumption DEF Record, Reset, TypeOK, RunInv, TurnInv, Testing, Ending
<1>1. ASSUME NEW e \in 1 .. MaxExample, NEW d \in devices[package]
      PROVE  Over(e, d) <=> e < example \/ (e = example /\ d \notin todo \cup {device})
  BY <1>0 DEF Over, Testing
<1>2. <<package, example, device>> \in passed <=> error = "null"
  <2>1. ~Over(example, device)
    BY <1>0, <1>1
  <2>2. <<package, example, device>> \in passed => error # "failed"
    BY <1>0, <2>1 DEF RunInv, PassedInv
  <2>3. error = "null" => <<package, example, device>> \in passed
    BY <1>0 DEF RunInv, ErrorInv
  <2> QED BY <1>0, <2>2, <2>3
<1>3. ASSUME pc' \notin {"done"} \cup Ending,
             \A e \in 1 .. MaxExample, d \in devices[package] :
               Over(e, d)' <=> e < example \/ (e = example /\ d \notin todo),
             \A e \in 1 .. MaxExample : \A d : e < example \/ (e = example /\ d \notin todo) => Over(e, d)'
      PROVE  PassedInv' /\ CountInv'
  <2>1. PassedInv'
    BY <1>0, <1>1, <1>3 DEF RunInv, PassedInv, Devices, Over, Testing, Ending
  <2>2. (\A e \in 1 .. MaxExample, d \in devices[package] : Over(e, d)' => <<package, e, d>> \in passed)
        <=> /\ <<package, example, device>> \in passed
            /\ \A e \in 1 .. MaxExample, d \in devices[package] : Over(e, d) => <<package, e, d>> \in passed
    BY <1>0, <1>1, <1>3
  <2>3. CountInv'
    BY <1>0, <1>2, <2>2 DEF RunInv, CountInv
  <2> QED BY <2>1, <2>3
<1>4. FutureInv' /\ ResultCountsFailures'
  BY <1>0 DEF RunInv, FutureInv, Devices, ResultCountsFailures, Tests, Record, NextTest, NextExample, Turn
<1>5. CASE todo = {} /\ NextExample /\ UNCHANGED todo
  <2>1. /\ pc' \in {"clean", "example"}
        /\ \A e \in 1 .. MaxExample : \A d : Over(e, d)' <=> e <= example
    BY <1>5, OverNextExample DEF NextExample
  <2>2. PassedInv' /\ CountInv'
    BY <1>0, <1>3, <1>5, <2>1 DEF Ending
  <2>3. TurnInv' /\ ErrorInv'
    BY <1>0, <2>1 DEF TurnInv, ErrorInv, Testing, Ending
  <2> QED BY <1>4, <2>2, <2>3 DEF RunInv
<1>6. ASSUME NEW d \in todo, Turn(d), todo' = todo \ {d}, UNCHANGED example
      PROVE  RunInv'
  <2>1. /\ pc' \in {"exists", "test"} /\ device' = d
        /\ \A e \in 1 .. MaxExample : \A c :
              Over(e, c)' <=> e < example \/ (e = example /\ c \notin todo)
    BY <1>6 DEF Turn, Over, Testing, Ending
  <2>2. PassedInv' /\ CountInv'
    BY <1>3, <2>1 DEF Ending
  <2>3. TurnInv' /\ ErrorInv'
    BY <1>0, <1>6, <2>1 DEF TurnInv, ErrorInv, Testing, Ending
  <2> QED BY <1>4, <2>2, <2>3 DEF RunInv
<1> QED BY <1>5, <1>6 DEF Record, NextTest

LEMMA NextRun ==
  ASSUME TypeOK, RunInv, [Next]_vars
  PROVE  RunInv'
<1>1. CASE Exists
  BY <1>1, InsideTest DEF Exists, Throw, test, Testing, Ending
<1>2. CASE Create
  BY <1>2, InsideTest DEF Create, Throw, test, Testing, Ending
<1>3. CASE Connected
  BY <1>3, InsideTest DEF Connected, Throw, test, Testing, Ending
<1>4. CASE Launch
  BY <1>4, InsideTest DEF Launch, Throw, test, Testing, Ending
<1>5. CASE Poll
  BY <1>5, InsideTest DEF Poll, Throw, test, Testing, Ending
<1>6. CASE Start
  BY <1>6, InsideTest DEF Start, Throw, test, Testing, Ending
<1>7. CASE Timeout
  BY <1>7, InsideTest DEF Timeout, test, Testing, Ending
<1>8. CASE Close
  BY <1>8, InsideTest DEF Close, test, Testing, Ending
<1>9. CASE Closed
  BY <1>9, InsideTest DEF Closed, test, Testing, Ending
<1>10. CASE Delete
  BY <1>10, InsideTest DEF Delete, test, Testing, Ending
<1>11. CASE UNCHANGED <<pc, position, test, outcome>>
  <2> USE <1>11 DEF RunInv, position, test, outcome, Testing, Ending
  <2>1. TurnInv' /\ ErrorInv'
    BY DEF TurnInv, ErrorInv
  <2>2. PassedInv' /\ CountInv'
    BY DEF PassedInv, CountInv, Over, Devices
  <2>3. FutureInv' /\ ResultCountsFailures'
    BY DEF FutureInv, Devices, ResultCountsFailures, Tests
  <2> QED BY <2>1, <2>2, <2>3
<1>12. ASSUME NEW d \in DOMAIN vm, Boot(d) \/ Forget(d) \/ Lose(d)
       PROVE  UNCHANGED <<pc, position, test, outcome>>
  BY <1>12 DEF Boot, Forget, Lose
<1>13. UNCHANGED vars => UNCHANGED <<pc, position, test, outcome>>
  BY DEF vars
<1> QED
  BY <1>1, <1>2, <1>3, <1>4, <1>5, <1>6, <1>7, <1>8, <1>9, <1>10, <1>11, <1>12, <1>13,
     PrecacheRun, FindDevicesRun, PubGetRun, ExampleRun, CleanRun, AbortRun, EndRun,
     RetryRun, RecordRun DEF Next, Command

-----------------------------------------------------------------------------
(* The theorems.                                                            *)

LEMMA InitInv == Init => IInv
<1> SUFFICES ASSUME Init PROVE IInv
  OBVIOUS
<1>1. EmulatorInv
  BY DEF Init, EmulatorInv, Testing, Ending, Devices, Found
<1>2. TurnInv /\ PassedInv /\ ErrorInv
  BY DEF Init, TurnInv, PassedInv, ErrorInv, Testing, Ending
<1>3. CountInv
  BY FirstExample DEF Init, CountInv, Over, Testing, Ending
<1>4. FutureInv /\ ResultCountsFailures
  BY DEF Init, FutureInv, ResultCountsFailures
<1> QED BY InitType, <1>1, <1>2, <1>3, <1>4 DEF IInv, RunInv

\* IInv holds in every state: each emulator is where the flags of the finally block
\* say, and errors tells of the tests that are over (runForPackage, runIntegrationTest).
THEOREM Invariance == Spec => []IInv
<1>1. IInv /\ [Next]_vars => IInv'
  BY NextType, NextEmulator, NextRun DEF IInv, RunInv
<1> QED BY InitInv, <1>1, PTL DEF Spec

\* Every variable has its type.
THEOREM TypeCorrect == Spec => []TypeOK
<1>1. IInv => TypeOK
  BY DEF IInv
<1> QED BY Invariance, <1>1, PTL

\* The finally block undoes what the try block did, for any number of devices, examples
\* and packages, whatever step fails.
THEOREM EmulatorsAsFound == Spec => []LeavesEmulatorsAsFound
<1>1. TypeOK /\ EmulatorInv => LeavesEmulatorsAsFound
  BY DEF TypeOK, EmulatorInv, LeavesEmulatorsAsFound, Testing, Ending
<1>2. IInv => LeavesEmulatorsAsFound
  BY <1>1 DEF IInv
<1> QED BY Invariance, <1>2, PTL

\* A package succeeds just if all of its tests have passed and no exception came.
THEOREM ResultsCountFailures == Spec => []ResultCountsFailures
<1>1. IInv => ResultCountsFailures
  BY DEF IInv, RunInv
<1> QED BY Invariance, <1>1, PTL

-----------------------------------------------------------------------------
(* The command advances: the part of RunEnds that needs no fairness.        *)

\* The stages of a package, and the steps of a test.
Stage(at) ==
  IF at = "precache" THEN 0 ELSE IF at = "find" THEN 1 ELSE IF at = "pub get" THEN 2
  ELSE IF at = "clean" THEN 4 ELSE IF at = "done" THEN 5 ELSE 3

Step(at) ==
  IF at = "exists" THEN 1 ELSE IF at = "create" THEN 2 ELSE IF at = "connected" THEN 3
  ELSE IF at = "launch" THEN 4 ELSE IF at = "poll" THEN 5 ELSE IF at = "test" THEN 6
  ELSE IF at = "run" THEN 7 ELSE IF at = "close" THEN 8 ELSE IF at = "closed" THEN 9
  ELSE IF at = "delete" THEN 10 ELSE 11

\* The next run of the test, its next step, or its timeout.
TestAdvances ==
  \/ try' > try
  \/ try' = try /\ Step(pc') > Step(pc)
  \/ try' = try /\ pc' = pc /\ timedOut' /\ ~timedOut

\* The next example, the example's first device, its next device, or the test of
\* this one.
ExampleAdvances ==
  \/ example' > example
  \/ /\ example' = example /\ pc' # "example"
     /\ \/ pc = "example"
        \/ todo' \subseteq todo /\ todo' # todo
        \/ todo' = todo /\ TestAdvances

\* The next package, its next stage, one more attempt, or an example of it.
Advances ==
  \/ package' > package
  \/ package' = package /\ Stage(pc') > Stage(pc)
  \/ package' = package /\ pc = "precache" /\ pc' = pc /\ attempt' > attempt
  \/ package' = package /\ Stage(pc) = 3 /\ Stage(pc') = 3 /\ ExampleAdvances

\* Each step of the command, and the end of a test's process, advances; the devices
\* do not move the command.  All that is counted is bounded.
CommandAdvances ==
  [][IF Command \/ End THEN Advances
     ELSE UNCHANGED <<pc, package, attempt, example, todo, try, timedOut>>]_vars

\* What the steps have in common: the package ends, or an example, or a test starts.
LEMMA Bounded ==
  ASSUME TypeOK
  PROVE  package \in Nat /\ example \in Nat /\ attempt \in Nat /\ try \in Nat
<1>1. /\ package \in 1 .. MaxPackage /\ example \in 1 .. MaxExample
      /\ attempt \in 1 .. 5 /\ try \in 1 .. 2
  BY DEF TypeOK
<1> QED BY <1>1, BoundsAssumption

LEMMA PackageAdvances ==
  ASSUME TypeOK, NEW r, EndPackage(r), pc # "done"
  PROVE  Advances
<1>1. package \in Nat
  BY Bounded
<1>2. CASE package' = package + 1
  BY <1>1, <1>2 DEF Advances
<1>3. CASE UNCHANGED package /\ pc' = "done"
  BY <1>3 DEF Advances, Stage
<1> QED BY <1>2, <1>3 DEF EndPackage

LEMMA NextExampleAdvances ==
  ASSUME TypeOK, NextExample, UNCHANGED package, pc \in {"example", "tested"}
  PROVE  Advances
<1>1. CASE pc' = "clean"
  <2>1. Stage(pc) = 3 /\ Stage(pc') = 4
    BY <1>1 DEF Stage
  <2> QED BY <2>1 DEF Advances
<1>2. CASE pc' = "example" /\ example' = example + 1
  <2>1. example' > example
    BY <1>2, Bounded
  <2>2. Stage(pc) = 3 /\ Stage(pc') = 3
    BY <1>2 DEF Stage
  <2> QED BY <2>1, <2>2 DEF Advances, ExampleAdvances
<1> QED BY <1>1, <1>2 DEF NextExample

\* A step inside a test goes to a later one.
LEMMA StepAdvances ==
  ASSUME UNCHANGED <<package, example, todo, try>>,
         pc \in Testing \cup {"tested"}, pc' \in Testing \cup {"tested"}, Step(pc') > Step(pc)
  PROVE  Advances
BY DEF Advances, ExampleAdvances, TestAdvances, Testing, Ending, Stage

LEMMA CommandStep ==
  ASSUME TypeOK, Command \/ End
  PROVE  Advances
<1>1. CASE Precache
  BY <1>1, Bounded DEF Precache, test, outcome, Advances, Stage
<1>2. CASE FindDevices
  <2>1. CASE EndPackage("fail")
    BY <1>2, <2>1, PackageAdvances DEF FindDevices
  <2>2. CASE pc' = "pub get" /\ UNCHANGED package
    <3>1. Stage(pc) = 1 /\ Stage(pc') = 2
      BY <1>2, <2>2 DEF FindDevices, Stage
    <3>2. Stage(pc') > Stage(pc)
      BY <3>1
    <3> QED BY <2>2, <3>2 DEF Advances
  <2> QED BY <1>2, <2>1, <2>2 DEF FindDevices
<1>3. CASE PubGet
  <2>1. CASE EndPackage("fail")
    BY <1>3, <2>1, PackageAdvances DEF PubGet
  <2>2. CASE pc' = "example" /\ UNCHANGED package
    <3>1. Stage(pc) = 2 /\ Stage(pc') = 3
      BY <1>3, <2>2 DEF PubGet, Stage
    <3>2. Stage(pc') > Stage(pc)
      BY <3>1
    <3> QED BY <2>2, <3>2 DEF Advances
  <2> QED BY <1>3, <2>1, <2>2 DEF PubGet
<1>4. CASE Example
  <2>1. CASE NextExample
    BY <1>4, <2>1, NextExampleAdvances DEF Example
  <2>2. CASE pc' \in {"exists", "test"} /\ UNCHANGED example
    BY <1>4, <2>2 DEF Example, Advances, ExampleAdvances, Stage
  <2> QED BY <1>4, <2>1, <2>2 DEF Example, Turn
<1>5. CASE Clean
  BY <1>5, PackageAdvances DEF Clean
<1>6. CASE Exists \/ Create \/ Connected \/ Launch \/ Poll \/ Start
  <2>1. UNCHANGED <<package, example, todo, try>>
    BY <1>6 DEF Exists, Create, Connected, Launch, Poll, Start, position
  <2>2. pc \in Testing /\ pc' \in Testing /\ Step(pc') > Step(pc)
    BY <1>6 DEF Exists, Create, Connected, Launch, Poll, Start, Throw, Testing, Ending, Step
  <2> QED BY <2>1, <2>2, StepAdvances
<1>7. CASE End \/ Close \/ Closed \/ Delete
  <2>1. UNCHANGED <<package, example, todo, try>>
    BY <1>7 DEF End, Close, Closed, Delete, position, test
  <2>2. /\ pc \in Testing /\ pc' \in Testing \cup {"tested"} /\ Step(pc') > Step(pc)
    BY <1>7 DEF End, Close, Closed, Delete, Testing, Ending, Step
  <2> QED BY <2>1, <2>2, StepAdvances
<1>8. CASE Timeout
  BY <1>8 DEF Timeout, position, Advances, ExampleAdvances, TestAdvances, Stage
<1>9. CASE Retry
  <2>1. /\ UNCHANGED <<package, example, todo>> /\ try' > try
        /\ pc = "tested" /\ pc' \in {"exists", "test"}
    BY <1>9 DEF Retry, Turn
  <2> QED BY <2>1 DEF Advances, ExampleAdvances, TestAdvances, Stage
<1>10. CASE Record
  <2>1. CASE NextExample
    BY <1>10, <2>1, NextExampleAdvances DEF Record
  <2>2. CASE /\ pc' \in {"exists", "test"} /\ UNCHANGED example
             /\ todo' \subseteq todo /\ todo' # todo
    BY <1>10, <2>2 DEF Record, Advances, ExampleAdvances, Stage
  <2> QED BY <1>10, <2>1, <2>2 DEF Record, NextTest, Turn
<1>11. CASE Abort
  BY <1>11, PackageAdvances DEF Abort
<1> QED BY <1>1, <1>2, <1>3, <1>4, <1>5, <1>6, <1>7, <1>8, <1>9, <1>10, <1>11 DEF Command

\* The command always advances.
THEOREM AlwaysAdvances == Spec => CommandAdvances
<1> DEFINE counted == <<pc, package, attempt, example, todo, try, timedOut>>
<1>1. TypeOK /\ [Next]_vars => [IF Command \/ End THEN Advances ELSE UNCHANGED counted]_vars
  <2>1. ASSUME NEW d \in DOMAIN vm, Boot(d) \/ Forget(d) \/ Lose(d)
        PROVE  UNCHANGED counted
    BY <2>1 DEF Boot, Forget, Lose, position, test
  <2> QED BY <2>1, CommandStep DEF Next
<1> QED BY <1>1, TypeCorrect, PTL DEF Spec, CommandAdvances
=============================================================================
