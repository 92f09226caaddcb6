--------------------------- MODULE IntegrationTests ---------------------------
(***************************************************************************)
(* tools/lib/src: the command integration-test, which runs the tests of    *)
(* packages on devices, one test after the other, and each a second time   *)
(* if it fails.  An emulator that is not there is created and launched for *)
(* a test, and closed and deleted after it, whatever the test did.  The    *)
(* emulators boot, shut down and vanish at their own pace; polling them    *)
(* ends after five minutes.                                                *)
(***************************************************************************)
EXTENDS Naturals

CONSTANTS
  Generated,   \* the emulators --generate-emulators names, one for each profile
  Attached,    \* the devices that are connected before the command
  None,        \* no device
  Emulators,   \* those of all these devices that are emulators
  Profile,     \* the profile of each attached device
  Requested,   \* the profiles of the command line or of the recipe
  MaxPackage,  \* how many packages the command is for
  MaxExample,  \* how many examples each of them has
  MaxLosses    \* bound: how many devices are lost while in use

ASSUME DevicesAssumption ==
  /\ Generated \subseteq Emulators
  /\ DOMAIN Profile = Attached
  /\ None \notin Generated \cup Attached

ASSUME BoundsAssumption ==
  MaxPackage \in Nat \ {0} /\ MaxExample \in Nat \ {0} /\ MaxLosses \in Nat

VARIABLES
  mode,        \* the devices to test on: "generate", "all" or "matching" ones
  devices,     \* devices[p]: those found for package p
  vm,          \* vm[d]: "none"; "off"; "booting", unknown to sdb yet; "offline" for
               \* sdb; "on"; "closing", with no process but still known to sdb
  losses,      \* how often a device was lost
  pc,          \* where the command is
  attempt,     \* attempts to get Tizen's artifacts
  package, example, device, try,   \* the test
  todo,        \* the devices the example is still to be tested on
  autoCreated, autoLaunched,       \* the flags of EmulatorDevice.runIntegrationTest
  timedOut,    \* the timeout of the test has expired
  error,       \* the error of the test, or "null"
  errors,      \* errors of the package
  passed,      \* the tests that passed, as <<package, example, device>>
  aborted,     \* the packages that ended with an exception
  result,      \* result[p]: of package p, or "none"
  left         \* the emulators that could not be put back

emulators == <<vm, losses, left>>
position  == <<mode, devices, attempt, package, example, device, todo>>
test      == <<try, autoCreated, autoLaunched, timedOut, error>>
outcome   == <<errors, passed, aborted, result>>
vars      == <<emulators, pc, position, test, outcome>>

\* The devices there are.
Devices == IF mode = "generate" THEN Generated ELSE Attached

Tests(p) == {p} \X (1 .. MaxExample) \X devices[p]

TypeOK ==
  /\ mode \in {"generate", "all", "matching"}
  /\ devices \in [1 .. MaxPackage -> SUBSET Devices]
  /\ vm \in [Devices -> {"none", "off", "booting", "offline", "on", "closing"}]
  /\ pc \in {"precache", "find", "pub get", "example", "exists", "create", "connected", "launch",
             "poll", "test", "run", "close", "closed", "delete", "tested", "clean", "done"}
  /\ attempt \in 1 .. 5 /\ losses \in 0 .. MaxLosses
  /\ package \in 1 .. MaxPackage /\ example \in 1 .. MaxExample
  /\ device \in Devices \cup {None} /\ todo \subseteq Devices /\ try \in 1 .. 2
  /\ autoCreated \in BOOLEAN /\ autoLaunched \in BOOLEAN /\ timedOut \in BOOLEAN
  /\ error \in {"null", "failed", "exception"}
  /\ errors \in Nat
  /\ passed \subseteq (1 .. MaxPackage) \X (1 .. MaxExample) \X Devices
  /\ aborted \subseteq 1 .. MaxPackage
  /\ result \in [1 .. MaxPackage -> {"none", "success", "fail"}]
  /\ left \subseteq Devices

\* What the emulators were before the command.
Found == IF mode = "generate" THEN "none" ELSE "on"

\* New emulators, or devices that are connected.
Init ==
  /\ mode \in {"generate", "all", "matching"}
  /\ devices = [p \in 1 .. MaxPackage |-> {}]
  /\ vm = [d \in Devices |-> Found]
  /\ losses = 0 /\ left = {}
  /\ pc = "precache" /\ attempt = 1
  /\ package = 1 /\ example = 1 /\ device = None /\ todo = {} /\ try = 1
  /\ autoCreated = FALSE /\ autoLaunched = FALSE /\ timedOut = FALSE /\ error = "null"
  /\ errors = 0 /\ passed = {} /\ aborted = {}
  /\ result = [p \in 1 .. MaxPackage |-> "none"]

\* Device.isConnected: sdb knows the device, and its process is there.
isConnected == vm[device] \in {"offline", "on"}

-----------------------------------------------------------------------------
(* The packages.                                                            *)

\* The command often fails, and has five attempts.
Precache ==
  /\ pc = "precache"
  /\ \/ pc' = "find" /\ UNCHANGED attempt
     \/ attempt < 5 /\ attempt' = attempt + 1 /\ UNCHANGED pc
     \/ attempt = 5 /\ pc' = "done" /\ UNCHANGED attempt
  /\ UNCHANGED <<emulators, mode, devices, package, example, device, todo, test, outcome>>

\* The package ends with result r, and the next one begins.
EndPackage(r) ==
  /\ result' = [result EXCEPT ![package] = r]
  /\ errors' = 0 /\ example' = 1 /\ device' = None /\ todo' = {}
  /\ IF package = MaxPackage THEN pc' = "done" /\ UNCHANGED package
                             ELSE pc' = "find" /\ package' = package + 1

\* Profile has no operator ==: contains compares the objects, and those that are made
\* of the arguments are not those made of what a device tells of itself.
Object(profile, of) == [profile |-> profile, of |-> of]
contains(profile) == profile \in {Object(p, "arguments") : p \in Requested}

\* The emulators to generate, or those of the attached devices that sdb knows now.
Candidates ==
  IF mode = "generate" THEN Generated
  ELSE {d \in Attached : /\ vm[d] \in {"offline", "on"}
                         /\ mode = "matching" => contains(Object(Profile[d], "device"))}

\* sdb or ps may fail, also for an emulator to generate, a profile may not be one, or a
\* device may tell too little of itself.
FindDevices ==
  /\ pc = "find"
  /\ \/ /\ devices' = [devices EXCEPT ![package] = Candidates]
        /\ IF Candidates = {} THEN EndPackage("fail")
           ELSE pc' = "pub get" /\ UNCHANGED <<package, example, device, todo, errors, result>>
        /\ UNCHANGED aborted
     \/ /\ aborted' = aborted \cup {package}
        /\ EndPackage("fail") /\ UNCHANGED devices
  /\ UNCHANGED <<emulators, mode, attempt, test, passed>>

\* A package without examples fails as well.
PubGet ==
  /\ pc = "pub get"
  /\ \/ pc' = "example" /\ UNCHANGED <<package, example, device, todo, errors, result>>
     \/ EndPackage("fail")
  /\ UNCHANGED <<emulators, mode, devices, attempt, test, passed, aborted>>

NextExample ==
  /\ device' = None
  /\ IF example = MaxExample THEN pc' = "clean" /\ UNCHANGED example
                             ELSE pc' = "example" /\ example' = example + 1

\* The test turns to device d.
Turn(d) == device' = d /\ pc' = IF d \in Emulators THEN "exists" ELSE "test"

\* An example without pubspec file or tests is an error, and is passed over.
Example ==
  /\ pc = "example"
  /\ \/ errors' = errors + 1 /\ NextExample /\ UNCHANGED todo
     \/ \E d \in devices[package] :
          Turn(d) /\ todo' = devices[package] \ {d} /\ UNCHANGED <<example, errors>>
  /\ UNCHANGED <<emulators, mode, devices, attempt, package, test, passed, aborted, result>>

\* Whether flutter-tizen clean works does not matter.
Clean ==
  /\ pc = "clean"
  /\ EndPackage(IF errors = 0 THEN "success" ELSE "fail")
  /\ UNCHANGED <<emulators, mode, devices, attempt, test, passed, aborted>>

-----------------------------------------------------------------------------
(* One test.                                                                *)

\* Mutant of Throw: there is no finally block.
ThrowOut == error' = "exception" /\ pc' = "tested"

\* Only the finally block comes after an exception.
Throw == error' = "exception" /\ pc' = "close"

Exists ==
  /\ pc = "exists"
  /\ \/ Throw /\ UNCHANGED autoCreated
     \/ /\ vm[device] = "none"
        /\ autoCreated' = TRUE /\ pc' = "create" /\ UNCHANGED error
     \/ /\ vm[device] # "none"
        /\ pc' = "connected" /\ UNCHANGED <<autoCreated, error>>
  /\ UNCHANGED <<emulators, position, try, autoLaunched, timedOut, outcome>>

Create ==
  /\ pc = "create"
  /\ \/ Throw /\ UNCHANGED vm
     \/ vm' = [vm EXCEPT ![device] = "off"] /\ pc' = "connected" /\ UNCHANGED error
  /\ UNCHANGED <<losses, left, position, try, autoCreated, autoLaunched, timedOut,
                 outcome>>

Connected ==
  /\ pc = "connected"
  /\ \/ Throw /\ UNCHANGED autoLaunched
     \/ isConnected /\ pc' = "test" /\ UNCHANGED <<autoLaunched, error>>
     \/ ~isConnected /\ pc' = "launch" /\ autoLaunched' = TRUE /\ UNCHANGED error
  /\ UNCHANGED <<emulators, position, try, autoCreated, timedOut, outcome>>

\* launch() looks again.  em-cli starts an emulator that is off, or fails.
Launch ==
  /\ pc = "launch"
  /\ \/ isConnected /\ pc' = "test" /\ UNCHANGED <<vm, error>>
     \/ Throw /\ UNCHANGED vm
     \/ /\ vm[device] = "off"
        /\ vm' = [vm EXCEPT ![device] = "booting"] /\ pc' = "poll" /\ UNCHANGED error
  /\ UNCHANGED <<losses, left, position, try, autoCreated, autoLaunched, timedOut,
                 outcome>>

\* Mutant of Poll: no timeout.
PollForever ==
  /\ pc = "poll"
  /\ vm[device] = "on" /\ pc' = "test"
  /\ UNCHANGED <<emulators, position, test, outcome>>

\* The emulator is up, or has not come up in time, or sdb failed.
Poll ==
  /\ pc = "poll"
  /\ \/ vm[device] = "on" /\ pc' = "test" /\ UNCHANGED error
     \/ Throw
  /\ UNCHANGED <<emulators, position, try, autoCreated, autoLaunched, timedOut, outcome>>

\* flutter-tizen starts the test, after an attempt to disable the permission popups.
Start ==
  /\ pc = "test"
  /\ \/ Throw
     \/ isConnected /\ pc' = "run" /\ UNCHANGED error
     \/ ~isConnected /\ pc' = "close" /\ error' = "failed"
  /\ UNCHANGED <<emulators, position, try, autoCreated, autoLaunched, timedOut, outcome>>

\* The timeout only makes a note; the process goes on.
Timeout ==
  /\ pc = "run" /\ ~timedOut
  /\ timedOut' = TRUE
  /\ UNCHANGED <<emulators, pc, position, try, autoCreated, autoLaunched, error, outcome>>

\* The output of the process ends, with a last line that tells what happened.
End ==
  /\ pc = "run"
  /\ \E line \in {"passed", "failed"} :
       IF line = "passed" /\ ~timedOut
         THEN /\ error' = "null"
              /\ passed' = passed \cup {<<package, example, device>>}
         ELSE error' = "failed" /\ UNCHANGED passed
  /\ timedOut' = FALSE
  /\ pc' = "close"
  /\ UNCHANGED <<emulators, position, try, autoCreated, autoLaunched, errors, aborted, result>>

\* close(), if the emulator was launched.  sdb, ps or kill may fail, which ends the
\* finally block.  An emulator that still boots looks closed.
Close ==
  /\ pc = "close"
  /\ \/ /\ autoLaunched
        /\ error' = "exception" /\ pc' = "tested" /\ left' = left \cup {device} /\ UNCHANGED vm
     \/ /\ autoLaunched /\ isConnected
        /\ vm' = [vm EXCEPT ![device] = "closing"] /\ pc' = "closed" /\ UNCHANGED <<error, left>>
     \/ /\ autoLaunched /\ ~isConnected
        /\ left' = IF vm[device] \in {"booting", "closing"} THEN left \cup {device} ELSE left
        /\ pc' = "delete" /\ UNCHANGED <<vm, error>>
     \/ /\ ~autoLaunched
        /\ pc' = "delete" /\ UNCHANGED <<vm, error, left>>
  /\ UNCHANGED <<losses, position, try, autoCreated, autoLaunched, timedOut, outcome>>

\* Polling until sdb has forgotten the emulator.
Closed ==
  /\ pc = "closed"
  /\ \/ vm[device] = "off" /\ pc' = "delete" /\ UNCHANGED <<error, left>>
     \/ error' = "exception" /\ pc' = "tested" /\ left' = left \cup {device}
  /\ UNCHANGED <<vm, losses, position, try, autoCreated, autoLaunched, timedOut, outcome>>

\* delete(), if the emulator was created.  em-cli deletes an emulator that is off, or
\* fails, which goes unnoticed.
Delete ==
  /\ pc = "delete"
  /\ \/ autoCreated /\ vm[device] = "off" /\ vm' = [vm EXCEPT ![device] = "none"] /\ UNCHANGED left
     \/ autoCreated /\ vm[device] # "none" /\ left' = left \cup {device} /\ UNCHANGED vm
     \/ (~autoCreated \/ vm[device] = "none") /\ UNCHANGED <<vm, left>>
  /\ pc' = "tested"
  /\ UNCHANGED <<losses, position, test, outcome>>

-----------------------------------------------------------------------------
(* After a test.                                                            *)

NextTest ==
  /\ try' = 1
  /\ \/ todo = {} /\ NextExample /\ UNCHANGED todo
     \/ \E d \in todo : Turn(d) /\ todo' = todo \ {d} /\ UNCHANGED example

Reset == autoCreated' = FALSE /\ autoLaunched' = FALSE /\ error' = "null"

\* Mutant of Retry: it goes on until the test passes.
RetryAgain ==
  /\ pc = "tested" /\ error = "failed"
  /\ try' = try + 1 /\ Turn(device) /\ UNCHANGED <<package, example, todo, mode, devices, attempt>>
  /\ Reset
  /\ UNCHANGED <<emulators, timedOut, outcome>>

Retry ==
  /\ pc = "tested" /\ error = "failed" /\ try = 1
  /\ try' = 2 /\ Turn(device) /\ UNCHANGED <<package, example, todo, mode, devices, attempt>>
  /\ Reset
  /\ UNCHANGED <<emulators, timedOut, outcome>>

\* Mutant of Record: the error of the second run is not kept.
RecordNothing ==
  /\ pc = "tested" /\ (error = "null" \/ (error = "failed" /\ try = 2))
  /\ NextTest /\ Reset
  /\ UNCHANGED <<emulators, mode, devices, attempt, package, timedOut, outcome>>

\* The error of the second run counts.
Record ==
  /\ pc = "tested" /\ (error = "null" \/ (error = "failed" /\ try = 2))
  /\ errors' = IF error = "null" THEN errors ELSE errors + 1
  /\ NextTest /\ Reset
  /\ UNCHANGED <<emulators, mode, devices, attempt, package, timedOut, passed, aborted, result>>

\* An exception ends runForPackage; the package fails.
Abort ==
  /\ pc = "tested" /\ error = "exception"
  /\ aborted' = aborted \cup {package}
  /\ EndPackage("fail")
  /\ try' = 1 /\ Reset
  /\ UNCHANGED <<emulators, mode, devices, attempt, timedOut, passed>>

Command ==
  \/ Precache \/ FindDevices \/ PubGet \/ Example \/ Clean
  \/ Exists \/ Create \/ Connected \/ Launch \/ Poll \/ Start \/ Timeout
  \/ Close \/ Closed \/ Delete \/ Retry \/ Record \/ Abort

-----------------------------------------------------------------------------
(* The devices.                                                             *)

Boot(d) ==
  /\ vm[d] \in {"booting", "offline"}
  /\ vm' = [vm EXCEPT ![d] = IF @ = "booting" THEN "offline" ELSE "on"]
  /\ UNCHANGED <<losses, left, pc, position, test, outcome>>

Forget(d) ==
  /\ vm[d] = "closing"
  /\ vm' = [vm EXCEPT ![d] = "off"]
  /\ UNCHANGED <<losses, left, pc, position, test, outcome>>

\* An emulator crashes, or a device is unplugged.
Lose(d) ==
  /\ losses < MaxLosses
  /\ vm[d] \in {"booting", "offline", "on"}
  /\ losses' = losses + 1
  /\ vm' = [vm EXCEPT ![d] = "off"]
  /\ left' = left \cup ({d} \cap Emulators)
  /\ UNCHANGED <<pc, position, test, outcome>>

Next == Command \/ End \/ \E d \in DOMAIN vm : Boot(d) \/ Forget(d) \/ Lose(d)

\* The command goes on.  Neither a test nor an emulator needs to get anywhere.
Spec == Init /\ [][Next]_vars /\ WF_vars(Command)

-----------------------------------------------------------------------------
(* Correctness.                                                             *)

\* When a test is over, failed, timed out or ended by an exception, each emulator is as
\* it was before the command, or one of its own steps has failed: the finally block of
\* EmulatorDevice.runIntegrationTest undoes what its try block did, however far it got.
LeavesEmulatorsAsFound ==
  pc \in {"tested", "done"} => \A d \in (Emulators \cap DOMAIN vm) \ left : vm[d] = Found

\* A package succeeds just if each of its tests has passed in time, in its first or
\* its second run, and no exception came between.
ResultCountsFailures ==
  \A p \in 1 .. MaxPackage : result[p] # "none" =>
    (result[p] = "success" <=> Tests(p) # {} /\ Tests(p) \subseteq passed /\ p \notin aborted)

\* "If [profiles] is passed, returns devices that match any of those profiles"
\* (integration_test_command.dart:279): a package is tested on the attached devices with
\* a requested profile, while none is lost and finding them does not fail.
FindsMatchingDevices ==
  mode = "matching" /\ losses = 0 =>
    \A p \in (1 .. MaxPackage) \ aborted : result[p] # "none" =>
      \A d \in Attached : Profile[d] \in Requested => d \in devices[p]

\* The command ends, even if no emulator ever boots or shuts down: only a test whose
\* process does not end can keep it (the timeout does not).
RunEnds == <>(pc = "done") \/ <>[](pc = "run")

\* Device.runIntegrationTest "Returns null if all tests have passed successfully before
\* [timeout], otherwise returns a string with the error details" (device.dart:115-116):
\* when the timeout has expired, the call returns.
TimedOutTestReturns == timedOut ~> pc # "run"
=============================================================================
