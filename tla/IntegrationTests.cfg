\* Two packages with two examples, on a generated emulator or on attached devices.
SPECIFICATION Spec
CONSTANTS
  e1 = e1
  e2 = e2
  d1 = d1
  None = None
  wearable = wearable
  tv = tv
  Generated <- MCGenerated
  Attached <- MCAttached
  Emulators <- MCEmulators
  Profile <- MCProfile
  Requested = {wearable}
  MaxPackage = 2
  MaxExample = 2
  MaxLosses = 1
INVARIANTS
  TypeOK
  LeavesEmulatorsAsFound
  ResultCountsFailures
PROPERTY RunEnds
\* The command ends.
CHECK_DEADLOCK FALSE
