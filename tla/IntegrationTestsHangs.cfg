\* One package with one example, whose test may never end.
SPECIFICATION Spec
CONSTANTS
  e1 = e1
  e2 = e2
  d1 = d1
  None = None
  wearable = wearable
  tv = tv
  Generated <- MCGenerated
  Attached <- MCAttached
  Emulators <- MCEmulators
  Profile <- MCProfile
  Requested = {wearable}
  MaxPackage = 1
  MaxExample = 1
  MaxLosses = 0
PROPERTY TimedOutTestReturns
CHECK_DEADLOCK FALSE
