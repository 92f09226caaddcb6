\* The attached devices with a requested profile are those that are tested on.
SPECIFICATION Spec
CONSTANTS
  e1 = e1
  e2 = e2
  d1 = d1
  None = None
  wearable = wearable
  tv = tv
  Generated <- MCGenerated
  Attached <- MCAttached
  Emulators <- MCEmulators
  Profile <- MCProfile
  Requested = {wearable}
  MaxPackage = 1
  MaxExample = 1
  MaxLosses = 1
INVARIANT FindsMatchingDevices
CHECK_DEADLOCK FALSE
