\* Two tasks and three control calls.
SPECIFICATION Spec
CONSTANTS
  t1 = t1
  t2 = t2
  None = None
  Tasks <- MCTasks
  Handles <- MCHandles
  HandleOf <- MCHandleOf
  MaxControls = 3
INVARIANTS
  TypeOK
  CallbackFindsTask
  RegistryOwnsTasks
  OneOutcome
PROPERTY StartedTaskEnds
\* Dart may stop, and leave a transfer paused.
CHECK_DEADLOCK FALSE
