\* Three calls, every interleaving of their callbacks with later handlers.
SPECIFICATION Spec
CONSTANTS
  c1 = c1
  c2 = c2
  c3 = c3
  None = None
  Calls <- MCCalls
INVARIANTS
  TypeOK
  ReferenceAliveWhileCalling
  PopFindsItem
  OnlyQueueRetains
PROPERTIES
  CallsRepliedOnce
  CallsSettle
\* Dart may stop calling.
CHECK_DEADLOCK FALSE
