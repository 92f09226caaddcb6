\* Listening and canceling against events, two events for each stream.
SPECIFICATION Spec
CONSTANTS
  s1 = s1
  s2 = s2
  None = None
  Streams <- MCStreams
  EventType <- MCEventType
  MaxEvents = 2
INVARIANTS
  TypeOK
  RegisteredWhileListening
  SentAsReported
  ListenerOutlivesCallback
  HandlerRunsOnLiveStream
PROPERTIES
  StreamsKeepPromise
  CanceledStreamIsReleased
\* Dart may stop.
CHECK_DEADLOCK FALSE
