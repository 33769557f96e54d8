CONSTANTS
  r1 = r1
  r2 = r2
  n1 = n1
  Sends <- OneRequestOneNotification
  Requests <- OneRequest
  NoSend = NoSend
  MaxStreams = 2
  MaxEvents = 1
SPECIFICATION Spec
INVARIANTS
  TypeOK
  ConsumerIsOpen
  QueueIsLatest
  DeathIsKept
  OkMeansAnswered
CHECK_DEADLOCK FALSE
