CONSTANTS
  r1 = r1
  n1 = n1
  Sends <- OneRequest
  Requests <- OneRequest
  NoSend = NoSend
  MaxStreams = 2
  MaxEvents = 1
SPECIFICATION LinkSpec
INVARIANTS
  LinkTypeOK
  WaitsMatchSends
PROPERTIES
  EventsInOrder
CHECK_DEADLOCK FALSE
