CONSTANTS
  r1 = r1
  n1 = n1
  Sends <- OneNotification
  Requests <- NoSends
  NoSend = NoSend
  MaxStreams = 1
  MaxEvents = 1
SPECIFICATION FairLinkSpec
PROPERTY AuthErrorDelivered
CHECK_DEADLOCK FALSE
