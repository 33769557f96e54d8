CONSTANTS
  r1 = r1
  n1 = n1
  Sends <- NoSends
  Requests <- NoSends
  NoSend = NoSend
  MaxStreams = 1
  MaxEvents = 1
SPECIFICATION FairLinkSpec
PROPERTY ClosedSessionEnds
CHECK_DEADLOCK FALSE
