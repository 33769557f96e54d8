CONSTANTS
  r1 = r1
  n1 = n1
  Sends <- OneRequest
  Requests <- OneRequest
  NoSend = NoSend
  MaxStreams = 1
  MaxEvents = 1
SPECIFICATION FairLinkSpec
PROPERTIES
  SendsSettle
  DeathReachesBrowser
CHECK_DEADLOCK FALSE
