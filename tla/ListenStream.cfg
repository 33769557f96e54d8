CONSTANTS
  u1 = u1
  u2 = u2
  Uris <- TwoUris
  NoUri = NoUri
  ListChange = TRUE
  MaxAttempts = 1
  MaxGen = 6
SYMMETRY Symmetry
SPECIFICATION Spec
INVARIANTS
  TypeOK
  FilterMirrorsSubscribed
  CurrentIsLive
  NoLeakedStream
  InactiveWhenEmpty
  AcknowledgedMeansStream
  NothingForgotten
PROPERTIES
  OnlyOwnRollback
  ConnectFollowsChannel
CHECK_DEADLOCK FALSE
