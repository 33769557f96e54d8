CONSTANTS
  u1 = u1
  u2 = u2
  Uris <- TwoUris
  NoUri = NoUri
  ListChange = FALSE
  MaxAttempts = 1
  MaxGen = 4
SPECIFICATION Spec
INVARIANT CurrentNotClobbered
CHECK_DEADLOCK FALSE
