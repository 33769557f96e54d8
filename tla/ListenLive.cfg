CONSTANTS
  u1 = u1
  u2 = u2
  Uris <- OneUri
  NoUri = NoUri
  ListChange = FALSE
  MaxAttempts = 1
  MaxGen = 6
SPECIFICATION FairSpec
PROPERTY BadgeSettles
CHECK_DEADLOCK FALSE
