CONSTANTS
  MaxSessions = 2
  Pages = 2
  MaxChanges = 2
  MaxSaves = 1
  MaxEvents = 3
  MaxTasks = 2
  Walks = 1
  MaxStirs = 2
  MaxNotes = 1
  Cap = 2
  MaxClient = 3
  MaxServer = 1
  MaxNotices = 1
  Peers = {p1, p2}
  p1 = p1
  p2 = p2
  MaxAttempts = 2
  MaxErrors = 1
  MaxCalls = 3
  Stored = 2
  Caps = {0, 1, 2}
  Scopes = {base, extra}
  Configured = {base}
  base = base
  extra = extra
  Challenges = {c1, c2}
  c1 = c1
  c2 = c2
  NoChallenge = NoChallenge
  Savers = {s1, s2, s3}
  s1 = s1
  s2 = s2
  s3 = s3
  MaxReloads = 2
SPECIFICATION StoresSpec
INVARIANTS
  StoresTypeOK
  ListMissesNothing
  ClearedStayGone
  CancelSticks
  InputIsLive
  NothingHidden
  MarksTheRefused
  NetworkIsRecent
  QueueIsDebt
  SessionOwnsItsRequests
  EndedIsPaid
  CloseIsNoticed
  PendingIsRedeemable
  SavedIsDurable
PROPERTIES
  NoStrayStatus
  SatisfiedIsGranted
CHECK_DEADLOCK FALSE
