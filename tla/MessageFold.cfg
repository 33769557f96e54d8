CONSTANTS
  MaxSessions = 1
  Cap = 2
  MaxClient = 2
  MaxServer = 1
  MaxNotices = 1
SPECIFICATION LogSpec
INVARIANT AnswersItsPeer
CHECK_DEADLOCK FALSE
