CONSTANTS
  s1 = s1
  s2 = s2
  e1 = e1
  o = o
  v1 = v1
  v2 = v2
  q1 = q1
  q2 = q2
  q3 = q3
  Ids = {s1, s2}
  EnvKeys = {e1}
  OauthFields = {o}
  Values = {v1, v2}
  Reqs = {q1, q2, q3}
  Ops <- AllOps
  Seeds <- OneSeed
  Absent = Absent
  Blank = Blank
  NoEntry = NoEntry
  Unknown = Unknown
  NoReq = NoReq
  MaxEdits = 1
  MaxFaults = 2
SYMMETRY ReqSymmetry
SPECIFICATION EnvironmentSpec
INVARIANTS
  TypeOK
  BlankIsBacked
  CatalogShowsAcked
  NoOrphans
CHECK_DEADLOCK FALSE
