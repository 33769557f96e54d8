CONSTANTS
  s1 = s1
  s2 = s2
  e1 = e1
  o = o
  v1 = v1
  v2 = v2
  q1 = q1
  q2 = q2
  q3 = q3
  Ids = {s1}
  EnvKeys = {e1}
  OauthFields = {o}
  Values = {v1}
  Reqs = {q1, q2}
  Ops <- ConfigOps
  Seeds <- NoSeeds
  Absent = Absent
  Blank = Blank
  NoEntry = NoEntry
  Unknown = Unknown
  NoReq = NoReq
  MaxEdits = 0
  MaxFaults = 0
SYMMETRY ReqSymmetry
SPECIFICATION Spec
INVARIANTS
  ConfigSaveKeepsOauth
CHECK_DEADLOCK FALSE
