CONSTANTS
  a1 = a1
  a2 = a2
  e1 = e1
  e2 = e2
  x = x
  y = y
  k1 = k1
  k2 = k2
  p1 = p1
  p2 = p2
  None = None
  Account <- Accounts1
  Episode <- Episodes2
  Pos <- Positions1
  Token <- Tokens2
  Proc <- Procs2
  Role <- RoleLive
  Event = {}
  Window = 1
  Ahead = 1
  MaxTime = 1
  MaxRevision = 1
  MaxEpoch = 2
  MaxLate = 0
  MaxForeign = 0
SPECIFICATION FairSpec
CHECK_DEADLOCK FALSE
PROPERTIES EverythingSettles
