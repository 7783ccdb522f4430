CONSTANTS
  a1 = a1
  a2 = a2
  e1 = e1
  e2 = e2
  x = x
  y = y
  k1 = k1
  k2 = k2
  p1 = p1
  p2 = p2
  None = None
  Account <- Accounts1
  Episode <- Episodes1
  Pos <- Positions2
  Token <- Tokens2
  Proc <- Procs1
  Role <- RolePage
  Event = {"device"}
  Window = 1
  Ahead = 1
  MaxTime = 3
  MaxRevision = 2
  MaxEpoch = 2
  MaxLate = 0
  MaxForeign = 2
SPECIFICATION Spec
SYMMETRY Symmetry
CHECK_DEADLOCK FALSE
PROPERTIES ConflictIsInCloud
