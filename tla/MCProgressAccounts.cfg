CONSTANTS
  a1 = a1
  a2 = a2
  e1 = e1
  e2 = e2
  x = x
  y = y
  k1 = k1
  k2 = k2
  p1 = p1
  p2 = p2
  None = None
  Account <- Accounts2
  Episode <- Episodes1
  Pos <- Positions2
  Token <- Tokens2
  Proc <- Procs2
  Role <- RoleUses
  Event = {"guest", "timeout", "logout", "reset", "device", "delete"}
  Window = 1
  Ahead = 1
  MaxTime = 1
  MaxRevision = 3
  MaxEpoch = 4
  MaxLate = 0
  MaxForeign = 2
SPECIFICATION Spec
CONSTRAINT Uses
SYMMETRY Symmetry
CHECK_DEADLOCK FALSE
INVARIANTS OperationsKeepApart
PROPERTIES ChoiceIsInformed
