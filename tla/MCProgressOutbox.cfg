CONSTANTS
  a1 = a1
  a2 = a2
  e1 = e1
  e2 = e2
  x = x
  y = y
  k1 = k1
  k2 = k2
  p1 = p1
  p2 = p2
  None = None
  Account <- Accounts1
  Episode <- Episodes1
  Pos <- Positions2
  Token <- Tokens2
  Proc <- Procs2
  Role <- RoleOutbox
  Event = {"device", "crash", "fault", "timeout", "disable"}
  Window = 1
  Ahead = 1
  MaxTime = 3
  MaxRevision = 2
  MaxEpoch = 2
  MaxLate = 1
  MaxForeign = 1
SPECIFICATION Spec
SYMMETRY Symmetry
CHECK_DEADLOCK FALSE
INVARIANTS NoSilentOverwrite UploadsAreDue
PROPERTIES NoLostIntent SwitchedOffStops
