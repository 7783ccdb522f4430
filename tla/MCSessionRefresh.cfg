CONSTANTS
  a1 = a1
  a2 = a2
  t1 = t1
  t2 = t2
  t3 = t3
  f1 = f1
  f2 = f2
  p1 = p1
  p2 = p2
  p3 = p3
  None = None
  Account <- Accounts
  Token <- Tokens2
  Flight <- Flights2
  Proc <- Procs3
  Role <- RoleRefresh
  MaxEpoch = 3
SPECIFICATION Spec
SYMMETRY Symmetry
CHECK_DEADLOCK FALSE
INVARIANTS TypeOK CredentialsServeTheirOwner SingleFlight
PROPERTIES ClosedIsFinal
