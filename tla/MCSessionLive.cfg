CONSTANTS
  a1 = a1
  a2 = a2
  t1 = t1
  t2 = t2
  t3 = t3
  f1 = f1
  f2 = f2
  p1 = p1
  p2 = p2
  p3 = p3
  None = None
  Account <- Account1
  Token <- Tokens2
  Flight <- Flights1
  Proc <- Procs2
  Role <- RoleLive
  MaxEpoch = 3
SPECIFICATION FairSpec
CHECK_DEADLOCK FALSE
PROPERTIES EverythingReturns
