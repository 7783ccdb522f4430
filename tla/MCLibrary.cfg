CONSTANTS
  a1 = a1
  a2 = a2
  guest = guest
  c1 = c1
  c2 = c2
  t1 = t1
  t2 = t2
  d1 = d1
  d2 = d2
  r1 = r1
  r2 = r2
  None = None
  NoCursor = NoCursor
  Account <- Accounts
  Guest <- guest
  Kind = {"subscriptions", "episodes", "updates"}
  Item <- Items
  Cursor <- Cursors
  Task <- Tasks
  Podcast = {1}
  Adder <- Adders
  Press <- Presses
  PageLimit = 4
  ItemLimit = 2
  SnapshotLimit = 1
  AttemptLimit = 2
  MaxEpoch = 3
  MaxRevision = 2
  MaxCancel = 1
SPECIFICATION MCSpec
SYMMETRY Symmetry
CHECK_DEADLOCK FALSE
INVARIANTS PersistedListIsOneListing LoadingEnds SnapshotIsWhatIsShown ReceiptsAreTrue OneAdditionPerClick
PROPERTIES ReceiptsOutliveOldLists OldListsAreNotKept
