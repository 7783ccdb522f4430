CONSTANTS
  api = api
  guest = guest
  a1 = a1
  m = m
  n = n
  v1 = v1
  v2 = v2
  None = None
  NoFile = NoFile
  Tombstone = Tombstone
  Call = {1, 2, 3}
  Host <- Hosts
  Slots = 2
  Attempts = 2
  Header <- Headers
  MaxWait = 2
  DefaultWait = 1
  Api = api
  Guest = guest
  Account <- Accounts
  Click = {1, 2}
  Comment <- CommentsRead
  Parent <- ThreadOf
  AttemptLimit = 2
  MaxGeneration = 2
  MaxEpoch = 3
  Closing = {1, 2}
  MaxSaves = 2
  Pair <- Pairs
  Owner <- Owners
  Nobody <- guest
  Entry <- Entries
  Bridge = {1, 2}
  EntryLimit = 2
  TermLimit = 2
  MaxEra = 3
  MaxReload = 2
SPECIFICATION MCSpec
CHECK_DEADLOCK FALSE
INVARIANTS SlotsAreReturned CommentsAreOrderly NeverDeniesWhatWasPosted ClosingLosesNothing LocalListsAreRight
PROPERTIES SearchesAnswerInOrder QuietInCooldown QuitCompletes SavesOrKeeps
