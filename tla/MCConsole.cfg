SPECIFICATION SpecQuestion
CONSTANTS
  w1 = w1
  w2 = w2
  old = old
  current = current
  new = new
  None = None
  a1 = a1
  a2 = a2
  Accounts = {a1, a2}
  Wallets = {w1, w2}
  Ttl = 2
  MaxClock = 4
  MaxRollback = 1
  MaxIssued = 2
  MaxRestarts = 1
  Treasuries = {old, current, new}
  Legacy = {old}
  Creator <- MCCreator
  Drafts <- MCDrafts
  f1 = f1
  f2 = f2
  Flows = {f1, f2}
  InitialRows <- MCRows
  MaxStarts = 2
  MaxDiscoveries = 1
  MaxMoves = 2
  MaxTransfers = 1
  WctcUnit = 1000
  PoolFeeBps = 30
  MaxUint128 = 100000
  SourceTxs = {}
  SourceChainKey = 1
  Observer = "observer"
  TwapWindow = 1800
  MaxProofAge = 2
  MaxConfirmGap = 2
  MinEpochLength = 60
  MaxEpochLength = 2592000
  Nothing = Nothing
  Settings <- MCSettings
  MaxHeight = 3
  MaxReorgs = 1
  MaxFailures = 1
INVARIANT AcceptedOnce
INVARIANT RepeatedOnlyIfOvertaken
INVARIANT ShownIsOwned
INVARIANT ValidatedIsAccepted
INVARIANT RunsFaithful
INVARIANT OrphanedIsGone
PROPERTY VerdictKept
CHECK_DEADLOCK FALSE
SYMMETRY Interchangeable
