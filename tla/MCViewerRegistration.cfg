CONSTANTS
  i1 = i1
  i2 = i2
  Instances = {i1, i2}
  Mocks = {i1}
  Configured = i1
  Account = eoa
  Text = text
  Unset = unset
  MaxChanges = 2
  MaxSwitches = 2
  SourceTxs = {}
  SourceChainKey = 1
  Observer = "observer"
  TwapWindow = 1800
  MaxProofAge = 2
  MaxConfirmGap = 2
  WctcUnit = 1000
  SmallTrades = {1, 25, 40}
  PoolFeeBps = 30
  MaxUint128 = 100000
  MinEpochLength = 60
  MaxEpochLength = 2592000
  Views <- MCViews
  LaterViews <- MCLaterViews
  Evidence <- MCEvidence
  Answers <- MCAnswers
  MaxViewChanges = 1
  MaxCycles = 2
SPECIFICATION SpecQuestion
INVARIANT RegistrationIsItsOwn
CHECK_DEADLOCK FALSE
