CONSTANTS
  a1 = a1
  a2 = a2
  Agents = {a1}
  SourceTxs <- Chain5
  SourceChainKey = 1
  Observer = "observer"
  TwapWindow = 1800
  MaxProofAge = 2
  MaxConfirmGap = 2
  WctcUnit = 10
  PoolFeeBps = 30
  MaxUint128 = 100000
  MinEpochLength = 1
  MaxEpochLength = 4
  Policies <- EvaluationPolicies
  Proposals <- EvaluationProposals
  ProofPairs <- GatePairs
  Markets <- PricingMarkets
  Deposits = {660}
  Exits = {}
  Surplus = {0, 30}
  InitialBalance <- ReplayBalance
  DayLength = 3
  Horizon = 2
  InitialHeight = 0
  Lifecycles = {}
  MaxTime = 3
  MaxHeight = 5
  MaxAttempts = 2
  MaxPolicyEpoch = 1
  MaxBalance = 2000
SPECIFICATION EvaluationSpec
INVARIANT VerifiedEvidenceIsGenuine
PROPERTY ExecutedWhileFresh
INVARIANT TypeOK
INVARIANT StrategiesNeverOppose
PROPERTY RiskSaleKeepsLimit
CHECK_DEADLOCK FALSE
