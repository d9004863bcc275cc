CONSTANTS
  a1 = a1
  a2 = a2
  Agents = {a1, a2}
  SourceTxs <- Chain
  SourceChainKey = 1
  Observer = "observer"
  TwapWindow = 1800
  MaxProofAge = 2
  MaxConfirmGap = 2
  WctcUnit = 10
  PoolFeeBps = 30
  MaxUint128 = 100000
  MinEpochLength = 1
  MaxEpochLength = 4
  Policies <- ExecutionPolicies
  Proposals <- ExecutionProposals
  ProofPairs <- ExecutionPairs
  Markets <- ReplayMarkets
  Deposits = {50}
  Exits = {110}
  Surplus = {0}
  InitialBalance <- ReplayBalance
  DayLength = 3
  Horizon = 3
  InitialHeight = 1
  Lifecycles = {TRUE, FALSE}
  MaxTime = 3
  MaxHeight = 3
  MaxAttempts = 3
  MaxPolicyEpoch = 3
  MaxBalance = 110
SYMMETRY Symmetry
SPECIFICATION ExecutionSpec
INVARIANT OneExecutionPerObservationPair
INVARIANT AuthorisedOnce
INVARIANT JournalMatchesCounters
INVARIANT DailyRiskBudget
PROPERTY ImplementsBoundedExecution
PROPERTY RevokedNeverExecutes
PROPERTY ClosedIsFinal
CHECK_DEADLOCK FALSE
