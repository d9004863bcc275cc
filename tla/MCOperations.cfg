SPECIFICATION SpecQuestion
CONSTANTS
  t1 = t1
  t2 = t2
  t3 = t3
  Treasuries = {t1, t2, t3}
  Grant <- OneOfEach
  InitialReserve <- TwoOfEach
  InitialWallet <- OneStable
  InitialMarket <- OneOfEach
  o1 = o1
  o2 = o2
  Terminals = {o1, o2}
  Gaps = {0, 12, 13}
  MaxRuns = 2
  MaxMishaps = 1
  MaxNonce = 12
INVARIANT OwnersGainNothing
INVARIANT OneGrantEach
INVARIANT NothingLeftOpen
INVARIANT EvidenceHolds
INVARIANT RecordedIsBuilt
CHECK_DEADLOCK FALSE
SYMMETRY Interchangeable
