CONSTANTS
  t1 = t1
  t2 = t2
  t3 = t3
  Treasuries = {t1, t2}
  Grant <- OneOfEach
  InitialReserve <- TwoOfEach
  InitialWallet <- Nothing
  InitialMarket <- OneOfEach
SPECIFICATION Spec
INVARIANT ClosedAssetsReturned
CHECK_DEADLOCK FALSE
