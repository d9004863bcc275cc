SPECIFICATION FairSpec
CONSTANTS
  t1 = t1
  t2 = t2
  t3 = t3
  Treasuries = {t1, t2, t3}
  FactoryFrom = 1
  LogChunk = 2
  MaxTenants = 2
  Lagging = FALSE
  MaxBlock = 3
  MaxFailures = 1
  MaxRestarts = 1
INVARIANT IndexComplete
PROPERTY EveryTreasuryServed
PROPERTY ImplementsRotation
