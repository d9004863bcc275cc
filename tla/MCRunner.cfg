SPECIFICATION FairSpec
CONSTANTS
  t1 = t1
  t2 = t2
  Treasuries = {t1, t2}
  Offers <- MCOffers
  DailyBudget = 2
  MaxJitRebuilds = 3
  Days = {0, 1}
  MaxCycles = 1
  MaxEpoch = 1
  MaxFailures = 1
  MaxRestarts = 1
INVARIANT RejectedOnlyIfOvertaken
INVARIANT WritesSerialized
PROPERTY CycleEnds
CHECK_DEADLOCK FALSE
