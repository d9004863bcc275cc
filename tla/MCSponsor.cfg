SPECIFICATION FairSpec
CONSTANTS
  s1 = s1
  s2 = s2
  w1 = w1
  w2 = w2
  w3 = w3
  Servers = {s1, s2}
  Wallets = {w1, w2}
  Target = 3
  MinBalance = 2
  MaxTopUp = 3
  DailyBudget = 5
  Cooldown = 2
  Retention = 3
  DayLength = 2
  MaxClock = 4
  MaxRollback = 1
  MaxRequests = 2
  MaxFaults = 1
INVARIANT ChargedWithinBudget
INVARIANT SentIsAccounted
INVARIANT CooldownKept
PROPERTY RequestsAnswered
CHECK_DEADLOCK FALSE
