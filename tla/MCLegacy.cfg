SPECIFICATION SpecWatched
CONSTANTS
  t1 = t1
  t2 = t2
  None = None
  Tenants = {t1, t2}
  Files <- MCFiles
  TreasuryAddress = t1
  Guardrails <- MCGuardrails
  PriceContract = "priceContract"
  Observations <- MCObservations
  DestPrices = {990, 1030}
  Lookback = 2
  ConfirmGap = 1
  Window = 1
  LocalEstimate = 80
  MaxHeight = 3
  MaxLag = 1
  MaxAnswers = 2
  MaxEpoch = 1
INVARIANT OncePerFact
INVARIANT ExecutionsExplained
CHECK_DEADLOCK FALSE
