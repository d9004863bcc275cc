------------------------------- MODULE MandateForm -------------------------------
(***************************************************************************)
(* The owner's mandate as the browser holds, validates and converts it     *)
(* (frontend/src/lib/policyUi.ts). Basis points, counts and lengths are    *)
(* what the number fields return: an integer, or NaN or a fraction (None). *)
(* An amount is its value in E6, or None for text that parseUnits refuses. *)
(***************************************************************************)
EXTENDS TreasuryPolicy

CONSTANT None

\* What the fields of the form may hold.
Number == Int \union {None}
MandateDraft ==
  [enabledStrategies : SUBSET Strategies, targetWctcBps : Number, toleranceBps : Number,
   maxWctcExposureBps : Number, maxActionValue : Number, maxSlippageBps : Number,
   minNetEdgeBps : Number, maxArbitrageValue : Number, maxRebalanceValue : Number,
   maxRiskReductionValue : Number, dailyRiskReductionValue : Number,
   maxSourceDriftBps : Number, maxSpotTwapDeviationBps : Number,
   maxAttemptsPerEpoch : Number, maxExecutionsPerEpoch : Number, epochLength : Number]

InRange(value, low, high) == value # None /\ low <= value /\ value <= high

\* parsePolicyAmountE6 returns.
ParsesAmount(amount) == InRange(amount, 1, MaxUint128)

FitsUint16(d) ==
  \A value \in {d.maxSlippageBps, d.maxSourceDriftBps, d.maxSpotTwapDeviationBps,
                d.minNetEdgeBps, d.targetWctcBps, d.toleranceBps, d.maxWctcExposureBps} :
    InRange(value, 0, MaxUint16)

ValidatesLimits(d) ==
  /\ d.enabledStrategies # {} /\ ParsesAmount(d.maxActionValue)
  /\ d.maxSlippageBps <= 1000
  /\ InRange(d.maxExecutionsPerEpoch, 1, MaxUint16)
  /\ InRange(d.maxAttemptsPerEpoch, 1, MaxUint16)
  /\ d.maxAttemptsPerEpoch >= d.maxExecutionsPerEpoch
  /\ InRange(d.epochLength, 60, 2592000)

ValidatesStrategies(d) ==
  /\ "Arbitrage" \in d.enabledStrategies => d.minNetEdgeBps > 0 /\ ParsesAmount(d.maxArbitrageValue)
  /\ "Rebalance" \in d.enabledStrategies =>
       d.targetWctcBps <= BPS /\ d.toleranceBps > 0 /\ ParsesAmount(d.maxRebalanceValue)
  /\ "RiskReduction" \in d.enabledStrategies =>
       /\ d.maxWctcExposureBps <= BPS
       /\ ParsesAmount(d.maxRiskReductionValue) /\ ParsesAmount(d.dailyRiskReductionValue)

\* Variant for the sensitivity runs: the ceiling may touch the band.
ValidatesBandTouching(d) ==
  {"Rebalance", "RiskReduction"} \subseteq d.enabledStrategies =>
    d.maxWctcExposureBps >= d.targetWctcBps + d.toleranceBps

ValidatesBand(d) ==
  {"Rebalance", "RiskReduction"} \subseteq d.enabledStrategies =>
    d.maxWctcExposureBps > d.targetWctcBps + d.toleranceBps

\* No error. A comparison with a value that is no integer is never reached: it
\* is an error already.
ValidateMandate(d) ==
  FitsUint16(d) /\ ValidatesLimits(d) /\ ValidatesStrategies(d) /\ ValidatesBand(d)

\* The ceiling of a strategy that is not enabled is not parsed.
Ceiling(d, strategy, amount) == IF strategy \in d.enabledStrategies THEN amount ELSE 0

ToContractPolicies(d) ==
  [universal |->
     [enabledStrategies |-> d.enabledStrategies, maxActionValue |-> d.maxActionValue,
      maxSlippageBps |-> d.maxSlippageBps, maxSourceDriftBps |-> d.maxSourceDriftBps,
      maxSpotTwapDeviationBps |-> d.maxSpotTwapDeviationBps, minSourceLiquidity |-> 1,
      minDestinationLiquidity |-> 1, maxExecutionsPerEpoch |-> d.maxExecutionsPerEpoch,
      epochLength |-> d.epochLength, maxAttemptsPerEpoch |-> d.maxAttemptsPerEpoch],
   arbitrage |->
     [minNetEdgeBps |-> d.minNetEdgeBps,
      maxArbitrageValue |-> Ceiling(d, "Arbitrage", d.maxArbitrageValue)],
   rebalance |->
     [targetWctcBps |-> d.targetWctcBps, toleranceBps |-> d.toleranceBps,
      maxRebalanceValue |-> Ceiling(d, "Rebalance", d.maxRebalanceValue)],
   risk |->
     [maxWctcExposureBps |-> d.maxWctcExposureBps,
      maxRiskReductionValue |-> Ceiling(d, "RiskReduction", d.maxRiskReductionValue),
      dailyRiskReductionValue |-> Ceiling(d, "RiskReduction", d.dailyRiskReductionValue)]]
================================================================================
