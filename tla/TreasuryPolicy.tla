--------------------------- MODULE TreasuryPolicy ---------------------------
(***************************************************************************)
(* The deterministic policy engine of FairWitnessTreasury: the validity of *)
(* a policy (_validatePolicy), the shared market checks, and the three     *)
(* strategy evaluators.  Everything here is a function of a view           *)
(*   [policy, balance, market, usedToday, executions]                      *)
(* of the treasury and of its surroundings at the block that runs it:      *)
(* usedToday is the day's risk budget already spent, executions the number *)
(* of executions in the current epoch, and market what the DEX adapter's   *)
(* marketState returns ([ok, twap, spot, liquidity]; ok is FALSE when the  *)
(* call reverts).                                                          *)
(***************************************************************************)
EXTENDS MarketFact

CONSTANTS
  WctcUnit,     (* 10^18 in the code: WCTC amounts per unit of price       *)
  PoolFeeBps,   (* ceilDiv(POOL_FEE, 100)                                  *)
  MaxUint128,   (* 2^128 - 1 in the code                                   *)
  MinEpochLength, MaxEpochLength   (* MIN_EPOCH_LENGTH, MAX_EPOCH_LENGTH   *)

ASSUME UnitAssumption ==
  /\ WctcUnit \in Nat \ {0}
  /\ PoolFeeBps \in Nat
  /\ MaxUint128 \in Nat \ {0}
  /\ MinEpochLength \in Nat \ {0} /\ MaxEpochLength \in Nat

BPS == 10000
ExecutionReserveBps == 20
MaxAllowedSlippageBps == 1000
MaxUint16 == 65535

Strategies == {"Arbitrage", "Rebalance", "RiskReduction"}
Assets == {"WCTC", "STABLE"}

(* Why an attempt was refused or failed; "None" when it executed.          *)
ReasonCode ==
  {"None", "UnsupportedSchema", "InvalidCommitment", "PolicyPaused", "StrategyDisabled",
   "ActionNotAllowed", "AssetNotAllowed", "VenueNotAllowed", "ProposalExpired", "DeadlineTooFar",
   "SlippageExceedsPolicy", "PolicyHashMismatch", "ReplayProposal", "NonceAlreadyUsed",
   "EvidenceAlreadyExecuted", "InvalidEvidence", "EvidenceStale", "EvidenceHashMismatch",
   "SourceDriftTooHigh", "SourceLiquidityTooLow", "DestinationMarketInvalid",
   "DestinationLiquidityTooLow", "DestinationDeviationTooHigh", "WrongDirection",
   "ArbitrageEdgeTooLow", "RebalanceWithinTolerance", "RiskThresholdNotBreached",
   "ZeroExecutableAmount", "AmountExceedsPolicy", "AmountMismatch", "DailyRiskLimit",
   "InsufficientBalance", "ExecutionRateLimit", "ExecutionReverted"}

(* The structs the constructor takes, the destination's market, and the    *)
(* view a strategy is evaluated on.                                        *)
UniversalPolicy ==
  [enabledStrategies : SUBSET (Strategies \cup {"Unknown"}), maxActionValue : Nat,
   maxSlippageBps : Nat, maxSourceDriftBps : Nat, maxSpotTwapDeviationBps : Nat,
   minSourceLiquidity : Nat, minDestinationLiquidity : Nat,
   maxExecutionsPerEpoch : Nat, epochLength : Nat, maxAttemptsPerEpoch : Nat]
ArbitragePolicy == [minNetEdgeBps : Nat, maxArbitrageValue : Nat]
RebalancePolicy == [targetWctcBps : Nat, toleranceBps : Nat, maxRebalanceValue : Nat]
RiskPolicy ==
  [maxWctcExposureBps : Nat, maxRiskReductionValue : Nat, dailyRiskReductionValue : Nat]
Policy ==
  [universal : UniversalPolicy, arbitrage : ArbitragePolicy, rebalance : RebalancePolicy,
   risk : RiskPolicy]
MarketState == [ok : BOOLEAN, twap : Nat, spot : Nat, liquidity : Nat]
StrategyView ==
  [policy : Policy, balance : [Assets -> Nat], market : MarketState,
   usedToday : Nat, executions : Nat]

(* Math.mulDiv, rounding down.                                             *)
MulDiv(a, b, c) == (a * b) \div c
Lesser(a, b) == IF a < b THEN a ELSE b
Greater(a, b) == IF a < b THEN b ELSE a

-----------------------------------------------------------------------------
(* _validatePolicy, one conjunct per line of the constructor's check.      *)
ValidUniversal(u) ==
  /\ u.enabledStrategies # {}
  /\ u.enabledStrategies \subseteq Strategies
  /\ u.maxActionValue # 0
  /\ u.maxSlippageBps <= MaxAllowedSlippageBps
  /\ u.maxExecutionsPerEpoch # 0
  /\ u.maxAttemptsPerEpoch >= u.maxExecutionsPerEpoch
  /\ u.epochLength \in MinEpochLength..MaxEpochLength

ValidArbitrage(a) == a.minNetEdgeBps # 0 /\ a.maxArbitrageValue # 0
ValidRebalance(r) == r.targetWctcBps <= BPS /\ r.toleranceBps # 0 /\ r.maxRebalanceValue # 0
ValidRisk(k) ==
  k.maxWctcExposureBps <= BPS /\ k.maxRiskReductionValue # 0 /\ k.dailyRiskReductionValue # 0

(* Variant for the sensitivity runs: the exposure limit only has to lie    *)
(* above the rebalancing target, not above its tolerance band.             *)
ValidPolicyNoBand(p) ==
  /\ ValidUniversal(p.universal)
  /\ ValidRebalance(p.rebalance) /\ ValidRisk(p.risk)

ValidPolicy(p) ==
  LET enabled == p.universal.enabledStrategies
  IN  /\ ValidUniversal(p.universal)
      /\ "Arbitrage" \in enabled => ValidArbitrage(p.arbitrage)
      /\ "Rebalance" \in enabled => ValidRebalance(p.rebalance)
      /\ "RiskReduction" \in enabled => ValidRisk(p.risk)
      /\ {"Rebalance", "RiskReduction"} \subseteq enabled =>
           p.risk.maxWctcExposureBps > p.rebalance.targetWctcBps + p.rebalance.toleranceBps

-----------------------------------------------------------------------------
(* The gap of two prices in BPS of the smaller one.  The code answers      *)
(* 2^256 - 1 for a zero price; any number above every uint16 limit does.   *)
UnboundedGap == 65536
BpsGap(a, b) ==
  IF Lesser(a, b) = 0 THEN UnboundedGap
  ELSE MulDiv(Greater(a, b) - Lesser(a, b), BPS, Lesser(a, b))

(* _portfolio: the treasury's balances valued at a WCTC price.             *)
Portfolio(balance, price) ==
  LET wctc == MulDiv(balance["WCTC"], price, WctcUnit)
      total == wctc + balance["STABLE"]
  IN  [wctc |-> wctc, stable |-> balance["STABLE"], total |-> total,
       wctcBps |-> IF total = 0 THEN 0 ELSE MulDiv(wctc, BPS, total)]

(* _validatedMarket: the checks every strategy starts with.                *)
MarketReason(u, market, source, confirm) ==
  FirstReason(<<
    <<"InvalidEvidence", source.price = 0 \/ confirm.price = 0>>,
    <<"SourceDriftTooHigh", BpsGap(source.price, confirm.price) > u.maxSourceDriftBps>>,
    <<"SourceLiquidityTooLow",
        source.liquidity < u.minSourceLiquidity \/ confirm.liquidity < u.minSourceLiquidity>>,
    <<"DestinationMarketInvalid", ~market.ok \/ market.twap = 0 \/ market.spot = 0>>,
    <<"DestinationLiquidityTooLow", market.liquidity < u.minDestinationLiquidity>>,
    <<"DestinationDeviationTooHigh",
        BpsGap(market.twap, market.spot) > u.maxSpotTwapDeviationBps>> >>)

(* What an evaluator returns; it approves the proposal when reason is      *)
(* "None".                                                                 *)
Refused(reason) == [reason |-> reason, minimumOut |-> 0, permittedValue |-> 0]

(* The direction of a proposal.                                            *)
Sells(p) == p.assetIn = "WCTC" /\ p.assetOut = "STABLE"
Buys(p) == p.assetIn = "STABLE" /\ p.assetOut = "WCTC"
Follows(p, sell) == IF sell THEN Sells(p) ELSE Buys(p)

(* The least output of a proposal at the destination's mean price.         *)
ExpectedOut(p, twap) ==
  IF p.assetIn = "WCTC" THEN MulDiv(p.amountIn, twap, WctcUnit) ELSE MulDiv(p.amountIn, WctcUnit, twap)
MinimumOut(p, twap) == MulDiv(ExpectedOut(p, twap), BPS - p.maxSlippageBps, BPS)

(* Value to amount of the asset sold: WCTC at a price, stable at par.      *)
MaximumInput(value, sell, price) == IF sell THEN MulDiv(value, WctcUnit, price) ELSE value

(* Variant for the sensitivity runs: no ExecutionRateLimit check.          *)
AmountReasonNoRateLimit(v, p, maximumInput, minimumOut) ==
  FirstReason(<<
    <<"ZeroExecutableAmount", maximumInput = 0>>,
    <<"AmountExceedsPolicy", p.amountIn > maximumInput>>,
    <<"InsufficientBalance", v.balance[p.assetIn] < p.amountIn>>,
    <<"ZeroExecutableAmount", minimumOut = 0 \/ minimumOut > MaxUint128>> >>)

(* The checks the three evaluators end with, once an amount is permitted.  *)
AmountReason(v, p, maximumInput, minimumOut) ==
  FirstReason(<<
    <<"ZeroExecutableAmount", maximumInput = 0>>,
    <<"AmountExceedsPolicy", p.amountIn > maximumInput>>,
    <<"InsufficientBalance", v.balance[p.assetIn] < p.amountIn>>,
    <<"ExecutionRateLimit", v.executions >= v.policy.universal.maxExecutionsPerEpoch>>,
    <<"ZeroExecutableAmount", minimumOut = 0 \/ minimumOut > MaxUint128>> >>)

Sized(v, p, permitted, sell, price) ==
  LET minimumOut == MinimumOut(p, v.market.twap)
      reason == AmountReason(v, p, MaximumInput(permitted, sell, price), minimumOut)
  IN  [reason |-> reason, permittedValue |-> permitted,
       minimumOut |-> IF reason = "None" THEN minimumOut ELSE 0]

-----------------------------------------------------------------------------
(* _evaluateRisk                                                           *)

ExcessValue(k, portfolio) ==
  portfolio.wctc - MulDiv(portfolio.total, k.maxWctcExposureBps, BPS)

(* Variants for the sensitivity runs: the day's remaining budget, or the   *)
(* excess over the exposure limit, does not cap the value.                 *)
RiskPermittedAnyDay(v, portfolio) ==
  Lesser(ExcessValue(v.policy.risk, portfolio),
    Lesser(v.policy.risk.maxRiskReductionValue, v.policy.universal.maxActionValue))
RiskPermittedAnyExcess(v, portfolio) ==
  Lesser(v.policy.risk.dailyRiskReductionValue - v.usedToday, v.policy.universal.maxActionValue)

RiskPermittedValue(v, portfolio) ==
  Lesser(
    Lesser(ExcessValue(v.policy.risk, portfolio), v.policy.risk.maxRiskReductionValue),
    Lesser(v.policy.risk.dailyRiskReductionValue - v.usedToday, v.policy.universal.maxActionValue))

(* Variant for the sensitivity runs: the threshold does not have to be     *)
(* breached.                                                               *)
RiskReasonAnyExposure(v, p, portfolio) ==
  FirstReason(<<
    <<"ZeroExecutableAmount", portfolio.total = 0>>,
    <<"WrongDirection", ~Sells(p)>>,
    <<"DailyRiskLimit", v.usedToday >= v.policy.risk.dailyRiskReductionValue>> >>)

RiskReason(v, p, portfolio) ==
  FirstReason(<<
    <<"ZeroExecutableAmount", portfolio.total = 0>>,
    <<"RiskThresholdNotBreached", portfolio.wctcBps <= v.policy.risk.maxWctcExposureBps>>,
    <<"WrongDirection", ~Sells(p)>>,
    <<"DailyRiskLimit", v.usedToday >= v.policy.risk.dailyRiskReductionValue>> >>)

EvaluateRisk(v, p, confirm) ==
  LET portfolio == Portfolio(v.balance, confirm.price)
      reason == RiskReason(v, p, portfolio)
  IN  IF reason # "None" THEN Refused(reason)
      ELSE Sized(v, p, RiskPermittedValue(v, portfolio), TRUE, confirm.price)

-----------------------------------------------------------------------------
(* _evaluateRebalance                                                      *)

RebalanceDeviation(r, portfolio) ==
  Greater(portfolio.wctcBps, r.targetWctcBps) - Lesser(portfolio.wctcBps, r.targetWctcBps)

RebalanceSells(r, portfolio) == portfolio.wctcBps > r.targetWctcBps

RebalanceRequiredValue(r, portfolio) ==
  LET targetValue == MulDiv(portfolio.total, r.targetWctcBps, BPS)
  IN  Greater(portfolio.wctc, targetValue) - Lesser(portfolio.wctc, targetValue)

RebalancePermittedValue(v, portfolio) ==
  Lesser(RebalanceRequiredValue(v.policy.rebalance, portfolio),
    Lesser(v.policy.rebalance.maxRebalanceValue, v.policy.universal.maxActionValue))

RebalanceReason(v, p, portfolio) ==
  LET r == v.policy.rebalance
  IN  FirstReason(<<
        <<"ZeroExecutableAmount", portfolio.total = 0>>,
        <<"RebalanceWithinTolerance", RebalanceDeviation(r, portfolio) <= r.toleranceBps>>,
        <<"WrongDirection", ~Follows(p, RebalanceSells(r, portfolio))>> >>)

EvaluateRebalance(v, p, confirm) ==
  LET portfolio == Portfolio(v.balance, confirm.price)
      reason == RebalanceReason(v, p, portfolio)
  IN  IF reason # "None" THEN Refused(reason)
      ELSE Sized(v, p, RebalancePermittedValue(v, portfolio),
                 RebalanceSells(v.policy.rebalance, portfolio), confirm.price)

-----------------------------------------------------------------------------
(* _evaluateArbitrage: the only strategy priced by the destination's mean, *)
(* against the confirmation price.                                         *)

ArbitrageSells(v, confirm) == v.market.twap > confirm.price
ArbitrageGross(v, confirm) == BpsGap(v.market.twap, confirm.price)
ArbitrageCosts(p) == PoolFeeBps + p.maxSlippageBps + ExecutionReserveBps
ArbitrageNet(v, p, confirm) == ArbitrageGross(v, confirm) - ArbitrageCosts(p)

ArbitrageBalanceValue(v, confirm) ==
  IF ArbitrageSells(v, confirm) THEN MulDiv(v.balance["WCTC"], v.market.twap, WctcUnit)
  ELSE v.balance["STABLE"]

(* The value grows with the net edge and is capped by the policy and by    *)
(* the balance.                                                            *)
ArbitragePermittedValue(v, p, confirm) ==
  LET a == v.policy.arbitrage
      cap == Lesser(Lesser(a.maxArbitrageValue, v.policy.universal.maxActionValue),
                    ArbitrageBalanceValue(v, confirm))
  IN  Lesser(MulDiv(cap, ArbitrageNet(v, p, confirm), a.minNetEdgeBps * 4), cap)

ArbitrageReason(v, p, confirm) ==
  FirstReason(<<
    <<"ArbitrageEdgeTooLow", v.market.twap = confirm.price>>,
    <<"WrongDirection", ~Follows(p, ArbitrageSells(v, confirm))>>,
    <<"ArbitrageEdgeTooLow",
        ArbitrageGross(v, confirm) < ArbitrageCosts(p) + v.policy.arbitrage.minNetEdgeBps>>,
    <<"InsufficientBalance", ArbitrageBalanceValue(v, confirm) = 0>> >>)

EvaluateArbitrage(v, p, confirm) ==
  LET reason == ArbitrageReason(v, p, confirm)
      sized == Sized(v, p, ArbitragePermittedValue(v, p, confirm),
                     ArbitrageSells(v, confirm), v.market.twap)
  IN  IF reason # "None" THEN Refused(reason)
      ELSE IF sized.reason # "None" THEN Refused(sized.reason)
      ELSE IF ArbitrageNet(v, p, confirm) > MaxUint16 THEN Refused("ZeroExecutableAmount")
      ELSE sized

-----------------------------------------------------------------------------
(* _evaluateStrategy                                                       *)
EvaluateStrategy(v, p, source, confirm) ==
  LET reason == MarketReason(v.policy.universal, v.market, source, confirm)
  IN  IF reason # "None" THEN Refused(reason)
      ELSE IF p.strategy = "Arbitrage" THEN EvaluateArbitrage(v, p, confirm)
      ELSE IF p.strategy = "Rebalance" THEN EvaluateRebalance(v, p, confirm)
      ELSE EvaluateRisk(v, p, confirm)
=============================================================================
