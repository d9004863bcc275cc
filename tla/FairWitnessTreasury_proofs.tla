----------------------- MODULE FairWitnessTreasury_proofs -----------------------
(***************************************************************************)
(* Theorems about a treasury and the agent that proposes to it, for every  *)
(* policy, chain, market and number of agents, in five parts: the policy   *)
(* engine, what an early-return chain that falls through tells and what an *)
(* approved evaluation guarantees; the type of the state and what the      *)
(* checks of a submission establish; the journal, where nothing is         *)
(* authorised or executed twice, counters, budgets and limits agree, what  *)
(* the owner took back stays taken back and a closed treasury is final;    *)
(* what a treasury acts on, evidence that is genuine and executions that   *)
(* are fresh and priced within the owner's limit at the block that executes*)
(* them; and the agent's strategies, which mirror the policy engine.       *)
(***************************************************************************)
EXTENDS FairWitnessTreasury, AgentStrategies, Totals

(***************************************************************************)
(* The policy engine.                                                      *)
(***************************************************************************)

-----------------------------------------------------------------------------
(* Early returns                                                           *)

(* A non-empty set of positions has a first one.  No chain of the code has *)
(* more than fourteen checks, so that no induction is needed.              *)
LEMMA FirstPosition ==
  ASSUME NEW S \in SUBSET (1..14), S # {}
  PROVE  \E i \in S : \A j \in S : i <= j
<1>1. SUFFICES ASSUME \A i \in S : \E j \in S : j < i
               PROVE  FALSE
  OBVIOUS
<1>2. {1, 2, 3, 4, 5, 6, 7} \cap S = {}
  BY <1>1
<1>3. {8, 9, 10, 11, 12, 13, 14} \cap S = {}
  BY <1>1, <1>2
<1>4. PICK i \in S : TRUE
  OBVIOUS
<1>5. i \in {1, 2, 3, 4, 5, 6, 7} \/ i \in {8, 9, 10, 11, 12, 13, 14}
  OBVIOUS
<1>6. QED
  BY <1>2, <1>3, <1>4, <1>5

(* The answer of a chain of checks is one of its reasons, or "None" when   *)
(* none of the checks fails.                                               *)
LEMMA FirstReasonResult ==
  ASSUME NEW n \in 1..14, NEW checks, NEW S, DOMAIN checks = 1..n, "None" \in S,
         \A i \in 1..n : checks[i][1] \in S \ {"None"}
  PROVE  /\ FirstReason(checks) \in S
         /\ FirstReason(checks) = "None" <=> \A i \in 1..n : ~checks[i][2]
<1> DEFINE failing == {i \in DOMAIN checks : checks[i][2]}
<1>1. CASE failing = {}
  BY <1>1 DEF FirstReason
<1>2. CASE failing # {}
  <2>1. \E i \in failing : \A j \in failing : i <= j
    <3>1. failing \in SUBSET (1..14)
      OBVIOUS
    <3>2. QED
      BY <1>2, <3>1, FirstPosition
  <2>2. (CHOOSE i \in failing : \A j \in failing : i <= j) \in failing
    BY <2>1
  <2>3. FirstReason(checks) \in S \ {"None"}
    BY <1>2, <2>2 DEF FirstReason
  <2>4. \E i \in 1..n : checks[i][2]
    BY <1>2
  <2>5. QED
    BY <2>3, <2>4
<1>3. QED
  BY <1>1, <1>2

LEMMA NoneIsReason == "None" \in ReasonCode
BY DEF ReasonCode

LEMMA AmountReasonResult ==
  ASSUME NEW v, NEW p, NEW maximumInput, NEW minimumOut
  PROVE  /\ AmountReason(v, p, maximumInput, minimumOut) \in ReasonCode
         /\ AmountReason(v, p, maximumInput, minimumOut) = "None" <=>
              /\ ~(maximumInput = 0)
              /\ ~(p.amountIn > maximumInput)
              /\ ~(v.balance[p.assetIn] < p.amountIn)
              /\ ~(v.executions >= v.policy.universal.maxExecutionsPerEpoch)
              /\ ~(minimumOut = 0 \/ minimumOut > MaxUint128)
<1> DEFINE checks ==
      << <<"ZeroExecutableAmount", maximumInput = 0>>,
         <<"AmountExceedsPolicy", p.amountIn > maximumInput>>,
         <<"InsufficientBalance", v.balance[p.assetIn] < p.amountIn>>,
         <<"ExecutionRateLimit", v.executions >= v.policy.universal.maxExecutionsPerEpoch>>,
         <<"ZeroExecutableAmount", minimumOut = 0 \/ minimumOut > MaxUint128>> >>
<1>1. AmountReason(v, p, maximumInput, minimumOut) = FirstReason(checks)
  BY DEF AmountReason
<1>2. DOMAIN checks = 1..5 /\ \A i \in 1..5 : checks[i][1] \in ReasonCode \ {"None"}
  BY DEF ReasonCode
<1> HIDE DEF checks
<1>3. /\ FirstReason(checks) \in ReasonCode
      /\ FirstReason(checks) = "None" <=> \A i \in 1..5 : ~checks[i][2]
  BY <1>2, FirstReasonResult, NoneIsReason
<1>4. FirstReason(checks) = "None" <=>
        ~checks[1][2] /\ ~checks[2][2] /\ ~checks[3][2] /\ ~checks[4][2] /\ ~checks[5][2]
  BY <1>3
<1>5. QED
  BY <1>1, <1>3, <1>4 DEF checks

LEMMA MarketReasonResult ==
  ASSUME NEW u, NEW dex, NEW source, NEW confirm
  PROVE  /\ MarketReason(u, dex, source, confirm) \in ReasonCode
         /\ MarketReason(u, dex, source, confirm) = "None" <=>
              /\ ~(source.price = 0 \/ confirm.price = 0)
              /\ ~(BpsGap(source.price, confirm.price) > u.maxSourceDriftBps)
              /\ ~(source.liquidity < u.minSourceLiquidity \/ confirm.liquidity < u.minSourceLiquidity)
              /\ ~(~dex.ok \/ dex.twap = 0 \/ dex.spot = 0)
              /\ ~(dex.liquidity < u.minDestinationLiquidity)
              /\ ~(BpsGap(dex.twap, dex.spot) > u.maxSpotTwapDeviationBps)
<1> DEFINE checks ==
      << <<"InvalidEvidence", source.price = 0 \/ confirm.price = 0>>,
         <<"SourceDriftTooHigh", BpsGap(source.price, confirm.price) > u.maxSourceDriftBps>>,
         <<"SourceLiquidityTooLow",
             source.liquidity < u.minSourceLiquidity \/ confirm.liquidity < u.minSourceLiquidity>>,
         <<"DestinationMarketInvalid", ~dex.ok \/ dex.twap = 0 \/ dex.spot = 0>>,
         <<"DestinationLiquidityTooLow", dex.liquidity < u.minDestinationLiquidity>>,
         <<"DestinationDeviationTooHigh",
             BpsGap(dex.twap, dex.spot) > u.maxSpotTwapDeviationBps>> >>
<1>1. MarketReason(u, dex, source, confirm) = FirstReason(checks)
  BY DEF MarketReason
<1>2. DOMAIN checks = 1..6 /\ \A i \in 1..6 : checks[i][1] \in ReasonCode \ {"None"}
  BY DEF ReasonCode
<1> HIDE DEF checks
<1>3. /\ FirstReason(checks) \in ReasonCode
      /\ FirstReason(checks) = "None" <=> \A i \in 1..6 : ~checks[i][2]
  BY <1>2, FirstReasonResult, NoneIsReason
<1>4. FirstReason(checks) = "None" <=>
        /\ ~checks[1][2] /\ ~checks[2][2] /\ ~checks[3][2]
        /\ ~checks[4][2] /\ ~checks[5][2] /\ ~checks[6][2]
  BY <1>3
<1>5. QED
  BY <1>1, <1>3, <1>4 DEF checks

LEMMA RiskReasonResult ==
  ASSUME NEW v, NEW p, NEW portfolio
  PROVE  /\ RiskReason(v, p, portfolio) \in ReasonCode
         /\ RiskReason(v, p, portfolio) = "None" <=>
              /\ ~(portfolio.total = 0)
              /\ ~(portfolio.wctcBps <= v.policy.risk.maxWctcExposureBps)
              /\ Sells(p)
              /\ ~(v.usedToday >= v.policy.risk.dailyRiskReductionValue)
<1> DEFINE checks ==
      << <<"ZeroExecutableAmount", portfolio.total = 0>>,
         <<"RiskThresholdNotBreached", portfolio.wctcBps <= v.policy.risk.maxWctcExposureBps>>,
         <<"WrongDirection", ~Sells(p)>>,
         <<"DailyRiskLimit", v.usedToday >= v.policy.risk.dailyRiskReductionValue>> >>
<1>1. RiskReason(v, p, portfolio) = FirstReason(checks)
  BY DEF RiskReason
<1>2. DOMAIN checks = 1..4 /\ \A i \in 1..4 : checks[i][1] \in ReasonCode \ {"None"}
  BY DEF ReasonCode
<1> HIDE DEF checks
<1>3. /\ FirstReason(checks) \in ReasonCode
      /\ FirstReason(checks) = "None" <=> \A i \in 1..4 : ~checks[i][2]
  BY <1>2, FirstReasonResult, NoneIsReason
<1>4. FirstReason(checks) = "None" <=>
        ~checks[1][2] /\ ~checks[2][2] /\ ~checks[3][2] /\ ~checks[4][2]
  BY <1>3
<1>5. QED
  BY <1>1, <1>3, <1>4 DEF checks

LEMMA RebalanceReasonResult ==
  ASSUME NEW v, NEW p, NEW portfolio
  PROVE  /\ RebalanceReason(v, p, portfolio) \in ReasonCode
         /\ RebalanceReason(v, p, portfolio) = "None" <=>
              /\ ~(portfolio.total = 0)
              /\ ~(RebalanceDeviation(v.policy.rebalance, portfolio) <= v.policy.rebalance.toleranceBps)
              /\ Follows(p, RebalanceSells(v.policy.rebalance, portfolio))
<1> DEFINE r == v.policy.rebalance
           checks ==
      << <<"ZeroExecutableAmount", portfolio.total = 0>>,
         <<"RebalanceWithinTolerance", RebalanceDeviation(r, portfolio) <= r.toleranceBps>>,
         <<"WrongDirection", ~Follows(p, RebalanceSells(r, portfolio))>> >>
<1>1. RebalanceReason(v, p, portfolio) = FirstReason(checks)
  BY DEF RebalanceReason
<1>2. DOMAIN checks = 1..3 /\ \A i \in 1..3 : checks[i][1] \in ReasonCode \ {"None"}
  BY DEF ReasonCode
<1> HIDE DEF checks
<1>3. /\ FirstReason(checks) \in ReasonCode
      /\ FirstReason(checks) = "None" <=> \A i \in 1..3 : ~checks[i][2]
  BY <1>2, FirstReasonResult, NoneIsReason
<1>4. FirstReason(checks) = "None" <=>
        ~checks[1][2] /\ ~checks[2][2] /\ ~checks[3][2]
  BY <1>3
<1>5. QED
  BY <1>1, <1>3, <1>4 DEF checks

LEMMA ArbitrageReasonResult ==
  ASSUME NEW v, NEW p, NEW confirm
  PROVE  /\ ArbitrageReason(v, p, confirm) \in ReasonCode
         /\ ArbitrageReason(v, p, confirm) = "None" <=>
              /\ ~(v.market.twap = confirm.price)
              /\ Follows(p, ArbitrageSells(v, confirm))
              /\ ~(ArbitrageGross(v, confirm) < ArbitrageCosts(p) + v.policy.arbitrage.minNetEdgeBps)
              /\ ~(ArbitrageBalanceValue(v, confirm) = 0)
<1> DEFINE checks ==
      << <<"ArbitrageEdgeTooLow", v.market.twap = confirm.price>>,
         <<"WrongDirection", ~Follows(p, ArbitrageSells(v, confirm))>>,
         <<"ArbitrageEdgeTooLow",
             ArbitrageGross(v, confirm) < ArbitrageCosts(p) + v.policy.arbitrage.minNetEdgeBps>>,
         <<"InsufficientBalance", ArbitrageBalanceValue(v, confirm) = 0>> >>
<1>1. ArbitrageReason(v, p, confirm) = FirstReason(checks)
  BY DEF ArbitrageReason
<1>2. DOMAIN checks = 1..4 /\ \A i \in 1..4 : checks[i][1] \in ReasonCode \ {"None"}
  BY DEF ReasonCode
<1> HIDE DEF checks
<1>3. /\ FirstReason(checks) \in ReasonCode
      /\ FirstReason(checks) = "None" <=> \A i \in 1..4 : ~checks[i][2]
  BY <1>2, FirstReasonResult, NoneIsReason
<1>4. FirstReason(checks) = "None" <=>
        ~checks[1][2] /\ ~checks[2][2] /\ ~checks[3][2] /\ ~checks[4][2]
  BY <1>3
<1>5. QED
  BY <1>1, <1>3, <1>4 DEF checks

-----------------------------------------------------------------------------
(* Arithmetic                                                              *)

LEMMA DivBounds ==
  ASSUME NEW a \in Nat, NEW b \in Nat \ {0}
  PROVE  a \div b \in Nat /\ b * (a \div b) <= a /\ a < b * (a \div b) + b
OBVIOUS

LEMMA MulDivNat ==
  ASSUME NEW a \in Nat, NEW b \in Nat, NEW c \in Nat \ {0}
  PROVE  MulDiv(a, b, c) \in Nat
<1>1. a * b \in Nat
  OBVIOUS
<1>2. QED
  BY <1>1, DivBounds DEF MulDiv

LEMMA BpsNat == BPS \in Nat \ {0}
BY DEF BPS

(* A portfolio's values are amounts, and its exposure is that of wctc in   *)
(* the total.                                                              *)
LEMMA PortfolioType ==
  ASSUME NEW held \in [Assets -> Nat], NEW price \in Nat
  PROVE  /\ Portfolio(held, price).wctc \in Nat
         /\ Portfolio(held, price).stable \in Nat
         /\ Portfolio(held, price).total \in Nat
         /\ Portfolio(held, price).wctcBps \in Nat
         /\ Portfolio(held, price).wctc <= Portfolio(held, price).total
         /\ Portfolio(held, price).total # 0 =>
              Portfolio(held, price).wctcBps
                = MulDiv(Portfolio(held, price).wctc, BPS, Portfolio(held, price).total)
<1> DEFINE wctc == MulDiv(held["WCTC"], price, WctcUnit)
           total == wctc + held["STABLE"]
<1>1. held["WCTC"] \in Nat /\ held["STABLE"] \in Nat
  BY DEF Assets
<1>2. wctc \in Nat
  BY <1>1, MulDivNat, UnitAssumption
<1>3. total \in Nat /\ wctc <= total
  <2> HIDE DEF wctc
  <2>1. QED
    BY <1>1, <1>2
<1>4. total # 0 => MulDiv(wctc, BPS, total) \in Nat
  <2> HIDE DEF wctc, total
  <2>1. QED
    BY <1>2, <1>3, MulDivNat DEF BPS
<1>5. QED
  BY <1>1, <1>2, <1>3, <1>4 DEF Portfolio

(* A share strictly above a limit exceeds the limit's part of the total:   *)
(* the subtraction that gives the excess cannot underflow.                 *)
LEMMA ShareAboveLimit ==
  ASSUME NEW w \in Nat, NEW t \in Nat \ {0}, NEW limit \in Nat,
         MulDiv(w, BPS, t) > limit
  PROVE  MulDiv(t, limit, BPS) \in Nat /\ MulDiv(t, limit, BPS) <= w
<1> DEFINE share == (w * 10000) \div t
           part == (t * limit) \div 10000
<1>1. share \in Nat /\ t * share <= w * 10000
  BY DivBounds
<1>2. part \in Nat /\ 10000 * part <= t * limit
  <2>1. t * limit \in Nat
    OBVIOUS
  <2>2. QED
    BY <2>1, DivBounds
<1>3. share > limit
  BY DEF MulDiv, BPS
<1>4. t * limit <= t * share
  <2> HIDE DEF share
  <2>1. QED
    BY <1>1, <1>3
<1>5. 10000 * part <= w * 10000
  <2> HIDE DEF share, part
  <2>1. t * limit \in Nat /\ t * share \in Nat
    BY <1>1
  <2>2. QED
    BY <1>1, <1>2, <1>4, <2>1
<1>6. part <= w
  <2> HIDE DEF part
  <2>1. QED
    BY <1>2, <1>5
<1>7. QED
  BY <1>2, <1>6 DEF MulDiv, BPS

-----------------------------------------------------------------------------
(* Evaluations                                                             *)

LEMMA MinimumOutNat ==
  ASSUME NEW p, p.amountIn \in Nat, p.maxSlippageBps \in Nat, p.maxSlippageBps <= 1000,
         NEW twap \in Nat \ {0}
  PROVE  MinimumOut(p, twap) \in Nat
<1>1. ExpectedOut(p, twap) \in Nat
  BY MulDivNat, UnitAssumption DEF ExpectedOut
<1>2. BPS - p.maxSlippageBps \in Nat /\ BPS \in Nat \ {0}
  BY DEF BPS
<1>3. QED
  BY <1>1, <1>2, MulDivNat DEF MinimumOut

(* What the checks on the amount leave of a permitted value.               *)
LEMMA SizedResult ==
  ASSUME NEW v, NEW p, NEW permitted, NEW sell, NEW price,
         MinimumOut(p, v.market.twap) \in Nat
  PROVE  /\ Sized(v, p, permitted, sell, price).permittedValue = permitted
         /\ Sized(v, p, permitted, sell, price).reason \in ReasonCode
         /\ Sized(v, p, permitted, sell, price).minimumOut \in Nat
         /\ Sized(v, p, permitted, sell, price).reason = "None" =>
              /\ Sized(v, p, permitted, sell, price).minimumOut = MinimumOut(p, v.market.twap)
              /\ ~(p.amountIn > MaximumInput(permitted, sell, price))
              /\ ~(v.balance[p.assetIn] < p.amountIn)
              /\ ~(v.executions >= v.policy.universal.maxExecutionsPerEpoch)
BY AmountReasonResult DEF Sized

LEMMA ExcessNat ==
  ASSUME NEW k \in RiskPolicy, NEW held \in [Assets -> Nat], NEW price \in Nat,
         ~(Portfolio(held, price).total = 0),
         ~(Portfolio(held, price).wctcBps <= k.maxWctcExposureBps)
  PROVE  ExcessValue(k, Portfolio(held, price)) \in Nat
<1> DEFINE portfolio == Portfolio(held, price)
<1>1. /\ portfolio.wctc \in Nat /\ portfolio.total \in Nat \ {0} /\ portfolio.wctcBps \in Nat
      /\ portfolio.wctcBps = MulDiv(portfolio.wctc, BPS, portfolio.total)
  BY PortfolioType
<1>2. k.maxWctcExposureBps \in Nat
  BY DEF RiskPolicy
<1> HIDE DEF portfolio
<1>3. MulDiv(portfolio.wctc, BPS, portfolio.total) > k.maxWctcExposureBps
  BY <1>1, <1>2 DEF portfolio
<1>4. /\ MulDiv(portfolio.total, k.maxWctcExposureBps, BPS) \in Nat
      /\ MulDiv(portfolio.total, k.maxWctcExposureBps, BPS) <= portfolio.wctc
  BY <1>1, <1>2, <1>3, ShareAboveLimit
<1>5. ExcessValue(k, portfolio) \in Nat
  BY <1>1, <1>4 DEF ExcessValue
<1>6. QED
  BY <1>5 DEF portfolio

(* A risk reduction: the value permitted fits the day's budget and the     *)
(* policy's cap for one action.                                            *)
LEMMA RiskEvaluation ==
  ASSUME NEW v \in StrategyView, NEW p, NEW confirm, confirm.price \in Nat,
         MinimumOut(p, v.market.twap) \in Nat
  PROVE  LET e == EvaluateRisk(v, p, confirm)
         IN  /\ e.permittedValue \in Nat /\ e.minimumOut \in Nat /\ e.reason \in ReasonCode
             /\ e.reason = "None" =>
                  /\ Sells(p)
                  /\ v.usedToday + e.permittedValue <= v.policy.risk.dailyRiskReductionValue
                  /\ ~(v.balance[p.assetIn] < p.amountIn)
                  /\ ~(v.executions >= v.policy.universal.maxExecutionsPerEpoch)
                  /\ e.minimumOut = MinimumOut(p, v.market.twap)
<1> DEFINE portfolio == Portfolio(v.balance, confirm.price)
           permitted == RiskPermittedValue(v, portfolio)
           e == EvaluateRisk(v, p, confirm)
<1>1. CASE RiskReason(v, p, portfolio) # "None"
  <2>1. /\ e = Refused(RiskReason(v, p, portfolio))
        /\ RiskReason(v, p, portfolio) \in ReasonCode
    BY <1>1, RiskReasonResult DEF EvaluateRisk
  <2>2. QED
    BY <1>1, <2>1 DEF Refused
<1>2. CASE RiskReason(v, p, portfolio) = "None"
  <2>1. e = Sized(v, p, permitted, TRUE, confirm.price)
    BY <1>2 DEF EvaluateRisk
  <2>2. /\ Sells(p) /\ ~(portfolio.total = 0)
        /\ ~(portfolio.wctcBps <= v.policy.risk.maxWctcExposureBps)
        /\ ~(v.usedToday >= v.policy.risk.dailyRiskReductionValue)
    BY <1>2, RiskReasonResult
  <2>3. /\ v.policy.risk \in RiskPolicy /\ v.balance \in [Assets -> Nat]
        /\ v.policy.universal.maxActionValue \in Nat /\ v.usedToday \in Nat
    BY DEF StrategyView, Policy, UniversalPolicy
  <2>4. ExcessValue(v.policy.risk, portfolio) \in Nat
    BY <2>2, <2>3, ExcessNat
  <2>5. /\ permitted \in Nat
        /\ permitted <= v.policy.risk.dailyRiskReductionValue - v.usedToday
    <3> HIDE DEF portfolio
    <3>1. v.policy.risk.maxRiskReductionValue \in Nat /\ v.policy.risk.dailyRiskReductionValue \in Nat
      BY <2>3 DEF RiskPolicy
    <3>2. QED
      BY <2>2, <2>3, <2>4, <3>1 DEF RiskPermittedValue, Lesser
  <2>6. v.policy.risk.dailyRiskReductionValue \in Nat
    BY <2>3 DEF RiskPolicy
  <2> HIDE DEF permitted, e
  <2>7. /\ e.permittedValue = permitted /\ e.minimumOut \in Nat /\ e.reason \in ReasonCode
        /\ e.reason = "None" => /\ ~(v.balance[p.assetIn] < p.amountIn)
                                /\ ~(v.executions >= v.policy.universal.maxExecutionsPerEpoch)
                                /\ e.minimumOut = MinimumOut(p, v.market.twap)
    <3> DEFINE sell == TRUE
               sized == Sized(v, p, permitted, sell, confirm.price)
    <3> HIDE DEF sell
    <3>1. /\ sized.permittedValue = permitted /\ sized.minimumOut \in Nat /\ sized.reason \in ReasonCode
          /\ sized.reason = "None" =>
               /\ ~(v.balance[p.assetIn] < p.amountIn)
               /\ ~(v.executions >= v.policy.universal.maxExecutionsPerEpoch)
               /\ sized.minimumOut = MinimumOut(p, v.market.twap)
      BY SizedResult
    <3>2. QED
      BY <2>1, <3>1 DEF sell
  <2>8. QED
    BY <2>2, <2>3, <2>5, <2>6, <2>7 DEF e
<1>3. QED
  BY <1>1, <1>2

(* A rebalancing: the distance to the target is an amount either way.      *)
LEMMA RebalanceEvaluation ==
  ASSUME NEW v \in StrategyView, NEW p, NEW confirm, confirm.price \in Nat,
         MinimumOut(p, v.market.twap) \in Nat
  PROVE  LET e == EvaluateRebalance(v, p, confirm)
         IN  /\ e.permittedValue \in Nat /\ e.minimumOut \in Nat /\ e.reason \in ReasonCode
             /\ e.reason = "None" =>
                  /\ ~(v.balance[p.assetIn] < p.amountIn)
                  /\ ~(v.executions >= v.policy.universal.maxExecutionsPerEpoch)
                  /\ e.minimumOut = MinimumOut(p, v.market.twap)
<1> DEFINE portfolio == Portfolio(v.balance, confirm.price)
           permitted == RebalancePermittedValue(v, portfolio)
           sell == RebalanceSells(v.policy.rebalance, portfolio)
           e == EvaluateRebalance(v, p, confirm)
<1>1. CASE RebalanceReason(v, p, portfolio) # "None"
  <2>1. /\ e = Refused(RebalanceReason(v, p, portfolio))
        /\ RebalanceReason(v, p, portfolio) \in ReasonCode
    BY <1>1, RebalanceReasonResult DEF EvaluateRebalance
  <2>2. QED
    BY <1>1, <2>1 DEF Refused
<1>2. CASE RebalanceReason(v, p, portfolio) = "None"
  <2>1. e = Sized(v, p, permitted, sell, confirm.price)
    BY <1>2 DEF EvaluateRebalance
  <2>2. permitted \in Nat
    <3>1. /\ v.policy.rebalance \in RebalancePolicy /\ v.balance \in [Assets -> Nat]
          /\ v.policy.universal.maxActionValue \in Nat
      BY DEF StrategyView, Policy, UniversalPolicy
    <3>2. v.policy.rebalance.targetWctcBps \in Nat /\ v.policy.rebalance.maxRebalanceValue \in Nat
      BY <3>1 DEF RebalancePolicy
    <3>3. portfolio.wctc \in Nat /\ portfolio.total \in Nat
      BY <3>1, PortfolioType
    <3> HIDE DEF portfolio
    <3>4. MulDiv(portfolio.total, v.policy.rebalance.targetWctcBps, BPS) \in Nat
      BY <3>2, <3>3, MulDivNat, BpsNat
    <3>5. RebalanceRequiredValue(v.policy.rebalance, portfolio) \in Nat
      BY <3>3, <3>4 DEF RebalanceRequiredValue, Greater, Lesser
    <3>6. QED
      BY <3>1, <3>2, <3>5 DEF RebalancePermittedValue, Lesser
  <2> HIDE DEF permitted, sell, e
  <2>3. /\ e.permittedValue = permitted /\ e.minimumOut \in Nat /\ e.reason \in ReasonCode
        /\ e.reason = "None" => /\ ~(v.balance[p.assetIn] < p.amountIn)
                                /\ ~(v.executions >= v.policy.universal.maxExecutionsPerEpoch)
                                /\ e.minimumOut = MinimumOut(p, v.market.twap)
    BY <2>1, SizedResult
  <2>4. QED
    BY <2>2, <2>3 DEF e
<1>3. QED
  BY <1>1, <1>2

(* The gap of two prices that are not zero is an amount of BPS.            *)
LEMMA BpsGapNat ==
  ASSUME NEW a \in Nat, NEW b \in Nat
  PROVE  BpsGap(a, b) \in Nat
<1>1. CASE Lesser(a, b) = 0
  BY <1>1 DEF BpsGap, UnboundedGap
<1>2. CASE Lesser(a, b) # 0
  <2>1. Greater(a, b) - Lesser(a, b) \in Nat /\ Lesser(a, b) \in Nat \ {0}
    BY <1>2 DEF Greater, Lesser
  <2>2. MulDiv(Greater(a, b) - Lesser(a, b), BPS, Lesser(a, b)) \in Nat
    BY <2>1, MulDivNat, BpsNat
  <2>3. QED
    BY <1>2, <2>2 DEF BpsGap
<1>3. QED
  BY <1>1, <1>2

(* An arbitrage: past the edge check the net edge cannot be negative, and  *)
(* a valid policy never divides by its minimum edge of zero.               *)
LEMMA ArbitrageEvaluation ==
  ASSUME NEW v \in StrategyView, NEW p, p.maxSlippageBps \in Nat,
         ValidArbitrage(v.policy.arbitrage),
         NEW confirm, confirm.price \in Nat, MinimumOut(p, v.market.twap) \in Nat
  PROVE  LET e == EvaluateArbitrage(v, p, confirm)
         IN  /\ e.permittedValue \in Nat /\ e.minimumOut \in Nat /\ e.reason \in ReasonCode
             /\ e.reason = "None" =>
                  /\ ~(v.balance[p.assetIn] < p.amountIn)
                  /\ ~(v.executions >= v.policy.universal.maxExecutionsPerEpoch)
                  /\ e.minimumOut = MinimumOut(p, v.market.twap)
<1> DEFINE a == v.policy.arbitrage
           reason == ArbitrageReason(v, p, confirm)
           permitted == ArbitragePermittedValue(v, p, confirm)
           sell == ArbitrageSells(v, confirm)
           sized == Sized(v, p, permitted, sell, v.market.twap)
           e == EvaluateArbitrage(v, p, confirm)
           Amounts(r) ==
             r.permittedValue \in Nat /\ r.minimumOut \in Nat /\ r.reason \in ReasonCode
<1>1. /\ a \in ArbitragePolicy /\ v.balance \in [Assets -> Nat] /\ v.market.twap \in Nat
      /\ v.policy.universal.maxActionValue \in Nat
  BY DEF StrategyView, Policy, UniversalPolicy, MarketState
<1>2. /\ \A r \in ReasonCode : Amounts(Refused(r))
      /\ \A r : Refused(r).reason = r
  BY DEF Refused
<1>3. CASE reason # "None"
  <2>1. e = Refused(reason) /\ reason \in ReasonCode
    BY <1>3, ArbitrageReasonResult DEF EvaluateArbitrage
  <2>2. QED
    BY <1>2, <1>3, <2>1
<1>4. CASE reason = "None"
  <2>1. a.minNetEdgeBps \in Nat \ {0} /\ a.maxArbitrageValue \in Nat
    BY <1>1 DEF ValidArbitrage, ArbitragePolicy
  <2>2. ArbitrageNet(v, p, confirm) \in Nat
    <3>1. ArbitrageGross(v, confirm) \in Nat
      BY <1>1, BpsGapNat DEF ArbitrageGross
    <3>2. ArbitrageCosts(p) \in Nat
      BY UnitAssumption DEF ArbitrageCosts, ExecutionReserveBps
    <3>3. ~(ArbitrageGross(v, confirm) < ArbitrageCosts(p) + a.minNetEdgeBps)
      BY <1>4, ArbitrageReasonResult
    <3>4. QED
      BY <2>1, <3>1, <3>2, <3>3 DEF ArbitrageNet
  <2>3. ArbitrageBalanceValue(v, confirm) \in Nat
    BY <1>1, MulDivNat, UnitAssumption DEF ArbitrageBalanceValue, Assets
  <2>4. permitted \in Nat
    <3> DEFINE cap == Lesser(Lesser(a.maxArbitrageValue, v.policy.universal.maxActionValue),
                             ArbitrageBalanceValue(v, confirm))
               grown == MulDiv(cap, ArbitrageNet(v, p, confirm), a.minNetEdgeBps * 4)
    <3>1. cap \in Nat
      BY <1>1, <2>1, <2>3 DEF Lesser
    <3>2. a.minNetEdgeBps * 4 \in Nat \ {0}
      BY <2>1
    <3>3. grown \in Nat
      <4> HIDE DEF cap
      <4>1. QED
        BY <2>2, <3>1, <3>2, MulDivNat
    <3>4. permitted = Lesser(grown, cap)
      BY DEF ArbitragePermittedValue
    <3> HIDE DEF cap, grown, permitted
    <3>5. QED
      BY <3>1, <3>3, <3>4 DEF Lesser
  <2>5. e = sized \/ e = Refused(sized.reason) \/ e = Refused("ZeroExecutableAmount")
    BY <1>4 DEF EvaluateArbitrage
  <2>6. e.reason = "None" => e = sized
    BY <1>2, <1>4 DEF EvaluateArbitrage
  <2> HIDE DEF permitted, sell, e
  <2>7. /\ Amounts(sized)
        /\ sized.reason = "None" =>
             /\ ~(v.balance[p.assetIn] < p.amountIn)
             /\ ~(v.executions >= v.policy.universal.maxExecutionsPerEpoch)
             /\ sized.minimumOut = MinimumOut(p, v.market.twap)
    BY <2>4, SizedResult
  <2> HIDE DEF sized
  <2>8. Amounts(e)
    <3>1. sized.reason \in ReasonCode
      BY <2>7
    <3>2. Amounts(Refused(sized.reason)) /\ Amounts(Refused("ZeroExecutableAmount"))
      BY <1>2, <3>1 DEF ReasonCode
    <3>3. QED
      BY <2>5, <2>7, <3>2
  <2>9. QED
    BY <2>6, <2>7, <2>8 DEF e
<1>5. QED
  BY <1>3, <1>4

(* What an approved proposal has passed: funds, the epoch's limit and, for *)
(* a risk reduction, the day's budget.                                     *)
THEOREM ApprovedEvaluation ==
  ASSUME NEW v \in StrategyView, ValidPolicy(v.policy),
         NEW p, p.strategy \in v.policy.universal.enabledStrategies,
         p.assetIn \in Assets, p.amountIn \in Nat, p.maxSlippageBps \in Nat,
         p.maxSlippageBps <= v.policy.universal.maxSlippageBps,
         NEW source, NEW confirm, confirm.price \in Nat
  PROVE  LET e == EvaluateStrategy(v, p, source, confirm)
         IN  /\ e.permittedValue \in Nat /\ e.minimumOut \in Nat /\ e.reason \in ReasonCode
             /\ e.reason = "None" =>
                  /\ p.amountIn <= v.balance[p.assetIn]
                  /\ v.executions < v.policy.universal.maxExecutionsPerEpoch
                  /\ v.market.twap # 0 /\ e.minimumOut = MinimumOut(p, v.market.twap)
                  /\ p.strategy = "RiskReduction" =>
                       v.usedToday + e.permittedValue <= v.policy.risk.dailyRiskReductionValue
<1> DEFINE reason == MarketReason(v.policy.universal, v.market, source, confirm)
           e == EvaluateStrategy(v, p, source, confirm)
<1>1. CASE reason # "None"
  <2>1. e = Refused(reason) /\ reason \in ReasonCode
    BY <1>1, MarketReasonResult DEF EvaluateStrategy
  <2>2. QED
    BY <1>1, <2>1 DEF Refused
<1>2. CASE reason = "None"
  <2>1. /\ v.balance \in [Assets -> Nat] /\ v.executions \in Nat /\ v.market.twap \in Nat
        /\ v.policy \in Policy /\ v.policy.universal \in UniversalPolicy
    BY DEF StrategyView, Policy, MarketState
  <2>2. /\ v.policy.universal.maxExecutionsPerEpoch \in Nat
        /\ v.policy.universal.maxSlippageBps \in Nat
    BY <2>1 DEF UniversalPolicy
  <2>3. v.market.twap # 0 /\ MinimumOut(p, v.market.twap) \in Nat
    <3>1. v.market.twap \in Nat \ {0}
      BY <1>2, <2>1, MarketReasonResult
    <3>2. v.policy.universal.maxSlippageBps <= 1000
      BY DEF ValidPolicy, ValidUniversal, MaxAllowedSlippageBps
    <3>3. p.maxSlippageBps <= 1000
      BY <2>2, <3>2
    <3>4. QED
      BY <3>1, <3>3, MinimumOutNat
  <2>4. v.balance[p.assetIn] \in Nat
    BY <2>1
  <2>5. CASE p.strategy = "Arbitrage"
    <3>1. e = EvaluateArbitrage(v, p, confirm)
      BY <1>2, <2>5 DEF EvaluateStrategy
    <3>2. ValidArbitrage(v.policy.arbitrage)
      BY <2>5 DEF ValidPolicy
    <3> HIDE DEF e
    <3>3. /\ e.permittedValue \in Nat /\ e.minimumOut \in Nat /\ e.reason \in ReasonCode
          /\ e.reason = "None" =>
               /\ ~(v.balance[p.assetIn] < p.amountIn)
               /\ ~(v.executions >= v.policy.universal.maxExecutionsPerEpoch)
               /\ e.minimumOut = MinimumOut(p, v.market.twap)
      BY <2>3, <3>1, <3>2, ArbitrageEvaluation
    <3>4. QED
      BY <2>1, <2>2, <2>3, <2>4, <2>5, <3>3 DEF e
  <2>6. CASE p.strategy = "Rebalance"
    <3>1. e = EvaluateRebalance(v, p, confirm)
      BY <1>2, <2>6 DEF EvaluateStrategy
    <3> HIDE DEF e
    <3>2. /\ e.permittedValue \in Nat /\ e.minimumOut \in Nat /\ e.reason \in ReasonCode
          /\ e.reason = "None" =>
               /\ ~(v.balance[p.assetIn] < p.amountIn)
               /\ ~(v.executions >= v.policy.universal.maxExecutionsPerEpoch)
               /\ e.minimumOut = MinimumOut(p, v.market.twap)
      BY <2>3, <3>1, RebalanceEvaluation
    <3>3. QED
      BY <2>1, <2>2, <2>3, <2>4, <2>6, <3>2 DEF e
  <2>7. CASE p.strategy \notin {"Arbitrage", "Rebalance"}
    <3>1. e = EvaluateRisk(v, p, confirm)
      BY <1>2, <2>7 DEF EvaluateStrategy
    <3> HIDE DEF e
    <3>2. /\ e.permittedValue \in Nat /\ e.minimumOut \in Nat /\ e.reason \in ReasonCode
          /\ e.reason = "None" =>
               /\ v.usedToday + e.permittedValue <= v.policy.risk.dailyRiskReductionValue
               /\ ~(v.balance[p.assetIn] < p.amountIn)
               /\ ~(v.executions >= v.policy.universal.maxExecutionsPerEpoch)
               /\ e.minimumOut = MinimumOut(p, v.market.twap)
      BY <2>3, <3>1, RiskEvaluation
    <3>3. QED
      BY <2>1, <2>2, <2>3, <2>4, <3>2 DEF e
  <2>8. QED
    BY <2>5, <2>6, <2>7
<1>3. QED
  BY <1>1, <1>2

(***************************************************************************)
(* The state of a treasury.                                                *)
(***************************************************************************)

-----------------------------------------------------------------------------
(* What a proposal that passes the checks of the contract and of the       *)
(* verifier satisfies.                                                     *)

LEMMA UniversalReasonResult ==
  ASSUME NEW agent, NEW p
  PROVE  /\ UniversalReason(agent, p) \in ReasonCode
         /\ UniversalReason(agent, p) = "None" =>
              /\ mode = "Autonomous"
              /\ p.strategy \in policy.universal.enabledStrategies
              /\ Sells(p) \/ Buys(p)
              /\ ~(p.deadline < now) /\ ~(p.deadline > now + Horizon)
              /\ ~(p.maxSlippageBps > policy.universal.maxSlippageBps)
              /\ p.policyHash = CurrentPolicyHash
              /\ p \notin processedProposals
              /\ <<agent, p.nonce>> \notin usedNonces
              /\ ExecutionKey(p) \notin executedEvidence
<1> DEFINE checks ==
      << <<"UnsupportedSchema", p.schemaVersion # 1>>,
         <<"InvalidCommitment", ~p.committed>>,
         <<"PolicyPaused", mode # "Autonomous">>,
         <<"StrategyDisabled", p.strategy \notin policy.universal.enabledStrategies>>,
         <<"AssetNotAllowed", ~Sells(p) /\ ~Buys(p)>>,
         <<"VenueNotAllowed", ~p.atVenue>>,
         <<"ProposalExpired", p.deadline < now>>,
         <<"DeadlineTooFar", p.deadline > now + Horizon>>,
         <<"SlippageExceedsPolicy", p.maxSlippageBps > policy.universal.maxSlippageBps>>,
         <<"PolicyHashMismatch", p.policyHash # CurrentPolicyHash>>,
         <<"ReplayProposal", p \in processedProposals>>,
         <<"NonceAlreadyUsed", <<agent, p.nonce>> \in usedNonces>>,
         <<"EvidenceAlreadyExecuted", ExecutionKey(p) \in executedEvidence>>,
         <<"ZeroExecutableAmount", p.amountIn = 0>> >>
<1>1. UniversalReason(agent, p) = FirstReason(checks)
  BY DEF UniversalReason
<1>2. DOMAIN checks = 1..14 /\ \A i \in 1..14 : checks[i][1] \in ReasonCode \ {"None"}
  <2>1. DOMAIN checks = 1..14
    OBVIOUS
  <2>2. /\ checks[1][1] \in ReasonCode \ {"None"}
        /\ checks[2][1] \in ReasonCode \ {"None"}
        /\ checks[3][1] \in ReasonCode \ {"None"}
        /\ checks[4][1] \in ReasonCode \ {"None"}
        /\ checks[5][1] \in ReasonCode \ {"None"}
        /\ checks[6][1] \in ReasonCode \ {"None"}
        /\ checks[7][1] \in ReasonCode \ {"None"}
        /\ checks[8][1] \in ReasonCode \ {"None"}
        /\ checks[9][1] \in ReasonCode \ {"None"}
        /\ checks[10][1] \in ReasonCode \ {"None"}
        /\ checks[11][1] \in ReasonCode \ {"None"}
        /\ checks[12][1] \in ReasonCode \ {"None"}
        /\ checks[13][1] \in ReasonCode \ {"None"}
        /\ checks[14][1] \in ReasonCode \ {"None"}
    BY DEF ReasonCode
  <2> HIDE DEF checks
  <2>3. QED
    BY <2>1, <2>2
<1> HIDE DEF checks
<1>3. /\ FirstReason(checks) \in ReasonCode
      /\ FirstReason(checks) = "None" => \A i \in 1..14 : ~checks[i][2]
  BY <1>2, FirstReasonResult, NoneIsReason
<1>4. FirstReason(checks) = "None" =>
        /\ ~checks[3][2] /\ ~checks[4][2] /\ ~checks[5][2] /\ ~checks[7][2] /\ ~checks[8][2] /\ ~checks[9][2]
        /\ ~checks[10][2] /\ ~checks[11][2] /\ ~checks[12][2] /\ ~checks[13][2]
  BY <1>3
<1>5. QED
  BY <1>1, <1>3, <1>4 DEF checks

LEMMA VerifyPairReasonResult ==
  ASSUME NEW source, NEW confirm, NEW latest
  PROVE  VerifyPairReason(source, confirm, latest) = "None" =>
           /\ ~(confirm.blockHeight <= source.blockHeight)
           /\ ~(source.blockHeight > latest.height \/ confirm.blockHeight > latest.height)
           /\ ~(latest.height - confirm.blockHeight > MaxProofAge)
           /\ ProverAccepts(source) /\ ProverAccepts(confirm)
           /\ CalculatedTxIndex(source) = source.transactionIndex
           /\ CalculatedTxIndex(confirm) = confirm.transactionIndex
           /\ DecodeReason(source.tx) = "None" /\ DecodeReason(confirm.tx) = "None"
<1> DEFINE checks ==
      << <<"WrongSourceChain",
           source.chainKey # SourceChainKey \/ confirm.chainKey # SourceChainKey>>,
         <<"ConfirmationNotNewer", confirm.blockHeight <= source.blockHeight>>,
         <<"ConfirmationGapTooLarge", confirm.blockHeight - source.blockHeight > MaxConfirmGap>>,
         <<"LatestAttestationUnavailable", ~latest.exists \/ ~latest.isAttestation>>,
         <<"ProofAboveLatestAttestation",
             source.blockHeight > latest.height \/ confirm.blockHeight > latest.height>>,
         <<"ProofTooOld", latest.height - confirm.blockHeight > MaxProofAge>>,
         <<"SourceVerificationFailed", ~ProverAccepts(source)>>,
         <<"ConfirmationVerificationFailed", ~ProverAccepts(confirm)>>,
         <<"TransactionIndexMismatch",
             \/ CalculatedTxIndex(source) # source.transactionIndex
             \/ CalculatedTxIndex(confirm) # confirm.transactionIndex>>,
         <<"SourceDecode", DecodeReason(source.tx) # "None">>,
         <<"ConfirmDecode", DecodeReason(confirm.tx) # "None">> >>
<1>1. VerifyPairReason(source, confirm, latest) = FirstReason(checks)
  BY DEF VerifyPairReason
<1>2. DOMAIN checks = 1..11 /\ \A i \in 1..11 : checks[i][1] # "None"
  OBVIOUS
<1> DEFINE errors == {checks[i][1] : i \in 1..11} \cup {"None"}
<1> HIDE DEF checks
<1>3. FirstReason(checks) = "None" => \A i \in 1..11 : ~checks[i][2]
  <2>1. "None" \in errors /\ \A i \in 1..11 : checks[i][1] \in errors \ {"None"}
    BY <1>2
  <2> HIDE DEF errors
  <2>2. QED
    BY <1>2, <2>1, FirstReasonResult
<1>4. FirstReason(checks) = "None" =>
        /\ ~checks[2][2] /\ ~checks[5][2] /\ ~checks[6][2] /\ ~checks[7][2] /\ ~checks[8][2] /\ ~checks[9][2]
        /\ ~checks[10][2] /\ ~checks[11][2]
  BY <1>3
<1>5. QED
  BY <1>1, <1>3, <1>4 DEF checks

(* A transaction that decodes was sent to the observer, succeeded, and has *)
(* one event of the pinned pool, the one that is decoded.                  *)
LEMMA DecodedOnce ==
  ASSUME NEW tx, tx.logs \in Seq(Log), DecodeReason(tx) = "None"
  PROVE  /\ tx.to = Observer /\ tx.status = 1
         /\ \E k \in DOMAIN tx.logs :
              /\ MatchingLogs(tx) = {k} /\ tx.logs[k].consistent
              /\ Decoded(tx) = tx.logs[k]
<1> DEFINE found == MatchingLogs(tx) # {}
           checks ==
      << <<"WrongObservationSource", tx.to # Observer>>,
         <<"MalformedObservationCall", tx.call # "observe">>,
         <<"UnderlyingTransactionFailed", tx.status # 1>>,
         <<"WrongTwapWindow", found /\ Decoded(tx).window # TwapWindow>>,
         <<"ZeroObservationLiquidity", found /\ Decoded(tx).liquidity = 0>>,
         <<"DuplicateMarketObservation", Repeated(tx)>>,
         <<"MissingMarketObservation", ~found>>,
         <<"ObservationPriceMismatch", found /\ ~Decoded(tx).consistent>> >>
           errors == {checks[i][1] : i \in 1..8} \cup {"None"}
<1>1. DecodeReason(tx) = FirstReason(checks)
  BY DEF DecodeReason
<1>2. DOMAIN checks = 1..8 /\ \A i \in 1..8 : checks[i][1] # "None"
  OBVIOUS
<1> HIDE DEF checks
<1>3. \A i \in 1..8 : ~checks[i][2]
  <2>1. "None" \in errors /\ \A i \in 1..8 : checks[i][1] \in errors \ {"None"}
    BY <1>2
  <2> HIDE DEF errors
  <2>2. QED
    BY <1>1, <1>2, <2>1, FirstReasonResult
<1>4. /\ ~checks[1][2] /\ ~checks[3][2] /\ ~checks[6][2] /\ ~checks[7][2] /\ ~checks[8][2]
  BY <1>3
<1>5. /\ tx.to = Observer /\ tx.status = 1 /\ ~Repeated(tx)
      /\ MatchingLogs(tx) # {} /\ Decoded(tx).consistent
  BY <1>4 DEF checks
<1>6. PICK k \in MatchingLogs(tx) : MatchingLogs(tx) = {k}
  BY <1>5 DEF Repeated
<1>7. k \in DOMAIN tx.logs /\ k \in Nat
  BY <1>6 DEF MatchingLogs
<1>8. Decoded(tx) = tx.logs[k]
  BY <1>6, <1>7 DEF Decoded
<1>9. QED
  BY <1>5, <1>6, <1>7, <1>8

-----------------------------------------------------------------------------
(* Type correctness.  Overdrafts are what it excludes: a transfer out and  *)
(* a swap take from a balance, and balances are natural numbers.           *)

IInv == TypeOK /\ ValidPolicy(policy)

LEMMA PeriodsIndexed ==
  ASSUME IInv
  PROVE  Epoch(now) \in Periods /\ Day(now) \in Periods
<1>1. \A t \in 0..MaxTime, length \in Nat \ {0} : t \div length \in 0..MaxTime
  <2>1. SUFFICES ASSUME NEW t \in 0..MaxTime, NEW length \in Nat \ {0}
                 PROVE  t \div length \in 0..MaxTime
    OBVIOUS
  <2>2. t \div length \in Nat /\ t \div length <= t
    OBVIOUS
  <2>3. QED
    BY <2>2, TreasuryAssumption
<1>2. policy \in Policy
  BY InputAssumption DEF IInv, TypeOK
<1>3. policy.universal.epochLength \in Nat \ {0}
  <2>1. policy.universal.epochLength >= MinEpochLength
    BY <1>2, UnitAssumption DEF IInv, ValidPolicy, ValidUniversal, Policy, UniversalPolicy
  <2>2. QED
    BY <1>2, <2>1, UnitAssumption DEF Policy, UniversalPolicy
<1>4. QED
  BY <1>1, <1>3, TreasuryAssumption DEF IInv, TypeOK, Epoch, Day, Periods

LEMMA ConfirmedPrice ==
  ASSUME NEW proofs \in ProofPairs, VerifierError(proofs) = "None"
  PROVE  WithLocation(proofs[2]).price \in Nat
<1>1. proofs[2].tx.logs \in Seq(Log)
  BY InputAssumption
<1>2. DecodeReason(proofs[2].tx) = "None"
  BY VerifyPairReasonResult DEF VerifierError
<1>3. PICK k \in DOMAIN proofs[2].tx.logs : Decoded(proofs[2].tx) = proofs[2].tx.logs[k]
  BY <1>1, <1>2, DecodedOnce
<1>4. Decoded(proofs[2].tx) \in Log
  BY <1>1, <1>3
<1>5. QED
  BY <1>4 DEF WithLocation, Log

(* What the proposal's evaluation returns, and what it has checked if it   *)
(* approves.                                                               *)
LEMMA EvaluationApproves ==
  ASSUME IInv, NEW agent, NEW p \in Proposals, NEW proofs \in ProofPairs,
         UniversalReason(agent, p) = "None"
  PROVE  LET e == Evaluation(p, proofs)
         IN  /\ e.permittedValue \in Nat /\ e.minimumOut \in Nat /\ e.reason \in ReasonCode
             /\ e.reason = "None" =>
                  /\ VerifierError(proofs) = "None"
                  /\ p.evidenceHash = EvidenceHash(WithLocation(proofs[1]), WithLocation(proofs[2]))
                  /\ p.amountIn <= balance[p.assetIn]
                  /\ executionsInEpoch[Epoch(now)] < policy.universal.maxExecutionsPerEpoch
                  /\ market.twap # 0
                  /\ Evaluation(p, proofs).minimumOut = MinimumOut(p, market.twap)
                  /\ p.strategy = "RiskReduction" =>
                       riskUsedByDay[Day(now)] + Evaluation(p, proofs).permittedValue
                         <= policy.risk.dailyRiskReductionValue
<1> DEFINE source == WithLocation(proofs[1])
           confirm == WithLocation(proofs[2])
           e == Evaluation(p, proofs)
<1>1. \A r : /\ Refused(r).reason = r
             /\ Refused(r).permittedValue \in Nat /\ Refused(r).minimumOut \in Nat
  BY DEF Refused
<1>2. CASE \E r \in ReasonCode \ {"None"} : e = Refused(r)
  BY <1>1, <1>2
<1>3. CASE ~\E r \in ReasonCode \ {"None"} : e = Refused(r)
  <2>1. /\ VerifierError(proofs) = "None"
        /\ EvidenceHash(source, confirm) = p.evidenceHash
        /\ e = EvaluateStrategy(View, p, source, confirm)
    BY <1>3 DEF Evaluation, ReasonCode
  <2>4. confirm.price \in Nat
    BY <2>1, ConfirmedPrice
  <2>5. policy \in Policy /\ market \in MarketState
    BY InputAssumption DEF IInv, TypeOK
  <2>6. View \in StrategyView
    BY <2>5, PeriodsIndexed DEF View, StrategyView, IInv, TypeOK
  <2>7. View.policy = policy /\ View.balance = balance /\ View.market = market
        /\ View.usedToday = riskUsedByDay[Day(now)]
        /\ View.executions = executionsInEpoch[Epoch(now)]
    BY DEF View
  <2>8. /\ p.strategy \in policy.universal.enabledStrategies
        /\ p.assetIn \in Assets
        /\ ~(p.maxSlippageBps > policy.universal.maxSlippageBps)
    BY UniversalReasonResult DEF Sells, Buys, Assets
  <2>9. p.amountIn \in Nat /\ p.maxSlippageBps \in Nat /\ policy.universal.maxSlippageBps \in Nat
    BY <2>5, InputAssumption DEF Policy, UniversalPolicy
  <2>10. ValidPolicy(View.policy)
    BY <2>7 DEF IInv
  <2>11. p.maxSlippageBps <= View.policy.universal.maxSlippageBps
    BY <2>7, <2>8, <2>9
  <2>12. p.strategy \in View.policy.universal.enabledStrategies
    BY <2>7, <2>8
  <2> HIDE DEF confirm, source
  <2>13. LET f == EvaluateStrategy(View, p, source, confirm)
         IN  /\ f.permittedValue \in Nat /\ f.minimumOut \in Nat /\ f.reason \in ReasonCode
             /\ f.reason = "None" =>
                  /\ p.amountIn <= View.balance[p.assetIn]
                  /\ View.executions < View.policy.universal.maxExecutionsPerEpoch
                  /\ View.market.twap # 0 /\ f.minimumOut = MinimumOut(p, View.market.twap)
                  /\ p.strategy = "RiskReduction" =>
                       View.usedToday + f.permittedValue
                         <= View.policy.risk.dailyRiskReductionValue
    BY <2>4, <2>6, <2>8, <2>9, <2>10, <2>11, <2>12, ApprovedEvaluation
  <2>14. QED
    BY <2>1, <2>7, <2>13 DEF confirm, source
<1>4. QED
  BY <1>2, <1>3

LEMMA InitIInv == Init => IInv
<1>1. SUFFICES ASSUME Init
               PROVE  IInv
  OBVIOUS
<1>2. ValidPolicy(policy) /\ policy \in Policies
  BY <1>1 DEF Init
<1>3. attempts \in Seq(Attempt)
  BY <1>1 DEF Init
<1>4. /\ attemptsInEpoch \in [Periods -> Nat] /\ executionsInEpoch \in [Periods -> Nat]
      /\ riskUsedByDay \in [Periods -> Nat]
  BY <1>1 DEF Init
<1>5. received \in [Recipients -> [Assets -> Nat]]
  BY <1>1 DEF Init
<1>6. now \in 0..MaxTime /\ attested \in 0..MaxHeight /\ balance \in [Assets -> Nat]
  BY <1>1, TreasuryAssumption DEF Init
<1>7. QED
  BY <1>1, <1>2, <1>3, <1>4, <1>5, <1>6 DEF Init, IInv, TypeOK, Modes

LEMMA ChangeModeType ==
  ASSUME TypeOK, NEW newMode \in Modes, ChangeMode(newMode)
  PROVE  mode' \in Modes /\ policyEpoch' \in Nat /\ revoked' \subseteq Modes \X Nat
BY DEF TypeOK, ChangeMode, CurrentPolicyHash

LEMMA PayType ==
  ASSUME TypeOK, NEW recipient \in Recipients, NEW amount \in [Assets -> Nat],
         \A a \in Assets : amount[a] <= balance[a], Pay(recipient, amount)
  PROVE  balance' \in [Assets -> Nat] /\ received' \in [Recipients -> [Assets -> Nat]]
<1>1. \A a \in Assets : balance[a] \in Nat /\ amount[a] \in Nat /\ balance[a] - amount[a] \in Nat
  BY DEF TypeOK
<1>2. balance' \in [Assets -> Nat]
  BY <1>1 DEF Pay
<1>3. \A a \in Assets : received[recipient][a] \in Nat
  BY DEF TypeOK
<1>4. [a \in Assets |-> received[recipient][a] + amount[a]] \in [Assets -> Nat]
  BY <1>1, <1>3
<1>5. received' \in [Recipients -> [Assets -> Nat]]
  BY <1>4 DEF Pay, TypeOK
<1>6. QED
  BY <1>2, <1>5

(* The transactions of the owner and of the configurator.                  *)
LEMMA OwnerStepsIInv ==
  ASSUME IInv,
         \/ \E demo \in Lifecycles : ConfigureLifecycle(demo)
         \/ \E agent \in Agents : RegisterAgent(agent) \/ DeregisterAgent(agent)
         \/ \E newMode \in Modes : SetAutomationMode(newMode)
         \/ \E asset \in Assets, amount \in Exits : OwnerExit(asset, amount)
         \/ CloseTreasury
  PROVE  IInv'
<1> USE DEF IInv
<1>1. ASSUME NEW demo \in Lifecycles, ConfigureLifecycle(demo)
      PROVE  IInv'
  BY <1>1, TreasuryAssumption
  DEF ConfigureLifecycle, TypeOK, world, authority, funds, replay, usage, journal
<1>2. ASSUME NEW agent \in Agents, RegisterAgent(agent) \/ DeregisterAgent(agent)
      PROVE  IInv'
  BY <1>2
  DEF RegisterAgent, DeregisterAgent, TypeOK, world, lifecycle, funds, replay, usage, journal
<1>3. ASSUME NEW newMode \in Modes, SetAutomationMode(newMode)
      PROVE  IInv'
  <2>1. mode' \in Modes /\ policyEpoch' \in Nat /\ revoked' \subseteq Modes \X Nat
    BY <1>3, ChangeModeType DEF SetAutomationMode
  <2>2. QED
    BY <1>3, <2>1
    DEF SetAutomationMode, TypeOK, world, lifecycle, funds, replay, usage, journal
<1>4. ASSUME NEW asset \in Assets, NEW amount \in Exits, OwnerExit(asset, amount)
      PROVE  IInv'
  <2>1. Only(asset, amount) \in [Assets -> Nat]
    BY TreasuryAssumption DEF Only
  <2>2. \A a \in Assets : Only(asset, amount)[a] <= balance[a]
    BY <1>4 DEF OwnerExit, Only, TypeOK
  <2>3. balance' \in [Assets -> Nat] /\ received' \in [Recipients -> [Assets -> Nat]]
    BY <1>4, <2>1, <2>2, PayType DEF OwnerExit, Recipients
  <2>4. QED
    BY <1>4, <2>3 DEF OwnerExit, TypeOK, world, authority, lifecycle, replay, usage, journal
<1>5. ASSUME CloseTreasury
      PROVE  IInv'
  <2>1. mode' \in Modes /\ policyEpoch' \in Nat /\ revoked' \subseteq Modes \X Nat
    <3>1. CASE mode # "Paused"
      BY <1>5, <3>1, ChangeModeType DEF CloseTreasury, Modes
    <3>2. CASE mode = "Paused"
      BY <1>5, <3>2 DEF CloseTreasury, TypeOK
    <3>3. QED
      BY <3>1, <3>2
  <2>2. \A a \in Assets : balance[a] \in Nat
    BY DEF TypeOK
  <2>3. balance \in [Assets -> Nat] /\ \A a \in Assets : balance[a] <= balance[a]
    BY <2>2 DEF TypeOK
  <2>4. (IF demoMode THEN "DemoReserve" ELSE "Owner") \in Recipients
    BY DEF Recipients
  <2>5. balance' \in [Assets -> Nat] /\ received' \in [Recipients -> [Assets -> Nat]]
    BY <1>5, <2>3, <2>4, PayType DEF CloseTreasury
  <2>6. QED
    BY <1>5, <2>1, <2>5 DEF CloseTreasury, TypeOK, world, lifecycle, replay, usage, journal
<1>6. QED
  BY <1>1, <1>2, <1>3, <1>4, <1>5

(* The attestation chain, time, the market, and transfers to the treasury. *)
LEMMA SurroundingsIInv ==
  ASSUME IInv,
         \/ Tick \/ Attest \/ MarketMoves
         \/ \E asset \in Assets, amount \in Deposits : Deposit(asset, amount)
  PROVE  IInv'
<1> USE DEF IInv
<1>1. CASE Tick
  BY <1>1, TreasuryAssumption
  DEF Tick, TypeOK, authority, lifecycle, funds, replay, usage, journal
<1>2. CASE Attest
  BY <1>2, TreasuryAssumption
  DEF Attest, TypeOK, authority, lifecycle, funds, replay, usage, journal
<1>3. CASE MarketMoves
  BY <1>3 DEF MarketMoves, TypeOK, authority, lifecycle, funds, replay, usage, journal
<1>4. ASSUME NEW asset \in Assets, NEW amount \in Deposits, Deposit(asset, amount)
      PROVE  IInv'
  <2>1. balance[asset] \in Nat /\ amount \in Nat
    BY TreasuryAssumption DEF TypeOK
  <2>2. balance' \in [Assets -> Nat]
    BY <1>4, <2>1 DEF Deposit, TypeOK
  <2>3. QED
    BY <1>4, <2>2 DEF Deposit, TypeOK, world, authority, lifecycle, replay, usage, journal
<1>5. QED
  BY <1>1, <1>2, <1>3, <1>4

(* A swap approved by the policy gate never overdraws the treasury.        *)
LEMMA SwapType ==
  ASSUME IInv, NEW p \in Proposals, p.assetIn \in Assets, p.assetOut \in Assets,
         p.amountIn <= balance[p.assetIn], NEW out \in Nat, Swap(p, out)
  PROVE  balance' \in [Assets -> Nat] /\ received' = received
<1>1. balance[p.assetIn] \in Nat /\ p.amountIn \in Nat
  BY InputAssumption DEF IInv, TypeOK
<1>2. balance[p.assetIn] - p.amountIn \in Nat
  BY <1>1
<1>3. \A a \in Assets : balance[a] \in Nat /\ balance[a] + out \in Nat
  BY DEF IInv, TypeOK
<1>4. [balance EXCEPT ![p.assetIn] = @ - p.amountIn] \in [Assets -> Nat]
  BY <1>2 DEF IInv, TypeOK
<1>5. balance' \in [Assets -> Nat]
  BY <1>4 DEF Swap
<1>6. QED
  BY <1>5 DEF Swap

LEMMA SubmitIInv ==
  ASSUME IInv, NEW agent \in Agents, NEW p \in Proposals, NEW proofs \in ProofPairs,
         SubmitProposal(agent, p, proofs)
  PROVE  IInv'
<1>1. /\ UNCHANGED <<now, attested, market, policy, mode, policyEpoch, revoked, closed,
                     registeredAgents, lifecycleConfigured, demoMode>>
      /\ attemptsInEpoch' = [attemptsInEpoch EXCEPT ![Epoch(now)] = @ + 1]
  BY DEF SubmitProposal, world, authority, lifecycle
<1>2. attemptsInEpoch' \in [Periods -> Nat]
  BY <1>1, PeriodsIndexed DEF IInv, TypeOK
<1> DEFINE Rest ==
      /\ balance' \in [Assets -> Nat]
      /\ received' \in [Recipients -> [Assets -> Nat]]
      /\ processedProposals' \subseteq Proposals
      /\ executionsInEpoch' \in [Periods -> Nat]
      /\ riskUsedByDay' \in [Periods -> Nat]
      /\ executionCount' \in Nat
      /\ attempts' \in Seq(Attempt)
<1>3. ASSUME NEW attempt \in Attempt, attempts' = Append(attempts, attempt)
      PROVE  attempts' \in Seq(Attempt)
  BY <1>3 DEF IInv, TypeOK
<1>4. ASSUME RejectUnchecked(agent, p)
      PROVE  Rest
  <2> DEFINE attempt ==
        [agent |-> agent, proposal |-> p, proofs |-> << >>, evidenceStatus |-> "NotChecked",
         result |-> "Rejected", reason |-> UniversalReason(agent, p), permittedValue |-> 0,
         amountOut |-> 0, submittedAt |-> now]
  <2>1. attempt \in Attempt
    BY UniversalReasonResult DEF Attempt, EvidenceStatuses, Results, IInv, TypeOK
  <2>2. attempts' = Append(attempts, attempt)
    BY <1>4 DEF RejectUnchecked, Resolve
  <2> HIDE DEF attempt
  <2>3. attempts' \in Seq(Attempt)
    BY <1>3, <2>1, <2>2
  <2>4. QED
    BY <1>4, <2>3 DEF RejectUnchecked, IInv, TypeOK, funds, replay, usage
<1>5. ASSUME UniversalReason(agent, p) = "None"
      PROVE  LET e == Evaluation(p, proofs)
             IN  e.permittedValue \in Nat /\ e.minimumOut \in Nat /\ e.reason \in ReasonCode
  BY <1>5, EvaluationApproves
<1>6. ASSUME SpendProposal(agent, p)
      PROVE  processedProposals' \subseteq Proposals
  BY <1>6 DEF SpendProposal, IInv, TypeOK
<1>7. ASSUME RejectEvaluated(agent, p, proofs)
      PROVE  Rest
  <2> DEFINE e == Evaluation(p, proofs)
             attempt ==
        [agent |-> agent, proposal |-> p, proofs |-> proofs,
         evidenceStatus |-> EvidenceStatus(proofs), result |-> "Rejected", reason |-> e.reason,
         permittedValue |-> e.permittedValue, amountOut |-> 0, submittedAt |-> now]
  <2>1. e.permittedValue \in Nat /\ e.reason \in ReasonCode
    BY <1>5, <1>7 DEF RejectEvaluated
  <2>2. EvidenceStatus(proofs) \in EvidenceStatuses
    BY DEF EvidenceStatus, EvidenceStatuses
  <2>3. attempts' = Append(attempts, attempt)
    BY <1>7 DEF RejectEvaluated, Resolve
  <2> HIDE DEF e
  <2>4. attempt \in Attempt
    BY <2>1, <2>2 DEF Attempt, Results, IInv, TypeOK
  <2> HIDE DEF attempt
  <2>5. attempts' \in Seq(Attempt)
    BY <1>3, <2>3, <2>4
  <2>6. processedProposals' \subseteq Proposals
    BY <1>6, <1>7 DEF RejectEvaluated
  <2>7. QED
    BY <1>7, <2>5, <2>6 DEF RejectEvaluated, IInv, TypeOK, funds, usage
<1>8. ASSUME NEW surplus \in Surplus, Execute(agent, p, proofs, surplus)
      PROVE  Rest
  <2> DEFINE e == Evaluation(p, proofs)
             out == e.minimumOut + surplus
             attempt ==
        [agent |-> agent, proposal |-> p, proofs |-> proofs, evidenceStatus |-> "Verified",
         result |-> "Executed", reason |-> "None", permittedValue |-> e.permittedValue,
         amountOut |-> out, submittedAt |-> now]
  <2>1. /\ UniversalReason(agent, p) = "None" /\ e.reason = "None"
        /\ SpendProposal(agent, p) /\ ConsumeLimits(p, e.permittedValue) /\ Swap(p, out)
        /\ attempts' = Append(attempts, attempt)
    BY <1>8 DEF Execute, Resolve
  <2>2. e.permittedValue \in Nat /\ e.minimumOut \in Nat /\ p.amountIn <= balance[p.assetIn]
    BY <2>1, EvaluationApproves
  <2>3. out \in Nat
    <3>1. surplus \in Nat
      BY TreasuryAssumption
    <3> HIDE DEF e
    <3>2. QED
      BY <2>2, <3>1
  <2> HIDE DEF e, out
  <2>4. attempt \in Attempt
    BY <2>2, <2>3 DEF Attempt, EvidenceStatuses, Results, ReasonCode, IInv, TypeOK
  <2> HIDE DEF attempt
  <2>5. attempts' \in Seq(Attempt)
    BY <1>3, <2>1, <2>4
  <2>6. p.assetIn \in Assets /\ p.assetOut \in Assets
    BY <2>1, UniversalReasonResult DEF Sells, Buys, Assets
  <2>7. balance' \in [Assets -> Nat] /\ received' = received
    BY <2>1, <2>2, <2>3, <2>6, SwapType
  <2>8. /\ executionsInEpoch' \in [Periods -> Nat] /\ riskUsedByDay' \in [Periods -> Nat]
        /\ executionCount' \in Nat
    <3>1. /\ executionsInEpoch[Epoch(now)] + 1 \in Nat
          /\ riskUsedByDay[Day(now)] + e.permittedValue \in Nat
      <4>1. e.permittedValue \in Nat
        BY <2>2
      <4>2. /\ executionsInEpoch[Epoch(now)] \in Nat
            /\ riskUsedByDay[Day(now)] \in Nat
        BY PeriodsIndexed DEF IInv, TypeOK
      <4> HIDE DEF e
      <4>3. QED
        BY <4>1, <4>2
    <3>2. executionsInEpoch' \in [Periods -> Nat]
      BY <2>1, <3>1 DEF ConsumeLimits, IInv, TypeOK
    <3>3. riskUsedByDay' \in [Periods -> Nat]
      <4>1. CASE p.strategy = "RiskReduction"
        BY <2>1, <3>1, <4>1 DEF ConsumeLimits, IInv, TypeOK
      <4>2. CASE p.strategy # "RiskReduction"
        BY <2>1, <4>2 DEF ConsumeLimits, IInv, TypeOK
      <4>3. QED
        BY <4>1, <4>2
    <3>4. executionCount' \in Nat
      BY <2>1 DEF ConsumeLimits, IInv, TypeOK
    <3>5. QED
      BY <3>2, <3>3, <3>4
  <2>9. processedProposals' \subseteq Proposals
    BY <1>6, <2>1
  <2>10. QED
    BY <2>5, <2>7, <2>8, <2>9 DEF IInv, TypeOK
<1>9. ASSUME FailExecution(agent, p, proofs)
      PROVE  Rest
  <2> DEFINE e == Evaluation(p, proofs)
             attempt ==
        [agent |-> agent, proposal |-> p, proofs |-> proofs, evidenceStatus |-> "Verified",
         result |-> "ExecutionFailed", reason |-> "ExecutionReverted",
         permittedValue |-> e.permittedValue, amountOut |-> 0, submittedAt |-> now]
  <2>1. e.permittedValue \in Nat
    BY <1>5, <1>9 DEF FailExecution
  <2>2. attempts' = Append(attempts, attempt)
    BY <1>9 DEF FailExecution, Resolve
  <2> HIDE DEF e
  <2>3. attempt \in Attempt
    BY <2>1 DEF Attempt, EvidenceStatuses, Results, ReasonCode, IInv, TypeOK
  <2> HIDE DEF attempt
  <2>4. attempts' \in Seq(Attempt)
    BY <1>3, <2>2, <2>3
  <2>5. processedProposals' \subseteq Proposals
    BY <1>6, <1>9 DEF FailExecution
  <2>6. QED
    BY <1>9, <2>4, <2>5 DEF FailExecution, IInv, TypeOK, funds, usage
<1>10. Rest
  BY <1>4, <1>7, <1>8, <1>9 DEF SubmitProposal
<1> HIDE DEF Rest
<1>11. QED
  BY <1>1, <1>2, <1>10 DEF Rest, IInv, TypeOK

LEMMA NextIInv == IInv /\ [Next]_vars => IInv'
<1>1. SUFFICES ASSUME IInv, [Next]_vars
               PROVE  IInv'
  OBVIOUS
<1>2. CASE Next
  BY <1>1, <1>2, OwnerStepsIInv, SurroundingsIInv, SubmitIInv DEF Next
<1>3. CASE UNCHANGED vars
  BY <1>1, <1>3
  DEF IInv, TypeOK, vars, world, authority, lifecycle, funds, replay, usage, journal
<1>4. QED
  BY <1>1, <1>2, <1>3

(* The state of a treasury keeps its type: no balance is overdrawn by a    *)
(* swap the policy gate approved or by a transfer out, whatever happened   *)
(* to balances and markets since the proposal was made.                    *)
THEOREM TypeCorrect == Spec => []TypeOK
<1>1. Spec => []IInv
  BY InitIInv, NextIInv, PTL DEF Spec
<1>2. IInv => TypeOK
  BY DEF IInv
<1>3. QED
  BY <1>1, <1>2, PTL

(***************************************************************************)
(* The journal.                                                            *)
(***************************************************************************)

-----------------------------------------------------------------------------
(* What one step may do to the journal.                                    *)

(* An attempt refused by the universal checks.                             *)
Unchecked(a) ==
  /\ a.evidenceStatus = "NotChecked" /\ a.result = "Rejected"
  /\ UNCHANGED <<replay, usage>>

(* One that has reached the verifier: its proposal and nonce were unspent. *)
Spent(a) ==
  /\ a.evidenceStatus # "NotChecked"
  /\ a.proposal \notin processedProposals /\ <<a.agent, a.proposal.nonce>> \notin usedNonces
  /\ SpendProposal(a.agent, a.proposal)

(* What the contract has established of one it executes.                   *)
Proven(a) ==
  /\ a.evidenceStatus = "Verified"
  /\ a.proposal.evidenceHash = EvidenceHash(WithLocation(a.proofs[1]), WithLocation(a.proofs[2]))
  /\ \A i \in 1..2 : /\ ProverAccepts(a.proofs[i])
                     /\ CalculatedTxIndex(a.proofs[i]) = a.proofs[i].transactionIndex

Performed(a) ==
  /\ a.result = "Executed" /\ Proven(a)
  /\ mode = "Autonomous" /\ a.proposal.policyHash = CurrentPolicyHash
  /\ ExecutionKey(a.proposal) \notin executedEvidence
  /\ executionsInEpoch[Epoch(now)] < policy.universal.maxExecutionsPerEpoch
  /\ a.proposal \in Proposals
  /\ a.permittedValue \in Nat
  /\ a.proposal.strategy = "RiskReduction" =>
       riskUsedByDay[Day(now)] + a.permittedValue <= policy.risk.dailyRiskReductionValue
  /\ ConsumeLimits(a.proposal, a.permittedValue)

NotPerformed(a) == a.result # "Executed" /\ UNCHANGED usage

(* Every one counts as an attempt of its epoch.                            *)
Counted(a) ==
  /\ a.submittedAt = now
  /\ attemptsInEpoch[Epoch(now)] < policy.universal.maxAttemptsPerEpoch
  /\ attemptsInEpoch' = [attemptsInEpoch EXCEPT ![Epoch(now)] = @ + 1]

Resolves(a) ==
  /\ attempts' = Append(attempts, a) /\ Counted(a)
  /\ ~closed
  /\ UNCHANGED <<policy, authority>>
  /\ Unchecked(a) \/ (Spent(a) /\ (Performed(a) \/ NotPerformed(a)))

(* Every step of the treasury leaves the journal alone or resolves one     *)
(* attempt.                                                                *)
LEMMA SubmitResolves ==
  ASSUME IInv, NEW agent \in Agents, NEW p \in Proposals, NEW proofs \in ProofPairs,
         SubmitProposal(agent, p, proofs)
  PROVE  \E a : Resolves(a)
<1> DEFINE Attempted(status, result, reason, permitted, out, shown) ==
      [agent |-> agent, proposal |-> p, proofs |-> shown, evidenceStatus |-> status,
       result |-> result, reason |-> reason, permittedValue |-> permitted,
       amountOut |-> out, submittedAt |-> now]
           e == Evaluation(p, proofs)
<1>1. /\ ~closed /\ UNCHANGED <<policy, authority>>
      /\ attemptsInEpoch[Epoch(now)] < policy.universal.maxAttemptsPerEpoch
      /\ attemptsInEpoch' = [attemptsInEpoch EXCEPT ![Epoch(now)] = @ + 1]
  BY DEF SubmitProposal, Admits
<1>2. ASSUME RejectUnchecked(agent, p)
      PROVE  \E a : Resolves(a)
  <2> DEFINE a == Attempted("NotChecked", "Rejected", UniversalReason(agent, p), 0, 0, << >>)
  <2>1. attempts' = Append(attempts, a) /\ UNCHANGED <<replay, usage>>
    BY <1>2 DEF RejectUnchecked, Resolve
  <2>2. a.evidenceStatus = "NotChecked" /\ a.result = "Rejected" /\ a.submittedAt = now
    OBVIOUS
  <2> HIDE DEF a
  <2>3. Resolves(a)
    BY <1>1, <2>1, <2>2 DEF Resolves, Counted, Unchecked
  <2>4. QED
    BY <2>3
<1>3. ASSUME UniversalReason(agent, p) = "None"
      PROVE  /\ p \notin processedProposals /\ <<agent, p.nonce>> \notin usedNonces
             /\ ExecutionKey(p) \notin executedEvidence
             /\ mode = "Autonomous" /\ p.policyHash = CurrentPolicyHash
  BY <1>3, UniversalReasonResult
<1>4. ASSUME RejectEvaluated(agent, p, proofs)
      PROVE  \E a : Resolves(a)
  <2> DEFINE a == Attempted(EvidenceStatus(proofs), "Rejected", e.reason, e.permittedValue, 0, proofs)
  <2>1. /\ attempts' = Append(attempts, a) /\ UNCHANGED usage
        /\ UniversalReason(agent, p) = "None" /\ SpendProposal(agent, p)
    BY <1>4 DEF RejectEvaluated, Resolve
  <2>2. /\ a.agent = agent /\ a.proposal = p /\ a.result # "Executed"
        /\ a.evidenceStatus # "NotChecked" /\ a.submittedAt = now
    BY DEF EvidenceStatus
  <2> HIDE DEF a
  <2>3. Resolves(a)
    BY <1>1, <1>3, <2>1, <2>2 DEF Resolves, Counted, Spent, NotPerformed
  <2>4. QED
    BY <2>3
<1>5. ASSUME FailExecution(agent, p, proofs)
      PROVE  \E a : Resolves(a)
  <2> DEFINE a == Attempted("Verified", "ExecutionFailed", "ExecutionReverted",
                            e.permittedValue, 0, proofs)
  <2>1. /\ attempts' = Append(attempts, a) /\ UNCHANGED usage
        /\ UniversalReason(agent, p) = "None" /\ SpendProposal(agent, p)
    BY <1>5 DEF FailExecution, Resolve
  <2>2. /\ a.agent = agent /\ a.proposal = p /\ a.result # "Executed"
        /\ a.evidenceStatus # "NotChecked" /\ a.submittedAt = now
    OBVIOUS
  <2> HIDE DEF a
  <2>3. Resolves(a)
    BY <1>1, <1>3, <2>1, <2>2 DEF Resolves, Counted, Spent, NotPerformed
  <2>4. QED
    BY <2>3
<1>6. ASSUME NEW surplus \in Surplus, Execute(agent, p, proofs, surplus)
      PROVE  \E a : Resolves(a)
  <2> DEFINE a == Attempted("Verified", "Executed", "None", e.permittedValue,
                            e.minimumOut + surplus, proofs)
  <2>1. /\ attempts' = Append(attempts, a)
        /\ UniversalReason(agent, p) = "None" /\ e.reason = "None"
        /\ SpendProposal(agent, p) /\ ConsumeLimits(p, e.permittedValue)
    BY <1>6 DEF Execute, Resolve
  <2>2. /\ a.agent = agent /\ a.proposal = p /\ a.proofs = proofs
        /\ a.result = "Executed" /\ a.evidenceStatus = "Verified"
        /\ a.permittedValue = e.permittedValue /\ a.submittedAt = now
    OBVIOUS
  <2>3. /\ VerifierError(proofs) = "None"
        /\ p.evidenceHash = EvidenceHash(WithLocation(proofs[1]), WithLocation(proofs[2]))
        /\ executionsInEpoch[Epoch(now)] < policy.universal.maxExecutionsPerEpoch
        /\ e.permittedValue \in Nat
        /\ p.strategy = "RiskReduction" =>
             riskUsedByDay[Day(now)] + e.permittedValue <= policy.risk.dailyRiskReductionValue
    BY <2>1, EvaluationApproves
  <2>4. \A i \in 1..2 : /\ ProverAccepts(proofs[i])
                        /\ CalculatedTxIndex(proofs[i]) = proofs[i].transactionIndex
    BY <2>3, VerifyPairReasonResult DEF VerifierError
  <2> HIDE DEF a, e
  <2>5. Proven(a)
    BY <2>2, <2>3, <2>4 DEF Proven
  <2>6. Performed(a)
    BY <1>3, <2>1, <2>2, <2>3, <2>5 DEF Performed
  <2>7. Spent(a)
    BY <1>3, <2>1, <2>2 DEF Spent
  <2>8. Resolves(a)
    BY <1>1, <2>1, <2>2, <2>6, <2>7 DEF Resolves, Counted
  <2>9. QED
    BY <2>8
<1>7. QED
  BY <1>2, <1>4, <1>5, <1>6 DEF SubmitProposal

LEMMA StepResolves ==
  ASSUME IInv, [Next]_vars
  PROVE  UNCHANGED <<policy, replay, usage, journal>> \/ \E a : Resolves(a)
<1>1. CASE \E agent \in Agents, p \in Proposals, proofs \in ProofPairs :
             SubmitProposal(agent, p, proofs)
  BY <1>1, SubmitResolves
<1>2. CASE UNCHANGED vars
  BY <1>2 DEF vars, journal
<1>3. CASE Next /\ ~\E agent \in Agents, p \in Proposals, proofs \in ProofPairs :
                      SubmitProposal(agent, p, proofs)
  BY <1>3
  DEF Next, ConfigureLifecycle, RegisterAgent, DeregisterAgent, SetAutomationMode, OwnerExit,
      CloseTreasury, Tick, Attest, MarketMoves, Deposit, journal
<1>4. QED
  BY <1>1, <1>2, <1>3

-----------------------------------------------------------------------------
(* Closure.                                                                *)

ClosedPaused == closed => mode = "Paused"

LEMMA ClosedStep ==
  ASSUME IInv, ClosedPaused, [Next]_vars
  PROVE  /\ ClosedPaused'
         /\ closed => \/ UNCHANGED vars
                      \/ /\ closed' /\ mode' = "Paused" /\ registeredAgents' \subseteq registeredAgents
                         /\ UNCHANGED <<policyEpoch, replay, usage, journal>>
<1>1. ASSUME NEW agent \in Agents, NEW p \in Proposals, NEW proofs \in ProofPairs,
             SubmitProposal(agent, p, proofs)
      PROVE  ~closed /\ ~closed'
  BY <1>1 DEF SubmitProposal, Admits, authority
<1>2. ASSUME NEW agent \in Agents, RegisterAgent(agent) \/ DeregisterAgent(agent)
      PROVE  /\ UNCHANGED <<mode, policyEpoch, closed, replay, usage, journal>>
             /\ closed => registeredAgents' \subseteq registeredAgents
  BY <1>2 DEF RegisterAgent, DeregisterAgent
<1>3. ASSUME NEW newMode \in Modes, SetAutomationMode(newMode)
      PROVE  ~closed /\ ~closed'
  BY <1>3 DEF SetAutomationMode
<1>4. ASSUME CloseTreasury
      PROVE  ~closed /\ mode' = "Paused"
  <2>1. CASE mode # "Paused"
    BY <1>4, <2>1 DEF CloseTreasury, ChangeMode
  <2>2. CASE mode = "Paused"
    BY <1>4, <2>2 DEF CloseTreasury
  <2>3. QED
    BY <2>1, <2>2
<1>5. ASSUME \/ \E demo \in Lifecycles : ConfigureLifecycle(demo)
             \/ \E asset \in Assets, amount \in Exits : OwnerExit(asset, amount)
             \/ Tick \/ Attest \/ MarketMoves
             \/ \E asset \in Assets, amount \in Deposits : Deposit(asset, amount)
      PROVE  UNCHANGED <<authority, replay, usage, journal>>
  BY <1>5 DEF ConfigureLifecycle, OwnerExit, Tick, Attest, MarketMoves, Deposit
<1>6. CASE Next
  BY <1>1, <1>2, <1>3, <1>4, <1>5, <1>6 DEF Next, ClosedPaused, authority
<1>7. CASE UNCHANGED vars
  BY <1>7 DEF ClosedPaused, vars, authority
<1>8. QED
  BY <1>6, <1>7

(* Once its owner has closed it, a treasury can neither be resumed nor     *)
(* given agents, and nothing is ever journalled again.                     *)
THEOREM ClosureFinal == Spec => ClosedIsFinal
<1>1. Init => ClosedPaused
  BY DEF Init, ClosedPaused
<1>2. IInv /\ ClosedPaused /\ [Next]_vars => ClosedPaused'
  BY ClosedStep
<1>3. IInv /\ ClosedPaused /\ [Next]_vars =>
        [closed => /\ closed' /\ mode' = "Paused"
                   /\ registeredAgents' \subseteq registeredAgents
                   /\ UNCHANGED <<policyEpoch, replay, usage, journal>>]_vars
  BY ClosedStep
<1>4. QED
  BY <1>1, <1>2, <1>3, InitIInv, NextIInv, PTL DEF Spec, ClosedIsFinal

-----------------------------------------------------------------------------
(* Revocation.                                                             *)

(* Every hash that was replaced was made in an earlier epoch, so that no   *)
(* later mode of the treasury can make it current again.                   *)
RevokedEarlier == \A h \in revoked : h[2] < policyEpoch

LEMMA RevokedStep ==
  ASSUME IInv, RevokedEarlier, [Next]_vars
  PROVE  /\ RevokedEarlier'
         /\ CurrentPolicyHash \notin revoked
<1>1. policyEpoch \in Nat /\ \A h \in revoked : h[2] \in Nat
  BY DEF IInv, TypeOK
<1>2. CurrentPolicyHash \notin revoked
  BY <1>1 DEF RevokedEarlier, CurrentPolicyHash
<1>3. ASSUME NEW newMode, ChangeMode(newMode)
      PROVE  RevokedEarlier'
  BY <1>1, <1>3 DEF ChangeMode, RevokedEarlier, CurrentPolicyHash
<1>4. CASE UNCHANGED <<policyEpoch, revoked>>
  BY <1>2, <1>4 DEF RevokedEarlier
<1>5. \/ UNCHANGED <<policyEpoch, revoked>>
      \/ \E newMode : ChangeMode(newMode)
  <2>1. CASE UNCHANGED vars
    BY <2>1 DEF vars, authority
  <2>2. CASE Next
    <3>1. ASSUME NEW agent \in Agents, NEW p \in Proposals, NEW proofs \in ProofPairs,
                 SubmitProposal(agent, p, proofs)
          PROVE  UNCHANGED <<policyEpoch, revoked>>
      BY <3>1 DEF SubmitProposal, authority
    <3>2. ASSUME CloseTreasury
          PROVE  UNCHANGED <<policyEpoch, revoked>> \/ ChangeMode("Paused")
      BY <3>2 DEF CloseTreasury
    <3>3. QED
      BY <2>2, <3>1, <3>2
      DEF Next, ConfigureLifecycle, RegisterAgent, DeregisterAgent, SetAutomationMode, OwnerExit,
          Tick, Attest, MarketMoves, Deposit, authority
  <2>3. QED
    BY <2>1, <2>2
<1>6. QED
  BY <1>2, <1>3, <1>4, <1>5

(* The attempts a step executes: none but the one it resolves.             *)
LEMMA NewlyExecutedPerformed ==
  ASSUME IInv, [Next]_vars, NEW i \in NewlyExecuted
  PROVE  /\ attempts'[i].proposal.policyHash = CurrentPolicyHash
         /\ mode = "Autonomous"
<1>1. attempts \in Seq(Attempt)
  BY DEF IInv, TypeOK
<1>2. i \in DOMAIN attempts' /\ attempts'[i].result = "Executed"
      /\ ~(i \in DOMAIN attempts /\ attempts[i].result = "Executed")
  BY DEF NewlyExecuted, Executed
<1>3. PICK a : Resolves(a)
  BY <1>2, StepResolves DEF journal
<1>4. attempts' = Append(attempts, a)
  BY <1>3 DEF Resolves
<1>5. i = Len(attempts) + 1 /\ attempts'[i] = a
  BY <1>1, <1>2, <1>4
<1>6. Performed(a)
  BY <1>2, <1>3, <1>5 DEF Resolves, Unchecked, NotPerformed
<1>7. QED
  BY <1>5, <1>6 DEF Performed

(* A proposal made for a policy hash the owner has replaced never          *)
(* executes, whatever modes the treasury goes through afterwards.          *)
THEOREM RevocationHolds == Spec => RevokedNeverExecutes
<1>1. Init => RevokedEarlier
  BY DEF Init, RevokedEarlier
<1>2. IInv /\ RevokedEarlier /\ [Next]_vars => RevokedEarlier'
  BY RevokedStep
<1>3. IInv /\ RevokedEarlier /\ [Next]_vars =>
        [\A i \in NewlyExecuted : attempts'[i].proposal.policyHash \notin revoked]_vars
  BY RevokedStep, NewlyExecutedPerformed
<1>4. QED
  BY <1>1, <1>2, <1>3, InitIInv, NextIInv, PTL DEF Spec, RevokedNeverExecutes

-----------------------------------------------------------------------------
(* Nothing is authorised or executed twice.                                *)

(* What the contract remembers covers what the journal shows.              *)
SpentJournal ==
  \A i \in Checked :
    /\ attempts[i].proposal \in processedProposals
    /\ <<attempts[i].agent, attempts[i].proposal.nonce>> \in usedNonces

ExecutedJournal ==
  /\ \A i \in Executed : /\ ExecutionKey(attempts[i].proposal) \in executedEvidence
                         /\ Proven(attempts[i])
  /\ \A i, j \in Executed :
       ExecutionKey(attempts[i].proposal) = ExecutionKey(attempts[j].proposal) => i = j

ReplayInv == SpentJournal /\ AuthorisedOnce /\ ExecutedJournal

LEMMA AppendedAttempt ==
  ASSUME IInv, NEW a, attempts' = Append(attempts, a)
  PROVE  \A i \in DOMAIN attempts' :
           \/ i \in DOMAIN attempts /\ attempts'[i] = attempts[i]
           \/ i \notin DOMAIN attempts /\ i = Len(attempts) + 1 /\ attempts'[i] = a
<1>1. attempts \in Seq(Attempt)
  BY DEF IInv, TypeOK
<1>2. QED
  BY <1>1

LEMMA SpentStep ==
  ASSUME IInv, SpentJournal, AuthorisedOnce, NEW a, Resolves(a)
  PROVE  SpentJournal' /\ AuthorisedOnce'
<1>1. attempts' = Append(attempts, a)
  BY DEF Resolves
<1>2. \A i \in DOMAIN attempts' :
        \/ i \in DOMAIN attempts /\ attempts'[i] = attempts[i]
        \/ i \notin DOMAIN attempts /\ i = Len(attempts) + 1 /\ attempts'[i] = a
  BY <1>1, AppendedAttempt
<1>3. CASE Unchecked(a)
  <2>1. \A i \in Checked' : i \in Checked /\ attempts'[i] = attempts[i]
    BY <1>2, <1>3 DEF Checked, Unchecked
  <2>2. SpentJournal'
    BY <1>3, <2>1 DEF SpentJournal, Unchecked, replay
  <2>3. AuthorisedOnce'
    BY <2>1 DEF AuthorisedOnce
  <2>4. QED
    BY <2>2, <2>3
<1>4. CASE Spent(a)
  <2>1. \A i \in Checked' : \/ i \in Checked /\ attempts'[i] = attempts[i]
                            \/ i = Len(attempts) + 1 /\ attempts'[i] = a
    BY <1>2 DEF Checked
  <2>2. SpentJournal'
    BY <1>4, <2>1 DEF SpentJournal, Spent, SpendProposal
  <2>3. \A i \in Checked : /\ attempts[i].proposal # a.proposal
                           /\ <<attempts[i].agent, attempts[i].proposal.nonce>>
                                # <<a.agent, a.proposal.nonce>>
    BY <1>4 DEF SpentJournal, Spent
  <2>4. AuthorisedOnce'
    BY <2>1, <2>3 DEF AuthorisedOnce
  <2>5. QED
    BY <2>2, <2>4
<1>5. QED
  BY <1>3, <1>4 DEF Resolves

LEMMA ExecutedStep ==
  ASSUME IInv, ExecutedJournal, NEW a, Resolves(a)
  PROVE  ExecutedJournal'
<1>1. attempts' = Append(attempts, a)
  BY DEF Resolves
<1>2. \A i \in DOMAIN attempts' :
        \/ i \in DOMAIN attempts /\ attempts'[i] = attempts[i]
        \/ i \notin DOMAIN attempts /\ i = Len(attempts) + 1 /\ attempts'[i] = a
  BY <1>1, AppendedAttempt
<1>3. CASE a.result # "Executed" /\ UNCHANGED usage
  <2>1. \A i \in Executed' : i \in Executed /\ attempts'[i] = attempts[i]
    BY <1>2, <1>3 DEF Executed
  <2>2. executedEvidence' = executedEvidence
    BY <1>3 DEF usage
  <2>3. QED
    BY <2>1, <2>2 DEF ExecutedJournal, Proven
<1>4. CASE Performed(a)
  <2>1. \A i \in Executed' : \/ i \in Executed /\ attempts'[i] = attempts[i]
                             \/ i = Len(attempts) + 1 /\ attempts'[i] = a
    BY <1>2 DEF Executed
  <2>2. executedEvidence' = executedEvidence \cup {ExecutionKey(a.proposal)}
    BY <1>4 DEF Performed, ConsumeLimits
  <2>3. Proven(a) /\ ExecutionKey(a.proposal) \notin executedEvidence
    BY <1>4 DEF Performed
  <2>4. \A i \in Executed' : /\ ExecutionKey(attempts'[i].proposal) \in executedEvidence'
                             /\ Proven(attempts'[i])
    BY <2>1, <2>2, <2>3 DEF ExecutedJournal
  <2>5. \A i, j \in Executed' :
          ExecutionKey(attempts'[i].proposal) = ExecutionKey(attempts'[j].proposal) => i = j
    BY <2>1, <2>3 DEF ExecutedJournal
  <2>6. QED
    BY <2>4, <2>5 DEF ExecutedJournal, Proven
<1>5. QED
  BY <1>3, <1>4 DEF Resolves, Unchecked, NotPerformed

LEMMA ReplayInvStep == IInv /\ ReplayInv /\ [Next]_vars => ReplayInv'
<1>1. SUFFICES ASSUME IInv, ReplayInv, [Next]_vars
               PROVE  ReplayInv'
  OBVIOUS
<1>2. CASE \E a : Resolves(a)
  BY <1>1, <1>2, SpentStep, ExecutedStep DEF ReplayInv
<1>3. CASE UNCHANGED <<policy, replay, usage, attempts>>
  BY <1>1, <1>3
  DEF ReplayInv, SpentJournal, AuthorisedOnce, ExecutedJournal, Checked, Executed, Proven,
      replay, usage
<1>4. QED
  BY <1>1, <1>2, <1>3, StepResolves DEF journal

LEMMA InitReplayInv == Init => ReplayInv
BY DEF Init, ReplayInv, SpentJournal, AuthorisedOnce, ExecutedJournal, Checked, Executed

(* A proposal is checked against its proofs at most once, whichever agents *)
(* submit it, and so is at most one proposal per nonce of an agent.        *)
THEOREM AuthorisationOnce == Spec => []AuthorisedOnce
<1>1. ReplayInv => AuthorisedOnce
  BY DEF ReplayInv
<1>2. QED
  BY <1>1, InitIInv, NextIInv, InitReplayInv, ReplayInvStep, PTL DEF Spec

(* Where a proof says its transaction is, is where it is: two verified     *)
(* proofs of one transaction give one located observation.                 *)
LEMMA SameLocation ==
  ASSUME NEW p, NEW q, p.tx = q.tx, ProverAccepts(p), ProverAccepts(q),
         CalculatedTxIndex(p) = p.transactionIndex, CalculatedTxIndex(q) = q.transactionIndex
  PROVE  WithLocation(p) = WithLocation(q)
BY DEF ProverAccepts, CalculatedTxIndex, WithLocation

(* One pair of source transactions is executed at most once per strategy,  *)
(* however their proofs are presented and in however many proposals.       *)
THEOREM ExecutionOnce == Spec => []OneExecutionPerObservationPair
<1>1. ReplayInv => OneExecutionPerObservationPair
  <2>1. SUFFICES ASSUME ReplayInv, NEW i \in Executed, NEW j \in Executed,
                        attempts[i].proposal.strategy = attempts[j].proposal.strategy,
                        attempts[i].proofs[1].tx = attempts[j].proofs[1].tx,
                        attempts[i].proofs[2].tx = attempts[j].proofs[2].tx
                 PROVE  i = j
    BY DEF OneExecutionPerObservationPair
  <2>2. Proven(attempts[i]) /\ Proven(attempts[j])
    BY <2>1 DEF ReplayInv, ExecutedJournal
  <2>3. /\ WithLocation(attempts[i].proofs[1]) = WithLocation(attempts[j].proofs[1])
        /\ WithLocation(attempts[i].proofs[2]) = WithLocation(attempts[j].proofs[2])
    BY <2>1, <2>2, SameLocation DEF Proven
  <2>4. attempts[i].proposal.evidenceHash = attempts[j].proposal.evidenceHash
    BY <2>2, <2>3 DEF Proven
  <2>5. ExecutionKey(attempts[i].proposal) = ExecutionKey(attempts[j].proposal)
    BY <2>1, <2>4 DEF ExecutionKey
  <2>6. QED
    BY <2>1, <2>5 DEF ReplayInv, ExecutedJournal
<1>2. QED
  BY <1>1, InitIInv, NextIInv, InitReplayInv, ReplayInvStep, PTL DEF Spec

-----------------------------------------------------------------------------
(* Refinement: the treasury keeps what BoundedExecution promises.          *)

THEOREM TreasuryRefines == Spec => ImplementsBoundedExecution
<1>1. Init => Bounded!Init
  <2>1. SUFFICES ASSUME Init
                 PROVE  Bounded!Init
    OBVIOUS
  <2>2. policy \in Policy
    BY <2>1, InputAssumption DEF Init
  <2>3. policy.universal.maxExecutionsPerEpoch \in Nat
    BY <2>2 DEF Policy, UniversalPolicy
  <2>4. QED
    BY <2>1, <2>3 DEF Init, Bounded!Init
<1>2. IInv /\ [Next]_vars => [Bounded!Next]_Bounded!vars
  <2>1. SUFFICES ASSUME IInv, [Next]_vars
                 PROVE  [Bounded!Next]_Bounded!vars
    OBVIOUS
  <2>2. CASE UNCHANGED <<policy, replay, usage, attempts>>
    BY <2>2 DEF usage, Bounded!vars
  <2>3. ASSUME NEW a, Resolves(a)
        PROVE  [Bounded!Next]_Bounded!vars
    <3>1. CASE UNCHANGED usage
      BY <2>3, <3>1 DEF usage, Bounded!vars, Resolves
    <3>2. CASE Performed(a)
      <4>1. Epoch(now) \in Periods
        BY <2>1, PeriodsIndexed
      <4>2. Bounded!Execute(ExecutionKey(a.proposal), Epoch(now))
        BY <2>3, <3>2 DEF Resolves, Performed, ConsumeLimits, Bounded!Execute
      <4>3. ExecutionKey(a.proposal) \in {ExecutionKey(p) : p \in Proposals}
        BY <3>2 DEF Performed
      <4>4. QED
        BY <4>1, <4>2, <4>3 DEF Bounded!Next
    <3>3. QED
      BY <2>3, <3>1, <3>2 DEF Resolves, Unchecked, NotPerformed
  <2>4. QED
    BY <2>1, <2>2, <2>3, StepResolves DEF journal
<1>3. QED
  BY <1>1, <1>2, InitIInv, NextIInv, PTL DEF Spec, ImplementsBoundedExecution, Bounded!Spec

-----------------------------------------------------------------------------
(* Counters.                                                               *)

During(S, e) == {i \in S : Epoch(attempts[i].submittedAt) = e}

LEMMA JournalFinite ==
  ASSUME IInv
  PROVE  /\ IsFiniteSet(DOMAIN attempts) /\ IsFiniteSet(Executed)
         /\ \A e : IsFiniteSet(During(DOMAIN attempts, e)) /\ IsFiniteSet(During(Executed, e))
<1>1. DOMAIN attempts = 1..Len(attempts) /\ Len(attempts) \in Nat
  BY DEF IInv, TypeOK
<1>2. IsFiniteSet(DOMAIN attempts)
  BY <1>1, FS_Interval
<1>3. IsFiniteSet(Executed)
  BY <1>2, FS_Subset DEF Executed
<1>4. \A e : /\ During(DOMAIN attempts, e) \in SUBSET (DOMAIN attempts)
             /\ During(Executed, e) \in SUBSET Executed
  BY DEF During
<1>5. QED
  BY <1>2, <1>3, <1>4, FS_Subset

(* A resolved attempt adds itself to the attempts of its epoch and, when   *)
(* it executed, to the executions.                                         *)
LEMMA ResolvedCounts ==
  ASSUME IInv, NEW a, Resolves(a)
  PROVE  LET last == Len(attempts) + 1
             joins(S, e) == IF e = Epoch(now) THEN S \cup {last} ELSE S
         IN  /\ last \notin DOMAIN attempts
             /\ Executed' = IF a.result = "Executed" THEN Executed \cup {last} ELSE Executed
             /\ \A e : /\ During(DOMAIN attempts, e)' = joins(During(DOMAIN attempts, e), e)
                       /\ During(Executed, e)' =
                            IF a.result = "Executed" THEN joins(During(Executed, e), e)
                            ELSE During(Executed, e)
<1> DEFINE last == Len(attempts) + 1
<1>1. /\ attempts \in Seq(Attempt) /\ attempts' = Append(attempts, a)
      /\ a.submittedAt = now /\ policy' = policy
  BY DEF IInv, TypeOK, Resolves, Counted
<1>2. /\ DOMAIN attempts = 1..Len(attempts) /\ Len(attempts) \in Nat
      /\ DOMAIN attempts' = 1..(Len(attempts) + 1)
  BY <1>1
<1>3. /\ last \notin DOMAIN attempts /\ DOMAIN attempts' = DOMAIN attempts \cup {last}
      /\ attempts'[last] = a /\ \A i \in DOMAIN attempts : attempts'[i] = attempts[i]
  BY <1>1, <1>2
<1>4. \A t : Epoch(t)' = Epoch(t)
  BY <1>1 DEF Epoch
<1> HIDE DEF last
<1>5. Executed' = IF a.result = "Executed" THEN Executed \cup {last} ELSE Executed
  BY <1>3 DEF Executed
<1>6. \A e : During(DOMAIN attempts, e)' =
               IF e = Epoch(now) THEN During(DOMAIN attempts, e) \cup {last}
               ELSE During(DOMAIN attempts, e)
  BY <1>1, <1>3, <1>4 DEF During, Epoch
<1>7. \A e : During(Executed, e)' =
               IF a.result = "Executed"
               THEN IF e = Epoch(now) THEN During(Executed, e) \cup {last} ELSE During(Executed, e)
               ELSE During(Executed, e)
  BY <1>1, <1>3, <1>5 DEF During, Epoch, Executed
<1>8. QED
  BY <1>3, <1>5, <1>6, <1>7 DEF last

LEMMA CountersStep ==
  ASSUME IInv, JournalMatchesCounters, NEW a, Resolves(a)
  PROVE  JournalMatchesCounters'
<1> DEFINE last == Len(attempts) + 1
           u == policy.universal
           n == Epoch(now)
<1>1. /\ executionCount = Cardinality(Executed)
      /\ \A e \in Periods :
           /\ attemptsInEpoch[e] = Cardinality(During(DOMAIN attempts, e))
           /\ executionsInEpoch[e] = Cardinality(During(Executed, e))
           /\ attemptsInEpoch[e] <= u.maxAttemptsPerEpoch
           /\ executionsInEpoch[e] <= u.maxExecutionsPerEpoch
  BY DEF JournalMatchesCounters, During
<1>2. /\ attemptsInEpoch \in [Periods -> Nat] /\ executionsInEpoch \in [Periods -> Nat]
      /\ u.maxAttemptsPerEpoch \in Nat /\ u.maxExecutionsPerEpoch \in Nat /\ n \in Periods
  BY InputAssumption, PeriodsIndexed DEF IInv, TypeOK, Policy, UniversalPolicy
<1>3. /\ attemptsInEpoch[n] < u.maxAttemptsPerEpoch
      /\ attemptsInEpoch' = [attemptsInEpoch EXCEPT ![n] = @ + 1]
      /\ policy' = policy
  BY DEF Resolves, Counted
<1>4. /\ last \notin DOMAIN attempts
      /\ Executed' = IF a.result = "Executed" THEN Executed \cup {last} ELSE Executed
      /\ \A e : During(DOMAIN attempts, e)' =
                  IF e = n THEN During(DOMAIN attempts, e) \cup {last}
                  ELSE During(DOMAIN attempts, e)
      /\ \A e : During(Executed, e)' =
                  IF a.result = "Executed"
                  THEN IF e = n THEN During(Executed, e) \cup {last} ELSE During(Executed, e)
                  ELSE During(Executed, e)
  BY ResolvedCounts
<1>5. \A e : last \notin During(DOMAIN attempts, e) /\ last \notin During(Executed, e)
  BY <1>4 DEF During, Executed
<1>6. last \notin Executed
  BY <1>4 DEF Executed
<1> HIDE DEF last, n, u
<1>7. \A e \in Periods : /\ attemptsInEpoch'[e] = Cardinality(During(DOMAIN attempts, e)')
                         /\ attemptsInEpoch'[e] <= u.maxAttemptsPerEpoch
  <2>1. \A e \in Periods : attemptsInEpoch'[e] = IF e = n THEN attemptsInEpoch[e] + 1
                                                 ELSE attemptsInEpoch[e]
    BY <1>2, <1>3
  <2>2. \A e : Cardinality(During(DOMAIN attempts, e) \cup {last})
                 = Cardinality(During(DOMAIN attempts, e)) + 1
    <3> SUFFICES ASSUME NEW e
                 PROVE  Cardinality(During(DOMAIN attempts, e) \cup {last})
                          = Cardinality(During(DOMAIN attempts, e)) + 1
      OBVIOUS
    <3>1. IsFiniteSet(During(DOMAIN attempts, e)) /\ last \notin During(DOMAIN attempts, e)
      BY <1>5, JournalFinite
    <3>2. QED
      BY <3>1, FS_AddElement
  <2>3. ASSUME NEW e \in Periods
        PROVE  /\ attemptsInEpoch'[e] = Cardinality(During(DOMAIN attempts, e)')
               /\ attemptsInEpoch'[e] <= u.maxAttemptsPerEpoch
    <3>1. CASE e = n
      <4>1. During(DOMAIN attempts, e)' = During(DOMAIN attempts, e) \cup {last}
        BY <1>4, <3>1
      <4>2. Cardinality(During(DOMAIN attempts, e)') = attemptsInEpoch[e] + 1
        BY <1>1, <2>2, <4>1
      <4>3. attemptsInEpoch'[e] = attemptsInEpoch[e] + 1 /\ attemptsInEpoch[e] \in Nat
        BY <1>2, <2>1, <3>1
      <4>4. QED
        BY <1>2, <1>3, <3>1, <4>2, <4>3
    <3>2. CASE e # n
      <4>1. During(DOMAIN attempts, e)' = During(DOMAIN attempts, e)
        BY <1>4, <3>2
      <4>2. QED
        BY <1>1, <2>1, <3>2, <4>1
    <3>3. QED
      BY <3>1, <3>2
  <2>4. QED
    BY <2>3
<1>8. CASE a.result = "Executed"
  <2>1. /\ executionCount' = executionCount + 1
        /\ executionsInEpoch' = [executionsInEpoch EXCEPT ![n] = @ + 1]
        /\ executionsInEpoch[n] < u.maxExecutionsPerEpoch
    BY <1>8 DEF Resolves, Unchecked, NotPerformed, Performed, ConsumeLimits, n, u
  <2>2. executionCount' = Cardinality(Executed')
    BY <1>1, <1>4, <1>6, <1>8, <2>1, JournalFinite, FS_AddElement
  <2>3. \A e \in Periods : /\ executionsInEpoch'[e] = Cardinality(During(Executed, e)')
                           /\ executionsInEpoch'[e] <= u.maxExecutionsPerEpoch
    <3>1. \A e \in Periods : executionsInEpoch'[e] = IF e = n THEN executionsInEpoch[e] + 1
                                                     ELSE executionsInEpoch[e]
      BY <1>2, <2>1
    <3>2. \A e : Cardinality(During(Executed, e) \cup {last}) = Cardinality(During(Executed, e)) + 1
      <4> SUFFICES ASSUME NEW e
                   PROVE  Cardinality(During(Executed, e) \cup {last})
                            = Cardinality(During(Executed, e)) + 1
        OBVIOUS
      <4>1. IsFiniteSet(During(Executed, e)) /\ last \notin During(Executed, e)
        BY <1>5, JournalFinite
      <4>2. QED
        BY <4>1, FS_AddElement
    <3>3. ASSUME NEW e \in Periods
          PROVE  /\ executionsInEpoch'[e] = Cardinality(During(Executed, e)')
                 /\ executionsInEpoch'[e] <= u.maxExecutionsPerEpoch
      <4>1. CASE e = n
        <5>1. During(Executed, e)' = During(Executed, e) \cup {last}
          BY <1>4, <1>8, <4>1
        <5>2. Cardinality(During(Executed, e)') = executionsInEpoch[e] + 1
          BY <1>1, <3>2, <5>1
        <5>3. executionsInEpoch'[e] = executionsInEpoch[e] + 1 /\ executionsInEpoch[e] \in Nat
          BY <1>2, <3>1, <4>1
        <5>4. QED
          BY <1>2, <2>1, <4>1, <5>2, <5>3
      <4>2. CASE e # n
        <5>1. During(Executed, e)' = During(Executed, e)
          BY <1>4, <1>8, <4>2
        <5>2. QED
          BY <1>1, <3>1, <4>2, <5>1
      <4>3. QED
        BY <4>1, <4>2
    <3>4. QED
      BY <3>3
  <2>4. QED
    BY <1>3, <1>7, <2>2, <2>3 DEF JournalMatchesCounters, During, u
<1>9. CASE a.result # "Executed"
  <2>1. UNCHANGED <<executionCount, executionsInEpoch>>
    BY <1>9 DEF Resolves, Unchecked, NotPerformed, Performed, usage
  <2>2. QED
    BY <1>1, <1>3, <1>4, <1>7, <1>9, <2>1 DEF JournalMatchesCounters, During, u
<1>10. QED
  BY <1>8, <1>9

(* The counters that limit an epoch are the numbers of attempts and of     *)
(* executions the journal has of it, and stay within the policy.           *)
THEOREM CountersMatch == Spec => []JournalMatchesCounters
<1>1. ASSUME Init
      PROVE  JournalMatchesCounters
  <2>1. DOMAIN attempts = {} /\ executionCount = 0
        /\ \A e \in Periods : attemptsInEpoch[e] = 0 /\ executionsInEpoch[e] = 0
    BY <1>1 DEF Init
  <2>2. Executed = {} /\ \A e : During(DOMAIN attempts, e) = {} /\ During(Executed, e) = {}
    BY <2>1 DEF Executed, During
  <2>3. Cardinality({}) = 0
    BY FS_EmptySet
  <2>4. policy.universal.maxAttemptsPerEpoch \in Nat /\ policy.universal.maxExecutionsPerEpoch \in Nat
    BY <1>1, InputAssumption DEF Init, Policy, UniversalPolicy
  <2>5. QED
    BY <2>1, <2>2, <2>3, <2>4 DEF JournalMatchesCounters, During
<1>2. ASSUME IInv, JournalMatchesCounters, [Next]_vars
      PROVE  JournalMatchesCounters'
  <2>1. CASE UNCHANGED <<policy, replay, usage, journal>>
    BY <1>2, <2>1 DEF JournalMatchesCounters, Executed, Epoch, usage, journal
  <2>2. QED
    BY <1>2, <2>1, StepResolves, CountersStep
<1>3. QED
  BY <1>1, <1>2, InitIInv, NextIInv, PTL DEF Spec

-----------------------------------------------------------------------------
(* The risk budget.                                                        *)

Reductions(d) ==
  {i \in Executed : /\ attempts[i].proposal.strategy = "RiskReduction"
                    /\ Day(attempts[i].submittedAt) = d}

PermittedValues == [i \in DOMAIN attempts |-> attempts[i].permittedValue]

BudgetIsTotal ==
  \A d \in Periods : /\ riskUsedByDay[d] = Total(PermittedValues, Reductions(d))
                     /\ riskUsedByDay[d] <= policy.risk.dailyRiskReductionValue

LEMMA SumIsTotal ==
  ASSUME NEW at, NEW S \in SUBSET DOMAIN at
  PROVE  MapThenSumSet(LAMBDA i : at[i].permittedValue, S)
           = Total([i \in DOMAIN at |-> at[i].permittedValue], S)
<1> DEFINE w == [i \in DOMAIN at |-> at[i].permittedValue]
           sums(g) == g = [s \in SUBSET S |->
                             IF s = {} THEN 0
                             ELSE LET i == CHOOSE i \in s : TRUE
                                  IN  at[i].permittedValue + g[s \ {i}]]
<1>1. MapThenSumSet(LAMBDA i : at[i].permittedValue, S) = (CHOOSE g : sums(g))[S]
  BY DEF MapThenSumSet, MapThenFoldSet
<1>2. ASSUME NEW g
      PROVE  sums(g) <=> IsTotal(g, w, S)
  <2>1. ASSUME NEW s \in SUBSET S, s # {}
        PROVE  w[Chosen(s)] = at[Chosen(s)].permittedValue
    BY <2>1, ChosenIsElement
  <2>2. ASSUME NEW s \in SUBSET S
        PROVE  (IF s = {} THEN 0 ELSE LET i == CHOOSE i \in s : TRUE
                                      IN  at[i].permittedValue + g[s \ {i}])
                 = IF s = {} THEN 0 ELSE w[Chosen(s)] + g[s \ {Chosen(s)}]
    <3> HIDE DEF w
    <3>1. QED
      BY <2>1 DEF Chosen
  <2>3. QED
    BY <2>2 DEF IsTotal
<1>3. (CHOOSE g : sums(g)) = CHOOSE g : IsTotal(g, w, S)
  <2> HIDE DEF sums, w
  <2>1. QED
    BY <1>2
<1>4. QED
  BY <1>1, <1>3 DEF Total

LEMMA BudgetTotals == DailyRiskBudget <=> BudgetIsTotal
<1>1. \A d : Reductions(d) \in SUBSET DOMAIN attempts
  BY DEF Reductions, Executed
<1>2. \A d : MapThenSumSet(LAMBDA i : attempts[i].permittedValue, Reductions(d))
               = Total(PermittedValues, Reductions(d))
  BY <1>1, SumIsTotal DEF PermittedValues
<1>3. QED
  BY <1>2 DEF DailyRiskBudget, BudgetIsTotal, Reductions

(* A resolved attempt adds itself to the reductions of its day if it is    *)
(* one that executed, and changes no earlier value.                        *)
LEMMA ResolvedReduces ==
  ASSUME IInv, NEW a, Resolves(a)
  PROVE  LET last == Len(attempts) + 1
             joins(d) == a.result = "Executed" /\ a.proposal.strategy = "RiskReduction"
                           /\ d = Day(now)
         IN  /\ \A d : /\ last \notin Reductions(d)
                       /\ Reductions(d)' = IF joins(d) THEN Reductions(d) \cup {last}
                                           ELSE Reductions(d)
             /\ PermittedValues'[last] = a.permittedValue
             /\ \A i \in DOMAIN attempts : /\ PermittedValues'[i] = PermittedValues[i]
                                           /\ PermittedValues[i] \in Nat
<1> DEFINE last == Len(attempts) + 1
<1>1. /\ attempts \in Seq(Attempt) /\ attempts' = Append(attempts, a)
      /\ a.submittedAt = now
  BY DEF IInv, TypeOK, Resolves, Counted
<1>2. /\ DOMAIN attempts = 1..Len(attempts) /\ Len(attempts) \in Nat
      /\ DOMAIN attempts' = 1..(Len(attempts) + 1)
  BY <1>1
<1>3. /\ last \notin DOMAIN attempts /\ DOMAIN attempts' = DOMAIN attempts \cup {last}
      /\ attempts'[last] = a /\ \A i \in DOMAIN attempts : attempts'[i] = attempts[i]
  BY <1>1, <1>2
<1>4. \A i \in DOMAIN attempts : attempts[i].permittedValue \in Nat
  <2>1. \A i \in DOMAIN attempts : attempts[i] \in Attempt
    BY <1>1, <1>2
  <2>2. \A x \in Attempt : x.permittedValue \in Nat
    BY DEF Attempt
  <2>3. QED
    BY <2>1, <2>2
<1> HIDE DEF last
<1>5. \A d : /\ last \notin Reductions(d)
             /\ Reductions(d)' = IF a.result = "Executed" /\ a.proposal.strategy = "RiskReduction"
                                    /\ d = Day(now)
                                 THEN Reductions(d) \cup {last}
                                 ELSE Reductions(d)
  BY <1>1, <1>3 DEF Reductions, Executed, Day
<1>6. PermittedValues'[last] = a.permittedValue
  BY <1>3 DEF PermittedValues
<1>7. \A i \in DOMAIN attempts : /\ PermittedValues'[i] = PermittedValues[i]
                                 /\ PermittedValues[i] \in Nat
  BY <1>3, <1>4 DEF PermittedValues
<1>8. QED
  BY <1>5, <1>6, <1>7 DEF last

LEMMA BudgetStep ==
  ASSUME IInv, BudgetIsTotal, NEW a, Resolves(a)
  PROVE  BudgetIsTotal'
<1> DEFINE last == Len(attempts) + 1
           joins(d) == a.result = "Executed" /\ a.proposal.strategy = "RiskReduction"
                         /\ d = Day(now)
<1>1. /\ \A d : /\ last \notin Reductions(d)
                /\ Reductions(d)' = IF joins(d) THEN Reductions(d) \cup {last} ELSE Reductions(d)
      /\ PermittedValues'[last] = a.permittedValue
      /\ \A i \in DOMAIN attempts : /\ PermittedValues'[i] = PermittedValues[i]
                                    /\ PermittedValues[i] \in Nat
  BY ResolvedReduces
<1>2. \A d : Reductions(d) \subseteq DOMAIN attempts /\ IsFiniteSet(Reductions(d))
  <2>1. \A d : Reductions(d) \subseteq DOMAIN attempts
    BY DEF Reductions, Executed
  <2>2. QED
    BY <2>1, JournalFinite, FS_Subset
<1>3. policy' = policy /\ riskUsedByDay \in [Periods -> Nat] /\ Day(now) \in Periods
  BY PeriodsIndexed DEF Resolves, IInv, TypeOK
<1>4. CASE a.result = "Executed"
  <2>1. /\ a.permittedValue \in Nat
        /\ a.proposal.strategy = "RiskReduction" =>
             riskUsedByDay[Day(now)] + a.permittedValue <= policy.risk.dailyRiskReductionValue
        /\ riskUsedByDay' = IF a.proposal.strategy = "RiskReduction"
                            THEN [riskUsedByDay EXCEPT ![Day(now)] = @ + a.permittedValue]
                            ELSE riskUsedByDay
    BY <1>4 DEF Resolves, Unchecked, NotPerformed, Performed, ConsumeLimits
  <2>2. \A d \in Periods : riskUsedByDay'[d] = IF joins(d) THEN riskUsedByDay[d] + a.permittedValue
                                               ELSE riskUsedByDay[d]
    BY <1>3, <1>4, <2>1
  <2> HIDE DEF last
  <2>3. ASSUME NEW d \in Periods
        PROVE  /\ riskUsedByDay'[d] = Total(PermittedValues', Reductions(d)')
               /\ riskUsedByDay'[d] <= policy'.risk.dailyRiskReductionValue
    <3>1. /\ riskUsedByDay[d] = Total(PermittedValues, Reductions(d))
          /\ riskUsedByDay[d] <= policy.risk.dailyRiskReductionValue
      BY DEF BudgetIsTotal
    <3>2. Total(PermittedValues', Reductions(d)) = Total(PermittedValues, Reductions(d))
      <4>1. PICK R : R = Reductions(d)
        OBVIOUS
      <4>2. PICK v : v = PermittedValues'
        OBVIOUS
      <4>3. IsFiniteSet(R) /\ \A i \in R : v[i] = PermittedValues[i]
        BY <1>1, <1>2, <4>1, <4>2
      <4>4. Total(v, R) = Total(PermittedValues, R)
        BY <4>3, TotalSame
      <4>5. QED
        BY <4>1, <4>2, <4>4
    <3>3. CASE joins(d)
      <4>1. PICK R : R = Reductions(d)
        OBVIOUS
      <4>2. PICK v : v = PermittedValues'
        OBVIOUS
      <4>3. IsFiniteSet(R) /\ last \notin R /\ \A i \in R \cup {last} : v[i] \in Int
        BY <1>1, <1>2, <2>1, <4>1, <4>2
      <4>4. Total(v, R \cup {last}) = v[last] + Total(v, R)
        BY <4>3, TotalAdd
      <4>5. Total(PermittedValues', Reductions(d)') = a.permittedValue + riskUsedByDay[d]
        BY <1>1, <3>1, <3>2, <3>3, <4>1, <4>2, <4>4
      <4>6. riskUsedByDay'[d] = riskUsedByDay[d] + a.permittedValue /\ riskUsedByDay[d] \in Nat
        BY <1>3, <2>2, <3>3
      <4>7. riskUsedByDay[d] + a.permittedValue <= policy.risk.dailyRiskReductionValue
        BY <2>1, <3>3
      <4>8. QED
        BY <1>3, <2>1, <4>5, <4>6, <4>7
    <3>4. CASE ~joins(d)
      BY <1>1, <1>3, <2>2, <3>1, <3>2, <3>4
    <3>5. QED
      BY <3>3, <3>4
  <2>4. QED
    BY <2>3 DEF BudgetIsTotal
<1>5. CASE a.result # "Executed"
  <2>1. riskUsedByDay' = riskUsedByDay
    BY <1>5 DEF Resolves, Unchecked, NotPerformed, Performed, usage
  <2> HIDE DEF last
  <2>2. ASSUME NEW d \in Periods
        PROVE  Total(PermittedValues', Reductions(d)') = Total(PermittedValues, Reductions(d))
    <3>1. PICK R : R = Reductions(d)
      OBVIOUS
    <3>2. PICK v : v = PermittedValues'
      OBVIOUS
    <3>3. IsFiniteSet(R) /\ \A i \in R : v[i] = PermittedValues[i]
      BY <1>1, <1>2, <3>1, <3>2
    <3>4. Total(v, R) = Total(PermittedValues, R)
      BY <3>3, TotalSame
    <3>5. Reductions(d)' = Reductions(d)
      BY <1>1, <1>5
    <3>6. QED
      BY <3>1, <3>2, <3>4, <3>5
  <2>3. QED
    BY <1>3, <2>1, <2>2 DEF BudgetIsTotal
<1>6. QED
  BY <1>4, <1>5

(* What risk reductions use of a day is the sum of what the journal says   *)
(* they were permitted, and the owner's budget of the day bounds it.       *)
THEOREM RiskBudgetKept == Spec => []DailyRiskBudget
<1>1. ASSUME Init
      PROVE  DailyRiskBudget
  <2>1. /\ DOMAIN attempts = {} /\ \A d \in Periods : riskUsedByDay[d] = 0
        /\ policy.risk.dailyRiskReductionValue \in Nat
    BY <1>1, InputAssumption DEF Init, Policy, RiskPolicy
  <2>2. \A d : Reductions(d) = {}
    BY <2>1 DEF Reductions, Executed
  <2>3. Total(PermittedValues, {}) = 0
    <3>1. \A w : Total(w, {}) = 0
      BY TotalEmpty
    <3>2. QED
      BY <3>1
  <2>4. BudgetIsTotal
    <3>1. ASSUME NEW d \in Periods
          PROVE  /\ riskUsedByDay[d] = Total(PermittedValues, Reductions(d))
                 /\ riskUsedByDay[d] <= policy.risk.dailyRiskReductionValue
      <4>1. Reductions(d) = {} /\ riskUsedByDay[d] = 0
        BY <2>1, <2>2
      <4>2. Total(PermittedValues, Reductions(d)) = 0
        BY <2>3, <4>1
      <4>3. QED
        BY <2>1, <4>1, <4>2
    <3>2. QED
      BY <3>1 DEF BudgetIsTotal
  <2>5. QED
    BY <2>4, BudgetTotals
<1>2. DailyRiskBudget <=> BudgetIsTotal
  BY BudgetTotals
<1>3. ASSUME IInv, BudgetIsTotal, [Next]_vars
      PROVE  BudgetIsTotal'
  <2>1. CASE UNCHANGED <<policy, replay, usage, journal>>
    BY <1>3, <2>1
    DEF BudgetIsTotal, Reductions, PermittedValues, Executed, Day, usage, journal
  <2>2. QED
    BY <1>3, <2>1, StepResolves, BudgetStep
<1>4. QED
  BY <1>1, <1>2, <1>3, InitIInv, NextIInv, PTL DEF Spec

(***************************************************************************)
(* What a treasury acts on.                                                *)
(***************************************************************************)

-----------------------------------------------------------------------------
(* What the verifier accepts.                                              *)

(* One observation of the pinned observer on the source chain.             *)
Observes(tx) ==
  /\ tx \in SourceTxs
  /\ tx.to = Observer /\ tx.status = 1
  /\ \E k \in DOMAIN tx.logs : MatchingLogs(tx) = {k} /\ tx.logs[k].consistent

(* Two of them in order, attested at a height.                             *)
Genuine(proofs, height) ==
  /\ Observes(proofs[1].tx) /\ Observes(proofs[2].tx)
  /\ proofs[1].tx.height < proofs[2].tx.height
  /\ proofs[2].tx.height \in Nat /\ proofs[2].tx.height <= height

LEMMA VerifiedProofs ==
  ASSUME IInv, NEW proofs \in ProofPairs, VerifierError(proofs) = "None"
  PROVE  Genuine(proofs, attested) /\ attested - proofs[2].tx.height <= MaxProofAge
<1>1. /\ ~(proofs[2].blockHeight <= proofs[1].blockHeight)
      /\ ~(proofs[2].blockHeight > attested)
      /\ ~(attested - proofs[2].blockHeight > MaxProofAge)
      /\ ProverAccepts(proofs[1]) /\ ProverAccepts(proofs[2])
      /\ DecodeReason(proofs[1].tx) = "None" /\ DecodeReason(proofs[2].tx) = "None"
  <2> DEFINE latest == Attestation(attested)
  <2>1. VerifyPairReason(proofs[1], proofs[2], latest) = "None" /\ latest.height = attested
    BY DEF VerifierError, Attestation
  <2> HIDE DEF latest
  <2>2. QED
    BY <2>1, VerifyPairReasonResult
<1>2. \A i \in 1..2 : proofs[i].blockHeight \in Nat /\ proofs[i].tx.logs \in Seq(Log)
  BY InputAssumption
<1>3. \A i \in 1..2 : proofs[i].tx \in SourceTxs /\ proofs[i].tx.height = proofs[i].blockHeight
  BY <1>1 DEF ProverAccepts
<1>4. \A i \in 1..2 : Observes(proofs[i].tx)
  BY <1>1, <1>2, <1>3, DecodedOnce DEF Observes
<1>5. attested \in Nat /\ MaxProofAge \in Nat
  BY TreasuryAssumption DEF IInv, TypeOK
<1>6. QED
  BY <1>1, <1>2, <1>3, <1>4, <1>5 DEF Genuine

-----------------------------------------------------------------------------
(* What a submission adds to the journal.                                  *)

(* An attempt with verified evidence is the submitted proposal with proofs *)
(* that pass now; an executed one pays what its evaluation asks at least.  *)
Accepts(a, agent, p, proofs) ==
  /\ attempts' = Append(attempts, a)
  /\ a.evidenceStatus = "Verified" =>
       a.proofs = proofs /\ VerifierError(proofs) = "None"
  /\ a.result = "Executed" =>
       /\ a.evidenceStatus = "Verified" /\ a.proposal = p
       /\ UniversalReason(agent, p) = "None" /\ Evaluation(p, proofs).reason = "None"
       /\ \E surplus \in Nat : a.amountOut = Evaluation(p, proofs).minimumOut + surplus
       /\ Swap(p, a.amountOut)

LEMMA SubmitAccepts ==
  ASSUME IInv, NEW agent \in Agents, NEW p \in Proposals, NEW proofs \in ProofPairs,
         SubmitProposal(agent, p, proofs)
  PROVE  \E a : Accepts(a, agent, p, proofs)
<1> DEFINE Attempted(status, result, reason, permitted, out, shown) ==
      [agent |-> agent, proposal |-> p, proofs |-> shown, evidenceStatus |-> status,
       result |-> result, reason |-> reason, permittedValue |-> permitted,
       amountOut |-> out, submittedAt |-> now]
           e == Evaluation(p, proofs)
<1>1. ASSUME RejectUnchecked(agent, p)
      PROVE  \E a : Accepts(a, agent, p, proofs)
  <2> DEFINE a == Attempted("NotChecked", "Rejected", UniversalReason(agent, p), 0, 0, << >>)
  <2>1. attempts' = Append(attempts, a)
    BY <1>1 DEF RejectUnchecked, Resolve
  <2>2. a.evidenceStatus # "Verified" /\ a.result # "Executed"
    OBVIOUS
  <2> HIDE DEF a
  <2>3. QED
    BY <2>1, <2>2 DEF Accepts
<1>2. ASSUME RejectEvaluated(agent, p, proofs)
      PROVE  \E a : Accepts(a, agent, p, proofs)
  <2> DEFINE a == Attempted(EvidenceStatus(proofs), "Rejected", e.reason, e.permittedValue, 0, proofs)
  <2>1. attempts' = Append(attempts, a)
    BY <1>2 DEF RejectEvaluated, Resolve
  <2>2. /\ a.proofs = proofs /\ a.result # "Executed"
        /\ a.evidenceStatus = "Verified" => VerifierError(proofs) = "None"
    BY DEF EvidenceStatus
  <2> HIDE DEF a
  <2>3. QED
    BY <2>1, <2>2 DEF Accepts
<1>3. UniversalReason(agent, p) = "None" /\ e.reason = "None" => VerifierError(proofs) = "None"
  BY EvaluationApproves
<1>4. ASSUME FailExecution(agent, p, proofs)
      PROVE  \E a : Accepts(a, agent, p, proofs)
  <2> DEFINE a == Attempted("Verified", "ExecutionFailed", "ExecutionReverted",
                            e.permittedValue, 0, proofs)
  <2>1. attempts' = Append(attempts, a) /\ VerifierError(proofs) = "None"
    BY <1>3, <1>4 DEF FailExecution, Resolve
  <2>2. a.proofs = proofs /\ a.result # "Executed"
    OBVIOUS
  <2> HIDE DEF a
  <2>3. QED
    BY <2>1, <2>2 DEF Accepts
<1>5. ASSUME NEW surplus \in Surplus, Execute(agent, p, proofs, surplus)
      PROVE  \E a : Accepts(a, agent, p, proofs)
  <2> DEFINE a == Attempted("Verified", "Executed", "None", e.permittedValue,
                            e.minimumOut + surplus, proofs)
  <2>1. /\ attempts' = Append(attempts, a)
        /\ UniversalReason(agent, p) = "None" /\ e.reason = "None"
        /\ VerifierError(proofs) = "None" /\ Swap(p, e.minimumOut + surplus)
    BY <1>3, <1>5 DEF Execute, Resolve
  <2>2. /\ a.proofs = proofs /\ a.proposal = p /\ a.evidenceStatus = "Verified"
        /\ a.amountOut = e.minimumOut + surplus
    OBVIOUS
  <2>3. surplus \in Nat
    BY TreasuryAssumption
  <2> HIDE DEF a
  <2>4. QED
    BY <2>1, <2>2, <2>3 DEF Accepts
<1>6. QED
  BY <1>1, <1>2, <1>4, <1>5 DEF SubmitProposal

-----------------------------------------------------------------------------
(* Genuine evidence.                                                       *)

AttemptGenuine(a) == a.evidenceStatus = "Verified" => Genuine(a.proofs, attested)

(* Every verified attempt is genuine; heights only grow.                   *)
JournalGenuine == \A i \in DOMAIN attempts : AttemptGenuine(attempts[i])

LEMMA StepAccepts ==
  ASSUME IInv, [Next]_vars
  PROVE  \/ UNCHANGED attempts /\ attested' >= attested
         \/ /\ UNCHANGED attested
            /\ \E agent \in Agents, p \in Proposals, proofs \in ProofPairs :
                 \E a : Accepts(a, agent, p, proofs)
<1>1. attested \in Nat
  BY TreasuryAssumption DEF IInv, TypeOK
<1>2. CASE \E agent \in Agents, p \in Proposals, proofs \in ProofPairs :
             SubmitProposal(agent, p, proofs)
  BY <1>2, SubmitAccepts DEF SubmitProposal, world
<1>3. CASE UNCHANGED vars
  BY <1>1, <1>3 DEF vars, world, journal
<1>4. CASE Attest
  BY <1>1, <1>4 DEF Attest, journal
<1>5. CASE Next /\ ~Attest /\ ~\E agent \in Agents, p \in Proposals, proofs \in ProofPairs :
                                  SubmitProposal(agent, p, proofs)
  BY <1>1, <1>5
  DEF Next, ConfigureLifecycle, RegisterAgent, DeregisterAgent, SetAutomationMode, OwnerExit,
      CloseTreasury, Tick, MarketMoves, Deposit, journal, world
<1>6. QED
  BY <1>2, <1>3, <1>4, <1>5

LEMMA GenuineStep == IInv /\ JournalGenuine /\ [Next]_vars => JournalGenuine'
<1> SUFFICES ASSUME IInv, JournalGenuine, [Next]_vars
             PROVE  JournalGenuine'
  OBVIOUS
<1>1. attested \in Nat
  BY TreasuryAssumption DEF IInv, TypeOK
<1>2. CASE UNCHANGED attempts /\ attested' >= attested
  <2>1. attested' \in Nat
    BY NextIInv, TreasuryAssumption DEF IInv, TypeOK
  <2>2. QED
    BY <1>1, <1>2, <2>1 DEF JournalGenuine, AttemptGenuine, Genuine
<1>3. CASE /\ UNCHANGED attested
           /\ \E agent \in Agents, p \in Proposals, proofs \in ProofPairs :
                \E a : Accepts(a, agent, p, proofs)
  <2>0. PICK agent \in Agents, p \in Proposals, proofs \in ProofPairs :
               \E a : Accepts(a, agent, p, proofs)
    BY <1>3
  <2>1. PICK a : Accepts(a, agent, p, proofs)
    BY <2>0
  <2>2. a.evidenceStatus = "Verified" => Genuine(a.proofs, attested)
    BY <2>1, VerifiedProofs DEF Accepts
  <2>3. \A i \in DOMAIN attempts' :
          \/ i \in DOMAIN attempts /\ attempts'[i] = attempts[i]
          \/ i \notin DOMAIN attempts /\ i = Len(attempts) + 1 /\ attempts'[i] = a
    BY <2>1, AppendedAttempt DEF Accepts
  <2>4. QED
    BY <1>3, <2>2, <2>3 DEF JournalGenuine, AttemptGenuine, Genuine
<1>4. QED
  BY <1>2, <1>3, StepAccepts

(* Evidence with the status "Verified" is, in every reachable state, two   *)
(* observations of the pinned observer, each alone in a transaction that   *)
(* succeeded on the source chain, in order and at attested heights.        *)
THEOREM EvidenceGenuine == Spec => []VerifiedEvidenceIsGenuine
<1>1. Init => JournalGenuine
  BY DEF Init, JournalGenuine
<1>2. JournalGenuine => VerifiedEvidenceIsGenuine
  BY DEF JournalGenuine, AttemptGenuine, Genuine, Observes, VerifiedEvidenceIsGenuine, Checked
<1>3. QED
  BY <1>1, <1>2, InitIInv, NextIInv, GenuineStep, PTL DEF Spec

-----------------------------------------------------------------------------
(* Fresh executions.                                                       *)

(* A larger share of an amount is not less.                                *)
LEMMA ShareMonotone ==
  ASSUME NEW amount \in Nat, NEW a \in Nat, NEW b \in Nat, a <= b
  PROVE  MulDiv(amount, a, BPS) <= MulDiv(amount, b, BPS)
<1>1. amount * a \in Nat /\ amount * b \in Nat /\ amount * a <= amount * b
  OBVIOUS
<1> DEFINE x == amount * a
           y == amount * b
<1>2. x \in Nat /\ y \in Nat /\ x <= y
  BY <1>1
<1> HIDE DEF x, y
<1>3. x \div 10000 <= y \div 10000
  BY <1>2
<1>4. QED
  BY <1>3 DEF MulDiv, BPS, x, y

(* The output asked for is at least what the owner's limit leaves of the   *)
(* expected output.                                                        *)
LEMMA PricedWithinPolicy ==
  ASSUME IInv, NEW agent \in Agents, NEW p \in Proposals, NEW proofs \in ProofPairs,
         UniversalReason(agent, p) = "None", Evaluation(p, proofs).reason = "None"
  PROVE  /\ Evaluation(p, proofs).minimumOut \in Nat
         /\ MulDiv(ExpectedOut(p, market.twap), BPS - policy.universal.maxSlippageBps, BPS) \in Nat
         /\ Evaluation(p, proofs).minimumOut
              >= MulDiv(ExpectedOut(p, market.twap), BPS - policy.universal.maxSlippageBps, BPS)
<1> DEFINE limit == policy.universal.maxSlippageBps
           expected == ExpectedOut(p, market.twap)
<1>1. /\ Evaluation(p, proofs).minimumOut \in Nat
      /\ Evaluation(p, proofs).minimumOut = MinimumOut(p, market.twap)
      /\ market.twap # 0
  BY EvaluationApproves
<1>2. /\ p.amountIn \in Nat /\ p.maxSlippageBps \in Nat /\ limit \in Nat
      /\ market.twap \in Nat \ {0}
  BY <1>1, InputAssumption DEF IInv, TypeOK, Policy, UniversalPolicy, MarketState
<1>3. limit <= 1000 /\ p.maxSlippageBps <= limit
  <2>1. limit <= 1000
    BY DEF IInv, ValidPolicy, ValidUniversal, MaxAllowedSlippageBps
  <2>2. ~(p.maxSlippageBps > limit)
    BY UniversalReasonResult
  <2>3. QED
    BY <1>2, <2>1, <2>2
<1>4. expected \in Nat
  BY <1>2, MulDivNat, UnitAssumption DEF ExpectedOut
<1>5. MinimumOut(p, market.twap) = MulDiv(expected, BPS - p.maxSlippageBps, BPS)
  BY DEF MinimumOut
<1> HIDE DEF limit, expected
<1>6. /\ BPS - limit \in Nat /\ BPS - p.maxSlippageBps \in Nat
      /\ BPS - limit <= BPS - p.maxSlippageBps
  BY <1>2, <1>3 DEF BPS
<1>7. /\ MulDiv(expected, BPS - limit, BPS) \in Nat
      /\ MulDiv(expected, BPS - limit, BPS) <= MulDiv(expected, BPS - p.maxSlippageBps, BPS)
  BY <1>4, <1>6, ShareMonotone, MulDivNat, BpsNat
<1>8. QED
  BY <1>1, <1>5, <1>7 DEF limit, expected

(* Whatever happened since a proposal was made: in the block that executes *)
(* it, it is within its deadline, confirmed recently, made for the policy  *)
(* in force, and priced within the owner's limit at the mean price.        *)
THEOREM ExecutionFresh == Spec => ExecutedWhileFresh
<1>1. ASSUME IInv, [Next]_vars, NEW i \in NewlyExecuted
      PROVE  LET p == attempts'[i].proposal
             IN  /\ now \in p.deadline - Horizon .. p.deadline
                 /\ attested - attempts'[i].proofs[2].tx.height <= MaxProofAge
                 /\ mode = "Autonomous" /\ p.policyHash = CurrentPolicyHash
                 /\ attempts'[i].amountOut >=
                      MulDiv(ExpectedOut(p, market.twap),
                             BPS - policy.universal.maxSlippageBps, BPS)
  <2>1. /\ i \in DOMAIN attempts' /\ attempts'[i].result = "Executed"
        /\ ~(i \in DOMAIN attempts /\ attempts[i].result = "Executed")
    BY <1>1 DEF NewlyExecuted, Executed
  <2>0. PICK agent \in Agents, p \in Proposals, proofs \in ProofPairs :
               \E a : Accepts(a, agent, p, proofs)
    BY <1>1, <2>1, StepAccepts
  <2>2. PICK a : Accepts(a, agent, p, proofs)
    BY <2>0
  <2>3. attempts'[i] = a
    BY <1>1, <2>1, <2>2, AppendedAttempt DEF Accepts
  <2>4. /\ a.proofs = proofs /\ a.proposal = p
        /\ VerifierError(proofs) = "None"
        /\ UniversalReason(agent, p) = "None" /\ Evaluation(p, proofs).reason = "None"
    BY <2>1, <2>2, <2>3 DEF Accepts
  <2>5. PICK surplus \in Nat : a.amountOut = Evaluation(p, proofs).minimumOut + surplus
    BY <2>1, <2>2, <2>3 DEF Accepts
  <2>6. attested - proofs[2].tx.height <= MaxProofAge
    BY <1>1, <2>4, VerifiedProofs
  <2>7. /\ mode = "Autonomous" /\ p.policyHash = CurrentPolicyHash
        /\ ~(p.deadline < now) /\ ~(p.deadline > now + Horizon)
    BY <2>4, UniversalReasonResult
  <2>8. now \in p.deadline - Horizon .. p.deadline
    <3>1. p.deadline \in Nat /\ now \in Nat /\ Horizon \in Nat
      BY <1>1, InputAssumption, TreasuryAssumption DEF IInv, TypeOK
    <3>2. QED
      BY <2>7, <3>1
  <2> DEFINE least == MulDiv(ExpectedOut(p, market.twap),
                             BPS - policy.universal.maxSlippageBps, BPS)
             asked == Evaluation(p, proofs).minimumOut
  <2>9. least \in Nat /\ asked \in Nat /\ asked >= least
    BY <1>1, <2>4, PricedWithinPolicy
  <2>10. a.amountOut >= least
    <3> HIDE DEF least, asked
    <3>1. a.amountOut = asked + surplus
      BY <2>5 DEF asked
    <3>2. QED
      BY <2>5, <2>9, <3>1
  <2>11. QED
    BY <2>3, <2>4, <2>6, <2>7, <2>8, <2>10
<1>2. IInv /\ [Next]_vars =>
        [\A i \in NewlyExecuted :
           LET p == attempts'[i].proposal
           IN  /\ now \in p.deadline - Horizon .. p.deadline
               /\ attested - attempts'[i].proofs[2].tx.height <= MaxProofAge
               /\ mode = "Autonomous" /\ p.policyHash = CurrentPolicyHash
               /\ attempts'[i].amountOut >=
                    MulDiv(ExpectedOut(p, market.twap),
                           BPS - policy.universal.maxSlippageBps, BPS)]_vars
  BY <1>1
<1>3. QED
  BY <1>2, InitIInv, NextIInv, PTL DEF Spec, ExecutedWhileFresh

-----------------------------------------------------------------------------
(* The strategies of one policy.                                           *)

(* An approved proposal passed its strategy's own checks.                  *)
LEMMA ApprovedByStrategy ==
  ASSUME NEW p, NEW proofs \in ProofPairs, Evaluation(p, proofs).reason = "None"
  PROVE  LET confirm == WithLocation(proofs[2])
             portfolio == Portfolio(View.balance, confirm.price)
         IN  /\ VerifierError(proofs) = "None"
             /\ confirm.price # 0
             /\ p.strategy = "RiskReduction" =>
                  /\ RiskReason(View, p, portfolio) = "None"
                  /\ Evaluation(p, proofs)
                       = Sized(View, p, RiskPermittedValue(View, portfolio), TRUE, confirm.price)
             /\ p.strategy = "Rebalance" => RebalanceReason(View, p, portfolio) = "None"
<1> DEFINE source == WithLocation(proofs[1])
           confirm == WithLocation(proofs[2])
           portfolio == Portfolio(View.balance, confirm.price)
           e == Evaluation(p, proofs)
<1>1. \A r : Refused(r).reason = r
  BY DEF Refused
<1>2. VerifierError(proofs) = "None" /\ e = EvaluateStrategy(View, p, source, confirm)
  BY <1>1 DEF Evaluation
<1>3. MarketReason(View.policy.universal, View.market, source, confirm) = "None"
  BY <1>1, <1>2 DEF EvaluateStrategy
<1>4. confirm.price # 0
  BY <1>3, MarketReasonResult
<1>5. ASSUME p.strategy = "RiskReduction"
      PROVE  /\ RiskReason(View, p, portfolio) = "None"
             /\ e = Sized(View, p, RiskPermittedValue(View, portfolio), TRUE, confirm.price)
  <2>1. e = EvaluateRisk(View, p, confirm)
    BY <1>2, <1>3, <1>5 DEF EvaluateStrategy
  <2> HIDE DEF e
  <2>2. e.reason = "None"
    BY DEF e
  <2>3. QED
    BY <1>1, <2>1, <2>2 DEF EvaluateRisk
<1>6. ASSUME p.strategy = "Rebalance"
      PROVE  RebalanceReason(View, p, portfolio) = "None"
  <2>1. e = EvaluateRebalance(View, p, confirm)
    BY <1>2, <1>3, <1>6 DEF EvaluateStrategy
  <2> HIDE DEF e
  <2>2. e.reason = "None"
    BY DEF e
  <2>3. QED
    BY <1>1, <2>1, <2>2 DEF EvaluateRebalance
<1>7. QED
  BY <1>2, <1>4, <1>5, <1>6

(* What the policy engine sees of a state of the right type.               *)
LEMMA ViewType ==
  ASSUME IInv
  PROVE  /\ View.policy = policy /\ View.balance = balance
         /\ balance \in [Assets -> Nat]
         /\ policy.rebalance.targetWctcBps \in Nat /\ policy.rebalance.toleranceBps \in Nat
         /\ policy.risk \in RiskPolicy /\ policy.risk.maxWctcExposureBps \in Nat
BY InputAssumption DEF IInv, TypeOK, View, Policy, RebalancePolicy, RiskPolicy

(* A risk reduction and a rebalancing that would both be approved on the   *)
(* same evidence both sell WCTC: the exposure limit lies above the band    *)
(* in every policy the constructor accepts.                                *)
THEOREM StrategiesAgree == Spec => []StrategiesNeverOppose
<1>1. ASSUME IInv, {"Rebalance", "RiskReduction"} \subseteq policy.universal.enabledStrategies,
             NEW proofs \in ProofPairs, NEW p \in Proposals, p.strategy = "RiskReduction",
             Evaluation(p, proofs).reason = "None",
             NEW q \in Proposals, q.strategy = "Rebalance", Evaluation(q, proofs).reason = "None"
      PROVE  Sells(q)
  <2> DEFINE price == WithLocation(proofs[2]).price
             portfolio == Portfolio(balance, price)
             r == policy.rebalance
  <2>1. /\ RiskReason(View, p, portfolio) = "None"
        /\ RebalanceReason(View, q, portfolio) = "None"
        /\ VerifierError(proofs) = "None"
    BY <1>1, ApprovedByStrategy, ViewType
  <2>2. portfolio.wctcBps \in Nat
    BY <1>1, <2>1, ConfirmedPrice, ViewType, PortfolioType
  <2> HIDE DEF portfolio
  <2>3. ~(portfolio.wctcBps <= policy.risk.maxWctcExposureBps)
    BY <1>1, <2>1, RiskReasonResult, ViewType
  <2>4. Follows(q, RebalanceSells(r, portfolio))
    BY <1>1, <2>1, RebalanceReasonResult, ViewType
  <2>5. policy.risk.maxWctcExposureBps > r.targetWctcBps + r.toleranceBps
    BY <1>1 DEF IInv, ValidPolicy
  <2>6. portfolio.wctcBps > r.targetWctcBps
    BY <1>1, <2>2, <2>3, <2>5, ViewType
  <2>7. QED
    BY <2>4, <2>6 DEF Follows, RebalanceSells
<1>2. IInv => StrategiesNeverOppose
  BY <1>1 DEF StrategiesNeverOppose
<1>3. QED
  BY <1>2, InitIInv, NextIInv, PTL DEF Spec

-----------------------------------------------------------------------------
(* What a risk reduction leaves.                                           *)

(* Selling what a value buys at a price, rounded down twice, takes no more *)
(* than that value from the worth of a holding, rounded down.              *)
LEMMA SaleKeepsWorth ==
  ASSUME NEW held \in Nat, NEW sold \in Nat, sold <= held,
         NEW unit \in Nat \ {0}, NEW price \in Nat \ {0}, NEW permitted \in Nat,
         sold <= MulDiv(permitted, unit, price),
         NEW kept \in Nat, permitted <= MulDiv(held, price, unit) - kept
  PROVE  MulDiv(held - sold, price, unit) >= kept
<1> DEFINE bought == (permitted * unit) \div price
           worth == (held * price) \div unit
           left == ((held - sold) * price) \div unit
<1>1. permitted * unit \in Nat /\ held * price \in Nat /\ (held - sold) * price \in Nat
  OBVIOUS
<1>2. /\ bought \in Nat /\ price * bought <= permitted * unit
      /\ worth \in Nat /\ unit * worth <= held * price
      /\ left \in Nat /\ (held - sold) * price < unit * left + unit
  BY <1>1, DivBounds
<1>3. sold <= bought /\ permitted <= worth - kept
  BY DEF MulDiv
<1>4. (held - sold) * price = held * price - sold * price
  OBVIOUS
<1> HIDE DEF bought, worth, left
<1>5. sold * price <= price * bought
  BY <1>2, <1>3
<1>6. unit * worth - permitted * unit < unit * left + unit
  <2> DEFINE pb == price * bought
             sp == sold * price
             pu == permitted * unit
             hp == held * price
             uw == unit * worth
             ul == unit * left
  <2>1. /\ pb \in Nat /\ sp \in Nat /\ pu \in Nat /\ hp \in Nat /\ uw \in Nat /\ ul \in Nat
    BY <1>2
  <2>2. pb <= pu /\ uw <= hp /\ hp - sp < ul + unit /\ sp <= pb
    BY <1>2, <1>4, <1>5
  <2> HIDE DEF pb, sp, pu, hp, uw, ul
  <2>3. uw - pu < ul + unit
    BY <2>1, <2>2
  <2>4. QED
    BY <2>3 DEF pb, sp, pu, hp, uw, ul
<1>7. worth - permitted < left + 1
  <2>1. unit * (worth - permitted) < unit * (left + 1)
    BY <1>2, <1>6
  <2>2. QED
    BY <1>2, <2>1
<1>8. left >= kept
  BY <1>2, <1>3, <1>7
<1>9. QED
  BY <1>8 DEF MulDiv, left

(* What an approved risk reduction may sell.                               *)
LEMMA RiskSaleBounded ==
  ASSUME IInv, NEW agent \in Agents, NEW p \in Proposals, NEW proofs \in ProofPairs,
         UniversalReason(agent, p) = "None", Evaluation(p, proofs).reason = "None",
         p.strategy = "RiskReduction"
  PROVE  LET price == WithLocation(proofs[2]).price
             portfolio == Portfolio(balance, price)
             kept == MulDiv(portfolio.total, policy.risk.maxWctcExposureBps, BPS)
         IN  /\ Sells(p) /\ price \in Nat \ {0} /\ kept \in Nat
             /\ p.amountIn \in Nat /\ p.amountIn <= balance["WCTC"]
             /\ \E permitted \in Nat : /\ p.amountIn <= MulDiv(permitted, WctcUnit, price)
                                       /\ permitted <= portfolio.wctc - kept
<1> DEFINE price == WithLocation(proofs[2]).price
           portfolio == Portfolio(balance, price)
           limit == policy.risk.maxWctcExposureBps
           kept == MulDiv(portfolio.total, limit, BPS)
           permitted == RiskPermittedValue(View, portfolio)
<1>1. /\ RiskReason(View, p, portfolio) = "None"
      /\ Evaluation(p, proofs) = Sized(View, p, permitted, TRUE, price)
      /\ VerifierError(proofs) = "None" /\ price # 0
  BY ApprovedByStrategy, ViewType
<1>2. price \in Nat \ {0}
  BY <1>1, ConfirmedPrice
<1>3. /\ portfolio.wctc \in Nat /\ portfolio.total \in Nat /\ limit \in Nat
  BY <1>2, ViewType, PortfolioType
<1>4. kept \in Nat
  BY <1>3, MulDivNat, BpsNat
<1>5. /\ Sells(p) /\ ~(portfolio.total = 0) /\ ~(portfolio.wctcBps <= limit)
      /\ ~(View.usedToday >= policy.risk.dailyRiskReductionValue)
  BY <1>1, RiskReasonResult, ViewType
<1>6. ExcessValue(policy.risk, portfolio) \in Nat
  BY <1>2, <1>5, ViewType, ExcessNat
<1>7. ExcessValue(policy.risk, portfolio) = portfolio.wctc - kept
  BY DEF ExcessValue
<1>8. Evaluation(p, proofs).permittedValue \in Nat /\ p.amountIn <= balance[p.assetIn]
      /\ Evaluation(p, proofs).minimumOut \in Nat
      /\ Evaluation(p, proofs).minimumOut = MinimumOut(p, market.twap)
  BY EvaluationApproves
<1>9. permitted \in Nat
  BY <1>1, <1>8 DEF Sized
<1>10. permitted <= ExcessValue(policy.risk, portfolio)
  <2>1. /\ policy.risk.maxRiskReductionValue \in Nat
        /\ policy.risk.dailyRiskReductionValue \in Nat
    BY ViewType DEF RiskPolicy
  <2>2. policy.universal.maxActionValue \in Nat /\ View.usedToday \in Nat
    BY InputAssumption, PeriodsIndexed DEF IInv, TypeOK, Policy, UniversalPolicy, View
  <2> DEFINE excess == ExcessValue(policy.risk, portfolio)
  <2>3. permitted = Lesser(Lesser(excess, policy.risk.maxRiskReductionValue),
                           Lesser(policy.risk.dailyRiskReductionValue - View.usedToday,
                                  policy.universal.maxActionValue))
    BY ViewType DEF RiskPermittedValue
  <2> HIDE DEF permitted, excess
  <2>4. excess \in Nat
    BY <1>6 DEF excess
  <2>5. permitted <= excess
    BY <1>5, <2>1, <2>2, <2>3, <2>4 DEF Lesser
  <2>6. QED
    BY <2>5 DEF excess
<1>11. p.amountIn \in Nat
  BY InputAssumption
<1>12. p.amountIn <= MulDiv(permitted, WctcUnit, price)
  <2> DEFINE sell == TRUE
             sized == Sized(View, p, permitted, sell, price)
             most == MulDiv(permitted, WctcUnit, price)
  <2>1. MaximumInput(permitted, sell, price) = most
    BY DEF MaximumInput
  <2>2. most \in Nat
    BY <1>2, <1>9, MulDivNat, UnitAssumption
  <2>3. MinimumOut(p, View.market.twap) \in Nat
    BY <1>8 DEF View
  <2>4. sized.reason = "None"
    BY <1>1
  <2> HIDE DEF sell
  <2>5. ~(p.amountIn > MaximumInput(permitted, sell, price))
    BY <2>3, <2>4, SizedResult
  <2> HIDE DEF most
  <2>6. p.amountIn <= most
    BY <1>11, <2>1, <2>2, <2>5
  <2>7. QED
    BY <2>6 DEF most
<1>13. p.amountIn <= balance["WCTC"]
  BY <1>5, <1>8 DEF Sells
<1> HIDE DEF permitted, portfolio, kept, price
<1>14. \E x \in Nat : x = permitted
  BY <1>9
<1>15. QED
  BY <1>2, <1>4, <1>5, <1>7, <1>9, <1>10, <1>11, <1>12, <1>13
  DEF permitted, portfolio, kept, price

(* After a risk reduction the WCTC left is worth at least the exposure     *)
(* limit's share of what the treasury held before, at the price the sale   *)
(* was sized with and in spite of every rounding.                          *)
THEOREM RiskSalesBounded == Spec => RiskSaleKeepsLimit
<1>1. ASSUME IInv, [Next]_vars, NEW i \in NewlyExecuted,
             attempts'[i].proposal.strategy = "RiskReduction"
      PROVE  LET price == WithLocation(attempts'[i].proofs[2]).price
             IN  Portfolio(balance', price).wctc >=
                   MulDiv(Portfolio(balance, price).total, policy.risk.maxWctcExposureBps, BPS)
  <2>1. /\ i \in DOMAIN attempts' /\ attempts'[i].result = "Executed"
        /\ ~(i \in DOMAIN attempts /\ attempts[i].result = "Executed")
    BY <1>1 DEF NewlyExecuted, Executed
  <2>0. PICK agent \in Agents, p \in Proposals, proofs \in ProofPairs :
               \E a : Accepts(a, agent, p, proofs)
    BY <1>1, <2>1, StepAccepts
  <2>2. PICK a : Accepts(a, agent, p, proofs)
    BY <2>0
  <2>3. attempts'[i] = a
    BY <1>1, <2>1, <2>2, AppendedAttempt DEF Accepts
  <2>4. /\ a.proofs = proofs /\ a.proposal = p
        /\ UniversalReason(agent, p) = "None" /\ Evaluation(p, proofs).reason = "None"
        /\ Swap(p, a.amountOut)
    BY <2>1, <2>2, <2>3 DEF Accepts
  <2> DEFINE price == WithLocation(proofs[2]).price
             portfolio == Portfolio(balance, price)
             kept == MulDiv(portfolio.total, policy.risk.maxWctcExposureBps, BPS)
  <2>5. /\ Sells(p) /\ price \in Nat \ {0} /\ kept \in Nat
        /\ p.amountIn \in Nat /\ p.amountIn <= balance["WCTC"]
        /\ \E permitted \in Nat : /\ p.amountIn <= MulDiv(permitted, WctcUnit, price)
                                  /\ permitted <= portfolio.wctc - kept
    BY <1>1, <2>3, <2>4, RiskSaleBounded
  <2>6. PICK permitted \in Nat : /\ p.amountIn <= MulDiv(permitted, WctcUnit, price)
                                 /\ permitted <= portfolio.wctc - kept
    BY <2>5
  <2>7. balance \in [Assets -> Nat]
    BY <1>1, ViewType
  <2>8. balance["WCTC"] \in Nat /\ portfolio.wctc = MulDiv(balance["WCTC"], price, WctcUnit)
    BY <2>7 DEF Portfolio, Assets
  <2>9. balance'["WCTC"] = balance["WCTC"] - p.amountIn
    BY <2>4, <2>5, <2>7 DEF Swap, Sells, Assets
  <2>10. Portfolio(balance', price).wctc = MulDiv(balance["WCTC"] - p.amountIn, price, WctcUnit)
    BY <2>9 DEF Portfolio
  <2> HIDE DEF kept, price
  <2>11. MulDiv(balance["WCTC"] - p.amountIn, price, WctcUnit) >= kept
    BY <2>5, <2>6, <2>8, SaleKeepsWorth, UnitAssumption
  <2>12. QED
    BY <2>3, <2>4, <2>10, <2>11 DEF kept, price
<1>2. IInv /\ [Next]_vars =>
        [\A i \in NewlyExecuted :
           attempts'[i].proposal.strategy = "RiskReduction" =>
             LET price == WithLocation(attempts'[i].proofs[2]).price
             IN  Portfolio(balance', price).wctc >=
                   MulDiv(Portfolio(balance, price).total, policy.risk.maxWctcExposureBps, BPS)]_vars
  BY <1>1
<1>3. QED
  BY <1>2, InitIInv, NextIInv, PTL DEF Spec, RiskSaleKeepsLimit

(***************************************************************************)
(* The agent's strategies.                                                 *)
(***************************************************************************)

-----------------------------------------------------------------------------
(* The model's answer                                                      *)

ApprovedInv ==
  pc \in {"decided", "proposed"} =>
    Acceptable(answer) /\ answer.decision = "EXECUTE" /\ SameStrategy(answer)

(* The model only agrees (agent/src/domain/aiDecision.ts): whatever it     *)
(* returns, there is a proposal only after an answer with the four fields  *)
(* and no other, which executes the strategy it was asked about.           *)
THEOREM ModelDecidesNothing ==
  StrategiesSpec => []ModelOnlyAgrees
<1>1. StrategiesInit => ApprovedInv
  BY DEF StrategiesInit, ApprovedInv
<1>2. ApprovedInv /\ [StrategiesNext]_strategyVars => ApprovedInv'
  <2> SUFFICES ASSUME ApprovedInv, [StrategiesNext]_strategyVars
               PROVE  ApprovedInv'
    OBVIOUS
  <2>1. ASSUME NEW a \in Answers, Decide(a)
        PROVE  ApprovedInv'
    <3>1. /\ pc' = IF ~Acceptable(a) \/ ~SameStrategy(a) THEN "threw"
                   ELSE IF a.decision = "EXECUTE" THEN "decided" ELSE "ready"
          /\ answer' = a /\ cycle' = cycle
      BY <2>1 DEF Decide
    <3>2. CASE Acceptable(a) /\ SameStrategy(a) /\ a.decision = "EXECUTE"
      <4>1. Acceptable(answer')
        BY <3>1, <3>2
      <4>2. Acceptable(answer)' /\ answer'.decision = "EXECUTE"
        BY <3>1, <3>2 DEF Acceptable
      <4>3. SameStrategy(answer)'
        BY <3>1, <3>2 DEF SameStrategy
      <4>4. QED
        BY <4>2, <4>3 DEF ApprovedInv
    <3>3. CASE ~(Acceptable(a) /\ SameStrategy(a) /\ a.decision = "EXECUTE")
      <4>1. pc' \in {"threw", "ready"}
        BY <3>1, <3>3
      <4>2. QED
        BY <4>1 DEF ApprovedInv
    <3>4. QED
      BY <3>2, <3>3
  <2>2. CASE Build
    BY <2>2 DEF Build, ApprovedInv, Acceptable, SameStrategy
  <2>3. CASE Move \/ UNCHANGED strategyVars
    BY <2>3 DEF Move, strategyVars, ApprovedInv, Acceptable, SameStrategy
  <2>4. CASE ReadContext \/ Ask \/ Submit
    <3>1. pc' \notin {"decided", "proposed"}
      BY <2>4 DEF ReadContext, Ask, Submit
    <3>2. QED
      BY <3>1 DEF ApprovedInv
  <2>5. QED
    BY <2>1, <2>2, <2>3, <2>4 DEF StrategiesNext
<1>3. ApprovedInv => ModelOnlyAgrees
  BY DEF ApprovedInv, ModelOnlyAgrees, Acceptable, SameStrategy
<1>4. QED
  BY <1>1, <1>2, <1>3, PTL DEF StrategiesSpec

-----------------------------------------------------------------------------
(* The mirror                                                              *)

(* A context an agent may read: a valid policy, limits that fit uint16, a  *)
(* market that answered.                                                   *)
Readable(policyRead) ==
  /\ ValidPolicy(policyRead)
  /\ policyRead.universal.maxSourceDriftBps <= MaxUint16
  /\ policyRead.universal.maxSpotTwapDeviationBps <= MaxUint16

ContextOK(ctx) == ctx \in Contexts /\ ctx.market.ok /\ Readable(ctx.policy)

LEMMA LeastIs ==
  ASSUME NEW S \in SUBSET Int, NEW m \in S, \A y \in S : m <= y
  PROVE  Min(S) = m
<1>1. Min(S) \in S /\ \A y \in S : Min(S) <= y
  BY DEF Min
<1>2. m \in Int /\ Min(S) \in Int
  BY <1>1
<1>3. m <= Min(S) /\ Min(S) <= m
  BY <1>1
<1>4. QED
  BY <1>2, <1>3

LEMMA GreatestIs ==
  ASSUME NEW S \in SUBSET Int, NEW m \in S, \A y \in S : m >= y
  PROVE  Max(S) = m
<1>1. Max(S) \in S /\ \A y \in S : Max(S) >= y
  BY DEF Max
<1>2. m \in Int /\ Max(S) \in Int
  BY <1>1
<1>3. m >= Max(S) /\ Max(S) >= m
  BY <1>1
<1>4. QED
  BY <1>2, <1>3

LEMMA OfTwo ==
  ASSUME NEW a \in Int, NEW b \in Int
  PROVE  Min({a, b}) = Lesser(a, b) /\ Max({a, b}) = Greater(a, b)
<1>1. /\ Lesser(a, b) \in {a, b} /\ \A y \in {a, b} : Lesser(a, b) <= y
      /\ Greater(a, b) \in {a, b} /\ \A y \in {a, b} : Greater(a, b) >= y
  BY DEF Lesser, Greater
<1>2. {a, b} \in SUBSET Int
  OBVIOUS
<1>3. Min({a, b}) = Lesser(a, b)
  BY <1>1, <1>2, LeastIs
<1>4. Max({a, b}) = Greater(a, b)
  BY <1>1, <1>2, GreatestIs
<1>5. QED
  BY <1>3, <1>4

LEMMA ContextTyped ==
  ASSUME NEW ctx, ContextOK(ctx)
  PROVE  /\ ctx.policy \in Policy /\ ctx.policy.universal \in UniversalPolicy
         /\ ctx.policy.arbitrage \in ArbitragePolicy /\ ctx.policy.rebalance \in RebalancePolicy
         /\ ctx.policy.risk \in RiskPolicy
         /\ ctx.balance \in [Assets -> Nat] /\ ctx.usedToday \in Nat /\ ctx.executions \in Nat
         /\ ctx.balance["WCTC"] \in Nat /\ ctx.balance["STABLE"] \in Nat
         /\ ctx.market.ok /\ ctx.market.twap \in Nat /\ ctx.market.spot \in Nat
         /\ ctx.market.liquidity \in Nat
         /\ ctx.source.price \in Nat /\ ctx.source.liquidity \in Nat
         /\ ctx.confirm.price \in Nat /\ ctx.confirm.liquidity \in Nat
<1>1. ctx \in Contexts /\ ctx.market.ok
  BY DEF ContextOK
<1>2. ctx.policy \in Policy /\ ctx.balance \in [Assets -> Nat] /\ ctx.usedToday \in Nat
      /\ ctx.executions \in Nat /\ ctx.market \in MarketState
      /\ ctx.source \in Observed /\ ctx.confirm \in Observed
  BY <1>1 DEF Contexts
<1>3. ctx.balance["WCTC"] \in Nat /\ ctx.balance["STABLE"] \in Nat
  BY <1>2 DEF Assets
<1>4. QED
  BY <1>1, <1>2, <1>3 DEF Policy, MarketState, Observed

(* The gap of two prices, of which neither is zero or both are beyond any  *)
(* limit, is the same to the agent as to the treasury.                     *)
LEMMA GapAgrees ==
  ASSUME NEW a \in Nat, NEW b \in Nat, NEW limit \in Nat, limit <= MaxUint16
  PROVE  /\ Gap(a, b) <= limit <=> ~(BpsGap(a, b) > limit)
         /\ Gap(a, b) <= limit => a # 0 /\ b # 0
         /\ a # 0 /\ b # 0 => Gap(a, b) = BpsGap(a, b)
<1>1. Min({a, b}) = Lesser(a, b) /\ Max({a, b}) = Greater(a, b)
  BY OfTwo
<1>2. CASE Lesser(a, b) = 0
  <2>1. Gap(a, b) = 9007199 /\ BpsGap(a, b) = 65536 /\ limit <= 65535
    BY <1>1, <1>2 DEF Gap, BpsGap, UnboundedGap, MaxUint16
  <2>2. a = 0 \/ b = 0
    BY <1>2 DEF Lesser
  <2>3. ~(Gap(a, b) <= limit) /\ BpsGap(a, b) > limit
    BY <2>1
  <2>4. QED
    BY <2>2, <2>3
<1>3. CASE Lesser(a, b) # 0
  <2>1. Gap(a, b) = BpsGap(a, b)
    BY <1>1, <1>3 DEF Gap, BpsGap, MulDiv
  <2>2. a # 0 /\ b # 0
    BY <1>3 DEF Lesser
  <2>3. BpsGap(a, b) \in Nat
    BY BpsGapNat
  <2>4. QED
    BY <2>1, <2>2, <2>3
<1>4. QED
  BY <1>2, <1>3

(* A market is usable to the agent when it passes the treasury's checks.   *)
LEMMA MarketAgrees ==
  ASSUME NEW ctx, ContextOK(ctx)
  PROVE  /\ MarketReason(ctx.policy.universal, ctx.market, ctx.source, ctx.confirm) = "None"
              <=> Usable(ctx)
         /\ Usable(ctx) => /\ ctx.source.price # 0 /\ ctx.confirm.price # 0
                           /\ ctx.market.twap # 0 /\ ctx.market.spot # 0
<1> DEFINE u == ctx.policy.universal
<1>1. /\ u.maxSourceDriftBps \in Nat /\ u.maxSourceDriftBps <= MaxUint16
      /\ u.maxSpotTwapDeviationBps \in Nat /\ u.maxSpotTwapDeviationBps <= MaxUint16
      /\ u.minSourceLiquidity \in Nat /\ u.minDestinationLiquidity \in Nat
  BY ContextTyped DEF UniversalPolicy, ContextOK, Readable
<1>2. /\ ctx.market.ok /\ ctx.market.twap \in Nat /\ ctx.market.spot \in Nat
      /\ ctx.market.liquidity \in Nat
      /\ ctx.source.price \in Nat /\ ctx.source.liquidity \in Nat
      /\ ctx.confirm.price \in Nat /\ ctx.confirm.liquidity \in Nat
  BY ContextTyped
<1> HIDE DEF u
<1>3. LET a == ctx.source.price
          b == ctx.confirm.price
      IN  /\ Gap(a, b) <= u.maxSourceDriftBps <=> ~(BpsGap(a, b) > u.maxSourceDriftBps)
          /\ Gap(a, b) <= u.maxSourceDriftBps => a # 0 /\ b # 0
  BY <1>1, <1>2, GapAgrees
<1>4. LET a == ctx.market.twap
          b == ctx.market.spot
      IN  /\ Gap(a, b) <= u.maxSpotTwapDeviationBps <=> ~(BpsGap(a, b) > u.maxSpotTwapDeviationBps)
          /\ Gap(a, b) <= u.maxSpotTwapDeviationBps => a # 0 /\ b # 0
  BY <1>1, <1>2, GapAgrees
<1>5. Min({ctx.source.liquidity, ctx.confirm.liquidity}) >= u.minSourceLiquidity
        <=> ~(ctx.source.liquidity < u.minSourceLiquidity \/ ctx.confirm.liquidity < u.minSourceLiquidity)
  <2>1. Min({ctx.source.liquidity, ctx.confirm.liquidity})
          = Lesser(ctx.source.liquidity, ctx.confirm.liquidity)
    BY <1>2, OfTwo
  <2>2. QED
    BY <1>1, <1>2, <2>1 DEF Lesser
<1>6. MarketReason(u, ctx.market, ctx.source, ctx.confirm) = "None" <=>
        /\ ~(ctx.source.price = 0 \/ ctx.confirm.price = 0)
        /\ ~(BpsGap(ctx.source.price, ctx.confirm.price) > u.maxSourceDriftBps)
        /\ ~(ctx.source.liquidity < u.minSourceLiquidity
              \/ ctx.confirm.liquidity < u.minSourceLiquidity)
        /\ ~(~ctx.market.ok \/ ctx.market.twap = 0 \/ ctx.market.spot = 0)
        /\ ~(ctx.market.liquidity < u.minDestinationLiquidity)
        /\ ~(BpsGap(ctx.market.twap, ctx.market.spot) > u.maxSpotTwapDeviationBps)
  BY MarketReasonResult
<1>7. Usable(ctx) <=>
        /\ Gap(ctx.source.price, ctx.confirm.price) <= u.maxSourceDriftBps
        /\ Min({ctx.source.liquidity, ctx.confirm.liquidity}) >= u.minSourceLiquidity
        /\ ctx.market.liquidity >= u.minDestinationLiquidity
        /\ Gap(ctx.market.twap, ctx.market.spot) <= u.maxSpotTwapDeviationBps
  BY DEF Usable, u
<1>8. ctx.market.liquidity >= u.minDestinationLiquidity
        <=> ~(ctx.market.liquidity < u.minDestinationLiquidity)
  BY <1>1, <1>2
<1>9. QED
  BY <1>2, <1>3, <1>4, <1>5, <1>6, <1>7, <1>8 DEF u

(* The check that a chain stops at.                                        *)
LEMMA FirstReasonStops ==
  ASSUME NEW n \in 1..14, NEW checks, DOMAIN checks = 1..n, NEW k \in 1..n, checks[k][2],
         \A i \in 1..n : i < k => ~checks[i][2]
  PROVE  FirstReason(checks) = checks[k][1]
<1> DEFINE failing == {i \in DOMAIN checks : checks[i][2]}
           first == CHOOSE i \in failing : \A j \in failing : i <= j
<1>1. k \in failing /\ \A j \in failing : k <= j
  OBVIOUS
<1>2. first \in failing /\ \A j \in failing : first <= j
  BY <1>1
<1>3. first = k
  <2>1. first \in 1..n /\ first <= k /\ k <= first
    BY <1>1, <1>2
  <2>2. QED
    BY <2>1
<1>4. QED
  BY <1>1, <1>3 DEF FirstReason

(* An amount within the permitted one and within the balance is refused    *)
(* for the epoch's executions or for its output only.                      *)
LEMMA AmountFits ==
  ASSUME NEW v, NEW p, NEW maximumInput \in Nat \ {0}, NEW minimumOut \in Nat,
         p.amountIn \in Nat, p.amountIn <= maximumInput,
         v.balance[p.assetIn] \in Nat, p.amountIn <= v.balance[p.assetIn]
  PROVE  LET reason == AmountReason(v, p, maximumInput, minimumOut)
         IN  /\ reason \in {"None", "ExecutionRateLimit", "ZeroExecutableAmount"}
             /\ reason = "ZeroExecutableAmount" => minimumOut \notin 1..MaxUint128
<1> DEFINE checks ==
      << <<"ZeroExecutableAmount", maximumInput = 0>>,
         <<"AmountExceedsPolicy", p.amountIn > maximumInput>>,
         <<"InsufficientBalance", v.balance[p.assetIn] < p.amountIn>>,
         <<"ExecutionRateLimit", v.executions >= v.policy.universal.maxExecutionsPerEpoch>>,
         <<"ZeroExecutableAmount", minimumOut = 0 \/ minimumOut > MaxUint128>> >>
<1>1. AmountReason(v, p, maximumInput, minimumOut) = FirstReason(checks)
  BY DEF AmountReason
<1>2. /\ DOMAIN checks = 1..5
      /\ ~checks[1][2] /\ ~checks[2][2] /\ ~checks[3][2]
      /\ checks[4][1] = "ExecutionRateLimit" /\ checks[5][1] = "ZeroExecutableAmount"
      /\ checks[5][2] => minimumOut \notin 1..MaxUint128
      /\ \A i \in 1..5 : checks[i][1] \in ReasonCode \ {"None"}
  <2>1. /\ ~(maximumInput = 0) /\ ~(p.amountIn > maximumInput)
        /\ ~(v.balance[p.assetIn] < p.amountIn)
    OBVIOUS
  <2>2. minimumOut = 0 \/ minimumOut > MaxUint128 => minimumOut \notin 1..MaxUint128
    BY UnitAssumption
  <2>3. ~checks[1][2] /\ ~checks[2][2] /\ ~checks[3][2]
    BY <2>1
  <2>4. checks[5][2] => minimumOut \notin 1..MaxUint128
    BY <2>2
  <2>5. /\ DOMAIN checks = 1..5
        /\ checks[4][1] = "ExecutionRateLimit" /\ checks[5][1] = "ZeroExecutableAmount"
        /\ \A i \in 1..5 : checks[i][1] \in ReasonCode \ {"None"}
    BY DEF ReasonCode
  <2> HIDE DEF checks
  <2>6. QED
    BY <2>3, <2>4, <2>5
<1> HIDE DEF checks
<1>3. CASE checks[4][2]
  <2>1. \A i \in 1..5 : i < 4 => ~checks[i][2]
    BY <1>2
  <2>2. FirstReason(checks) = "ExecutionRateLimit"
    BY <1>2, <1>3, <2>1, FirstReasonStops
  <2>3. QED
    BY <1>1, <2>2
<1>4. CASE ~checks[4][2] /\ checks[5][2]
  <2>1. \A i \in 1..5 : i < 5 => ~checks[i][2]
    BY <1>2, <1>4
  <2>2. FirstReason(checks) = "ZeroExecutableAmount"
    BY <1>2, <1>4, <2>1, FirstReasonStops
  <2>3. QED
    BY <1>1, <1>2, <1>4, <2>2
<1>5. CASE ~checks[4][2] /\ ~checks[5][2]
  <2>1. \A i \in 1..5 : ~checks[i][2]
    BY <1>2, <1>5
  <2>2. FirstReason(checks) = "None"
    BY <1>2, <2>1, FirstReasonResult, NoneIsReason
  <2>3. QED
    BY <1>1, <2>2
<1>6. QED
  BY <1>3, <1>4, <1>5

LEMMA AmountBeyond ==
  ASSUME NEW v, NEW p, NEW maximumInput \in Nat \ {0}, NEW minimumOut,
         p.amountIn \in Nat, p.amountIn > maximumInput
  PROVE  AmountReason(v, p, maximumInput, minimumOut) = "AmountExceedsPolicy"
<1> DEFINE checks ==
      << <<"ZeroExecutableAmount", maximumInput = 0>>,
         <<"AmountExceedsPolicy", p.amountIn > maximumInput>>,
         <<"InsufficientBalance", v.balance[p.assetIn] < p.amountIn>>,
         <<"ExecutionRateLimit", v.executions >= v.policy.universal.maxExecutionsPerEpoch>>,
         <<"ZeroExecutableAmount", minimumOut = 0 \/ minimumOut > MaxUint128>> >>
<1>1. AmountReason(v, p, maximumInput, minimumOut) = FirstReason(checks)
  BY DEF AmountReason
<1>2. /\ DOMAIN checks = 1..5 /\ ~checks[1][2] /\ checks[2][2]
      /\ checks[2][1] = "AmountExceedsPolicy"
  <2>1. ~(maximumInput = 0) /\ p.amountIn > maximumInput
    OBVIOUS
  <2>2. ~checks[1][2] /\ checks[2][2]
    BY <2>1
  <2>3. DOMAIN checks = 1..5 /\ checks[2][1] = "AmountExceedsPolicy"
    OBVIOUS
  <2> HIDE DEF checks
  <2>4. QED
    BY <2>2, <2>3
<1> HIDE DEF checks
<1>3. \A i \in 1..5 : i < 2 => ~checks[i][2]
  BY <1>2
<1>4. FirstReason(checks) = "AmountExceedsPolicy"
  BY <1>2, <1>3, FirstReasonStops
<1>5. QED
  BY <1>1, <1>4

(* The amount of WCTC that a value buys is no more than an amount worth at *)
(* least that value.                                                       *)
LEMMA InputWithin ==
  ASSUME NEW value \in Nat, NEW price \in Nat \ {0}, NEW amount \in Nat,
         value <= MulDiv(amount, price, WctcUnit)
  PROVE  MulDiv(value, WctcUnit, price) \in Nat /\ MulDiv(value, WctcUnit, price) <= amount
<1> DEFINE U == WctcUnit
           worth == (amount * price) \div U
           input == (value * U) \div price
<1>1. U \in Nat \ {0}
  BY UnitAssumption
<1> HIDE DEF U
<1>2. amount * price \in Nat /\ value * U \in Nat
  BY <1>1
<1>3. worth \in Nat /\ U * worth <= amount * price
  BY <1>1, <1>2, DivBounds
<1>4. input \in Nat /\ price * input <= value * U
  BY <1>2, DivBounds
<1>5. value <= worth
  BY DEF MulDiv, U
<1> HIDE DEF worth, input
<1>6. value * U <= U * worth
  BY <1>1, <1>3, <1>5
<1>7. price * input <= amount * price
  <2>1. U * worth \in Nat /\ price * input \in Nat
    BY <1>1, <1>3, <1>4
  <2>2. QED
    BY <1>2, <1>3, <1>4, <1>6, <2>1
<1>8. input <= amount
  BY <1>4, <1>7
<1>9. QED
  BY <1>4, <1>8 DEF MulDiv, input, U

(* The agent values a portfolio as the treasury does.                      *)
LEMMA PortfolioSeen ==
  ASSUME NEW ctx, ContextOK(ctx)
  PROVE  LET portfolio == Portfolio(ctx.balance, ctx.confirm.price)
         IN  /\ portfolio.wctc = WctcValue(ctx) /\ portfolio.total = PortfolioValue(ctx)
             /\ portfolio.wctc \in Nat /\ portfolio.total \in Nat /\ portfolio.wctcBps \in Nat
             /\ portfolio.total = portfolio.wctc + ctx.balance["STABLE"]
             /\ portfolio.total # 0 =>
                  /\ portfolio.wctcBps = CurrentWctcBps(ctx)
                  /\ portfolio.wctcBps = MulDiv(portfolio.wctc, BPS, portfolio.total)
<1> DEFINE portfolio == Portfolio(ctx.balance, ctx.confirm.price)
<1>1. /\ ctx.balance \in [Assets -> Nat] /\ ctx.confirm.price \in Nat
  BY ContextTyped
<1>2. /\ portfolio.wctc \in Nat /\ portfolio.total \in Nat /\ portfolio.wctcBps \in Nat
      /\ portfolio.total # 0 =>
           portfolio.wctcBps = MulDiv(portfolio.wctc, BPS, portfolio.total)
  BY <1>1, PortfolioType
<1>3. /\ portfolio.wctc = WctcValue(ctx) /\ portfolio.total = PortfolioValue(ctx)
      /\ portfolio.total = portfolio.wctc + ctx.balance["STABLE"]
  BY DEF Portfolio, WctcValue, PortfolioValue, MulDiv
<1> HIDE DEF portfolio
<1>4. portfolio.total # 0 => portfolio.wctcBps = CurrentWctcBps(ctx)
  BY <1>2, <1>3 DEF CurrentWctcBps, MulDiv
<1>5. QED
  BY <1>2, <1>3, <1>4 DEF portfolio

(* A candidate gives what its context holds, within the mandate.           *)
CandidateOK(ctx, c) ==
  /\ c \in Candidates /\ c.context = ctx /\ c.slippage = ctx.policy.universal.maxSlippageBps
  /\ c.strategy \in ctx.policy.universal.enabledStrategies
  /\ c.amountIn # 0
  /\ c.amountIn <= ctx.balance[IF c.direction = "SELL_WCTC" THEN "WCTC" ELSE "STABLE"]

(* A proposal of some amount in the place of a candidate.                  *)
Like(p, c) ==
  /\ p.strategy = c.strategy /\ p.context = c.context /\ p.maxSlippageBps = c.slippage
  /\ Follows(p, c.direction = "SELL_WCTC")

(* The treasury permits such a proposal what the candidate asks for.       *)
Sizing(c, p) == AmountReason(c.context, p, c.amountIn, MinimumOut(p, c.context.market.twap))
EdgeOverflows(c) == c.strategy = "Arbitrage" /\ NetEdge(c.context) > MaxUint16
Agrees(c, p) ==
  LET reason == Verdict(c.context, p).reason
  IN  reason = Sizing(c, p) \/ (Sizing(c, p) = "None" /\ EdgeOverflows(c) /\ reason = "ZeroExecutableAmount")

LEMMA FoundIs ==
  ASSUME NEW ctx, ContextOK(ctx), NEW strategy \in Strategies, NEW direction \in Directions,
         NEW amountIn \in Nat, NEW permitted \in Nat
  PROVE  LET found == Found(strategy, ctx, direction, amountIn, permitted)
         IN  /\ amountIn # 0 => found # {}
             /\ \A c \in found :
                  /\ amountIn # 0 /\ c \in Candidates /\ c.strategy = strategy /\ c.context = ctx
                  /\ c.direction = direction /\ c.amountIn = amountIn
                  /\ c.slippage = ctx.policy.universal.maxSlippageBps
<1> DEFINE r == [strategy |-> strategy, direction |-> direction, amountIn |-> amountIn,
                 permittedValue |-> permitted, kind |-> strategy,
                 slippage |-> ctx.policy.universal.maxSlippageBps, context |-> ctx]
<1>1. ctx.policy.universal.maxSlippageBps \in Nat /\ ctx \in Contexts
  BY ContextTyped DEF UniversalPolicy, ContextOK
<1>2. r \in Candidates
  <2> DEFINE n == ctx.policy.universal.maxSlippageBps
  <2>1. n \in Nat
    BY <1>1
  <2> HIDE DEF n
  <2>2. [strategy |-> strategy, direction |-> direction, amountIn |-> amountIn,
         permittedValue |-> permitted, kind |-> strategy, slippage |-> n, context |-> ctx]
          \in Candidates
    BY <1>1, <2>1 DEF Candidates
  <2>3. QED
    BY <2>2 DEF n
<1>3. Found(strategy, ctx, direction, amountIn, permitted) = IF amountIn = 0 THEN {} ELSE {r}
  BY DEF Found
<1>4. /\ r.strategy = strategy /\ r.context = ctx /\ r.direction = direction
      /\ r.amountIn = amountIn /\ r.slippage = ctx.policy.universal.maxSlippageBps
  OBVIOUS
<1> HIDE DEF r
<1>5. QED
  BY <1>2, <1>3, <1>4

LEMMA LeastOfFour ==
  ASSUME NEW a \in Nat, NEW b \in Nat, NEW c \in Nat, NEW d \in Nat
  PROVE  Min({a, b, c, d}) = Lesser(Lesser(a, b), Lesser(c, d))
<1> DEFINE m == Lesser(Lesser(a, b), Lesser(c, d))
<1>1. m \in {a, b, c, d} /\ \A y \in {a, b, c, d} : m <= y
  BY DEF Lesser
<1>2. {a, b, c, d} \in SUBSET Int
  OBVIOUS
<1> HIDE DEF m
<1>3. Min({a, b, c, d}) = m
  BY <1>1, <1>2, LeastIs
<1>4. QED
  BY <1>3 DEF m

LEMMA LeastOfThree ==
  ASSUME NEW a \in Nat, NEW b \in Nat, NEW c \in Nat
  PROVE  /\ Min({a, b, c}) = Lesser(a, Lesser(b, c))
         /\ Min({a, b, c}) = Lesser(Lesser(a, b), c)
<1>1. Min({a, b, c, c}) = Lesser(Lesser(a, b), Lesser(c, c))
  BY LeastOfFour
<1>2. {a, b, c, c} = {a, b, c}
  OBVIOUS
<1>3. /\ Lesser(Lesser(a, b), Lesser(c, c)) = Lesser(a, Lesser(b, c))
      /\ Lesser(Lesser(a, b), Lesser(c, c)) = Lesser(Lesser(a, b), c)
  BY DEF Lesser
<1>4. QED
  BY <1>1, <1>2, <1>3

-----------------------------------------------------------------------------
(* Risk reduction                                                          *)

LEMMA RiskReasonAgrees ==
  ASSUME NEW ctx, ContextOK(ctx), Usable(ctx), NEW p
  PROVE  RiskReason(ctx, p, Portfolio(ctx.balance, ctx.confirm.price)) = "None"
           <=> RiskIsDue(ctx) /\ Sells(p)
<1> DEFINE portfolio == Portfolio(ctx.balance, ctx.confirm.price)
           limit == ctx.policy.risk.maxWctcExposureBps
           daily == ctx.policy.risk.dailyRiskReductionValue
<1>1. /\ portfolio.total = PortfolioValue(ctx) /\ portfolio.total \in Nat
      /\ portfolio.wctcBps \in Nat
      /\ portfolio.total # 0 => portfolio.wctcBps = CurrentWctcBps(ctx)
  BY PortfolioSeen
<1>2. limit \in Nat /\ daily \in Nat /\ ctx.usedToday \in Nat /\ ctx.confirm.price \in Nat
  BY ContextTyped DEF RiskPolicy
<1>3. ctx.confirm.price # 0
  BY MarketAgrees
<1>4. RiskIsDue(ctx) <=> /\ ctx.confirm.price > 0 /\ PortfolioValue(ctx) > 0
                         /\ CurrentWctcBps(ctx) > limit /\ ctx.usedToday < daily
  BY DEF RiskIsDue
<1>5. RiskReason(ctx, p, portfolio) = "None" <=>
        /\ ~(portfolio.total = 0) /\ ~(portfolio.wctcBps <= limit)
        /\ Sells(p) /\ ~(ctx.usedToday >= daily)
  BY RiskReasonResult
<1> HIDE DEF portfolio, limit, daily
<1>6. ctx.confirm.price > 0 /\ (PortfolioValue(ctx) > 0 <=> ~(portfolio.total = 0))
      /\ (ctx.usedToday < daily <=> ~(ctx.usedToday >= daily))
  BY <1>1, <1>2, <1>3
<1>7. ~(portfolio.total = 0) => (CurrentWctcBps(ctx) > limit <=> ~(portfolio.wctcBps <= limit))
  BY <1>1, <1>2
<1>8. QED
  BY <1>4, <1>5, <1>6, <1>7 DEF portfolio

LEMMA RiskValueAgrees ==
  ASSUME NEW ctx, ContextOK(ctx), RiskIsDue(ctx)
  PROVE  LET value == RiskReductionValue(ctx)
         IN  /\ value = RiskPermittedValue(ctx, Portfolio(ctx.balance, ctx.confirm.price))
             /\ value \in Nat /\ value <= WctcValue(ctx)
<1> DEFINE portfolio == Portfolio(ctx.balance, ctx.confirm.price)
           k == ctx.policy.risk
           excess == ExcessValue(k, portfolio)
           left == k.dailyRiskReductionValue - ctx.usedToday
           most == k.maxRiskReductionValue
           action == ctx.policy.universal.maxActionValue
<1>1. /\ k \in RiskPolicy /\ ctx.balance \in [Assets -> Nat] /\ ctx.confirm.price \in Nat
      /\ ctx.policy.universal \in UniversalPolicy /\ ctx.usedToday \in Nat
  BY ContextTyped
<1>2. k.maxWctcExposureBps \in Nat /\ most \in Nat /\ k.dailyRiskReductionValue \in Nat /\ action \in Nat
  BY <1>1 DEF RiskPolicy, UniversalPolicy
<1>3. /\ portfolio.wctc = WctcValue(ctx) /\ portfolio.total = PortfolioValue(ctx)
      /\ portfolio.wctc \in Nat /\ portfolio.total \in Nat /\ portfolio.wctcBps \in Nat
      /\ portfolio.total # 0 => portfolio.wctcBps = CurrentWctcBps(ctx)
  BY PortfolioSeen
<1>4. /\ PortfolioValue(ctx) > 0 /\ CurrentWctcBps(ctx) > k.maxWctcExposureBps
      /\ ctx.usedToday < k.dailyRiskReductionValue
  BY DEF RiskIsDue
<1>5. ~(portfolio.total = 0) /\ ~(portfolio.wctcBps <= k.maxWctcExposureBps)
  <2> HIDE DEF portfolio, k
  <2>1. QED
    BY <1>2, <1>3, <1>4
<1>6. excess \in Nat
  BY <1>1, <1>5, ExcessNat
<1>7. left \in Nat
  <2> HIDE DEF k
  <2>1. QED
    BY <1>1, <1>2, <1>4
<1>8. excess = WctcValue(ctx) - (PortfolioValue(ctx) * k.maxWctcExposureBps) \div BPS
  BY <1>3 DEF ExcessValue, MulDiv
<1>9. excess <= WctcValue(ctx)
  <2> DEFINE part == MulDiv(portfolio.total, k.maxWctcExposureBps, BPS)
  <2>1. part \in Nat
    BY <1>2, <1>3, MulDivNat, BpsNat
  <2>2. excess = portfolio.wctc - part
    BY DEF ExcessValue
  <2> HIDE DEF part, excess, portfolio
  <2>3. QED
    BY <1>3, <2>1, <2>2
<1>10. RiskReductionValue(ctx) = Min({excess, most, left, action})
  BY <1>8 DEF RiskReductionValue
<1>11. RiskPermittedValue(ctx, portfolio) = Lesser(Lesser(excess, most), Lesser(left, action))
  BY DEF RiskPermittedValue
<1> HIDE DEF excess, left, most, action, portfolio, k
<1>12. Min({excess, most, left, action}) = Lesser(Lesser(excess, most), Lesser(left, action))
  BY <1>2, <1>6, <1>7, LeastOfFour
<1>13. /\ Lesser(Lesser(excess, most), Lesser(left, action)) \in Nat
       /\ Lesser(Lesser(excess, most), Lesser(left, action)) <= excess
  BY <1>2, <1>6, <1>7 DEF Lesser
<1>14. WctcValue(ctx) \in Nat
  BY <1>3
<1>15. RiskReductionValue(ctx) \in Nat /\ RiskReductionValue(ctx) <= WctcValue(ctx)
  BY <1>6, <1>9, <1>10, <1>12, <1>13, <1>14
<1>16. QED
  BY <1>10, <1>11, <1>12, <1>15 DEF portfolio

(* The treasury's verdict, on a market that it finds unusable and on one   *)
(* that it can use.                                                        *)
LEMMA VerdictByMarket ==
  ASSUME NEW ctx, ContextOK(ctx), NEW p, p.context = ctx
  PROVE  /\ ~Usable(ctx) => Verdict(ctx, p).reason # "None"
         /\ Usable(ctx) => Verdict(ctx, p) = IF p.strategy = "Arbitrage" THEN EvaluateArbitrage(ctx, p, ctx.confirm)
                                             ELSE IF p.strategy = "Rebalance" THEN EvaluateRebalance(ctx, p, ctx.confirm)
                                             ELSE EvaluateRisk(ctx, p, ctx.confirm)
<1> DEFINE reason == MarketReason(ctx.policy.universal, ctx.market, ctx.source, ctx.confirm)
<1>1. reason = "None" <=> Usable(ctx)
  BY MarketAgrees
<1>2. Verdict(ctx, p) = EvaluateStrategy(ctx, p, ctx.source, ctx.confirm)
  BY DEF Verdict
<1>3. EvaluateStrategy(ctx, p, ctx.source, ctx.confirm)
        = IF reason # "None" THEN Refused(reason)
          ELSE IF p.strategy = "Arbitrage" THEN EvaluateArbitrage(ctx, p, ctx.confirm)
          ELSE IF p.strategy = "Rebalance" THEN EvaluateRebalance(ctx, p, ctx.confirm)
          ELSE EvaluateRisk(ctx, p, ctx.confirm)
  BY DEF EvaluateStrategy
<1>4. Refused(reason).reason = reason
  BY DEF Refused
<1> HIDE DEF reason
<1>5. QED
  BY <1>1, <1>2, <1>3, <1>4

LEMMA SizedReason ==
  ASSUME NEW v, NEW p, NEW permitted, NEW sell, NEW price
  PROVE  Sized(v, p, permitted, sell, price).reason
           = AmountReason(v, p, MaximumInput(permitted, sell, price), MinimumOut(p, v.market.twap))
BY DEF Sized

LEMMA RiskCandidates ==
  ASSUME NEW ctx, ContextOK(ctx), "RiskReduction" \in ctx.policy.universal.enabledStrategies
  PROVE  /\ ~RiskIsDue(ctx) => RiskReduction(ctx) = {}
         /\ RiskIsDue(ctx) =>
              LET input == MaximumInput(RiskPermittedValue(ctx, Portfolio(ctx.balance, ctx.confirm.price)),
                                        TRUE, ctx.confirm.price)
              IN  /\ input \in Nat /\ (input # 0 => RiskReduction(ctx) # {})
                  /\ \A c \in RiskReduction(ctx) :
                       /\ CandidateOK(ctx, c) /\ c.strategy = "RiskReduction"
                       /\ c.direction = "SELL_WCTC" /\ c.amountIn = input
<1>1. ~RiskIsDue(ctx) => RiskReduction(ctx) = {}
  BY DEF RiskReduction
<1>2. ASSUME RiskIsDue(ctx)
      PROVE  LET input == MaximumInput(RiskPermittedValue(ctx, Portfolio(ctx.balance, ctx.confirm.price)),
                                       TRUE, ctx.confirm.price)
             IN  /\ input \in Nat /\ (input # 0 => RiskReduction(ctx) # {})
                 /\ \A c \in RiskReduction(ctx) :
                      /\ CandidateOK(ctx, c) /\ c.strategy = "RiskReduction"
                      /\ c.direction = "SELL_WCTC" /\ c.amountIn = input
  <2> DEFINE value == RiskReductionValue(ctx)
             price == ctx.confirm.price
             input == MulDiv(value, WctcUnit, price)
             held == ctx.balance["WCTC"]
  <2>1. /\ value = RiskPermittedValue(ctx, Portfolio(ctx.balance, ctx.confirm.price))
        /\ value \in Nat /\ value <= WctcValue(ctx)
    BY <1>2, RiskValueAgrees
  <2>2. held \in Nat /\ price \in Nat
    BY ContextTyped
  <2>3. price # 0
    BY <1>2, <2>2 DEF RiskIsDue
  <2>4. WctcValue(ctx) = MulDiv(held, price, WctcUnit)
    BY DEF WctcValue, MulDiv
  <2>5. input \in Nat /\ input <= held
    <3> HIDE DEF value, price, held
    <3>1. value <= MulDiv(held, price, WctcUnit)
      BY <2>1, <2>4
    <3>2. QED
      BY <2>1, <2>2, <2>3, <3>1, InputWithin
  <2>6. MaximumInput(RiskPermittedValue(ctx, Portfolio(ctx.balance, ctx.confirm.price)),
                     TRUE, ctx.confirm.price) = input
    BY <2>1 DEF MaximumInput
  <2>7. RiskReduction(ctx) = Found("RiskReduction", ctx, "SELL_WCTC", input, value)
    BY <1>2 DEF RiskReduction, MulDiv
  <2> HIDE DEF input, value, held
  <2>8. /\ input # 0 => RiskReduction(ctx) # {}
        /\ \A c \in RiskReduction(ctx) :
             /\ input # 0 /\ c \in Candidates /\ c.strategy = "RiskReduction" /\ c.context = ctx
             /\ c.direction = "SELL_WCTC" /\ c.amountIn = input
             /\ c.slippage = ctx.policy.universal.maxSlippageBps
    <3>1. "RiskReduction" \in Strategies /\ "SELL_WCTC" \in Directions
      BY DEF Strategies, Directions
    <3>2. QED
      BY <2>1, <2>5, <2>7, <3>1, FoundIs
  <2>9. \A c \in RiskReduction(ctx) : CandidateOK(ctx, c)
    BY <2>5, <2>8 DEF CandidateOK, held
  <2>10. QED
    BY <2>5, <2>6, <2>8, <2>9
<1>3. QED
  BY <1>1, <1>2

LEMMA RiskMirrored ==
  ASSUME NEW ctx, ContextOK(ctx), "RiskReduction" \in ctx.policy.universal.enabledStrategies,
         NEW p, p.strategy = "RiskReduction", p.context = ctx
  PROVE  /\ \A c \in RiskReduction(ctx) : CandidateOK(ctx, c) /\ (Like(p, c) => Agrees(c, p))
         /\ Verdict(ctx, p).reason = "None" => RiskReduction(ctx) # {}
<1> DEFINE portfolio == Portfolio(ctx.balance, ctx.confirm.price)
           permitted == RiskPermittedValue(ctx, portfolio)
           input == MaximumInput(permitted, TRUE, ctx.confirm.price)
           out == MinimumOut(p, ctx.market.twap)
           reason == RiskReason(ctx, p, portfolio)
<1>1. /\ ~RiskIsDue(ctx) => RiskReduction(ctx) = {}
      /\ RiskIsDue(ctx) =>
           /\ input \in Nat /\ (input # 0 => RiskReduction(ctx) # {})
           /\ \A c \in RiskReduction(ctx) :
                /\ CandidateOK(ctx, c) /\ c.strategy = "RiskReduction"
                /\ c.direction = "SELL_WCTC" /\ c.amountIn = input
  BY RiskCandidates
<1>2. RiskIsDue(ctx) => Usable(ctx)
  BY DEF RiskIsDue
<1>3. Usable(ctx) => /\ Verdict(ctx, p) = EvaluateRisk(ctx, p, ctx.confirm)
                     /\ reason = "None" <=> RiskIsDue(ctx) /\ Sells(p)
  <2>1. ASSUME Usable(ctx)
        PROVE  Verdict(ctx, p) = EvaluateRisk(ctx, p, ctx.confirm)
    BY <2>1, VerdictByMarket
  <2>2. ASSUME Usable(ctx)
        PROVE  reason = "None" <=> RiskIsDue(ctx) /\ Sells(p)
    BY <2>2, RiskReasonAgrees
  <2> HIDE DEF reason
  <2>3. QED
    BY <2>1, <2>2
<1>4. EvaluateRisk(ctx, p, ctx.confirm)
        = IF reason # "None" THEN Refused(reason)
          ELSE Sized(ctx, p, permitted, TRUE, ctx.confirm.price)
  BY DEF EvaluateRisk
<1>5. Sized(ctx, p, permitted, TRUE, ctx.confirm.price).reason = AmountReason(ctx, p, input, out)
  <2> DEFINE sell == TRUE
  <2> HIDE DEF sell, permitted
  <2>1. Sized(ctx, p, permitted, sell, ctx.confirm.price).reason
          = AmountReason(ctx, p, MaximumInput(permitted, sell, ctx.confirm.price), out)
    BY SizedReason
  <2>2. QED
    BY <2>1 DEF sell
<1>6. Refused(reason).reason = reason
  BY DEF Refused
<1>7. AmountReason(ctx, p, input, out) = "None" => ~(input = 0)
  BY AmountReasonResult
<1>8. ~Usable(ctx) => Verdict(ctx, p).reason # "None"
  BY VerdictByMarket
<1> HIDE DEF portfolio, permitted, input, reason
<1>9. Verdict(ctx, p).reason = "None" => RiskReduction(ctx) # {}
  BY <1>1, <1>3, <1>4, <1>5, <1>6, <1>7, <1>8
<1>10. ASSUME NEW c \in RiskReduction(ctx)
      PROVE  CandidateOK(ctx, c) /\ (Like(p, c) => Agrees(c, p))
  <2>1. RiskIsDue(ctx) /\ Usable(ctx) /\ CandidateOK(ctx, c) /\ c.context = ctx
        /\ c.direction = "SELL_WCTC" /\ c.amountIn = input
    BY <1>1, <1>2 DEF CandidateOK
  <2>2. ASSUME Like(p, c) PROVE Agrees(c, p)
    <3>1. Sells(p)
      BY <2>1, <2>2 DEF Like, Follows
    <3>2. Verdict(ctx, p).reason = AmountReason(ctx, p, input, out)
      BY <1>3, <1>4, <1>5, <2>1, <3>1
    <3>3. Sizing(c, p) = AmountReason(ctx, p, input, out)
      BY <2>1 DEF Sizing
    <3>4. QED
      BY <2>1, <3>2, <3>3 DEF Agrees
  <2>3. QED
    BY <2>1, <2>2
<1>11. QED
  BY <1>9, <1>10

-----------------------------------------------------------------------------
(* Rebalancing                                                             *)

(* A share strictly below a limit is within the limit's part of the total. *)
LEMMA ShareBelowLimit ==
  ASSUME NEW w \in Nat, NEW t \in Nat \ {0}, NEW limit \in Nat,
         MulDiv(w, BPS, t) < limit
  PROVE  MulDiv(t, limit, BPS) \in Nat /\ w <= MulDiv(t, limit, BPS)
<1> DEFINE share == (w * 10000) \div t
           part == (t * limit) \div 10000
<1>1. share \in Nat /\ w * 10000 < t * share + t
  BY DivBounds
<1>2. part \in Nat /\ t * limit < 10000 * part + 10000
  <2>1. t * limit \in Nat
    OBVIOUS
  <2>2. QED
    BY <2>1, DivBounds
<1>3. share + 1 <= limit
  <2>1. share < limit
    BY DEF MulDiv, BPS
  <2> HIDE DEF share
  <2>2. QED
    BY <1>1, <2>1
<1>4. t * (share + 1) <= t * limit /\ t * (share + 1) = t * share + t
  <2> HIDE DEF share
  <2>1. QED
    BY <1>1, <1>3
<1>5. w * 10000 < 10000 * part + 10000
  <2> HIDE DEF share, part
  <2>1. t * limit \in Nat /\ t * share \in Nat
    BY <1>1
  <2>2. QED
    BY <1>1, <1>2, <1>4, <2>1
<1>6. w <= part
  <2> HIDE DEF part
  <2>1. QED
    BY <1>2, <1>5
<1>7. QED
  BY <1>2, <1>6 DEF MulDiv, BPS

LEMMA PartOfTotal ==
  ASSUME NEW t \in Nat, NEW limit \in Nat, limit <= BPS
  PROVE  MulDiv(t, limit, BPS) \in Nat /\ MulDiv(t, limit, BPS) <= t
<1> DEFINE part == (t * limit) \div 10000
<1>1. part \in Nat /\ 10000 * part <= t * limit
  <2>1. t * limit \in Nat
    OBVIOUS
  <2>2. QED
    BY <2>1, DivBounds
<1>2. t * limit <= t * 10000
  BY DEF BPS
<1>3. part <= t
  <2> HIDE DEF part
  <2>1. t * limit \in Nat
    OBVIOUS
  <2>2. QED
    BY <1>1, <1>2, <2>1
<1>4. QED
  BY <1>1, <1>3 DEF MulDiv, BPS

LEMMA DistanceAgrees ==
  ASSUME NEW a \in Int, NEW b \in Int
  PROVE  /\ Max({a - b, -(a - b)}) = Greater(a, b) - Lesser(a, b)
         /\ Max({a - b, b - a}) = Greater(a, b) - Lesser(a, b)
<1>1. a - b \in Int /\ b - a \in Int /\ -(a - b) = b - a
  OBVIOUS
<1>2. Max({a - b, b - a}) = Greater(a - b, b - a)
  BY <1>1, OfTwo
<1>3. Greater(a - b, b - a) = Greater(a, b) - Lesser(a, b)
  BY DEF Greater, Lesser
<1>4. QED
  BY <1>1, <1>2, <1>3

LEMMA RebalanceReasonAgrees ==
  ASSUME NEW ctx, ContextOK(ctx), Usable(ctx), NEW p
  PROVE  LET r == ctx.policy.rebalance
             portfolio == Portfolio(ctx.balance, ctx.confirm.price)
         IN  RebalanceReason(ctx, p, portfolio) = "None"
               <=> RebalanceIsDue(ctx) /\ Follows(p, RebalanceSells(r, portfolio))
<1> DEFINE portfolio == Portfolio(ctx.balance, ctx.confirm.price)
           r == ctx.policy.rebalance
           target == r.targetWctcBps
           follows == Follows(p, RebalanceSells(r, portfolio))
<1>1. /\ portfolio.total = PortfolioValue(ctx) /\ portfolio.total \in Nat
      /\ portfolio.wctcBps \in Nat
      /\ portfolio.total # 0 => portfolio.wctcBps = CurrentWctcBps(ctx)
  BY PortfolioSeen
<1>2. target \in Nat /\ r.toleranceBps \in Nat /\ ctx.confirm.price \in Nat
  BY ContextTyped DEF RebalancePolicy
<1>3. ctx.confirm.price # 0
  BY MarketAgrees
<1>4. RebalanceIsDue(ctx) <=> /\ ctx.confirm.price > 0 /\ PortfolioValue(ctx) > 0
                              /\ Max({CurrentWctcBps(ctx) - target, -(CurrentWctcBps(ctx) - target)})
                                   > r.toleranceBps
  BY DEF RebalanceIsDue
<1>5. RebalanceReason(ctx, p, portfolio) = "None" <=>
        /\ ~(portfolio.total = 0) /\ ~(RebalanceDeviation(r, portfolio) <= r.toleranceBps)
        /\ follows
  BY RebalanceReasonResult
<1>6. RebalanceDeviation(r, portfolio) = Greater(portfolio.wctcBps, target) - Lesser(portfolio.wctcBps, target)
  BY DEF RebalanceDeviation
<1> HIDE DEF portfolio, r, target, follows
<1>7. ctx.confirm.price > 0 /\ (PortfolioValue(ctx) > 0 <=> ~(portfolio.total = 0))
  BY <1>1, <1>2, <1>3
<1>8. ~(portfolio.total = 0) =>
        (Max({CurrentWctcBps(ctx) - target, -(CurrentWctcBps(ctx) - target)}) > r.toleranceBps
          <=> ~(RebalanceDeviation(r, portfolio) <= r.toleranceBps))
  <2>1. /\ Max({portfolio.wctcBps - target, -(portfolio.wctcBps - target)})
             = RebalanceDeviation(r, portfolio)
        /\ RebalanceDeviation(r, portfolio) \in Int
    <3>1. Max({portfolio.wctcBps - target, -(portfolio.wctcBps - target)})
            = Greater(portfolio.wctcBps, target) - Lesser(portfolio.wctcBps, target)
      BY <1>1, <1>2, DistanceAgrees
    <3>2. Greater(portfolio.wctcBps, target) - Lesser(portfolio.wctcBps, target) \in Int
      BY <1>1, <1>2 DEF Greater, Lesser
    <3>3. QED
      BY <1>6, <3>1, <3>2
  <2>2. QED
    BY <1>1, <1>2, <2>1
<1>9. QED
  BY <1>4, <1>5, <1>7, <1>8 DEF portfolio, r, follows

LEMMA RebalanceValueAgrees ==
  ASSUME NEW ctx, ContextOK(ctx), RebalanceIsDue(ctx),
         "Rebalance" \in ctx.policy.universal.enabledStrategies
  PROVE  LET value == RebalanceValue(ctx)
             portfolio == Portfolio(ctx.balance, ctx.confirm.price)
             sells == RebalanceSells(ctx.policy.rebalance, portfolio)
         IN  /\ value = RebalancePermittedValue(ctx, portfolio) /\ value \in Nat
             /\ sells <=> CurrentWctcBps(ctx) > ctx.policy.rebalance.targetWctcBps
             /\ value <= IF sells THEN WctcValue(ctx) ELSE ctx.balance["STABLE"]
<1> DEFINE portfolio == Portfolio(ctx.balance, ctx.confirm.price)
           r == ctx.policy.rebalance
           share == portfolio.wctcBps
           wctc == portfolio.wctc
           total == portfolio.total
           stable == ctx.balance["STABLE"]
           limit == r.targetWctcBps
           sells == RebalanceSells(r, portfolio)
           target == MulDiv(total, limit, BPS)
           off == RebalanceRequiredValue(r, portfolio)
           most == r.maxRebalanceValue
           action == ctx.policy.universal.maxActionValue
<1>1. /\ r \in RebalancePolicy /\ ctx.policy.universal \in UniversalPolicy /\ stable \in Nat
  BY ContextTyped
<1>2. limit \in Nat /\ r.toleranceBps \in Nat /\ most \in Nat /\ action \in Nat
  BY <1>1 DEF RebalancePolicy, UniversalPolicy
<1>3. limit <= BPS
  BY DEF ContextOK, Readable, ValidPolicy, ValidRebalance
<1>4. /\ wctc = WctcValue(ctx) /\ total = PortfolioValue(ctx)
      /\ wctc \in Nat /\ total \in Nat /\ share \in Nat /\ total = wctc + stable
      /\ total # 0 => share = CurrentWctcBps(ctx) /\ share = MulDiv(wctc, BPS, total)
  BY PortfolioSeen
<1>5. total # 0 /\ share # limit
  <2>1. PortfolioValue(ctx) > 0
        /\ Max({CurrentWctcBps(ctx) - limit, -(CurrentWctcBps(ctx) - limit)}) > r.toleranceBps
    BY DEF RebalanceIsDue
  <2>2. total # 0 /\ CurrentWctcBps(ctx) = share
    BY <1>4, <2>1
  <2> HIDE DEF share, limit, r
  <2>3. Max({share - limit, -(share - limit)}) = Greater(share, limit) - Lesser(share, limit)
    BY <1>2, <1>4, DistanceAgrees
  <2>4. Greater(share, limit) - Lesser(share, limit) > r.toleranceBps
    BY <2>1, <2>2, <2>3
  <2>5. QED
    BY <1>2, <1>4, <2>2, <2>4 DEF Greater, Lesser
<1>6. sells <=> share > limit
  BY DEF RebalanceSells
<1>7. off = Greater(wctc, target) - Lesser(wctc, target)
  BY DEF RebalanceRequiredValue
<1>8. RebalanceValue(ctx) = Min({Max({wctc - target, target - wctc}), most, action})
  BY <1>4 DEF RebalanceValue, MulDiv
<1>9. RebalancePermittedValue(ctx, portfolio) = Lesser(off, Lesser(most, action))
  BY DEF RebalancePermittedValue
<1>10. share = MulDiv(wctc, BPS, total) /\ share = CurrentWctcBps(ctx)
  BY <1>4, <1>5
<1> HIDE DEF portfolio, r, share, wctc, total, stable, limit, sells, off, most, action
<1>11. target \in Nat /\ target <= total
  BY <1>2, <1>3, <1>4, PartOfTotal
<1>12. share > limit => target <= wctc
  BY <1>2, <1>4, <1>5, <1>10, ShareAboveLimit
<1>13. share < limit => wctc <= target
  BY <1>2, <1>4, <1>5, <1>10, ShareBelowLimit
<1> HIDE DEF target
<1>14. Max({wctc - target, target - wctc}) = off
  BY <1>4, <1>7, <1>11, DistanceAgrees
<1>15. off \in Nat /\ off <= IF sells THEN wctc ELSE stable
  <2>1. off \in Nat
    BY <1>4, <1>7, <1>11 DEF Greater, Lesser
  <2>2. CASE share > limit
    <3>1. off = wctc - target
      BY <1>4, <1>7, <1>11, <1>12, <2>2 DEF Greater, Lesser
    <3>2. QED
      BY <1>4, <1>6, <1>11, <2>1, <2>2, <3>1
  <2>3. CASE share < limit
    <3>1. off = target - wctc
      BY <1>4, <1>7, <1>11, <1>13, <2>3 DEF Greater, Lesser
    <3>2. ~sells
      BY <1>2, <1>4, <1>6, <2>3
    <3>3. QED
      BY <1>1, <1>4, <1>11, <2>1, <3>1, <3>2
  <2>4. QED
    BY <1>2, <1>4, <1>5, <2>2, <2>3
<1>16. Min({off, most, action}) = Lesser(off, Lesser(most, action))
  BY <1>2, <1>15, LeastOfThree
<1>17. Lesser(off, Lesser(most, action)) \in Nat /\ Lesser(off, Lesser(most, action)) <= off
  BY <1>2, <1>15 DEF Lesser
<1>18. RebalanceValue(ctx) = RebalancePermittedValue(ctx, portfolio)
  BY <1>8, <1>9, <1>14, <1>16
<1>19. RebalanceValue(ctx) \in Nat /\ RebalanceValue(ctx) <= IF sells THEN wctc ELSE stable
  <2>1. (IF sells THEN wctc ELSE stable) \in Nat
    BY <1>1, <1>4
  <2>2. QED
    BY <1>9, <1>15, <1>17, <1>18, <2>1
<1>20. QED
  BY <1>4, <1>6, <1>10, <1>18, <1>19 DEF portfolio, r, sells, limit, wctc, stable

LEMMA RebalanceCandidates ==
  ASSUME NEW ctx, ContextOK(ctx), "Rebalance" \in ctx.policy.universal.enabledStrategies
  PROVE  /\ ~RebalanceIsDue(ctx) => Rebalance(ctx) = {}
         /\ RebalanceIsDue(ctx) =>
              LET portfolio == Portfolio(ctx.balance, ctx.confirm.price)
                  sells == RebalanceSells(ctx.policy.rebalance, portfolio)
                  input == MaximumInput(RebalancePermittedValue(ctx, portfolio), sells, ctx.confirm.price)
              IN  /\ input \in Nat /\ (input # 0 => Rebalance(ctx) # {})
                  /\ \A c \in Rebalance(ctx) :
                       /\ CandidateOK(ctx, c) /\ c.strategy = "Rebalance"
                       /\ c.direction = (IF sells THEN "SELL_WCTC" ELSE "BUY_WCTC")
                       /\ c.amountIn = input
<1> DEFINE portfolio == Portfolio(ctx.balance, ctx.confirm.price)
           sells == RebalanceSells(ctx.policy.rebalance, portfolio)
           permitted == RebalancePermittedValue(ctx, portfolio)
           price == ctx.confirm.price
           input == MaximumInput(permitted, sells, price)
           direction == IF sells THEN "SELL_WCTC" ELSE "BUY_WCTC"
           held == ctx.balance[IF sells THEN "WCTC" ELSE "STABLE"]
<1>1. ~RebalanceIsDue(ctx) => Rebalance(ctx) = {}
  BY DEF Rebalance
<1>2. ASSUME RebalanceIsDue(ctx)
      PROVE  /\ input \in Nat /\ (input # 0 => Rebalance(ctx) # {})
             /\ \A c \in Rebalance(ctx) :
                  /\ CandidateOK(ctx, c) /\ c.strategy = "Rebalance"
                  /\ c.direction = direction /\ c.amountIn = input
  <2> DEFINE value == RebalanceValue(ctx)
             over == CurrentWctcBps(ctx) > ctx.policy.rebalance.targetWctcBps
  <2>1. /\ value = permitted /\ value \in Nat
        /\ sells <=> over
        /\ value <= IF sells THEN WctcValue(ctx) ELSE ctx.balance["STABLE"]
    BY <1>2, RebalanceValueAgrees
  <2>2. ctx.balance["WCTC"] \in Nat /\ ctx.balance["STABLE"] \in Nat /\ price \in Nat
    BY ContextTyped
  <2>3. price # 0
    BY <1>2, <2>2 DEF RebalanceIsDue
  <2>4. WctcValue(ctx) = MulDiv(ctx.balance["WCTC"], price, WctcUnit)
    BY DEF WctcValue, MulDiv
  <2>5. Rebalance(ctx) = Found("Rebalance", ctx, IF over THEN "SELL_WCTC" ELSE "BUY_WCTC",
                               IF over THEN MulDiv(value, WctcUnit, price) ELSE value, value)
    BY <1>2 DEF Rebalance, MulDiv
  <2> HIDE DEF value, over, sells, permitted, price
  <2>6. input \in Nat /\ input <= held
    <3>1. CASE sells
      <4>1. input = MulDiv(value, WctcUnit, price) /\ held = ctx.balance["WCTC"]
        BY <2>1, <3>1 DEF MaximumInput
      <4>2. value <= MulDiv(ctx.balance["WCTC"], price, WctcUnit)
        BY <2>1, <2>4, <3>1
      <4> HIDE DEF input, held
      <4>3. /\ MulDiv(value, WctcUnit, price) \in Nat
            /\ MulDiv(value, WctcUnit, price) <= ctx.balance["WCTC"]
        BY <2>1, <2>2, <2>3, <4>2, InputWithin
      <4>4. QED
        BY <4>1, <4>3
    <3>2. CASE ~sells
      <4>1. input = value /\ held = ctx.balance["STABLE"]
        BY <2>1, <3>2 DEF MaximumInput
      <4>2. QED
        BY <2>1, <3>2, <4>1
    <3>3. QED
      BY <3>1, <3>2
  <2>7. Rebalance(ctx) = Found("Rebalance", ctx, direction, input, value)
    BY <2>1, <2>5 DEF MaximumInput
  <2>8. direction \in Directions /\ "Rebalance" \in Strategies
    BY DEF Directions, Strategies
  <2>9. direction = "SELL_WCTC" <=> sells
    OBVIOUS
  <2> HIDE DEF input, direction, held
  <2>10. /\ input # 0 => Rebalance(ctx) # {}
         /\ \A c \in Rebalance(ctx) :
              /\ input # 0 /\ c \in Candidates /\ c.strategy = "Rebalance" /\ c.context = ctx
              /\ c.direction = direction /\ c.amountIn = input
              /\ c.slippage = ctx.policy.universal.maxSlippageBps
    BY <2>1, <2>6, <2>7, <2>8, FoundIs
  <2>11. \A c \in Rebalance(ctx) : CandidateOK(ctx, c)
    BY <2>6, <2>9, <2>10 DEF CandidateOK, held
  <2>12. QED
    BY <2>6, <2>10, <2>11
<1>3. QED
  BY <1>1, <1>2

LEMMA RebalanceMirrored ==
  ASSUME NEW ctx, ContextOK(ctx), "Rebalance" \in ctx.policy.universal.enabledStrategies,
         NEW p, p.strategy = "Rebalance", p.context = ctx
  PROVE  /\ \A c \in Rebalance(ctx) : CandidateOK(ctx, c) /\ (Like(p, c) => Agrees(c, p))
         /\ Verdict(ctx, p).reason = "None" => Rebalance(ctx) # {}
<1> DEFINE portfolio == Portfolio(ctx.balance, ctx.confirm.price)
           sells == RebalanceSells(ctx.policy.rebalance, portfolio)
           permitted == RebalancePermittedValue(ctx, portfolio)
           input == MaximumInput(permitted, sells, ctx.confirm.price)
           out == MinimumOut(p, ctx.market.twap)
           reason == RebalanceReason(ctx, p, portfolio)
<1>1. /\ ~RebalanceIsDue(ctx) => Rebalance(ctx) = {}
      /\ RebalanceIsDue(ctx) =>
           /\ input \in Nat /\ (input # 0 => Rebalance(ctx) # {})
           /\ \A c \in Rebalance(ctx) :
                /\ CandidateOK(ctx, c) /\ c.strategy = "Rebalance"
                /\ c.direction = (IF sells THEN "SELL_WCTC" ELSE "BUY_WCTC") /\ c.amountIn = input
  BY RebalanceCandidates
<1>2. RebalanceIsDue(ctx) => Usable(ctx)
  BY DEF RebalanceIsDue
<1>3. Usable(ctx) => /\ Verdict(ctx, p) = EvaluateRebalance(ctx, p, ctx.confirm)
                     /\ reason = "None" <=> RebalanceIsDue(ctx) /\ Follows(p, sells)
  <2>1. ASSUME Usable(ctx)
        PROVE  Verdict(ctx, p) = EvaluateRebalance(ctx, p, ctx.confirm)
    BY <2>1, VerdictByMarket
  <2>2. ASSUME Usable(ctx)
        PROVE  reason = "None" <=> RebalanceIsDue(ctx) /\ Follows(p, sells)
    BY <2>2, RebalanceReasonAgrees
  <2> HIDE DEF reason
  <2>3. QED
    BY <2>1, <2>2
<1>4. EvaluateRebalance(ctx, p, ctx.confirm)
        = IF reason # "None" THEN Refused(reason)
          ELSE Sized(ctx, p, permitted, sells, ctx.confirm.price)
  BY DEF EvaluateRebalance
<1>5. Sized(ctx, p, permitted, sells, ctx.confirm.price).reason = AmountReason(ctx, p, input, out)
  <2> HIDE DEF permitted, sells
  <2>1. QED
    BY SizedReason
<1>6. Refused(reason).reason = reason
  BY DEF Refused
<1>7. AmountReason(ctx, p, input, out) = "None" => ~(input = 0)
  BY AmountReasonResult
<1>8. ~Usable(ctx) => Verdict(ctx, p).reason # "None"
  BY VerdictByMarket
<1> HIDE DEF portfolio, sells, permitted, input, reason
<1>9. Verdict(ctx, p).reason = "None" => Rebalance(ctx) # {}
  BY <1>1, <1>3, <1>4, <1>5, <1>6, <1>7, <1>8
<1>10. ASSUME NEW c \in Rebalance(ctx)
       PROVE  CandidateOK(ctx, c) /\ (Like(p, c) => Agrees(c, p))
  <2>1. /\ RebalanceIsDue(ctx) /\ Usable(ctx) /\ CandidateOK(ctx, c) /\ c.context = ctx
        /\ c.direction = (IF sells THEN "SELL_WCTC" ELSE "BUY_WCTC") /\ c.amountIn = input
    BY <1>1, <1>2 DEF CandidateOK
  <2>2. ASSUME Like(p, c) PROVE Agrees(c, p)
    <3>1. Follows(p, sells)
      <4>1. c.direction = "SELL_WCTC" <=> sells
        BY <2>1
      <4>2. QED
        BY <2>2, <4>1 DEF Like, Follows
    <3>2. Verdict(ctx, p).reason = AmountReason(ctx, p, input, out)
      BY <1>3, <1>4, <1>5, <2>1, <3>1
    <3>3. Sizing(c, p) = AmountReason(ctx, p, input, out)
      BY <2>1 DEF Sizing
    <3>4. QED
      BY <2>1, <3>2, <3>3 DEF Agrees
  <2>3. QED
    BY <2>1, <2>2
<1>11. QED
  BY <1>9, <1>10

-----------------------------------------------------------------------------
(* Arbitrage                                                               *)

EdgeIsDue(ctx) ==
  /\ Usable(ctx) /\ ctx.market.twap # ctx.confirm.price
  /\ ~(NetEdge(ctx) < ctx.policy.arbitrage.minNetEdgeBps)

LEMMA EdgeAgrees ==
  ASSUME NEW ctx, ContextOK(ctx), Usable(ctx), NEW p,
         p.maxSlippageBps = ctx.policy.universal.maxSlippageBps
  PROVE  /\ ArbitrageNet(ctx, p, ctx.confirm) = NetEdge(ctx) /\ NetEdge(ctx) \in Int
         /\ ArbitrageGross(ctx, ctx.confirm) < ArbitrageCosts(p) + ctx.policy.arbitrage.minNetEdgeBps
              <=> NetEdge(ctx) < ctx.policy.arbitrage.minNetEdgeBps
<1> DEFINE twap == ctx.market.twap
           price == ctx.confirm.price
           slip == ctx.policy.universal.maxSlippageBps
           least == ctx.policy.arbitrage.minNetEdgeBps
           gross == ArbitrageGross(ctx, ctx.confirm)
           costs == ArbitrageCosts(p)
           net == ArbitrageNet(ctx, p, ctx.confirm)
<1>1. twap \in Nat /\ price \in Nat /\ slip \in Nat /\ least \in Nat
  BY ContextTyped DEF UniversalPolicy, ArbitragePolicy
<1>2. twap # 0 /\ price # 0
  BY MarketAgrees
<1>3. gross = BpsGap(twap, price) /\ costs = PoolFeeBps + slip + ExecutionReserveBps
      /\ net = gross - costs
  BY DEF ArbitrageGross, ArbitrageCosts, ArbitrageNet
<1>4. NetEdge(ctx) = Gap(twap, price) - (PoolFeeBps + slip + ExecutionReserveBps)
  BY DEF NetEdge
<1> HIDE DEF twap, price, slip, least, gross, costs, net
<1>5. Gap(twap, price) = BpsGap(twap, price) /\ BpsGap(twap, price) \in Nat
  <2>1. 0 \in Nat /\ 0 <= MaxUint16
    BY DEF MaxUint16
  <2>2. Gap(twap, price) = BpsGap(twap, price)
    BY <1>1, <1>2, <2>1, GapAgrees
  <2>3. QED
    BY <1>1, <2>2, BpsGapNat
<1>6. costs \in Nat
  BY <1>1, <1>3, UnitAssumption DEF ExecutionReserveBps
<1>7. net = NetEdge(ctx) /\ NetEdge(ctx) \in Int
  BY <1>3, <1>4, <1>5, <1>6
<1>8. gross < costs + least <=> NetEdge(ctx) < least
  BY <1>1, <1>3, <1>5, <1>6, <1>7
<1>9. QED
  BY <1>7, <1>8 DEF gross, costs, net, least

LEMMA EdgeValueAgrees ==
  ASSUME NEW ctx, ContextOK(ctx), EdgeIsDue(ctx), NEW p,
         p.maxSlippageBps = ctx.policy.universal.maxSlippageBps,
         "Arbitrage" \in ctx.policy.universal.enabledStrategies
  PROVE  /\ EdgeValue(ctx) = ArbitragePermittedValue(ctx, p, ctx.confirm)
         /\ EdgeValue(ctx) \in Nat
         /\ ArbitrageBalanceValue(ctx, ctx.confirm) \in Nat
         /\ EdgeValue(ctx) <= ArbitrageBalanceValue(ctx, ctx.confirm)
<1> DEFINE a == ctx.policy.arbitrage
           most == a.maxArbitrageValue
           least == a.minNetEdgeBps
           action == ctx.policy.universal.maxActionValue
           worth == ArbitrageBalanceValue(ctx, ctx.confirm)
           net == NetEdge(ctx)
           cap == Min({most, action, worth})
           scaled == MulDiv(cap, net, least * 4)
<1>1. /\ a \in ArbitragePolicy /\ ctx.policy.universal \in UniversalPolicy
      /\ ctx.balance["WCTC"] \in Nat /\ ctx.balance["STABLE"] \in Nat /\ ctx.market.twap \in Nat
  BY ContextTyped
<1>2. most \in Nat /\ least \in Nat /\ action \in Nat
  BY <1>1 DEF ArbitragePolicy, UniversalPolicy
<1>3. least # 0
  BY DEF ContextOK, Readable, ValidPolicy, ValidArbitrage
<1>4. worth \in Nat
  <2>1. MulDiv(ctx.balance["WCTC"], ctx.market.twap, WctcUnit) \in Nat
    BY <1>1, MulDivNat, UnitAssumption
  <2>2. QED
    BY <1>1, <2>1 DEF ArbitrageBalanceValue
<1>5. /\ ArbitrageNet(ctx, p, ctx.confirm) = net /\ net \in Int /\ ~(net < least)
  BY EdgeAgrees DEF EdgeIsDue
<1>6. worth = IF EdgeSells(ctx) THEN (ctx.balance["WCTC"] * ctx.market.twap) \div WctcUnit
              ELSE ctx.balance["STABLE"]
  BY DEF ArbitrageBalanceValue, ArbitrageSells, EdgeSells, MulDiv
<1>7. EdgeValue(ctx) = Min({cap, scaled})
  <2> HIDE DEF worth
  <2>1. QED
    BY <1>6 DEF EdgeValue, MulDiv
<1>8. ArbitragePermittedValue(ctx, p, ctx.confirm)
        = Lesser(MulDiv(Lesser(Lesser(most, action), worth), net, least * 4),
                 Lesser(Lesser(most, action), worth))
  BY <1>5 DEF ArbitragePermittedValue
<1> HIDE DEF a, most, least, action, worth, net
<1>9. cap = Lesser(Lesser(most, action), worth)
  BY <1>2, <1>4, LeastOfThree
<1>10. cap \in Nat /\ cap <= worth
  BY <1>2, <1>4, <1>9 DEF Lesser
<1> HIDE DEF cap
<1>11. scaled \in Nat
  <2>1. net \in Nat /\ least * 4 \in Nat \ {0}
    BY <1>2, <1>3, <1>5
  <2>2. QED
    BY <1>10, <2>1, MulDivNat
<1>12. ArbitragePermittedValue(ctx, p, ctx.confirm) = Lesser(scaled, cap)
  BY <1>8, <1>9
<1> HIDE DEF scaled
<1>13. EdgeValue(ctx) = Lesser(cap, scaled)
  BY <1>7, <1>10, <1>11, OfTwo
<1>14. Lesser(cap, scaled) = Lesser(scaled, cap) /\ Lesser(cap, scaled) \in Nat
       /\ Lesser(cap, scaled) <= worth
  BY <1>4, <1>10, <1>11 DEF Lesser
<1>15. QED
  BY <1>4, <1>12, <1>13, <1>14 DEF worth

LEMMA ArbitrageCandidates ==
  ASSUME NEW ctx, ContextOK(ctx), "Arbitrage" \in ctx.policy.universal.enabledStrategies, NEW p,
         p.maxSlippageBps = ctx.policy.universal.maxSlippageBps
  PROVE  /\ ~EdgeIsDue(ctx) => Arbitrage(ctx) = {}
         /\ EdgeIsDue(ctx) =>
              LET sells == ArbitrageSells(ctx, ctx.confirm)
                  input == MaximumInput(ArbitragePermittedValue(ctx, p, ctx.confirm), sells, ctx.market.twap)
              IN  /\ input \in Nat /\ (input # 0 => Arbitrage(ctx) # {})
                  /\ \A c \in Arbitrage(ctx) :
                       /\ CandidateOK(ctx, c) /\ c.strategy = "Arbitrage"
                       /\ c.direction = (IF sells THEN "SELL_WCTC" ELSE "BUY_WCTC")
                       /\ c.amountIn = input /\ ArbitrageBalanceValue(ctx, ctx.confirm) # 0
<1> DEFINE sells == ArbitrageSells(ctx, ctx.confirm)
           permitted == ArbitragePermittedValue(ctx, p, ctx.confirm)
           price == ctx.market.twap
           input == MaximumInput(permitted, sells, price)
           direction == IF sells THEN "SELL_WCTC" ELSE "BUY_WCTC"
           held == ctx.balance[IF sells THEN "WCTC" ELSE "STABLE"]
           worth == ArbitrageBalanceValue(ctx, ctx.confirm)
<1>1. ~EdgeIsDue(ctx) => Arbitrage(ctx) = {}
  BY DEF Arbitrage, EdgeIsDue
<1>2. ASSUME EdgeIsDue(ctx)
      PROVE  /\ input \in Nat /\ (input # 0 => Arbitrage(ctx) # {})
             /\ \A c \in Arbitrage(ctx) :
                  /\ CandidateOK(ctx, c) /\ c.strategy = "Arbitrage"
                  /\ c.direction = direction /\ c.amountIn = input /\ worth # 0
  <2> DEFINE value == EdgeValue(ctx)
  <2>1. value = permitted /\ value \in Nat /\ worth \in Nat /\ value <= worth
    BY <1>2, EdgeValueAgrees
  <2>2. ctx.balance["WCTC"] \in Nat /\ ctx.balance["STABLE"] \in Nat /\ price \in Nat
    BY ContextTyped
  <2>3. price # 0
    BY <1>2, MarketAgrees DEF EdgeIsDue
  <2>4. worth = IF sells THEN MulDiv(ctx.balance["WCTC"], price, WctcUnit) ELSE ctx.balance["STABLE"]
    BY DEF ArbitrageBalanceValue
  <2>5. Arbitrage(ctx) = Found("Arbitrage", ctx, direction,
                               IF sells THEN MulDiv(value, WctcUnit, price) ELSE value, value)
    BY <1>2 DEF Arbitrage, EdgeIsDue, EdgeSells, ArbitrageSells, MulDiv
  <2> HIDE DEF value, sells, permitted, price, worth
  <2>6. input = IF sells THEN MulDiv(value, WctcUnit, price) ELSE value
    BY <2>1 DEF MaximumInput
  <2>7. input \in Nat /\ input <= held
    <3>1. CASE sells
      <4>1. input = MulDiv(value, WctcUnit, price) /\ held = ctx.balance["WCTC"]
        BY <2>6, <3>1
      <4>2. value <= MulDiv(ctx.balance["WCTC"], price, WctcUnit)
        BY <2>1, <2>4, <3>1
      <4> HIDE DEF input, held
      <4>3. /\ MulDiv(value, WctcUnit, price) \in Nat
            /\ MulDiv(value, WctcUnit, price) <= ctx.balance["WCTC"]
        BY <2>1, <2>2, <2>3, <4>2, InputWithin
      <4>4. QED
        BY <4>1, <4>3
    <3>2. CASE ~sells
      <4>1. input = value /\ held = ctx.balance["STABLE"]
        BY <2>6, <3>2
      <4>2. QED
        BY <2>1, <2>4, <3>2, <4>1
    <3>3. QED
      BY <3>1, <3>2
  <2>8. direction \in Directions /\ "Arbitrage" \in Strategies
    BY DEF Directions, Strategies
  <2>9. direction = "SELL_WCTC" <=> sells
    OBVIOUS
  <2>10. input # 0 => worth # 0
    <3>1. ASSUME worth = 0 PROVE input = 0
      <4>1. value = 0
        BY <2>1, <3>1
      <4>2. MulDiv(0, WctcUnit, price) = 0
        BY <2>2, <2>3, UnitAssumption DEF MulDiv
      <4> HIDE DEF input
      <4>3. QED
        BY <2>6, <4>1, <4>2
    <3>2. QED
      BY <3>1
  <2> HIDE DEF input, direction, held
  <2>11. Arbitrage(ctx) = Found("Arbitrage", ctx, direction, input, value)
    BY <2>5, <2>6
  <2>12. /\ input # 0 => Arbitrage(ctx) # {}
         /\ \A c \in Arbitrage(ctx) :
              /\ input # 0 /\ c \in Candidates /\ c.strategy = "Arbitrage" /\ c.context = ctx
              /\ c.direction = direction /\ c.amountIn = input
              /\ c.slippage = ctx.policy.universal.maxSlippageBps
    BY <2>1, <2>7, <2>8, <2>11, FoundIs
  <2>13. \A c \in Arbitrage(ctx) : CandidateOK(ctx, c)
    BY <2>7, <2>9, <2>12 DEF CandidateOK, held
  <2>14. QED
    BY <2>7, <2>10, <2>12, <2>13
<1>3. QED
  BY <1>1, <1>2

LEMMA ArbitrageMirrored ==
  ASSUME NEW ctx, ContextOK(ctx), "Arbitrage" \in ctx.policy.universal.enabledStrategies,
         NEW p, p.strategy = "Arbitrage", p.context = ctx,
         p.maxSlippageBps = ctx.policy.universal.maxSlippageBps
  PROVE  /\ \A c \in Arbitrage(ctx) : CandidateOK(ctx, c) /\ (Like(p, c) => Agrees(c, p))
         /\ Verdict(ctx, p).reason = "None" => Arbitrage(ctx) # {}
<1> DEFINE sells == ArbitrageSells(ctx, ctx.confirm)
           permitted == ArbitragePermittedValue(ctx, p, ctx.confirm)
           input == MaximumInput(permitted, sells, ctx.market.twap)
           out == MinimumOut(p, ctx.market.twap)
           reason == ArbitrageReason(ctx, p, ctx.confirm)
           sized == Sized(ctx, p, permitted, sells, ctx.market.twap)
           worth == ArbitrageBalanceValue(ctx, ctx.confirm)
<1>1. /\ ~EdgeIsDue(ctx) => Arbitrage(ctx) = {}
      /\ EdgeIsDue(ctx) =>
           /\ input \in Nat /\ (input # 0 => Arbitrage(ctx) # {})
           /\ \A c \in Arbitrage(ctx) :
                /\ CandidateOK(ctx, c) /\ c.strategy = "Arbitrage"
                /\ c.direction = (IF sells THEN "SELL_WCTC" ELSE "BUY_WCTC")
                /\ c.amountIn = input /\ worth # 0
  BY ArbitrageCandidates
<1>2. EdgeIsDue(ctx) => Usable(ctx)
  BY DEF EdgeIsDue
<1>3. Usable(ctx) => /\ Verdict(ctx, p) = EvaluateArbitrage(ctx, p, ctx.confirm)
                     /\ reason = "None" <=> EdgeIsDue(ctx) /\ Follows(p, sells) /\ worth # 0
                     /\ ArbitrageNet(ctx, p, ctx.confirm) = NetEdge(ctx)
  <2>1. SUFFICES ASSUME Usable(ctx)
                 PROVE  /\ Verdict(ctx, p) = EvaluateArbitrage(ctx, p, ctx.confirm)
                        /\ reason = "None" <=> EdgeIsDue(ctx) /\ Follows(p, sells) /\ worth # 0
                        /\ ArbitrageNet(ctx, p, ctx.confirm) = NetEdge(ctx)
    OBVIOUS
  <2>2. Verdict(ctx, p) = EvaluateArbitrage(ctx, p, ctx.confirm)
    BY <2>1, VerdictByMarket
  <2>3. /\ ArbitrageNet(ctx, p, ctx.confirm) = NetEdge(ctx)
        /\ ArbitrageGross(ctx, ctx.confirm) < ArbitrageCosts(p) + ctx.policy.arbitrage.minNetEdgeBps
             <=> NetEdge(ctx) < ctx.policy.arbitrage.minNetEdgeBps
    BY <2>1, EdgeAgrees
  <2>4. reason = "None" <=>
          /\ ~(ctx.market.twap = ctx.confirm.price) /\ Follows(p, sells)
          /\ ~(ArbitrageGross(ctx, ctx.confirm) < ArbitrageCosts(p) + ctx.policy.arbitrage.minNetEdgeBps)
          /\ ~(worth = 0)
    BY ArbitrageReasonResult
  <2>5. EdgeIsDue(ctx) <=> /\ ~(ctx.market.twap = ctx.confirm.price)
                           /\ ~(NetEdge(ctx) < ctx.policy.arbitrage.minNetEdgeBps)
    BY <2>1 DEF EdgeIsDue
  <2> HIDE DEF reason, sells, worth
  <2>6. QED
    BY <2>2, <2>3, <2>4, <2>5
<1>4. EvaluateArbitrage(ctx, p, ctx.confirm)
        = IF reason # "None" THEN Refused(reason)
          ELSE IF sized.reason # "None" THEN Refused(sized.reason)
          ELSE IF ArbitrageNet(ctx, p, ctx.confirm) > MaxUint16 THEN Refused("ZeroExecutableAmount")
          ELSE sized
  BY DEF EvaluateArbitrage
<1>5. sized.reason = AmountReason(ctx, p, input, out)
  <2> HIDE DEF permitted, sells
  <2>1. QED
    BY SizedReason
<1>6. /\ Refused(reason).reason = reason /\ Refused(sized.reason).reason = sized.reason
      /\ Refused("ZeroExecutableAmount").reason = "ZeroExecutableAmount"
  BY DEF Refused
<1>7. AmountReason(ctx, p, input, out) = "None" => ~(input = 0)
  BY AmountReasonResult
<1>8. ~Usable(ctx) => Verdict(ctx, p).reason # "None"
  BY VerdictByMarket
<1> HIDE DEF sells, permitted, input, reason, sized, worth
<1>9. Verdict(ctx, p).reason = "None" => Arbitrage(ctx) # {}
  BY <1>1, <1>3, <1>4, <1>5, <1>6, <1>7, <1>8
<1>10. ASSUME NEW c \in Arbitrage(ctx)
       PROVE  CandidateOK(ctx, c) /\ (Like(p, c) => Agrees(c, p))
  <2>1. /\ EdgeIsDue(ctx) /\ Usable(ctx) /\ CandidateOK(ctx, c) /\ c.context = ctx
        /\ c.strategy = "Arbitrage" /\ worth # 0
        /\ c.direction = (IF sells THEN "SELL_WCTC" ELSE "BUY_WCTC") /\ c.amountIn = input
    BY <1>1, <1>2 DEF CandidateOK
  <2>2. ASSUME Like(p, c) PROVE Agrees(c, p)
    <3>1. Follows(p, sells)
      <4>1. c.direction = "SELL_WCTC" <=> sells
        BY <2>1
      <4>2. QED
        BY <2>2, <4>1 DEF Like, Follows
    <3>2. Verdict(ctx, p) = IF sized.reason # "None" THEN Refused(sized.reason)
                            ELSE IF NetEdge(ctx) > MaxUint16 THEN Refused("ZeroExecutableAmount")
                            ELSE sized
      BY <1>3, <1>4, <2>1, <3>1
    <3>3. Sizing(c, p) = sized.reason
      BY <1>5, <2>1 DEF Sizing
    <3>4. EdgeOverflows(c) <=> NetEdge(ctx) > MaxUint16
      BY <2>1 DEF EdgeOverflows
    <3>5. \/ Verdict(ctx, p).reason = sized.reason
          \/ /\ sized.reason = "None" /\ NetEdge(ctx) > MaxUint16
             /\ Verdict(ctx, p).reason = "ZeroExecutableAmount"
      BY <1>6, <3>2
    <3>6. QED
      BY <2>1, <3>3, <3>4, <3>5 DEF Agrees
  <2>3. QED
    BY <2>1, <2>2
<1>11. QED
  BY <1>9, <1>10

-----------------------------------------------------------------------------
(* The candidate that is selected                                          *)

LEMMA EvaluateIs ==
  ASSUME NEW ctx, ContextOK(ctx)
  PROVE  LET enabled == ctx.policy.universal.enabledStrategies
         IN  /\ enabled \subseteq Strategies
             /\ \A c : c \in Evaluate(ctx) <=>
                         \/ "RiskReduction" \in enabled /\ c \in RiskReduction(ctx)
                         \/ "Rebalance" \in enabled /\ c \in Rebalance(ctx)
                         \/ "Arbitrage" \in enabled /\ c \in Arbitrage(ctx)
<1> DEFINE enabled == ctx.policy.universal.enabledStrategies
           found == [s \in Strategies |->
                       CASE s = "RiskReduction" -> RiskReduction(ctx)
                         [] s = "Rebalance" -> Rebalance(ctx)
                         [] s = "Arbitrage" -> Arbitrage(ctx)]
<1>1. enabled \subseteq Strategies
  BY DEF ContextOK, Readable, ValidPolicy, ValidUniversal
<1>2. Evaluate(ctx) = UNION {found[s] : s \in enabled}
  BY DEF Evaluate
<1>3. /\ found["RiskReduction"] = RiskReduction(ctx) /\ found["Rebalance"] = Rebalance(ctx)
      /\ found["Arbitrage"] = Arbitrage(ctx)
  BY DEF Strategies
<1> HIDE DEF enabled, found
<1>4. \A s \in enabled : s = "RiskReduction" \/ s = "Rebalance" \/ s = "Arbitrage"
  BY <1>1 DEF Strategies
<1>5. ASSUME NEW c
      PROVE  c \in Evaluate(ctx) <=>
               \/ "RiskReduction" \in enabled /\ c \in RiskReduction(ctx)
               \/ "Rebalance" \in enabled /\ c \in Rebalance(ctx)
               \/ "Arbitrage" \in enabled /\ c \in Arbitrage(ctx)
  <2>1. c \in Evaluate(ctx) <=> \E s \in enabled : c \in found[s]
    BY <1>2
  <2>2. QED
    BY <1>3, <1>4, <2>1
<1>6. QED
  BY <1>1, <1>5 DEF enabled

(* What the agent finds, the treasury permits, whatever the strategy.      *)
LEMMA CandidateMirrored ==
  ASSUME NEW ctx, ContextOK(ctx), NEW c \in Evaluate(ctx)
  PROVE  CandidateOK(ctx, c) /\ \A p : Like(p, c) => Agrees(c, p)
<1> DEFINE enabled == ctx.policy.universal.enabledStrategies
<1>1. \/ "RiskReduction" \in enabled /\ c \in RiskReduction(ctx)
      \/ "Rebalance" \in enabled /\ c \in Rebalance(ctx)
      \/ "Arbitrage" \in enabled /\ c \in Arbitrage(ctx)
  BY EvaluateIs
<1>2. CASE "RiskReduction" \in enabled /\ c \in RiskReduction(ctx)
  <2>1. CandidateOK(ctx, c) /\ c.strategy = "RiskReduction"
    BY <1>2, RiskCandidates
  <2>2. ASSUME NEW p, Like(p, c)
        PROVE  Agrees(c, p)
    <3>1. p.strategy = "RiskReduction" /\ p.context = ctx
      BY <2>1, <2>2 DEF Like, CandidateOK
    <3>2. QED
      BY <1>2, <2>2, <3>1, RiskMirrored
  <2>3. QED
    BY <2>1, <2>2
<1>3. CASE "Rebalance" \in enabled /\ c \in Rebalance(ctx)
  <2>1. CandidateOK(ctx, c) /\ c.strategy = "Rebalance"
    BY <1>3, RebalanceCandidates
  <2>2. ASSUME NEW p, Like(p, c)
        PROVE  Agrees(c, p)
    <3>1. p.strategy = "Rebalance" /\ p.context = ctx
      BY <2>1, <2>2 DEF Like, CandidateOK
    <3>2. QED
      BY <1>3, <2>2, <3>1, RebalanceMirrored
  <2>3. QED
    BY <2>1, <2>2
<1>4. CASE "Arbitrage" \in enabled /\ c \in Arbitrage(ctx)
  <2>1. CandidateOK(ctx, c) /\ c.strategy = "Arbitrage"
    BY <1>4, ArbitrageCandidates
  <2>2. ASSUME NEW p, Like(p, c)
        PROVE  Agrees(c, p)
    <3>1. /\ p.strategy = "Arbitrage" /\ p.context = ctx
          /\ p.maxSlippageBps = ctx.policy.universal.maxSlippageBps
      BY <2>1, <2>2 DEF Like, CandidateOK
    <3>2. QED
      BY <1>4, <2>2, <3>1, ArbitrageMirrored
  <2>3. QED
    BY <2>1, <2>2
<1>5. QED
  BY <1>1, <1>2, <1>3, <1>4

(* When the treasury would let a proposal of an enabled strategy pass,     *)
(* there is a candidate.                                                   *)
LEMMA NothingMissed ==
  ASSUME NEW ctx, ContextOK(ctx), NEW p, p.context = ctx,
         p.strategy \in ctx.policy.universal.enabledStrategies,
         p.maxSlippageBps = ctx.policy.universal.maxSlippageBps,
         Verdict(ctx, p).reason = "None"
  PROVE  Evaluate(ctx) # {}
<1>1. p.strategy \in {"RiskReduction", "Rebalance", "Arbitrage"}
  BY EvaluateIs DEF Strategies
<1>2. /\ p.strategy = "RiskReduction" => RiskReduction(ctx) # {}
      /\ p.strategy = "Rebalance" => Rebalance(ctx) # {}
      /\ p.strategy = "Arbitrage" => Arbitrage(ctx) # {}
  BY RiskMirrored, RebalanceMirrored, ArbitrageMirrored
<1>3. QED
  BY <1>1, <1>2, EvaluateIs

(* One candidate is selected if there is one.                              *)
LEMMA SelectIs ==
  ASSUME NEW S, \A c \in S : c.strategy \in Strategies
  PROVE  /\ S = {} => Select(S) = NoValue
         /\ S # {} => Select(S) \in S
<1> DEFINE ranks == {i \in DOMAIN Priority : \E c \in S : c.strategy = Priority[i]}
<1>1. /\ DOMAIN Priority = {1, 2, 3} /\ Priority[1] = "RiskReduction"
      /\ Priority[2] = "Rebalance" /\ Priority[3] = "Arbitrage"
  BY DEF Priority
<1>2. Select(S) = IF ranks = {} THEN NoValue
                  ELSE CHOOSE c \in S : c.strategy = Priority[Min(ranks)]
  BY DEF Select
<1>3. S = {} => ranks = {}
  OBVIOUS
<1>4. ASSUME S # {} PROVE ranks # {}
  <2>1. PICK c \in S : TRUE
    BY <1>4
  <2>2. c.strategy = Priority[1] \/ c.strategy = Priority[2] \/ c.strategy = Priority[3]
    BY <1>1 DEF Strategies
  <2>3. QED
    BY <1>1, <2>2
<1>5. ASSUME ranks # {} PROVE Min(ranks) \in ranks
  <2>1. ranks \subseteq {1, 2, 3}
    BY <1>1
  <2> HIDE DEF ranks
  <2>2. \E x \in ranks : \A y \in ranks : x <= y
    <3>1. CASE 1 \in ranks
      BY <2>1, <3>1
    <3>2. CASE 1 \notin ranks /\ 2 \in ranks
      BY <2>1, <3>2
    <3>3. CASE 1 \notin ranks /\ 2 \notin ranks
      <4>1. \A x \in ranks : x = 3
        BY <2>1, <3>3
      <4>2. PICK x \in ranks : x = 3
        BY <1>5, <4>1
      <4>3. QED
        BY <4>1, <4>2
    <3>4. QED
      BY <3>1, <3>2, <3>3
  <2>3. QED
    BY <2>2 DEF Min
<1>6. ASSUME ranks # {} PROVE Select(S) \in S
  <2>1. PICK c \in S : c.strategy = Priority[Min(ranks)]
    BY <1>5, <1>6
  <2> HIDE DEF ranks
  <2>2. Select(S) = CHOOSE x \in S : x.strategy = Priority[Min(ranks)]
    BY <1>2, <1>6
  <2>3. QED
    BY <2>1, <2>2
<1>7. QED
  BY <1>2, <1>3, <1>4, <1>6

LEMMA SelectedIs ==
  ASSUME NEW ctx, ContextOK(ctx)
  PROVE  /\ Evaluate(ctx) = {} <=> Select(Evaluate(ctx)) = NoValue
         /\ Select(Evaluate(ctx)) # NoValue =>
              /\ Select(Evaluate(ctx)) \in Evaluate(ctx) /\ Select(Evaluate(ctx)) \in Candidates
<1>1. \A c \in Evaluate(ctx) : CandidateOK(ctx, c)
  BY CandidateMirrored
<1>2. \A c \in Evaluate(ctx) : c \in Candidates /\ c.strategy \in Strategies
  BY <1>1, EvaluateIs DEF CandidateOK
<1>3. NoValue \notin Candidates
  <2>1. DOMAIN NoValue = {"none"}
    BY DEF NoValue
  <2>2. \A c \in Candidates : "strategy" \in DOMAIN c
    BY DEF Candidates
  <2>3. QED
    BY <2>1, <2>2
<1>4. /\ Evaluate(ctx) = {} => Select(Evaluate(ctx)) = NoValue
      /\ Evaluate(ctx) # {} => Select(Evaluate(ctx)) \in Evaluate(ctx)
  BY <1>2, SelectIs
<1>5. QED
  BY <1>2, <1>3, <1>4

-----------------------------------------------------------------------------
(* The proposal                                                            *)

LEMMA BuiltIs ==
  ASSUME NEW ctx, ContextOK(ctx), NEW c \in Candidates, CandidateOK(ctx, c)
  PROVE  LET p == BuildProposal(c)
         IN  /\ Like(p, c) /\ p.context = ctx /\ p.strategy = c.strategy
             /\ p.amountIn = c.amountIn
             /\ p.assetIn = (IF c.direction = "SELL_WCTC" THEN "WCTC" ELSE "STABLE")
             /\ Unbuildable(c) => c.amountIn > MaxUint128
<1> DEFINE p == BuildProposal(c)
           n == ctx.policy.universal.maxSlippageBps
<1>1. /\ c.context = ctx /\ c.slippage = n /\ c.amountIn # 0
      /\ c.direction \in Directions
  BY DEF CandidateOK, Candidates
<1>2. n \in Nat /\ n <= MaxAllowedSlippageBps
  BY ContextTyped DEF UniversalPolicy, ContextOK, Readable, ValidPolicy, ValidUniversal
<1> HIDE DEF n
<1>3. EnvelopeSlippage(c) = n
  BY <1>1 DEF EnvelopeSlippage, n
<1>4. /\ p.strategy = c.strategy /\ p.context = ctx /\ p.amountIn = c.amountIn
      /\ p.maxSlippageBps = n
      /\ p.assetIn = (IF c.direction = "SELL_WCTC" THEN "WCTC" ELSE "STABLE")
      /\ p.assetOut = (IF c.direction = "SELL_WCTC" THEN "STABLE" ELSE "WCTC")
  BY <1>1, <1>3 DEF BuildProposal
<1>5. Unbuildable(c) => c.amountIn > MaxUint128
  <2>1. ~(n > BPS)
    BY <1>2 DEF MaxAllowedSlippageBps, BPS
  <2>2. ~(n > n)
    BY <1>2
  <2>3. c.context.policy.universal.maxSlippageBps = n
    BY <1>1 DEF n
  <2>4. QED
    BY <1>1, <1>3, <2>1, <2>2, <2>3 DEF Unbuildable
<1> HIDE DEF p
<1>6. Like(p, c)
  <2>1. Follows(p, c.direction = "SELL_WCTC")
    BY <1>4 DEF Follows, Sells, Buys
  <2>2. QED
    BY <1>1, <1>4, <2>1 DEF Like
<1>7. QED
  BY <1>4, <1>5, <1>6 DEF p

(* What the treasury says to the proposal of a candidate, on the view that *)
(* the agent read, and to one unit more.                                   *)
LEMMA ProposalFits ==
  ASSUME NEW ctx, ContextOK(ctx), NEW c \in Evaluate(ctx)
  PROVE  LET p == BuildProposal(c)
             reason == Verdict(ctx, p).reason
             out == MinimumOut(p, ctx.market.twap)
         IN  /\ reason \in {"None", "ExecutionRateLimit", "ZeroExecutableAmount"}
             /\ reason = "ZeroExecutableAmount" =>
                  \/ out \notin 1..MaxUint128
                  \/ p.strategy = "Arbitrage" /\ NetEdge(ctx) > MaxUint16
<1> DEFINE p == BuildProposal(c)
           reason == Verdict(ctx, p).reason
           out == MinimumOut(p, ctx.market.twap)
<1>1. CandidateOK(ctx, c) /\ c \in Candidates /\ c.context = ctx
  BY CandidateMirrored DEF CandidateOK
<1>2. /\ Like(p, c) /\ p.context = ctx /\ p.strategy = c.strategy /\ p.amountIn = c.amountIn
      /\ p.assetIn = (IF c.direction = "SELL_WCTC" THEN "WCTC" ELSE "STABLE")
  BY <1>1, BuiltIs
<1> HIDE DEF p
<1>3. Agrees(c, p)
  BY <1>2, CandidateMirrored
<1>4. c.amountIn \in Nat \ {0} /\ c.amountIn <= ctx.balance[p.assetIn]
  BY <1>1, <1>2 DEF CandidateOK, Candidates
<1>5. ctx.balance[p.assetIn] \in Nat
  BY <1>2, ContextTyped
<1>6. out \in Nat
  <2>1. Usable(ctx)
    BY <1>1, EvaluateIs, RiskCandidates, RebalanceCandidates, ArbitrageCandidates
       DEF RiskIsDue, RebalanceIsDue, EdgeIsDue
  <2>2. ctx.market.twap \in Nat \ {0}
    BY <2>1, ContextTyped, MarketAgrees
  <2>3. p.maxSlippageBps \in Nat /\ p.maxSlippageBps <= MaxAllowedSlippageBps
    BY <1>1, <1>2, ContextTyped
       DEF Like, CandidateOK, UniversalPolicy, ContextOK, Readable, ValidPolicy, ValidUniversal
  <2>4. p.maxSlippageBps <= 1000
    BY <2>3 DEF MaxAllowedSlippageBps
  <2>5. QED
    BY <1>2, <1>4, <2>2, <2>3, <2>4, MinimumOutNat
<1> HIDE DEF out
<1>7. Sizing(c, p) = AmountReason(ctx, p, c.amountIn, out)
  BY <1>1 DEF Sizing, out
<1>8. /\ Sizing(c, p) \in {"None", "ExecutionRateLimit", "ZeroExecutableAmount"}
      /\ Sizing(c, p) = "ZeroExecutableAmount" => out \notin 1..MaxUint128
  <2> DEFINE m == c.amountIn
  <2>1. m \in Nat \ {0} /\ p.amountIn = m /\ m <= m /\ p.amountIn <= ctx.balance[p.assetIn]
    BY <1>2, <1>4
  <2>2. Sizing(c, p) = AmountReason(ctx, p, m, out)
    BY <1>7
  <2> HIDE DEF m
  <2>3. QED
    BY <1>5, <1>6, <2>1, <2>2, AmountFits
<1>9. EdgeOverflows(c) => p.strategy = "Arbitrage" /\ NetEdge(ctx) > MaxUint16
  BY <1>1, <1>2 DEF EdgeOverflows
<1>10. \/ reason = Sizing(c, p)
       \/ Sizing(c, p) = "None" /\ EdgeOverflows(c) /\ reason = "ZeroExecutableAmount"
  BY <1>1, <1>3 DEF Agrees
<1> HIDE DEF reason
<1>11. QED
  BY <1>8, <1>9, <1>10 DEF p, reason, out

LEMMA NothingLeft ==
  ASSUME NEW ctx, ContextOK(ctx), NEW c \in Evaluate(ctx)
  PROVE  Verdict(ctx, [BuildProposal(c) EXCEPT !.amountIn = @ + 1]).reason = "AmountExceedsPolicy"
<1> DEFINE p == BuildProposal(c)
           q == [p EXCEPT !.amountIn = @ + 1]
<1>1. CandidateOK(ctx, c) /\ c \in Candidates /\ c.context = ctx /\ c.amountIn \in Nat \ {0}
  BY CandidateMirrored DEF CandidateOK, Candidates
<1>2. Like(p, c) /\ p.amountIn = c.amountIn
  BY <1>1, BuiltIs
<1>3. /\ q.strategy = p.strategy /\ q.context = p.context /\ q.maxSlippageBps = p.maxSlippageBps
      /\ q.assetIn = p.assetIn /\ q.assetOut = p.assetOut /\ q.amountIn = p.amountIn + 1
  BY DEF BuildProposal
<1> HIDE DEF p, q
<1>4. Like(q, c)
  BY <1>2, <1>3 DEF Like, Follows, Sells, Buys
<1>5. Agrees(c, q)
  BY <1>4, CandidateMirrored
<1>6. Sizing(c, q) = "AmountExceedsPolicy"
  <2> DEFINE m == c.amountIn
             out == MinimumOut(q, c.context.market.twap)
             v == c.context
  <2>1. m \in Nat \ {0} /\ q.amountIn \in Nat /\ q.amountIn > m
    BY <1>1, <1>2, <1>3
  <2> HIDE DEF m, out, v
  <2>2. AmountReason(v, q, m, out) = "AmountExceedsPolicy"
    BY <2>1, AmountBeyond
  <2>3. QED
    BY <2>2 DEF Sizing, m, out, v
<1>7. Verdict(c.context, q).reason = "AmountExceedsPolicy"
  BY <1>5, <1>6 DEF Agrees
<1>8. QED
  BY <1>1, <1>7 DEF p, q

-----------------------------------------------------------------------------
(* The invariant of the agent                                              *)

Cycle == [selected : Candidates \union {NoValue}, claimed : BOOLEAN, invalidated : BOOLEAN]

(* What was selected is what the context shows, the proposal is built of   *)
(* it, and after an answer only that answer or a huge amount ends a run.   *)
StrategiesInv ==
  /\ view \in StrategyView /\ Readable(view.policy) /\ trades \in Nat /\ cycle \in Cycle
  /\ context = NoValue => cycle.selected = NoValue
  /\ context # NoValue => ContextOK(context) /\ cycle.selected = Select(Evaluate(context))
  /\ pc \in {"asked", "decided", "proposed"} => cycle.selected # NoValue
  /\ pc = "proposed" => proposal = BuildProposal(cycle.selected)
  /\ pc = "threw" /\ answer # NoValue =>
       \/ ~Acceptable(answer) \/ ~SameStrategy(answer)
       \/ cycle.selected.amountIn > MaxUint128

LEMMA StrategiesStart == StrategiesInit => StrategiesInv
<1> SUFFICES ASSUME StrategiesInit
             PROVE  StrategiesInv
  OBVIOUS
<1>1. /\ view \in Views /\ ValidPolicy(view.policy) /\ pc = "ready" /\ context = NoValue
      /\ cycle = [selected |-> NoValue, claimed |-> FALSE, invalidated |-> FALSE] /\ trades = 0
  BY DEF StrategiesInit, NewCycle
<1>2. view \in StrategyView /\ Readable(view.policy)
  BY <1>1, StrategiesAssumption DEF Readable
<1>3. cycle \in Cycle /\ cycle.selected = NoValue
  BY <1>1 DEF Cycle
<1>4. QED
  BY <1>1, <1>2, <1>3 DEF StrategiesInv

(* The treasury's policy is the one it was deployed with.                  *)
LEMMA ViewMoves ==
  ASSUME view \in StrategyView, Readable(view.policy),
         view' \in {[v EXCEPT !.policy = view.policy] : v \in LaterViews}
  PROVE  view' \in StrategyView /\ Readable(view'.policy)
<1>1. PICK v \in StrategyView : view' = [v EXCEPT !.policy = view.policy]
  BY StrategiesAssumption
<1>2. view.policy \in Policy
  BY DEF StrategyView
<1>3. view' \in StrategyView /\ view'.policy = view.policy
  BY <1>1, <1>2 DEF StrategyView
<1>4. QED
  BY <1>3

LEMMA SnapshotOK ==
  ASSUME view \in StrategyView, Readable(view.policy), trades \in Nat, view.market.ok,
         NEW e \in Evidence
  PROVE  ContextOK(Snapshot(e)) /\ Snapshot(e) # NoValue
<1>1. e.source \in Observed /\ e.confirm \in Observed
  BY StrategiesAssumption
<1>2. Snapshot(e) \in Contexts
  BY <1>1 DEF Snapshot, Contexts, StrategyView
<1>3. Snapshot(e).market = view.market /\ Snapshot(e).policy = view.policy
  BY DEF Snapshot
<1>4. DOMAIN NoValue = {"none"} /\ "policy" \in DOMAIN Snapshot(e)
  BY DEF NoValue, Snapshot
<1>5. QED
  BY <1>2, <1>3, <1>4 DEF ContextOK

LEMMA StrategiesStep ==
  StrategiesInv /\ [StrategiesNext]_strategyVars => StrategiesInv'
<1> SUFFICES ASSUME StrategiesInv, [StrategiesNext]_strategyVars
             PROVE  StrategiesInv'
  OBVIOUS
<1>0. cycle \in Cycle /\ cycle.selected \in Candidates \union {NoValue}
  BY DEF StrategiesInv, Cycle
<1>1. CASE Move
  <2>1. view' \in StrategyView /\ Readable(view'.policy)
    BY <1>1, ViewMoves DEF Move, StrategiesInv
  <2>2. UNCHANGED <<pc, context, cycle, answer, proposal, trades>>
    BY <1>1 DEF Move
  <2>3. QED
    BY <2>1, <2>2 DEF StrategiesInv, Acceptable, SameStrategy
<1>2. CASE ReadContext
  <2>1. /\ pc' \in {"ready", "threw"} /\ answer' = NoValue /\ proposal' = NoValue
        /\ UNCHANGED <<view, trades>>
    BY <1>2 DEF ReadContext
  <2>2. CASE view.market.ok
    <3>1. PICK e \in Evidence : /\ context' = Snapshot(e)
                                /\ cycle' = NewCycle(Select(Evaluate(Snapshot(e))))
                                /\ pc' = pc
      BY <1>2, <2>2 DEF ReadContext
    <3>2. ContextOK(Snapshot(e)) /\ Snapshot(e) # NoValue
      BY <2>2, SnapshotOK DEF StrategiesInv
    <3>3. Select(Evaluate(Snapshot(e))) \in Candidates \union {NoValue}
      BY <3>2, SelectedIs
    <3>4. cycle' \in Cycle /\ cycle'.selected = Select(Evaluate(Snapshot(e)))
      BY <3>1, <3>3 DEF NewCycle, Cycle
    <3>5. pc' = "ready"
      BY <1>2, <3>1 DEF ReadContext
    <3>6. QED
      BY <2>1, <3>1, <3>2, <3>4, <3>5 DEF StrategiesInv
  <2>3. CASE ~view.market.ok
    <3>1. pc' = "threw" /\ UNCHANGED <<context, cycle>>
      BY <1>2, <2>3 DEF ReadContext
    <3>2. QED
      BY <2>1, <3>1 DEF StrategiesInv
  <2>4. QED
    BY <2>2, <2>3
<1>3. CASE Ask
  <2>1. /\ cycle' = [cycle EXCEPT !.claimed = TRUE] /\ pc' = "asked"
        /\ cycle.selected # NoValue
        /\ UNCHANGED <<view, context, answer, proposal, trades>>
    BY <1>3 DEF Ask
  <2>2. cycle' \in Cycle /\ cycle'.selected = cycle.selected
    BY <1>0, <2>1 DEF Cycle
  <2>3. QED
    BY <2>1, <2>2 DEF StrategiesInv
<1>4. ASSUME NEW a \in Answers, Decide(a)
      PROVE  StrategiesInv'
  <2>1. /\ pc = "asked" /\ answer' = a
        /\ UNCHANGED <<view, context, cycle, proposal, trades>>
    BY <1>4 DEF Decide
  <2>2. /\ pc' \in {"threw", "decided", "ready"}
        /\ pc' = "threw" => ~Acceptable(a) \/ ~SameStrategy(a)
    BY <1>4 DEF Decide
  <2>3. pc' = "threw" => ~Acceptable(answer') \/ ~SameStrategy(answer')
    BY <2>1, <2>2
  <2>4. pc' = "threw" => ~Acceptable(answer)' \/ ~SameStrategy(answer)'
    BY <2>1, <2>3 DEF Acceptable, SameStrategy
  <2>5. QED
    BY <2>1, <2>2, <2>4 DEF StrategiesInv
<1>5. CASE Build
  <2>1. pc = "decided" /\ UNCHANGED <<view, context, cycle, answer, trades>>
    BY <1>5 DEF Build
  <2>2. /\ Unbuildable(cycle.selected) => pc' = "threw"
        /\ ~Unbuildable(cycle.selected) => pc' = "proposed" /\ proposal' = BuildProposal(cycle.selected)
    BY <1>5 DEF Build
  <2>3. cycle.selected # NoValue
    BY <2>1 DEF StrategiesInv
  <2>4. ContextOK(context) /\ cycle.selected = Select(Evaluate(context))
    BY <2>3 DEF StrategiesInv
  <2>5. CandidateOK(context, cycle.selected) /\ cycle.selected \in Candidates
    BY <2>3, <2>4, SelectedIs, CandidateMirrored
  <2>6. Unbuildable(cycle.selected) => cycle.selected.amountIn > MaxUint128
    BY <2>4, <2>5, BuiltIs
  <2>7. CASE Unbuildable(cycle.selected)
    <3>1. pc' = "threw" /\ cycle'.selected.amountIn > MaxUint128
      BY <2>1, <2>2, <2>6, <2>7
    <3>2. QED
      BY <2>1, <3>1 DEF StrategiesInv
  <2>8. CASE ~Unbuildable(cycle.selected)
    <3>1. pc' = "proposed" /\ proposal' = BuildProposal(cycle'.selected)
      BY <2>1, <2>2, <2>8
    <3>2. QED
      BY <2>1, <2>3, <3>1 DEF StrategiesInv
  <2>9. QED
    BY <2>7, <2>8
<1>6. CASE Submit
  <2>1. pc' = "ready" /\ UNCHANGED <<context, answer, proposal>>
    BY <1>6 DEF Submit
  <2>2. CASE Verdict(view, proposal).reason = "None"
    <3>1. /\ trades' = trades + 1 /\ cycle' = [cycle EXCEPT !.invalidated = TRUE]
          /\ view' \in {[v EXCEPT !.policy = view.policy] : v \in LaterViews}
      BY <1>6, <2>2 DEF Submit, Invalidated
    <3>2. view' \in StrategyView /\ Readable(view'.policy) /\ trades' \in Nat
      BY <3>1, ViewMoves DEF StrategiesInv
    <3>3. cycle' \in Cycle /\ cycle'.selected = cycle.selected
      BY <1>0, <3>1 DEF Cycle
    <3>4. QED
      BY <2>1, <3>2, <3>3 DEF StrategiesInv
  <2>3. CASE Verdict(view, proposal).reason # "None"
    <3>1. UNCHANGED <<trades, cycle, view>>
      BY <1>6, <2>3 DEF Submit
    <3>2. QED
      BY <2>1, <3>1 DEF StrategiesInv
  <2>4. QED
    BY <2>2, <2>3
<1>7. CASE UNCHANGED strategyVars
  BY <1>7 DEF strategyVars, StrategiesInv, Acceptable, SameStrategy
<1>8. QED
  BY <1>1, <1>2, <1>3, <1>4, <1>5, <1>6, <1>7 DEF StrategiesNext

(* The strategies are a "deterministic mirror" of the treasury's           *)
(* evaluators (agent/src/strategies): on the view that the agent read, the *)
(* treasury refuses what the agent proposes only for its executions of the *)
(* epoch, an output that rounds to nothing or fits no uint128, or an edge  *)
(* beyond uint16, and the agent's builder refuses no candidate that fits   *)
(* uint128.                                                                *)
THEOREM MirrorIsFaithful == StrategiesSpec => []MirrorAgrees
<1>1. StrategiesInv => MirrorAgrees
  <2> SUFFICES ASSUME StrategiesInv
               PROVE  MirrorAgrees
    OBVIOUS
  <2>1. ASSUME pc = "proposed"
        PROVE  LET reason == Verdict(context, proposal).reason
               IN  \/ reason \in {"None", "ExecutionRateLimit"}
                   \/ /\ reason = "ZeroExecutableAmount"
                      /\ \/ MinimumOut(proposal, context.market.twap) \notin 1..MaxUint128
                         \/ proposal.strategy = "Arbitrage" /\ NetEdge(context) > MaxUint16
    <3>1. cycle.selected # NoValue /\ proposal = BuildProposal(cycle.selected)
      BY <2>1 DEF StrategiesInv
    <3>2. ContextOK(context) /\ cycle.selected = Select(Evaluate(context))
      BY <3>1 DEF StrategiesInv
    <3>3. cycle.selected \in Evaluate(context)
      BY <3>1, <3>2, SelectedIs
    <3>4. QED
      BY <3>1, <3>2, <3>3, ProposalFits
  <2>2. pc = "threw" /\ answer # NoValue =>
          \/ ~Acceptable(answer) \/ ~SameStrategy(answer)
          \/ cycle.selected.amountIn > MaxUint128
    BY DEF StrategiesInv
  <2>3. QED
    BY <2>1, <2>2 DEF MirrorAgrees
<1>2. QED
  BY <1>1, StrategiesStart, StrategiesStep, PTL DEF StrategiesSpec

(* The agent waits only when the treasury would let no enabled strategy    *)
(* trade, whatever the amount that is tried, and asks for everything it is *)
(* permitted: the treasury refuses a proposal of one unit more.            *)
THEOREM NothingOverlooked == StrategiesSpec => []WaitsOnlyIfRefused
<1>1. StrategiesInv => WaitsOnlyIfRefused
  <2> SUFFICES ASSUME StrategiesInv
               PROVE  WaitsOnlyIfRefused
    OBVIOUS
  <2>1. ASSUME context # NoValue, cycle.selected = NoValue,
               NEW s \in context.policy.universal.enabledStrategies, Permitted(s)
        PROVE  FALSE
    <3>1. ContextOK(context) /\ Select(Evaluate(context)) = NoValue
      BY <2>1 DEF StrategiesInv
    <3>2. Evaluate(context) = {}
      BY <3>1, SelectedIs
    <3>3. PICK sells \in BOOLEAN, amount \in SmallTrades :
            Verdict(context, Probe(s, sells, amount)).reason = "None"
      BY <2>1 DEF Permitted
    <3> DEFINE p == Probe(s, sells, amount)
    <3>4. /\ p.context = context /\ p.strategy = s
          /\ p.maxSlippageBps = context.policy.universal.maxSlippageBps
      BY DEF Probe
    <3> HIDE DEF p
    <3>5. Verdict(context, p).reason = "None"
      BY <3>3 DEF p
    <3>6. QED
      BY <2>1, <3>1, <3>2, <3>4, <3>5, NothingMissed
  <2>2. ASSUME pc = "proposed"
        PROVE  Verdict(context, [proposal EXCEPT !.amountIn = @ + 1]).reason = "AmountExceedsPolicy"
    <3>1. cycle.selected # NoValue /\ proposal = BuildProposal(cycle.selected)
      BY <2>2 DEF StrategiesInv
    <3>2. ContextOK(context) /\ cycle.selected = Select(Evaluate(context))
      BY <3>1 DEF StrategiesInv
    <3>3. cycle.selected \in Evaluate(context)
      BY <3>1, <3>2, SelectedIs
    <3>4. QED
      BY <3>1, <3>2, <3>3, NothingLeft
  <2>3. QED
    BY <2>1, <2>2 DEF WaitsOnlyIfRefused
<1>2. QED
  BY <1>1, StrategiesStart, StrategiesStep, PTL DEF StrategiesSpec

(* Everything an agent holds has its type, and a proposal that it builds   *)
(* is one the contract can take: an amount that fits uint128 and a         *)
(* slippage that every policy may allow.                                   *)
THEOREM AgentTyped == StrategiesSpec => []StrategiesTypeOK
<1>1. StrategiesInit => StrategiesTypeOK
  <2> SUFFICES ASSUME StrategiesInit
               PROVE  StrategiesTypeOK
    OBVIOUS
  <2>1. StrategiesInv
    BY StrategiesStart
  <2>2. view \in StrategyView /\ cycle.selected \in Candidates \union {NoValue}
    BY <2>1 DEF StrategiesInv, Cycle
  <2>3. QED
    BY <2>2 DEF StrategiesInit, StrategiesTypeOK
<1>2. StrategiesInv /\ StrategiesTypeOK /\ [StrategiesNext]_strategyVars => StrategiesTypeOK'
  <2> SUFFICES ASSUME StrategiesInv, StrategiesTypeOK, [StrategiesNext]_strategyVars
               PROVE  StrategiesTypeOK'
    OBVIOUS
  <2>1. StrategiesInv'
    BY StrategiesStep
  <2>2. view' \in StrategyView /\ cycle'.selected \in Candidates \union {NoValue}
    BY <2>1 DEF StrategiesInv, Cycle
  <2>3. context' \in Contexts \union {NoValue}
    BY <2>1 DEF StrategiesInv, ContextOK
  <2>4. pc' \in {"ready", "asked", "decided", "proposed", "threw"} /\ answer' \in Answers \union {NoValue}
    BY DEF StrategiesTypeOK, StrategiesNext, strategyVars, Move, ReadContext, Ask, Decide, Build,
           Submit
  <2>5. proposal' \in BuiltProposals \union {NoValue}
    <3>1. CASE Build /\ ~Unbuildable(cycle.selected)
      <4> DEFINE c == cycle.selected
      <4>1. pc = "decided" /\ proposal' = BuildProposal(c)
        BY <3>1 DEF Build
      <4>2. c \in Candidates /\ CandidateOK(context, c) /\ ContextOK(context)
        BY <4>1, SelectedIs, CandidateMirrored DEF StrategiesInv, Cycle
      <4>3. ~Unbuildable(c)
        BY <3>1
      <4> HIDE DEF c
      <4>4. c.amountIn \in 1..MaxUint128
        BY <4>2, <4>3, UnitAssumption DEF Unbuildable, Candidates
      <4>5. EnvelopeSlippage(c) \in 0..MaxAllowedSlippageBps
        <5> DEFINE n == context.policy.universal.maxSlippageBps
        <5>1. n \in Nat /\ n <= MaxAllowedSlippageBps
          BY <4>2, ContextTyped DEF UniversalPolicy, ContextOK, Readable, ValidPolicy, ValidUniversal
        <5>2. EnvelopeSlippage(c) = n
          BY <4>2 DEF CandidateOK, EnvelopeSlippage
        <5> HIDE DEF n
        <5>3. QED
          BY <5>1, <5>2 DEF MaxAllowedSlippageBps
      <4>6. c.strategy \in Strategies /\ c.context \in Contexts
        BY <4>2 DEF Candidates
      <4>7. BuildProposal(c) \in BuiltProposals
        BY <4>4, <4>5, <4>6 DEF BuildProposal, BuiltProposals, Assets
      <4>8. QED
        BY <4>1, <4>7
    <3>2. CASE ~(Build /\ ~Unbuildable(cycle.selected))
      BY <3>2 DEF StrategiesTypeOK, StrategiesNext, strategyVars, Move, ReadContext, Ask, Decide,
                  Build, Submit
    <3>3. QED
      BY <3>1, <3>2
  <2>6. QED
    BY <2>2, <2>3, <2>4, <2>5 DEF StrategiesTypeOK
<1>3. QED
  BY <1>1, <1>2, StrategiesStart, StrategiesStep, PTL DEF StrategiesSpec
============================================================================
