----------------------------- MODULE MCStrategies -----------------------------
(***************************************************************************)
(* Values for AgentStrategies: policies around one another's thresholds,   *)
(* portfolios from all stable to all WCTC, markets on either side of the   *)
(* confirmation price, and answers that differ from a good one in a field. *)
(***************************************************************************)
EXTENDS AgentStrategies

Base ==
  [universal |->
     [enabledStrategies |-> Strategies, maxActionValue |-> 120, maxSlippageBps |-> 100,
      maxSourceDriftBps |-> 500, maxSpotTwapDeviationBps |-> 300, minSourceLiquidity |-> 10,
      minDestinationLiquidity |-> 10, maxExecutionsPerEpoch |-> 2, epochLength |-> 60,
      maxAttemptsPerEpoch |-> 3],
   arbitrage |-> [minNetEdgeBps |-> 50, maxArbitrageValue |-> 90],
   rebalance |-> [targetWctcBps |-> 5000, toleranceBps |-> 500, maxRebalanceValue |-> 150],
   risk |-> [maxWctcExposureBps |-> 6000, maxRiskReductionValue |-> 100,
             dailyRiskReductionValue |-> 150]]

MCPolicies ==
  {Base,
   [Base EXCEPT !.universal.enabledStrategies = {"Arbitrage", "RiskReduction"},
                !.universal.maxActionValue = 80],
   [Base EXCEPT !.universal.enabledStrategies = {"Arbitrage", "Rebalance"},
                !.rebalance.targetWctcBps = 2000, !.universal.maxSlippageBps = 20]}

Balances(wctc, stable) == [a \in Assets |-> IF a = "WCTC" THEN wctc ELSE stable]
MCBalances ==
  {Balances(0, 0), Balances(0, 300), Balances(11, 1), Balances(1100, 90), Balances(2000, 200),
   Balances(2200, 180), Balances(6000, 200), Balances(6000, 0)}

Market(twap, spot) == [ok |-> TRUE, twap |-> twap, spot |-> spot, liquidity |-> 50]
MCMarkets ==
  {Market(100, 100), Market(102, 102), Market(110, 108), Market(90, 91), Market(110, 100), Market(900, 900),
   Market(0, 0), [Market(104, 104) EXCEPT !.liquidity = 5],
   [Market(104, 104) EXCEPT !.ok = FALSE]}

MCViews ==
  [policy : MCPolicies, balance : MCBalances, market : MCMarkets, usedToday : {0, 100, 150},
   executions : {0, 2}]

MCLaterViews ==
  {v \in MCViews : /\ v.policy = Base /\ v.usedToday = 100 /\ v.executions = 0
                   /\ v.balance \in {Balances(2000, 200), Balances(6000, 200)}
                   /\ v.market = Market(102, 102)}

At(price) == [price |-> price, liquidity |-> 100]
MCEvidence ==
  {[source |-> At(100), confirm |-> At(100)], [source |-> At(104), confirm |-> At(101)],
   [source |-> At(100), confirm |-> At(105)],
   [source |-> At(90), confirm |-> At(101)], [source |-> At(0), confirm |-> At(0)],
   [source |-> At(100), confirm |-> [At(100) EXCEPT !.liquidity = 9]]}

Tag(name, text) == [name |-> name, text |-> text]
Good(strategy) ==
  [keys |-> AnswerKeys, decision |-> "EXECUTE", strategy |-> strategy, rationale |-> "good",
   reasonTags |-> <<Tag("edge", "good")>>]
MCAnswers ==
  LET g == Good("RiskReduction") IN
  {Good(s) : s \in Strategies} \union
  {[g EXCEPT !.decision = "WAIT"], [g EXCEPT !.keys = @ \union {"amount"}],
   [g EXCEPT !.keys = @ \ {"rationale"}], [g EXCEPT !.rationale = "blank"],
   [g EXCEPT !.reasonTags = <<Tag("edge", "good"), Tag("edge", "good")>>],
   [g EXCEPT !.reasonTags = <<Tag("edge", "padded")>>]}
================================================================================
