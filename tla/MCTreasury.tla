----------------------------- MODULE MCTreasury -----------------------------
(***************************************************************************)
(* Values for the constants of FairWitnessTreasury: one group of           *)
(* definitions for each question the treasury is checked on.               *)
(***************************************************************************)
EXTENDS FairWitnessTreasury, TLC

CONSTANTS a1, a2      (* agents                                            *)

(* Agents are told apart by equality alone.                                *)
Symmetry == Permutations(Agents)

-----------------------------------------------------------------------------
(* The source chain: observer transactions, and ones verifyPair refuses.   *)

Event(price) ==
  [matches |-> TRUE, window |-> 1800, liquidity |-> 100, price |-> price, consistent |-> TRUE]
Observation(height, price) ==
  [height |-> height, index |-> 0, to |-> "observer", call |-> "observe", status |-> 1,
   logs |-> <<Event(price)>>]

Tx1 == Observation(1, 100)
Tx2 == Observation(2, 104)
Tx3 == Observation(3, 102)
Reverted == [Observation(2, 104) EXCEPT !.status = 0, !.index = 1]
Twice == [Observation(2, 104) EXCEPT !.logs = <<Event(104), Event(104)>>, !.index = 2]
Chain == {Tx1, Tx2, Tx3, Reverted, Twice}
NeverMined == [Observation(2, 200) EXCEPT !.index = 3]

Prove(tx) == [chainKey |-> 1, blockHeight |-> tx.height, transactionIndex |-> tx.index, tx |-> tx]
AtIndex(tx, index) == [Prove(tx) EXCEPT !.transactionIndex = index]

Pair12 == <<Prove(Tx1), Prove(Tx2)>>
Pair13 == <<Prove(Tx1), Prove(Tx3)>>
Pair23 == <<Prove(Tx2), Prove(Tx3)>>
Evidence(pair) == EvidenceHash(WithLocation(pair[1]), WithLocation(pair[2]))

-----------------------------------------------------------------------------
(* A policy: target 50% with a band of 5%, at most 60% WCTC.               *)

Universal ==
  [enabledStrategies |-> Strategies, maxActionValue |-> 120, maxSlippageBps |-> 100,
   maxSourceDriftBps |-> 500, maxSpotTwapDeviationBps |-> 300, minSourceLiquidity |-> 10,
   minDestinationLiquidity |-> 10, maxExecutionsPerEpoch |-> 2, epochLength |-> 2,
   maxAttemptsPerEpoch |-> 3]
BasePolicy ==
  [universal |-> Universal,
   arbitrage |-> [minNetEdgeBps |-> 50, maxArbitrageValue |-> 90],
   rebalance |-> [targetWctcBps |-> 5000, toleranceBps |-> 500, maxRebalanceValue |-> 150],
   risk |-> [maxWctcExposureBps |-> 6000, maxRiskReductionValue |-> 100,
             dailyRiskReductionValue |-> 150]]

Balances(wctc, stable) == [a \in Assets |-> IF a = "WCTC" THEN wctc ELSE stable]
Market(twap, spot) == [ok |-> TRUE, twap |-> twap, spot |-> spot, liquidity |-> 50]

(* A proposal to sell WCTC, and one to buy it.                             *)
Sell(strategy, amount, nonce, pair, epoch) ==
  [schemaVersion |-> 1, committed |-> TRUE, strategy |-> strategy, assetIn |-> "WCTC",
   assetOut |-> "STABLE", atVenue |-> TRUE, amountIn |-> amount, maxSlippageBps |-> 100,
   deadline |-> 1, nonce |-> nonce, evidenceHash |-> Evidence(pair),
   policyHash |-> <<"Autonomous", epoch>>]
Buy(strategy, amount, nonce, pair, epoch) ==
  [Sell(strategy, amount, nonce, pair, epoch) EXCEPT !.assetIn = "STABLE", !.assetOut = "WCTC"]

-----------------------------------------------------------------------------
(* Replay: the same trade proposed again by the same and by another agent, *)
(* with another nonce, after a change of mode, with relabelled proofs.     *)

Relabelled == <<AtIndex(Tx1, 7), Prove(Tx2)>>
OnePair == {Pair12}
ReplayPairs == {Pair12, Relabelled}
ReplayProposals ==
  {Sell("Rebalance", 5, 1, Pair12, 1), Sell("Rebalance", 5, 2, Pair12, 1),
   Sell("Rebalance", 5, 2, Relabelled, 1),
   Sell("Rebalance", 5, 1, Pair12, 3), Sell("Rebalance", 5, 1, Pair12, 0)}
ReplayPolicies == {BasePolicy}
ReplayMarkets == {Market(104, 104)}
ReplayBalance == Balances(60, 200)

-----------------------------------------------------------------------------
(* Limits: risk reductions of one policy on three pairs of observations,   *)
(* over two epochs and two days that do not start together.                *)

Until(deadline, p) == [p EXCEPT !.deadline = deadline]
LimitPairs == {Pair12, Pair13, Pair23}
LimitProposals ==
  {Until(3, p) : p \in
    {Sell("RiskReduction", 9, 1, Pair12, 1), Sell("RiskReduction", 1, 2, Pair13, 1),
     Sell("RiskReduction", 9, 3, Pair23, 1), Sell("Rebalance", 4, 4, Pair12, 1)}}
LimitPolicies ==
  LET daily == [BasePolicy EXCEPT !.risk.dailyRiskReductionValue = 120]
  IN  {daily, [daily EXCEPT !.universal.maxExecutionsPerEpoch = 1,
                            !.universal.maxAttemptsPerEpoch = 2]}

-----------------------------------------------------------------------------
(* Pricing: the three strategies in both directions while the market and   *)
(* the balances move.  The last policy is one the constructor refuses: its *)
(* exposure limit lies inside the rebalancing band.                        *)

PricingMarkets ==
  {Market(104, 104), Market(110, 108), Market(95, 96), Market(110, 100),
   [Market(104, 104) EXCEPT !.ok = FALSE]}
PricingProposals ==
  {Sell("Arbitrage", 8, 1, Pair12, 1), Buy("Arbitrage", 80, 2, Pair12, 1),
   Sell("Rebalance", 10, 3, Pair12, 1), Buy("Rebalance", 100, 4, Pair12, 1),
   Sell("RiskReduction", 2, 5, Pair12, 1), Sell("RiskReduction", 9, 6, Pair12, 1),
   Sell("Rebalance", 40, 7, Pair12, 1),
   [Sell("Rebalance", 10, 8, Pair12, 1) EXCEPT !.maxSlippageBps = 900]}
PricingPolicies ==
  {BasePolicy,
   [BasePolicy EXCEPT !.rebalance.targetWctcBps = 2000, !.universal.maxActionValue = 100,
                      !.risk.maxWctcExposureBps = 7000],
   [BasePolicy EXCEPT !.risk.maxWctcExposureBps = 4000]}

-----------------------------------------------------------------------------
(* Gate: proofs and proposals that are malformed, early, late or stale.    *)

Chain5 == Chain \cup {Observation(4, 104), Observation(5, 103)}
GatePairs ==
  {Pair12, Pair13, <<Prove(Tx2), Prove(Tx1)>>, <<Prove(Tx1), Prove(Observation(4, 104))>>,
   <<Prove(Tx1), Prove(Reverted)>>, <<Prove(Tx1), Prove(Twice)>>, <<Prove(Tx1), Prove(NeverMined)>>,
   <<[Prove(Tx1) EXCEPT !.chainKey = 2], Prove(Tx2)>>, Relabelled}
GateProposals ==
  LET valid == Sell("Rebalance", 10, 1, Pair12, 1)
  IN  {Until(2, valid), Until(3, valid), [Until(2, valid) EXCEPT !.evidenceHash = Evidence(Pair13)],
       [valid EXCEPT !.schemaVersion = 2], [valid EXCEPT !.committed = FALSE],
       [valid EXCEPT !.atVenue = FALSE], [valid EXCEPT !.assetOut = "WCTC"],
       [valid EXCEPT !.amountIn = 0], [valid EXCEPT !.strategy = "Arbitrage"]}
GatePolicies == {[BasePolicy EXCEPT !.universal.enabledStrategies = {"Rebalance"}]}

-----------------------------------------------------------------------------
(* Lifecycle: configuration, withdrawals, deposits and closure around one  *)
(* trade.                                                                  *)

LifecycleProposals == {Sell("Rebalance", 10, 1, Pair12, 1)}
=============================================================================
