----------------------------- MODULE AgentStrategies -----------------------------
(***************************************************************************)
(* The agent's side of the policy: its three strategies, which mirror the  *)
(* treasury's evaluators, the priority among them, the boundary that the   *)
(* model's answer crosses, and the proposal that is built. The treasury's  *)
(* view changes between the agent's reading and the block that decides.    *)
(*                                                                         *)
(* A context is a view of TreasuryPolicy with the two observations; it     *)
(* stands for the hashes that commit to it.                                *)
(***************************************************************************)
EXTENDS TreasuryPolicy, FiniteSets, FiniteSetsExt

CONSTANTS
  Views,      \* what the treasury and its surroundings may look like
  LaterViews, \* what they may become while the agent works
  Evidence,   \* pairs of proved observations
  Answers,    \* what the model may return, decoded from JSON
  SmallTrades,\* amounts that are tried when the agent found nothing to do
  MaxViewChanges,   \* bound on the changes of the view
  MaxCycles   \* bound on the contexts read

VARIABLES
  view,     \* the treasury and its market now
  pc,       \* "ready", "asked", "decided", "proposed" or "threw"
  context,  \* the last VerifiedContext
  cycle,    \* its StrategyEvaluationCycle: selected, claimed, invalidated
  answer,   \* the answer to the candidate that was claimed
  proposal, \* the proposal under way
  trades,   \* executions
  viewChanges, cycles

strategyVars == <<view, pc, context, cycle, answer, proposal, trades, viewChanges, cycles>>

Directions == {"SELL_WCTC", "BUY_WCTC"}
NoValue == [none |-> TRUE]
\* What a verified observation tells of the source market.
Observed == [price : Nat, liquidity : Nat]

\* Limits in BPS are uint16.
ASSUME StrategiesAssumption ==
  /\ Views \union LaterViews \subseteq StrategyView
  /\ \A v \in Views : /\ v.policy.universal.maxSourceDriftBps <= MaxUint16
                     /\ v.policy.universal.maxSpotTwapDeviationBps <= MaxUint16
  /\ Evidence \subseteq [source : Observed, confirm : Observed]

Contexts ==
  [policy : Policy, balance : [Assets -> Nat], market : MarketState, usedToday : Nat,
   executions : Nat, source : Observed, confirm : Observed, trades : Nat]
\* kind and slippage are what later code reads of a candidate's metrics.
Candidates ==
  [strategy : Strategies, direction : Directions, amountIn : Nat, permittedValue : Nat,
   kind : Strategies, slippage : Nat, context : Contexts]
BuiltProposals ==
  [strategy : Strategies, assetIn : Assets, assetOut : Assets, amountIn : 1..MaxUint128,
   maxSlippageBps : 0..MaxAllowedSlippageBps, context : Contexts]

--------------------------------------------------------------------------------
(* The strategies: a set with their candidate, or the empty set. *)

\* MAX_SAFE_INTEGER stands for a gap to a price of zero.
Gap(a, b) ==
  LET base == Min({a, b}) IN IF base = 0 THEN 9007199 ELSE ((Max({a, b}) - base) * BPS) \div base

\* Variant for the sensitivity runs: a value at its limit counts as beyond it.
UsableStrict(ctx) ==
  LET u == ctx.policy.universal IN
  /\ Gap(ctx.source.price, ctx.confirm.price) < u.maxSourceDriftBps
  /\ Gap(ctx.market.twap, ctx.market.spot) < u.maxSpotTwapDeviationBps
  /\ ctx.market.liquidity >= u.minDestinationLiquidity

\* The checks of the market that each strategy repeats.
Usable(ctx) ==
  LET u == ctx.policy.universal IN
  /\ Gap(ctx.source.price, ctx.confirm.price) <= u.maxSourceDriftBps
  /\ Min({ctx.source.liquidity, ctx.confirm.liquidity}) >= u.minSourceLiquidity
  /\ ctx.market.liquidity >= u.minDestinationLiquidity
  /\ Gap(ctx.market.twap, ctx.market.spot) <= u.maxSpotTwapDeviationBps

Found(strategy, ctx, direction, amountIn, permitted) ==
  IF amountIn = 0 THEN {}
  ELSE {[strategy |-> strategy, direction |-> direction, amountIn |-> amountIn,
         permittedValue |-> permitted, kind |-> strategy,
         slippage |-> ctx.policy.universal.maxSlippageBps, context |-> ctx]}

WctcValue(ctx) == (ctx.balance["WCTC"] * ctx.confirm.price) \div WctcUnit
PortfolioValue(ctx) == WctcValue(ctx) + ctx.balance["STABLE"]
CurrentWctcBps(ctx) == (WctcValue(ctx) * BPS) \div PortfolioValue(ctx)

\* Variant for the sensitivity runs: the action cap is left to the treasury.
RiskReductionValueUncapped(ctx) ==
  Min({WctcValue(ctx) - (PortfolioValue(ctx) * ctx.policy.risk.maxWctcExposureBps) \div BPS,
       ctx.policy.risk.maxRiskReductionValue,
       ctx.policy.risk.dailyRiskReductionValue - ctx.usedToday})

RiskReductionValue(ctx) ==
  Min({WctcValue(ctx) - (PortfolioValue(ctx) * ctx.policy.risk.maxWctcExposureBps) \div BPS,
       ctx.policy.risk.maxRiskReductionValue,
       ctx.policy.risk.dailyRiskReductionValue - ctx.usedToday,
       ctx.policy.universal.maxActionValue})

\* Whether the exposure limit is breached and the day's budget not spent.
RiskIsDue(ctx) ==
  /\ Usable(ctx) /\ ctx.confirm.price > 0 /\ PortfolioValue(ctx) > 0
  /\ CurrentWctcBps(ctx) > ctx.policy.risk.maxWctcExposureBps
  /\ ctx.usedToday < ctx.policy.risk.dailyRiskReductionValue

RiskReduction(ctx) ==
  IF ~RiskIsDue(ctx) THEN {}
  ELSE Found("RiskReduction", ctx, "SELL_WCTC",
             (RiskReductionValue(ctx) * WctcUnit) \div ctx.confirm.price,
             RiskReductionValue(ctx))

RebalanceValue(ctx) ==
  LET target == (PortfolioValue(ctx) * ctx.policy.rebalance.targetWctcBps) \div BPS IN
  Min({Max({WctcValue(ctx) - target, target - WctcValue(ctx)}),
       ctx.policy.rebalance.maxRebalanceValue, ctx.policy.universal.maxActionValue})

RebalanceIsDue(ctx) ==
  /\ Usable(ctx) /\ ctx.confirm.price > 0 /\ PortfolioValue(ctx) > 0
  /\ LET off == CurrentWctcBps(ctx) - ctx.policy.rebalance.targetWctcBps IN
     Max({off, -off}) > ctx.policy.rebalance.toleranceBps

Rebalance(ctx) ==
  LET sells == CurrentWctcBps(ctx) > ctx.policy.rebalance.targetWctcBps IN
  IF ~RebalanceIsDue(ctx) THEN {}
  ELSE Found("Rebalance", ctx, IF sells THEN "SELL_WCTC" ELSE "BUY_WCTC",
             IF sells THEN (RebalanceValue(ctx) * WctcUnit) \div ctx.confirm.price
             ELSE RebalanceValue(ctx),
             RebalanceValue(ctx))

EdgeSells(ctx) == ctx.market.twap > ctx.confirm.price
NetEdge(ctx) ==
  Gap(ctx.market.twap, ctx.confirm.price)
    - (PoolFeeBps + ctx.policy.universal.maxSlippageBps + ExecutionReserveBps)

EdgeValue(ctx) ==
  LET cap == Min({ctx.policy.arbitrage.maxArbitrageValue, ctx.policy.universal.maxActionValue,
                  IF EdgeSells(ctx) THEN (ctx.balance["WCTC"] * ctx.market.twap) \div WctcUnit
                  ELSE ctx.balance["STABLE"]})
  IN Min({cap, (cap * NetEdge(ctx)) \div (ctx.policy.arbitrage.minNetEdgeBps * 4)})

Arbitrage(ctx) ==
  IF ~Usable(ctx) \/ ctx.market.twap = ctx.confirm.price
     \/ NetEdge(ctx) < ctx.policy.arbitrage.minNetEdgeBps
  THEN {}
  ELSE Found("Arbitrage", ctx, IF EdgeSells(ctx) THEN "SELL_WCTC" ELSE "BUY_WCTC",
             IF EdgeSells(ctx) THEN (EdgeValue(ctx) * WctcUnit) \div ctx.market.twap
             ELSE EdgeValue(ctx),
             EdgeValue(ctx))

--------------------------------------------------------------------------------
(* The coordinator *)

\* StrategyCoordinator.evaluate, when the mandate enables known strategies only.
Evaluate(ctx) ==
  LET of == [s \in Strategies |->
               CASE s = "RiskReduction" -> RiskReduction(ctx)
                 [] s = "Rebalance" -> Rebalance(ctx)
                 [] s = "Arbitrage" -> Arbitrage(ctx)]
  IN UNION {of[s] : s \in ctx.policy.universal.enabledStrategies}

\* STRATEGY_PRIORITY
Priority == <<"RiskReduction", "Rebalance", "Arbitrage">>

\* selectHighestPriorityCandidate
Select(candidates) ==
  LET ranks == {i \in DOMAIN Priority : \E c \in candidates : c.strategy = Priority[i]} IN
  IF ranks = {} THEN NoValue
  ELSE CHOOSE c \in candidates : c.strategy = Priority[Min(ranks)]

NewCycle(selected) == [selected |-> selected, claimed |-> FALSE, invalidated |-> FALSE]

\* StrategyEvaluationCycle.claimCandidate gives the candidate away.
MayClaim == ~cycle.invalidated /\ ~cycle.claimed

--------------------------------------------------------------------------------
(* The model's answer *)

AnswerKeys == {"decision", "strategy", "rationale", "reasonTags"}
MaxReasonTags == 8

\* Variant for the sensitivity runs: further fields are ignored.
AcceptableLoose(a) ==
  /\ AnswerKeys \subseteq a.keys
  /\ a.decision \in {"EXECUTE", "WAIT"} /\ a.strategy \in Strategies

\* parseAiDecision. Texts are "good", "blank", "padded" or "long"; a tag may
\* not occur twice.
Acceptable(a) ==
  /\ a.keys = AnswerKeys
  /\ a.decision \in {"EXECUTE", "WAIT"} /\ a.strategy \in Strategies
  /\ a.rationale \in {"good", "padded"}
  /\ Len(a.reasonTags) <= MaxReasonTags
  /\ \A i \in DOMAIN a.reasonTags :
       /\ a.reasonTags[i].text = "good"
       /\ \A j \in DOMAIN a.reasonTags : a.reasonTags[i] = a.reasonTags[j] => i = j

\* What decide refuses besides: another strategy than the one it asked about.
SameStrategy(a) == a.strategy = cycle.selected.strategy

--------------------------------------------------------------------------------
(* The proposal *)

\* The envelope of makeProposal.
EnvelopeSlippage(c) == c.context.policy.universal.maxSlippageBps

\* What buildProposal throws on.
Unbuildable(c) ==
  \/ EnvelopeSlippage(c) > BPS
  \/ EnvelopeSlippage(c) > c.context.policy.universal.maxSlippageBps
  \/ c.strategy = "Arbitrage" /\ EnvelopeSlippage(c) # c.slippage
  \/ c.amountIn > MaxUint128 \/ c.amountIn = 0
  \/ c.direction \notin Directions

BuildProposal(c) ==
  [strategy |-> c.strategy,
   assetIn |-> IF c.direction = "SELL_WCTC" THEN "WCTC" ELSE "STABLE",
   assetOut |-> IF c.direction = "SELL_WCTC" THEN "STABLE" ELSE "WCTC",
   amountIn |-> c.amountIn, maxSlippageBps |-> EnvelopeSlippage(c), context |-> c.context]

--------------------------------------------------------------------------------
StrategiesInit ==
  /\ view \in {v \in Views : ValidPolicy(v.policy)}
  /\ pc = "ready" /\ context = NoValue /\ cycle = NewCycle(NoValue)
  /\ answer = NoValue /\ proposal = NoValue
  /\ trades = 0 /\ viewChanges = 0 /\ cycles = 0

\* Market, balances or counters change; the policy is immutable.
Move ==
  /\ viewChanges < MaxViewChanges /\ viewChanges' = viewChanges + 1
  /\ view' \in {[v EXCEPT !.policy = view.policy] : v \in LaterViews}
  /\ UNCHANGED <<pc, context, cycle, answer, proposal, trades, cycles>>

\* What makeContext returns for a pair of observations.
Snapshot(e) ==
  [policy |-> view.policy, balance |-> view.balance, market |-> view.market,
   usedToday |-> view.usedToday, executions |-> view.executions,
   source |-> e.source, confirm |-> e.confirm, trades |-> trades]

\* makeContext and deriveCandidate; a market that cannot be read throws.
ReadContext ==
  /\ pc = "ready" /\ cycles < MaxCycles /\ cycles' = cycles + 1
  /\ IF view.market.ok
     THEN \E e \in Evidence :
            LET ctx == Snapshot(e) IN
            /\ context' = ctx /\ cycle' = NewCycle(Select(Evaluate(ctx)))
            /\ pc' = pc
     ELSE pc' = "threw" /\ UNCHANGED <<context, cycle>>
  /\ answer' = NoValue /\ proposal' = NoValue
  /\ UNCHANGED <<view, trades, viewChanges>>

\* claimCandidate, then the question to the model.
Ask ==
  /\ pc = "ready" /\ MayClaim /\ cycle.selected # NoValue
  /\ cycle' = [cycle EXCEPT !.claimed = TRUE] /\ pc' = "asked"
  /\ UNCHANGED <<view, context, answer, proposal, trades, viewChanges, cycles>>

\* decide: EXECUTE goes on, WAIT ends the run, anything else throws.
Decide(a) ==
  /\ pc = "asked" /\ answer' = a
  /\ pc' = IF ~Acceptable(a) \/ ~SameStrategy(a) THEN "threw"
           ELSE IF a.decision = "EXECUTE" THEN "decided" ELSE "ready"
  /\ UNCHANGED <<view, context, cycle, proposal, trades, viewChanges, cycles>>

Build ==
  /\ pc = "decided"
  /\ IF Unbuildable(cycle.selected) THEN pc' = "threw" /\ UNCHANGED proposal
     ELSE pc' = "proposed" /\ proposal' = BuildProposal(cycle.selected)
  /\ UNCHANGED <<view, context, cycle, answer, trades, viewChanges, cycles>>

\* The treasury's answer to a proposal, on a view.
Verdict(v, p) == EvaluateStrategy(v, p, p.context.source, p.context.confirm)

\* invalidateAfterExecution
Invalidated == [cycle EXCEPT !.invalidated = TRUE]

\* The treasury executes or refuses; what an execution leaves is another view.
Submit ==
  /\ pc = "proposed" /\ pc' = "ready"
  /\ IF Verdict(view, proposal).reason = "None"
     THEN /\ trades' = trades + 1 /\ cycle' = Invalidated
          /\ view' \in {[v EXCEPT !.policy = view.policy] : v \in LaterViews}
     ELSE UNCHANGED <<trades, cycle, view>>
  /\ UNCHANGED <<context, answer, proposal, viewChanges, cycles>>

StrategiesNext ==
  Move \/ ReadContext \/ Ask \/ (\E a \in Answers : Decide(a)) \/ Build \/ Submit

StrategiesSpec == StrategiesInit /\ [][StrategiesNext]_strategyVars

--------------------------------------------------------------------------------
(* Properties *)

StrategiesTypeOK ==
  /\ view \in StrategyView
  /\ pc \in {"ready", "asked", "decided", "proposed", "threw"}
  /\ context \in Contexts \union {NoValue}
  /\ cycle.selected \in Candidates \union {NoValue}
  /\ answer \in Answers \union {NoValue} /\ proposal \in BuiltProposals \union {NoValue}

\* The agent never proposes what the treasury refuses on the view the agent
\* read: "deterministic mirror" of the evaluators. What the mirror does not show
\* is the epoch's execution count, an output that rounds to nothing or does not
\* fit uint128, and an edge beyond uint16. Nor does its own builder refuse what
\* a strategy returns once the model has agreed, unless the amount does not fit
\* uint128.
MirrorAgrees ==
  /\ pc = "proposed" =>
       LET reason == Verdict(context, proposal).reason IN
       \/ reason \in {"None", "ExecutionRateLimit"}
       \/ /\ reason = "ZeroExecutableAmount"
          /\ \/ MinimumOut(proposal, context.market.twap) \notin 1..MaxUint128
             \/ proposal.strategy = "Arbitrage" /\ NetEdge(context) > MaxUint16
  /\ pc = "threw" /\ answer # NoValue =>
       \/ ~Acceptable(answer) \/ ~SameStrategy(answer)
       \/ cycle.selected.amountIn > MaxUint128

Probe(s, sells, amount) ==
  [strategy |-> s, assetIn |-> IF sells THEN "WCTC" ELSE "STABLE",
   assetOut |-> IF sells THEN "STABLE" ELSE "WCTC", amountIn |-> amount,
   maxSlippageBps |-> context.policy.universal.maxSlippageBps, context |-> context]
Permitted(s) ==
  \E sells \in BOOLEAN, amount \in SmallTrades :
    Verdict(context, Probe(s, sells, amount)).reason = "None"

\* It does not wait when there is something to do: without a candidate the
\* treasury would let no strategy trade, on the view that was read. And it asks
\* for everything it is permitted: one unit more is refused.
WaitsOnlyIfRefused ==
  /\ context # NoValue /\ cycle.selected = NoValue =>
       \A s \in context.policy.universal.enabledStrategies : ~Permitted(s)
  /\ pc = "proposed" =>
       Verdict(context, [proposal EXCEPT !.amountIn = @ + 1]).reason
         \in {"AmountExceedsPolicy", "InsufficientBalance"}

\* The model only agrees: there is a proposal only after an answer with the four
\* fields and no other, naming the strategy that was asked about.
ModelOnlyAgrees ==
  pc \in {"decided", "proposed"} =>
    /\ answer.keys = AnswerKeys /\ answer.decision = "EXECUTE"
    /\ answer.strategy = cycle.selected.strategy

================================================================================
