------------------------- MODULE FairWitnessTreasury -------------------------
(***************************************************************************)
(* A FairWitnessTreasury contract: its owner's operations, the agents'     *)
(* proposals, the policy gate every proposal passes, and the journal of    *)
(* attempts.  One action is one transaction; a call that reverts changes   *)
(* nothing and is no step.                                                 *)
(*                                                                         *)
(* Hashes are injective: a proposal id is the proposal, an execution key   *)
(* is <<strategy, evidence hash>>, an evidence hash is the pair of the     *)
(* verified observations, and a policy hash is <<mode, epoch>>, all that   *)
(* varies in it during the life of a treasury.                             *)
(***************************************************************************)
EXTENDS TreasuryPolicy, FiniteSetsExt

CONSTANTS
  Agents,           (* addresses the owner may register                    *)
  Policies,         (* policies an owner may try to deploy with            *)
  Proposals,        (* proposals agents may submit                         *)
  ProofPairs,       (* pairs of source and confirmation proof data         *)
  Markets,          (* states of the destination market                    *)
  Deposits,         (* amounts a transfer to the treasury may have         *)
  Exits,            (* amounts the owner may withdraw                      *)
  Surplus,          (* what a swap may return above the required minimum   *)
  InitialBalance,   (* what the treasury is funded with                    *)
  InitialHeight,    (* the height attested when the treasury is deployed   *)
  Lifecycles,       (* demo modes the configurator may choose              *)
  DayLength,        (* 1 days                                              *)
  Horizon,          (* MAX_PROPOSAL_HORIZON                                *)
  MaxTime,          (* bound: the last block timestamp                     *)
  MaxHeight,        (* bound: the last attested height                     *)
  MaxAttempts,      (* bound: the length of the journal                    *)
  MaxPolicyEpoch,   (* bound: mode changes                                 *)
  MaxBalance        (* bound: what deposits may bring the treasury to       *)

ASSUME TreasuryAssumption ==
  /\ MaxTime \in Nat /\ MaxHeight \in Nat /\ Horizon \in Nat /\ MaxProofAge \in Nat
  /\ InitialHeight \in 0..MaxHeight
  /\ Lifecycles \subseteq BOOLEAN
  /\ DayLength \in Nat \ {0}
  /\ InitialBalance \in [Assets -> Nat]
  /\ Deposits \subseteq Nat /\ Exits \subseteq Nat /\ Surplus \subseteq Nat

(* Policies, markets, proposals, heights and the events' fields are        *)
(* unsigned integers where the code has uint fields.                       *)
ASSUME InputAssumption ==
  /\ Policies \subseteq Policy
  /\ Markets \subseteq MarketState
  /\ \A p \in Proposals :
       /\ p.strategy \in Strategies
       /\ p.amountIn \in Nat /\ p.maxSlippageBps \in Nat /\ p.deadline \in Nat
  /\ \A proofs \in ProofPairs, i \in 1..2 :
       proofs[i].blockHeight \in Nat /\ proofs[i].tx.logs \in Seq(Log)

VARIABLES
  now,                  (* block.timestamp                                 *)
  attested,             (* latest attested source height                   *)
  market,               (* what DEX_ADAPTER.marketState returns            *)
  policy,               (* the four immutable policy structs               *)
  mode,                 (* automationMode                                  *)
  policyEpoch,
  revoked,              (* history: policy hashes that have been replaced  *)
  closed,
  lifecycleConfigured,
  demoMode,
  registeredAgents,
  balance,              (* the treasury's two token balances               *)
  received,             (* history: what the owner and the reserve got     *)
  usedNonces,
  processedProposals,
  executedEvidence,
  attemptsInEpoch,
  executionsInEpoch,
  riskUsedByDay,        (* riskReductionUsedByDay                          *)
  executionCount,
  attempts              (* _attempts[1..attemptCount]                      *)

world == <<now, attested, market>>
authority == <<mode, policyEpoch, revoked, closed, registeredAgents>>
lifecycle == <<lifecycleConfigured, demoMode>>
funds == <<balance, received>>
replay == <<usedNonces, processedProposals>>
usage == <<executedEvidence, executionsInEpoch, riskUsedByDay, executionCount>>
journal == <<attemptsInEpoch, attempts>>
vars == <<world, policy, authority, lifecycle, funds, replay, usage, journal>>

Modes == {"Paused", "Autonomous"}
Recipients == {"Owner", "DemoReserve"}

(* Indices of epochs and of days, never above the time they are taken at.  *)
Periods == 0..MaxTime
Epoch(t) == t \div policy.universal.epochLength
Day(t) == t \div DayLength

CurrentPolicyHash == <<mode, policyEpoch>>
ExecutionKey(p) == <<p.strategy, p.evidenceHash>>
EvidenceHash(source, confirm) == <<source, confirm>>

Init ==
  /\ now = 0 /\ attested = InitialHeight /\ market \in Markets
  /\ policy \in {p \in Policies : ValidPolicy(p)}
  /\ mode = "Paused" /\ policyEpoch = 0 /\ revoked = {}
  /\ closed = FALSE
  /\ lifecycleConfigured = FALSE /\ demoMode = FALSE
  /\ registeredAgents = {}
  /\ balance = InitialBalance
  /\ received = [r \in Recipients |-> [a \in Assets |-> 0]]
  /\ usedNonces = {} /\ processedProposals = {} /\ executedEvidence = {}
  /\ attemptsInEpoch = [e \in Periods |-> 0]
  /\ executionsInEpoch = [e \in Periods |-> 0]
  /\ riskUsedByDay = [d \in Periods |-> 0]
  /\ executionCount = 0
  /\ attempts = << >>

-----------------------------------------------------------------------------
(* The owner's and the configurator's transactions.                        *)

(* configureLifecycle: once, with a demo reserve or none.                  *)
ConfigureLifecycle(demo) ==
  /\ ~lifecycleConfigured
  /\ lifecycleConfigured' = TRUE
  /\ demoMode' = demo
  /\ UNCHANGED <<world, policy, authority, funds, replay, usage, journal>>

RegisterAgent(agent) ==
  /\ ~closed
  /\ registeredAgents' = registeredAgents \cup {agent}
  /\ UNCHANGED <<mode, policyEpoch, revoked, closed>>
  /\ UNCHANGED <<world, policy, lifecycle, funds, replay, usage, journal>>

DeregisterAgent(agent) ==
  /\ registeredAgents' = registeredAgents \ {agent}
  /\ UNCHANGED <<mode, policyEpoch, revoked, closed>>
  /\ UNCHANGED <<world, policy, lifecycle, funds, replay, usage, journal>>

(* Variant for the sensitivity runs: the epoch does not move.              *)
ChangeModeOnly(newMode) ==
  /\ mode' = newMode
  /\ policyEpoch' = policyEpoch
  /\ revoked' = revoked \cup {CurrentPolicyHash}

(* Every change of mode replaces the policy hash.                          *)
ChangeMode(newMode) ==
  /\ mode' = newMode
  /\ policyEpoch' = policyEpoch + 1
  /\ revoked' = revoked \cup {CurrentPolicyHash}

(* Variant for the sensitivity runs: a closed treasury can be resumed.     *)
SetAutomationModeAnytime(newMode) ==
  /\ mode # newMode /\ policyEpoch < MaxPolicyEpoch
  /\ ChangeMode(newMode)
  /\ UNCHANGED <<closed, registeredAgents>>
  /\ UNCHANGED <<world, policy, lifecycle, funds, replay, usage, journal>>

SetAutomationMode(newMode) ==
  /\ ~closed
  /\ mode # newMode
  /\ policyEpoch < MaxPolicyEpoch
  /\ ChangeMode(newMode)
  /\ UNCHANGED <<closed, registeredAgents>>
  /\ UNCHANGED <<world, policy, lifecycle, funds, replay, usage, journal>>

(* The transfer of part of the balance out of the treasury.                *)
Pay(recipient, amount) ==
  /\ balance' = [a \in Assets |-> balance[a] - amount[a]]
  /\ received' = [received EXCEPT ![recipient] = [a \in Assets |-> @[a] + amount[a]]]

Only(asset, amount) == [a \in Assets |-> IF a = asset THEN amount ELSE 0]

(* ownerExit: possible in every mode, and after the closure.               *)
OwnerExit(asset, amount) ==
  /\ ~demoMode
  /\ amount <= balance[asset]
  /\ Pay("Owner", Only(asset, amount))
  /\ UNCHANGED <<world, policy, authority, lifecycle, replay, usage, journal>>

CloseTreasury ==
  /\ ~closed
  /\ closed' = TRUE
  /\ IF mode # "Paused" THEN ChangeMode("Paused") ELSE UNCHANGED <<mode, policyEpoch, revoked>>
  /\ Pay(IF demoMode THEN "DemoReserve" ELSE "Owner", balance)
  /\ UNCHANGED registeredAgents
  /\ UNCHANGED <<world, policy, lifecycle, replay, usage, journal>>

-----------------------------------------------------------------------------
(* submitProposal                                                          *)

(* Variant for the sensitivity runs: the slippage a proposal asks for is   *)
(* not compared with the policy.                                           *)
UniversalReasonAnySlippage(agent, p) ==
  FirstReason(<<
    <<"PolicyPaused", mode # "Autonomous">>,
    <<"StrategyDisabled", p.strategy \notin policy.universal.enabledStrategies>>,
    <<"PolicyHashMismatch", p.policyHash # CurrentPolicyHash>>,
    <<"ReplayProposal", p \in processedProposals>>,
    <<"NonceAlreadyUsed", <<agent, p.nonce>> \in usedNonces>>,
    <<"EvidenceAlreadyExecuted", ExecutionKey(p) \in executedEvidence>>,
    <<"ZeroExecutableAmount", p.amountIn = 0>> >>)

(* _universalReason.  The one ActionType there is cannot fail its check,   *)
(* which is left out.                                                      *)
UniversalReason(agent, p) ==
  FirstReason(<<
    <<"UnsupportedSchema", p.schemaVersion # 1>>,
    <<"InvalidCommitment", ~p.committed>>,
    <<"PolicyPaused", mode # "Autonomous">>,
    <<"StrategyDisabled", p.strategy \notin policy.universal.enabledStrategies>>,
    <<"AssetNotAllowed", ~Sells(p) /\ ~Buys(p)>>,
    <<"VenueNotAllowed", ~p.atVenue>>,
    <<"ProposalExpired", p.deadline < now>>,
    <<"DeadlineTooFar", p.deadline > now + Horizon>>,
    <<"SlippageExceedsPolicy", p.maxSlippageBps > policy.universal.maxSlippageBps>>,
    <<"PolicyHashMismatch", p.policyHash # CurrentPolicyHash>>,
    <<"ReplayProposal", p \in processedProposals>>,
    <<"NonceAlreadyUsed", <<agent, p.nonce>> \in usedNonces>>,
    <<"EvidenceAlreadyExecuted", ExecutionKey(p) \in executedEvidence>>,
    <<"ZeroExecutableAmount", p.amountIn = 0>> >>)

(* What the evaluators read of the contract and of the destination.        *)
View ==
  [policy |-> policy, balance |-> balance, market |-> market,
   usedToday |-> riskUsedByDay[Day(now)], executions |-> executionsInEpoch[Epoch(now)]]

(* The error of the self-call to verifyEvidence; "None" if it succeeds.    *)
VerifierError(proofs) == VerifyPairReason(proofs[1], proofs[2], Attestation(attested))

EvidenceStatus(proofs) == IF VerifierError(proofs) = "None" THEN "Verified" ELSE "Invalid"

(* From the proofs to the strategy's verdict.                              *)
Evaluation(p, proofs) ==
  LET source == WithLocation(proofs[1])
      confirm == WithLocation(proofs[2])
  IN  IF VerifierError(proofs) = "ProofTooOld" THEN Refused("EvidenceStale")
      ELSE IF VerifierError(proofs) # "None" THEN Refused("InvalidEvidence")
      ELSE IF EvidenceHash(source, confirm) # p.evidenceHash THEN Refused("EvidenceHashMismatch")
      ELSE EvaluateStrategy(View, p, source, confirm)

(* _record, with _populateEvidence when the proofs were looked at, and the *)
(* outcome written after the swap.                                         *)
Resolve(agent, p, proofs, status, result, reason, permitted, out) ==
  attempts' = Append(attempts,
    [agent |-> agent, proposal |-> p, proofs |-> proofs, evidenceStatus |-> status,
     result |-> result, reason |-> reason, permittedValue |-> permitted,
     amountOut |-> out, submittedAt |-> now])

(* Refused before the proofs are looked at: nothing but the attempt is     *)
(* recorded.                                                               *)
RejectUnchecked(agent, p) ==
  /\ UniversalReason(agent, p) # "None"
  /\ Resolve(agent, p, << >>, "NotChecked", "Rejected", UniversalReason(agent, p), 0, 0)
  /\ UNCHANGED <<funds, replay, usage>>

(* Variant for the sensitivity runs: only the nonce is burnt.              *)
BurnNonce(agent, p) ==
  /\ processedProposals' = processedProposals
  /\ usedNonces' = usedNonces \cup {<<agent, p.nonce>>}

(* Once the universal checks pass, the proposal and its nonce are spent,   *)
(* whatever comes of them.                                                 *)
SpendProposal(agent, p) ==
  /\ processedProposals' = processedProposals \cup {p}
  /\ usedNonces' = usedNonces \cup {<<agent, p.nonce>>}

RejectEvaluated(agent, p, proofs) ==
  LET e == Evaluation(p, proofs)
  IN  /\ UniversalReason(agent, p) = "None"
      /\ e.reason # "None"
      /\ SpendProposal(agent, p)
      /\ Resolve(agent, p, proofs, EvidenceStatus(proofs), "Rejected", e.reason,
                 e.permittedValue, 0)
      /\ UNCHANGED <<funds, usage>>

(* Variant for the sensitivity runs: the epoch's counter follows risk      *)
(* executions only.                                                        *)
ConsumeLimitsByRisk(p, permitted) ==
  /\ executedEvidence' = executedEvidence \cup {ExecutionKey(p)}
  /\ executionCount' = executionCount + 1
  /\ IF p.strategy = "RiskReduction"
     THEN /\ riskUsedByDay' = [riskUsedByDay EXCEPT ![Day(now)] = @ + permitted]
          /\ executionsInEpoch' = [executionsInEpoch EXCEPT ![Epoch(now)] = @ + 1]
     ELSE UNCHANGED <<riskUsedByDay, executionsInEpoch>>

(* The first half of executeApproved: everything that limits executions.   *)
ConsumeLimits(p, permitted) ==
  /\ executedEvidence' = executedEvidence \cup {ExecutionKey(p)}
  /\ executionCount' = executionCount + 1
  /\ executionsInEpoch' = [executionsInEpoch EXCEPT ![Epoch(now)] = @ + 1]
  /\ riskUsedByDay' = IF p.strategy = "RiskReduction"
                      THEN [riskUsedByDay EXCEPT ![Day(now)] = @ + permitted]
                      ELSE riskUsedByDay

(* The second half: the adapter takes the input from the treasury and the  *)
(* router pays the output to it.                                           *)
Swap(p, out) ==
  /\ balance' = [balance EXCEPT ![p.assetIn] = @ - p.amountIn, ![p.assetOut] = @ + out]
  /\ UNCHANGED received

(* The self-call to executeApproved succeeds.                              *)
Execute(agent, p, proofs, surplus) ==
  LET e == Evaluation(p, proofs)
      out == e.minimumOut + surplus
  IN  /\ UniversalReason(agent, p) = "None"
      /\ e.reason = "None"
      /\ out <= MaxUint128
      /\ SpendProposal(agent, p)
      /\ ConsumeLimits(p, e.permittedValue)
      /\ Swap(p, out)
      /\ Resolve(agent, p, proofs, "Verified", "Executed", "None", e.permittedValue, out)

(* It reverts (in the adapter, the router or a token): its writes are      *)
(* undone, the proposal and its nonce stay spent.                          *)
FailExecution(agent, p, proofs) ==
  LET e == Evaluation(p, proofs)
  IN  /\ UniversalReason(agent, p) = "None"
      /\ e.reason = "None"
      /\ SpendProposal(agent, p)
      /\ Resolve(agent, p, proofs, "Verified", "ExecutionFailed", "ExecutionReverted",
                 e.permittedValue, 0)
      /\ UNCHANGED <<funds, usage>>

(* The caller is registered, the treasury open, the epoch not exhausted.   *)
Admits(agent) ==
  /\ ~closed
  /\ agent \in registeredAgents
  /\ attemptsInEpoch[Epoch(now)] < policy.universal.maxAttemptsPerEpoch

SubmitProposal(agent, p, proofs) ==
  /\ Admits(agent)
  /\ Len(attempts) < MaxAttempts
  /\ attemptsInEpoch' = [attemptsInEpoch EXCEPT ![Epoch(now)] = @ + 1]
  /\ \/ RejectUnchecked(agent, p)
     \/ RejectEvaluated(agent, p, proofs)
     \/ \E surplus \in Surplus : Execute(agent, p, proofs, surplus)
     \/ FailExecution(agent, p, proofs)
  /\ UNCHANGED <<world, policy, authority, lifecycle>>

-----------------------------------------------------------------------------
(* The surroundings: block time, the attestation of source heights, the    *)
(* destination market, and transfers to the treasury.                      *)

Tick ==
  /\ now < MaxTime
  /\ now' = now + 1
  /\ UNCHANGED <<attested, market>>
  /\ UNCHANGED <<policy, authority, lifecycle, funds, replay, usage, journal>>

Attest ==
  /\ attested < MaxHeight
  /\ attested' = attested + 1
  /\ UNCHANGED <<now, market>>
  /\ UNCHANGED <<policy, authority, lifecycle, funds, replay, usage, journal>>

MarketMoves ==
  /\ market' \in Markets \ {market}
  /\ UNCHANGED <<now, attested>>
  /\ UNCHANGED <<policy, authority, lifecycle, funds, replay, usage, journal>>

Deposit(asset, amount) ==
  /\ balance[asset] + received["Owner"][asset] + received["DemoReserve"][asset] + amount <= MaxBalance
  /\ balance' = [balance EXCEPT ![asset] = @ + amount]
  /\ UNCHANGED received
  /\ UNCHANGED <<world, policy, authority, lifecycle, replay, usage, journal>>

Next ==
  \/ \E demo \in Lifecycles : ConfigureLifecycle(demo)
  \/ \E agent \in Agents : RegisterAgent(agent) \/ DeregisterAgent(agent)
  \/ \E newMode \in Modes : SetAutomationMode(newMode)
  \/ \E asset \in Assets, amount \in Exits : OwnerExit(asset, amount)
  \/ CloseTreasury
  \/ \E agent \in Agents, p \in Proposals, proofs \in ProofPairs : SubmitProposal(agent, p, proofs)
  \/ Tick \/ Attest \/ MarketMoves
  \/ \E asset \in Assets, amount \in Deposits : Deposit(asset, amount)

Spec == Init /\ [][Next]_vars

-----------------------------------------------------------------------------
(* Properties                                                              *)

Executed == {i \in DOMAIN attempts : attempts[i].result = "Executed"}
Checked == {i \in DOMAIN attempts : attempts[i].evidenceStatus # "NotChecked"}

(* The attempt a step executed, if it did.                                 *)
NewlyExecuted == Executed' \ Executed

Results == {"Rejected", "Executed", "ExecutionFailed"}
EvidenceStatuses == {"NotChecked", "Invalid", "Verified"}

Attempt ==
  [agent : Agents, proposal : Proposals, proofs : ProofPairs \cup {<< >>},
   evidenceStatus : EvidenceStatuses, result : Results, reason : ReasonCode,
   permittedValue : Nat, amountOut : Nat, submittedAt : 0..MaxTime]

(* The type of the state: in particular no balance is ever overdrawn by an *)
(* approved swap, and counters keep counting from zero.                    *)
TypeOK ==
  /\ now \in 0..MaxTime /\ attested \in 0..MaxHeight /\ market \in Markets
  /\ policy \in Policies
  /\ mode \in Modes /\ policyEpoch \in Nat /\ revoked \subseteq Modes \X Nat
  /\ closed \in BOOLEAN /\ lifecycleConfigured \in BOOLEAN /\ demoMode \in BOOLEAN
  /\ registeredAgents \subseteq Agents
  /\ balance \in [Assets -> Nat]
  /\ received \in [Recipients -> [Assets -> Nat]]
  /\ processedProposals \subseteq Proposals
  /\ attemptsInEpoch \in [Periods -> Nat] /\ executionsInEpoch \in [Periods -> Nat]
  /\ riskUsedByDay \in [Periods -> Nat]
  /\ executionCount \in Nat
  /\ attempts \in Seq(Attempt)

(* No two executions of one strategy rest on the same pair of source       *)
(* transactions: the evidence hash an agent puts in a proposal has to be   *)
(* the one the verified proofs give, so that marking it as executed covers *)
(* every other way to present those transactions.                          *)
OneExecutionPerObservationPair ==
  \A i, j \in Executed :
    /\ attempts[i].proposal.strategy = attempts[j].proposal.strategy
    /\ attempts[i].proofs[1].tx = attempts[j].proofs[1].tx
    /\ attempts[i].proofs[2].tx = attempts[j].proofs[2].tx
    => i = j

(* A proposal reaches the proof verifier at most once, whichever agents    *)
(* submit it, and an agent's nonce takes at most one proposal there, also  *)
(* when evidence, strategy or swap then fail.                              *)
AuthorisedOnce ==
  \A i, j \in Checked :
    \/ attempts[i].proposal = attempts[j].proposal
    \/ attempts[i].agent = attempts[j].agent /\ attempts[i].proposal.nonce = attempts[j].proposal.nonce
    => i = j

(* The counters that limit an epoch are what the journal says they are,    *)
(* reverted executions included in the attempts and not in the executions, *)
(* and both stay within the policy.                                        *)
JournalMatchesCounters ==
  LET during(S, e) == {i \in S : Epoch(attempts[i].submittedAt) = e}
      u == policy.universal
  IN  /\ executionCount = Cardinality(Executed)
      /\ \A e \in Periods :
           /\ attemptsInEpoch[e] = Cardinality(during(DOMAIN attempts, e))
           /\ executionsInEpoch[e] = Cardinality(during(Executed, e))
           /\ attemptsInEpoch[e] <= u.maxAttemptsPerEpoch
           /\ executionsInEpoch[e] <= u.maxExecutionsPerEpoch

(* What risk reductions used of a day is the sum of what its executed      *)
(* attempts were permitted, and never more than the daily budget.          *)
DailyRiskBudget ==
  \A d \in Periods :
    LET reductions == {i \in Executed : /\ attempts[i].proposal.strategy = "RiskReduction"
                                        /\ Day(attempts[i].submittedAt) = d}
    IN  /\ riskUsedByDay[d] = MapThenSumSet(LAMBDA i : attempts[i].permittedValue, reductions)
        /\ riskUsedByDay[d] <= policy.risk.dailyRiskReductionValue

(* Once the owner has changed the mode, a proposal made for the policy as  *)
(* it was before never executes, not even after the same mode is restored. *)
RevokedNeverExecutes ==
  [][\A i \in NewlyExecuted : attempts'[i].proposal.policyHash \notin revoked]_vars

(* A closed treasury stays closed and paused, resolves no attempt and      *)
(* gives nobody new authority.                                             *)
ClosedIsFinal ==
  [][closed => /\ closed' /\ mode' = "Paused"
               /\ registeredAgents' \subseteq registeredAgents
               /\ UNCHANGED <<policyEpoch, replay, usage, journal>>]_vars

(* The strategies of one policy never ask for opposite trades: whenever a  *)
(* risk reduction would be approved, a rebalancing that would be approved  *)
(* on the same evidence sells WCTC too.                                    *)
StrategiesNeverOppose ==
  {"Rebalance", "RiskReduction"} \subseteq policy.universal.enabledStrategies =>
    \A proofs \in ProofPairs, p \in {x \in Proposals : x.strategy = "RiskReduction"} :
      Evaluation(p, proofs).reason = "None" =>
        \A q \in {x \in Proposals : x.strategy = "Rebalance"} :
          Evaluation(q, proofs).reason = "None" => Sells(q)

(* A risk reduction never sells below the exposure limit: at the price it  *)
(* was sized with, the WCTC left is worth the limit's share of what the    *)
(* treasury held before.                                                   *)
RiskSaleKeepsLimit ==
  [][\A i \in NewlyExecuted :
       attempts'[i].proposal.strategy = "RiskReduction" =>
         LET price == WithLocation(attempts'[i].proofs[2]).price
         IN  Portfolio(balance', price).wctc >=
               MulDiv(Portfolio(balance, price).total, policy.risk.maxWctcExposureBps, BPS)]_vars

(* Evidence the verifier accepted is two observations of the pinned        *)
(* observer, one event each, that succeeded on the source chain in this    *)
(* order, at heights attested by then.                                     *)
VerifiedEvidenceIsGenuine ==
  \A i \in Checked :
    attempts[i].evidenceStatus = "Verified" =>
      LET source == attempts[i].proofs[1].tx
          confirm == attempts[i].proofs[2].tx
      IN  /\ {source, confirm} \subseteq SourceTxs
          /\ source.height < confirm.height /\ confirm.height <= attested
          /\ \A tx \in {source, confirm} :
               /\ tx.to = Observer /\ tx.status = 1
               /\ \E k \in DOMAIN tx.logs : MatchingLogs(tx) = {k} /\ tx.logs[k].consistent

(* However long a proposal waited between its preview and its block, and   *)
(* whatever moved meanwhile: what executes is within its deadline,         *)
(* confirmed recently on the source chain, made for the mode and policy in *)
(* force in that block, and pays no less than its input at the mean price  *)
(* of that block, less the slippage the owner's policy allows.             *)
ExecutedWhileFresh ==
  [][\A i \in NewlyExecuted :
       LET p == attempts'[i].proposal
       IN  /\ now \in p.deadline - Horizon .. p.deadline
           /\ attested - attempts'[i].proofs[2].tx.height <= MaxProofAge
           /\ mode = "Autonomous" /\ p.policyHash = CurrentPolicyHash
           /\ attempts'[i].amountOut >=
                MulDiv(ExpectedOut(p, market.twap),
                       BPS - policy.universal.maxSlippageBps, BPS)]_vars

(* The treasury implements the abstract specification of what it promises  *)
(* about executions.                                                       *)
Bounded == INSTANCE BoundedExecution WITH
  Keys <- {ExecutionKey(p) : p \in Proposals},
  executed <- executedEvidence,
  used <- executionsInEpoch,
  cap <- policy.universal.maxExecutionsPerEpoch

ImplementsBoundedExecution == Bounded!Spec
=============================================================================
