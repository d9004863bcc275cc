# Fair Witness: formal verification

TLA+ models of Fair Witness, TLC configurations that check them, and TLAPS
proofs about them. Source paths are relative to the repository's root.

## The system

Fair Witness lets an AI agent propose trades for a treasury it has no authority
over. A treasury contract on Creditcoin holds two assets, WCTC and a stable
coin, and an immutable policy. The agent observes a Uniswap V3 pool on the
source chain twice, has both observations proved, and submits a proposal with
the two proofs. The contract verifies the proofs, re-computes what the policy
permits, and executes the swap through an adapter, or records why it did not.

| Component | State | Operations |
| --- | --- | --- |
| **Treasury** (`contracts/src/FairWitnessTreasury.sol`) | mode, policy epoch, agents, closure and demo flags, spent nonces and proposals, executed evidence, counters per epoch and day, journal of attempts | `configureLifecycle`, `registerAgent`, `deregisterAgent`, `setAutomationMode`, `submitProposal` (with its self-calls `verifyEvidence` and `executeApproved`), `ownerExit`, `closeTreasury` |
| **Policy engine** (same contract) | none | `_validatePolicy`, `_universalReason`, `_validatedMarket`, `_evaluateArbitrage`, `_evaluateRebalance`, `_evaluateRisk` |
| **Market facts** (`VerifiedMarketFactValidator`, `AttestedMarketEventDecoder`) | none | `verifyPair`, `decode` |
| **Adapter** (`PenguinV3Adapter`) | none of its own; moves tokens and allowances | `marketState`, `swapExactInput` |
| **Observer** (`source-chain/*`) | none | `observe` |
| **Factory and faucet** (`FairWitnessTreasuryFactory`, `demo/ControlledDemoFaucet`) | registry; configured factory, claimed treasuries, reserve | `createTreasury`; `configureFactory`, `claim` |
| **Product runner** (`agent/src/schemaV1ProductRunner.ts`, `policySubmitter.ts`) | treasury index, scan position, batch cursor; the queue of a cycle | `cycle`: discover, observe twice, prove, derive, ask the model, rebuild, preview, submit |
| **Strategies** (`agent/src/strategies`, `aiDecision.ts`, `proposals/builder.ts`) | claimed and invalidated candidates of a context | candidates per strategy, priority, the model's answer, proposal |
| **Gas sponsor** (`agent/src/sponsor*.ts`) | ledger file and lock file, used authorisations, a promise chain | `reserve`; `issue`, `consume`; `topUp` |
| **Audit projection** (`agent/src/audit`) | attempts with canonical or orphaned status, decisions | `ingest`, `reconcileBlock`, `putDecision`, `replay` |
| **Legacy** (`ASCTreasuryJournal`, `tenantRunner.ts`, `ethereumMarketWatcher.ts`, ...) | poll cursor, decision cache, reasoning files; journal per instance | poll, prove, decide, store, `executeArbitrage` |
| **Owner's console** (`frontend/src/routes`, `frontend/src/lib`) | session, form, views, actions under way; table of instances | sign in, mandate, launch, discover, enable, pause, close |
| **Operator's scripts** (`agent/src/*Smoke.ts`, `contracts/script`) | manifest, deployment files | smoke tests, deployments, market controller |
| **SQL, assets** | tables, presentation | |

How they interact. The runner reads the factory's events and each treasury's
mandate, publishes two observations, waits for the attestation of both heights,
builds and previews a proposal and sends it; the treasury trusts none of it and
calls the validator (which calls the native prover and chain info), the adapter
(which calls the router) and itself. The factory deploys and configures a
treasury in one transaction; the faucet asks the factory's registry, and a demo
treasury pays the faucet when it is closed. The indexer reads what treasuries
emitted. The console asks the sponsor for gas before each of the owner's
transactions. Everything on the chain is serialised by it: the hard part there
is the order of transactions, what has changed since a proposal was made, and
calls that fail in the middle. Outside the chain it is crashes, lagging or
reorganised chains, clocks, retries, and answers that arrive out of order.

What makes each correct:

- Treasury: nothing executes twice, nor after the owner revoked it, nor beyond
  the limits of an epoch and a day; the journal accounts for the counters;
  closure is final.
- Policy engine: an approved amount is covered, bounded by the caps, priced no
  worse than the owner allows, and the strategies of one policy do not trade
  against each other.
- Market facts: accepted evidence is two genuine, recent, ordered observations.
- Faucet and factories: controlled assets never become the owners'.
- Runner: every eligible treasury is served again and again; a cycle ends; what
  the chain rejects was overtaken after its preview.
- Strategies: what the agent proposes is what the treasury permits, and the
  model can only agree.
- Sponsor: the daily budget survives crashes and clocks; an authorisation is
  used once; every request is answered.
- Projection: a run that ends well leaves the chain's rows, what is marked as
  orphaned is gone from the chain, a replay's verdict stays.
- Legacy: one execution per fact, explained by the reasoning that was stored.
- Console and scripts: steps that are done are not repeated, only own treasuries
  are shown, nothing is left open, evidence is true.

## Modules

| Module | What it models |
| --- | --- |
| `MarketFact` | `verifyPair` and `decode`: the reason of the first failing check, in the order of the code |
| `TreasuryPolicy` | the policy engine, as operators on a view of policy, balances, market and usage |
| `FairWitnessTreasury` | the treasury: one action per transaction, and the surroundings (time, attested height, market, transfers) |
| `BoundedExecution` | what a treasury promises: a key executes at most once, a period takes at most its cap |
| `DemoLifecycle` | factories, faucet, treasuries and wallets as one ledger |
| `TreasuryRotation` | the runner's loop: incremental scan, batch cursor, mandates, the queue |
| `RotationQueue` | what the scheduling promises: a queue whose front is taken and put behind |
| `ProductRunner` | one cycle after its batch is chosen, against a moving destination |
| `AgentStrategies` | the agent's strategies, the model's boundary and the builder, beside the treasury's evaluators |
| `GasSponsor` | top-ups and the ledger behind its lock file, file operation by file operation |
| `SponsorAuthorization` | the sponsor's challenges |
| `AuditProjection` | ingestion, reconciliation and decisions, in memory and in the database |
| `LegacyRunner` | the first generation: watcher, proofs, decisions, reasoning files, journal, replay viewer |
| `MandateForm` | the mandate form: validation and conversion |
| `OwnerConsole` | the owner's browser: sessions, launch, dashboard, actions |
| `InstanceViewer` | the page of one instance of the first product |
| `DemoOperations` | smoke scripts, deployments and the market controller in several terminals |
| `MCTreasury`, `MCStrategies`, `MCDemo` | values for constants, by question |
| `MCExecution`, `MCEvaluation`, `MCOperations`, `MCRotation`, `MCRunner`, `MCSponsor`, `MCViewer`, `MCAudit`, `MCLegacy`, `MCConsole` | what the runs check |
| `Totals` | lemmas about sums over finite sets |
| `FairWitnessTreasury_proofs` | proofs about the market facts, the policy engine, the treasury and the agent's strategies |
| `DemoLifecycle_proofs` | about faucet and factories, and the operator's scripts |
| `GasSponsor_proofs`, `LegacyRunner_proofs`, `ProductRunner_proofs`, `TreasuryRotation_proofs` | about the module each is named for |
| `Clients_proofs` | about the form, the owner's console, the instance page, the sponsor's challenges and the audit projection |

`FairWitnessTreasury` EXTENDS `TreasuryPolicy`, which EXTENDS `MarketFact`, and
instantiates `BoundedExecution` with a refinement mapping. `AgentStrategies` and
`MandateForm` EXTEND `TreasuryPolicy` as well: the agent's mirror and the form
are compared with the contract's own operators. `TreasuryRotation` instantiates
`RotationQueue`, `OwnerConsole` EXTENDS `MandateForm`. `DemoLifecycle`,
`DemoOperations` and `ProductRunner` are compositions of their own, in which a
treasury is reduced to what the question needs.

Two questions whose modules share no state are asked in one run with a variable
`question`: it is chosen at the start, and only the actions of the question
asked are enabled. This multiplies no state space.

### The treasury

Variables carry the names of the contract's storage. `revoked` and `received`
are history variables: the policy hashes replaced so far, and what has been paid
to the owner and to the demo reserve. `now`, `attested` and `market` are what
the contract reads of its surroundings. A call that reverts is no step.

`SubmitProposal` is the whole transaction. Its guard, `Admits`, is the three
reverts at its start; then the attempt is counted and one of four things
happens: `RejectUnchecked` (a universal check fails: only the journal changes),
`RejectEvaluated` (proposal and nonce are spent, evidence or strategy refuse),
`Execute` (limits consumed, swap done), `FailExecution` (the self-call reverts:
its writes are undone, the proposal stays spent). `Execute` and `FailExecution`
are both possible whenever a proposal is approved: adapter, router or token may
refuse for reasons of their own. `FirstReason` is the ladder of early returns.

Abstractions. Hashes are injective: an id is what it commits to. A Merkle and
continuity proof stands for the transaction it carries; the native prover
accepts it when the transaction is on the source chain at that height. The
policy hash is `<<mode, epoch>>`, all that varies of it in one treasury. The
swap pays the minimum plus a surplus from a small set. Commitments a proposal
must not leave zero are one flag. Prices and amounts keep the code's integer
arithmetic, including every rounding; the 10^18 of the code is `WctcUnit` and
2^128 - 1 is `MaxUint128`. Fields that are only recorded (`evaluatedStateHash`,
`referenceBps`, ...) are left out of the journal. The owner is one actor:
`transferOwnership` is OpenZeppelin's, and does not touch what is modelled.

### The agent

`TreasuryRotation` has one action per RPC call of `cycle` up to the queue, so
that creations, mode changes, failures and a restart come between any two; a
scan that fails in the middle of a chunk keeps what it has indexed. With
`Lagging` a call may be answered by a node behind the head. `ProductRunner` goes
on where a batch has been chosen. Its `Strategies` stand for execution intents,
a strategy together with its direction (`sameExecutionIntent`); market and
portfolio of a treasury are reduced to the trade they call for. The host's clock
and the chain's reach midnight in either order: the candidate takes its daily
allowance from the first (`DeriveCandidate`), the treasury from the second
(`Verdict`). A send that fails may have been broadcast; after a restart a
transaction stays behind that nobody remembers.

`AgentStrategies` evaluates the agent's code and the contract's operators on the
same context. A context stands for the hashes that commit to it. The cycle object
`StrategyEvaluationCycle`, which the tests use and the product runner does not,
guards the order of claim, answer and proposal.

`GasSponsor` has one action per file operation of `SponsorBudget.reserve`: create
the lock, check, rename, synchronise, remove. `ledger` is what a process reads
and `durable` what a loss of power is certain to leave. `charged` counts what
was reserved per day, `sent` what was broadcast. A process serves its queue one
request at a time (`sponsorSerial`), and several processes may share a ledger.
`SponsorAuthorization` keeps the process's secret and the nonces it consumed; a
restart forgets both.

`AuditProjection` lets the chain reorganise between the indexer's reads: logs, a
record at a height, an upsert. `InDatabase` chooses the repository, the one the
programs write to or the one in memory, whose constraints differ: the table
merges by attempt id and takes a log only once, the map refuses another log for a
canonical row. `auditIndexer` is a program that runs once and ends (`pc` is "done"
after a run without an error); nothing runs it again, and nothing calls
`reconcileBlock` or `putDecision`. The model lets somebody do so and claims
nothing that depends on it. A transaction mined again at another place is
refused in the database while another row still has its log, and then the run
ends with an error (`Refusal`).

`LegacyRunner` reduces an observation to the block it is in, with two faces: the
call, of which the journal decodes the price (`DecodePriceObservation`: target,
length of the calldata, selector), and the `MarketPriceObserved` event, from which
the watcher reads it (`priceE6`). The two need not agree, and nothing in the code
makes them. With the contracts of the repository they do not meet at all:
`EthereumV3MarketObserver.observe()` emits the event, but the journal refuses its
four bytes of calldata, and `PriceObservation.observePrice` emits another event,
which the watcher does not look for. Executions need a deployment in which the
`PRICE_CONTRACT`'s call emits the event as well; the run has both kinds. Any call
of the watcher fails over to another endpoint, which may fail or lag: the answer
is any height from the head back to `MaxLag`. Retries and the primary endpoint's
precedence only decide which of these answers it is, and are abstracted. The
replay viewer reads one instance, the configured one (`TreasuryAddress`), and
explains the executions of this agent.

### The console and the operator

`OwnerConsole` keeps a flow per owner action, with the transaction it has sent;
leaving or reloading the page ends the flow, not the transaction. The form and
the launch page run one flow at a time (`Idle`). The dashboard keeps one address
in `busy` and disables only that card's buttons, so that actions on two
treasuries can be under way on one page, and the one that ends first enables all
buttons again (`Advance`). `rows` is the table of instances, which the console does not trust. What a view shows of a
treasury besides its address is left out. `InstanceViewer` models each read of
an effect by the address it was started for; a cancelled one writes nothing.
`DemoOperations` runs the scripts call by call, with one agent key and one owner
key in several terminals; `CallFails` and `ProcessEnds` come between any two.

## Runs

| Run | Question | Properties |
| --- | --- | --- |
| `execution` | can anything be verified or executed twice, after its policy was replaced, or after the closure; do counters, journal and budgets agree at their caps? | `OneExecutionPerObservationPair`, `AuthorisedOnce`, `RevokedNeverExecutes`, `ClosedIsFinal`, `JournalMatchesCounters`, `DailyRiskBudget`, `ImplementsBoundedExecution` |
| `evaluation` | are approved amounts right wherever market and balances go; what passes as evidence, and when? | `TypeOK`, `StrategiesNeverOppose`, `RiskSaleKeepsLimit`, `VerifiedEvidenceIsGenuine`, `ExecutedWhileFresh` |
| `demo` | can the faucet's funds become the owners'; what do overlapping operator scripts leave behind? | `OwnersGainNothing`, `OneGrantEach`; `NothingLeftOpen`, `EvidenceHolds`, `RecordedIsBuilt` |
| `demo_closed` | are a closed demo treasury's assets back with the faucet? | `ClosedAssetsReturned` is violated |
| `rotation` | is a treasury missed, or starved? | `IndexComplete`, `EveryTreasuryServed`, `ImplementsRotation` |
| `runner` | what does a cycle send while everything moves, and does it end? | `RejectedOnlyIfOvertaken`, `WritesSerialized`, `CycleEnds` |
| `sponsor` | do budget and cooldown survive crashes, power losses and clocks? | `ChargedWithinBudget`, `SentIsAccounted`, `CooldownKept`, `RequestsAnswered` |
| `viewer` | does the agent propose what the treasury permits; does an instance's page show that instance? | `MirrorAgrees`, `WaitsOnlyIfRefused`, `ModelOnlyAgrees`; `ViewSettles` |
| `registration` | is the registration beside the guardrails of an instance its own? | `RegistrationIsItsOwn` is violated |
| `history` | is a canonical row of the projection ever rewritten? | `NotRewritten` is violated |
| `legacy` | is a fact executed once, and every execution explained? | `OncePerFact`, `ExecutionsExplained` |
| `console` | does the browser repeat, mix up or mis-validate; is a challenge accepted twice; is the projection the chain's? | `RepeatedOnlyIfOvertaken`, `ShownIsOwned`, `ValidatedIsAccepted`; `AcceptedOnce`; `RunsFaithful`, `OrphanedIsGone`, `VerdictKept` |

Three runs end in a violation, and are findings:

- `demo_closed`. The comment of `ControlledDemoFaucet` (lines 14-15) says that
  closed demo treasuries return their assets; `claim` does not ask whether the
  treasury is closed, so a grant claimed after the closure stays in a treasury
  that can neither be closed again nor withdrawn from. Anyone may make that
  claim.
- `registration`. On the page of an instance (`frontend/src/routes/Treasury.tsx`)
  a read of guardrails or balance that fails replaces what was shown before; the
  read of the agent's registration has no such branch. When it fails, the answer
  for the instance before stays beside the guardrails of the new one.
- `history`. After a reorganisation a run of the indexer merges the log of
  another transaction into the row of an attempt that nobody has marked as
  orphaned. `docs/AUDIT_DATA_DICTIONARY.md:60` asks not to rewrite history
  silently, and the repository in memory, which claims the contract of the
  database (`agent/src/audit/memoryRepository.ts:6`), refuses it.

Each property has a variant of the code, in the modules as "Variant for the
sensitivity runs", that makes its run fail: a missing check, a limit not
written, a reset forgotten, a receipt not awaited.

### What holds only under a condition

Some properties name the condition under which the code keeps them. Without it
the code does otherwise, and no test or document of the repository rules it out
except where one is quoted.

- `AcceptedOnce`: while the clock is not set back. Past the expiry of a purged
  nonce a clock set back lets it be accepted again, although
  `docs/DEPLOYMENT.md:89` speaks of a single-use signature.
- `RunsFaithful`: of a run that ended without an error and during which the chain
  did not reorganise. A reorganisation in between leaves what the log read first
  said; so does a run that is refused half way.
- `IndexComplete`: when one node answers both the height and the events. With
  `Lagging = TRUE` an event of a chunk already counted as scanned is missed for
  as long as the process lives.
- `WritesSerialized`: until a call fails or the process restarts. After a restart
  the runner does not query pending transactions, although
  `docs/architecture/DATA_FLOW.md:100` says so; the treasury refuses the second
  execution (`OneExecutionPerObservationPair`).
- `MirrorAgrees`: the agent does not look at the epoch's execution count, at an
  output that rounds to nothing or does not fit `uint128`, or at an edge beyond
  16 bits.
- `CooldownKept`: while the clock is not set back by more than an entry is kept
  beyond the cooldown. If it runs ahead until the entry is dropped and is then set
  back by more, nothing is left to refuse a second top-up.
- `NothingLeftOpen`: unless the very call that pauses or clears fails, or the
  process is ended. An enable transaction whose receipt is lost leaves the
  treasury active.
- `ExecutionsExplained`: in the configured instance, the reasoning that is executed
  is the one stored, at the prices of the events the watcher saw. What the instance
  itself has decoded may differ, and the viewer does not compare. The decision cache, of which `agent/src/decisionEngine.ts:61` says that a restarted
  agent reuses its decision, lives in memory only, and its key leaves out three
  of the guardrails.

### Bounds

Every bound is a constant named `Max...` and stands in a guard, so that most runs
have final states and `CHECK_DEADLOCK` is off there (`rotation` checks it: the
loop never stops). They are enough for these questions:

- `execution`, question "replay": two attempts by two agents with three policy
  epochs cover "first, again by the other, again after pause and resume"; five
  proposals differ from the first in nonce, evidence location or policy epoch.
  Question "limits": epochs of two time units and days of three over times 0 to
  3 give an epoch boundary inside a day and a day boundary inside an epoch;
  three attempts reach caps of one and two executions, and of two and three
  attempts, and the daily budget binds at the second sale.
- `evaluation`, question "pricing": one attempt over five markets, two balances
  and two valid policies (a third is refused by `ValidPolicy`): every strategy
  executes in every direction it can. The evaluators' `InsufficientBalance` is
  never the reason: the permitted value is already bounded by what the balance
  is worth at the price it is converted back with. Question "gate": five source
  blocks, a confirmation gap and proof age of two, time beyond every deadline;
  two attempts.
- `demo`: two grants, three treasuries, one unit of the owners' own money; two
  scripts in two terminals with one mishap, enough for every pair of scripts to
  overlap at every pair of calls. Nonces up to 12 let two stepwise deployments
  run.
- `rotation`: three treasuries and batches of two, so that the cursor's modulus
  changes and wraps; chunks of two blocks over three, so that a scan has a second
  chunk; one failure and one restart.
- `runner`: one treasury that may call for three different trades, two of them
  of one intent, and one with a single trade; two days; one mode change, one
  failure, one restart, which leaves a transaction behind; one cycle.
- `sponsor`: two servers and two wallets, three days, a budget that takes a
  full top-up and a partial one but not two full ones; one fault, at any step (a
  crash, a power loss, a failed write or call), the clock back once.
- `viewer`: every policy, balance, market and evidence of `MCStrategies` lies at
  or next to a threshold of an evaluator; one change of the view and two
  contexts, so that a candidate outlives the context it was made in. For the
  page, two instances, an account and a text that is no address, two switches.
- `history`, and the third question of `console`: three blocks, one reorganisation
  at any depth, one run that is cut short, two transactions in either repository
  or two writers of one decision in the database. A row can be ingested,
  replaced, orphaned and ingested again.
- `legacy`: three source blocks; what is watched is the `PRICE_CONTRACT`, with one
  call whose event reports its price and one whose event does not, or the
  repository's observer, whose calls no instance reads; two tenants whose
  guardrails part at these prices; endpoints one block behind; two answers of the
  model; two epochs; any number of restarts.
- `console`: an old, a current and a new treasury, two accounts, two actions
  under way, two pages left or loaded again; each form field at and around its
  limits. Two challenges and one restart for the sponsor.

### Fairness

Nobody has to send a transaction: nothing is claimed to happen on the chain by
itself, except that what was broadcast is mined.

- `TreasuryRotation`: weak fairness of `Loop`. `main` runs `cycle` in a
  `while (true)` and catches what it throws; calls fail only `MaxFailures` times.
- `ProductRunner`: weak fairness of the runner's step and of mining; `Preview`
  and `Refresh` are bounded by the rebuild counter alone, `CycleEnds` needs
  nothing of the market.
- `GasSponsor`: weak fairness of each process's step and of mining. The promise
  chain starts the next request when the one before is settled. A request of a
  process that crashes is not answered and not waited for.

## Proofs

Proved by TLAPS for every value of the constants that satisfies the assumptions
of the modules. Every safety invariant and every action property of the runs that
pass is a theorem, and so are both refinements. `PROJECT.json` lists the theorem
of each.

What is assumed of the constants is what the code's types and set-up give: units
and bounds are natural numbers; policies, markets, proposals and decoded events
have unsigned fields; there are finitely many treasuries, and finitely many
transactions and writers of the projection; a form's draft holds numbers
(`MandateDraft`); a page without an address (`Unset`) and an absent row
(`Nothing`) are no instance and no transaction. `StrategiesAssumption` says that
the runner's first view comes from a treasury whose drift and deviation limits are
`uint16`, as the ABI reads them.

Three theorems have a hypothesis of their own:

- `CooldownHolds`: `MaxRollback <= Retention - Cooldown`, the condition named above.
- `NoTreasuryLeftBehind`: `Lagging = FALSE`, the condition named above.
- `LaunchRepeatsNothing` and `ValidatedMandateFits`, of one invariant: `EpochBounds`,
  the bounds of an epoch in the contract contain those of the form (60 seconds,
  30 days), which the constants of the contract do.

### The treasury

- `TypeCorrect`: `Spec => []TypeOK`. The inductive invariant is
  `IInv == TypeOK /\ ValidPolicy(policy)`: that balances stay non-negative rests
  on `ApprovedEvaluation`, which needs the constructor's checks (a slippage
  limit of at most 10%, positive edges and epochs) to bound what the evaluators
  compute. `ApprovedEvaluation` itself goes evaluator by evaluator from lemmas
  about `FirstReason` and integer division.
- `StepResolves` says what any step does to the journal: nothing, or one
  attempt of four kinds, each with what it implies for nonces, keys and
  counters. The safety theorems rest on it rather than on the actions.
- `ClosureFinal`: with `ClosedPaused`, a closed treasury is paused.
- `RevocationHolds`: with `RevokedEarlier`, every revoked hash has an epoch
  before the current one; an execution's hash is the current one.
- `AuthorisationOnce`, `ExecutionOnce`: with `ReplayInv`, every attempt that
  reached the verifier is in the spent sets, every executed one has its key in
  `executedEvidence` and its evidence hash equal to its verified observations.
- `CountersMatch`: each step adds at most one index to the sets that are
  counted, so that the cardinalities go up as the counters do; the invariant is
  `JournalMatchesCounters` itself beside `IInv`.
- `RiskBudgetKept`: the counter of a day is the `Total` of what the journal says
  was permitted on it, and no counter is above the budget (`BudgetIsTotal`).
  `Totals` shows that `MapThenSumSet`, a recursive function over subsets that
  takes out a chosen element first, is such a total, and that a total does not
  depend on the order: removing any element takes its weight away. The proof goes
  by a smallest subset that fails, since induction is not available.
- `TreasuryRefines`: the treasury implements `BoundedExecution`, an execution
  maps to `Execute` of its key in its epoch, every other step to a stutter.
- `EvidenceGenuine`: `VerifiedProofs` turns the ladder of checks into facts about
  the two transactions; that they stay attested follows from the attested
  height, which only grows.
- `ExecutionFresh`: an action property from `UniversalReasonResult` and
  `PricedWithinPolicy`; it needs no invariant beyond `IInv`, because the code
  checks again what it decides in the block that decides it.
- `StrategiesAgree`: from the constructor's rule that the exposure limit lies
  above the band, with the prices of both evaluators compared through their
  integer divisions.
- `RiskSalesBounded`: bounds each rounding between the permitted value and the
  amount that is sold.

### The agent

- `MirrorIsFaithful`, `NothingOverlooked`: `StrategiesInv` says that what was
  selected is what the context shows and that a proposal is built of it. That the
  treasury permits it is proved check by check for each strategy: the agent's
  fast price against the contract's, its clamped amount against the permitted
  value, its minimum against the contract's. Conversely each reason for which an
  evaluator refuses is a reason for the strategy to find nothing.
- `ModelDecidesNothing`: `ApprovedInv` says that past the answer there is an
  acceptable one for the strategy selected. `AgentTyped` follows from
  `StrategiesInv`.
- `RejectionsOvertaken`, `SerialWrites`, `RunnerTyped`: `RunnerInv` says where the
  runner is with which context (`Staged`), that a queue names a treasury once
  (`QueuedOnce`), that what this cycle has attempted
  is not queued again, but for the transaction it waits for (`Attempted`), that
  what has been previewed is current unless it is marked overtaken (`UpToDate`),
  and that at most one transaction waits (`Serial`).
- `RotationInvariant`, `NoTreasuryLeftBehind`: `RotationInv`. Every treasury below
  the next block to scan is indexed, although a chunk is indexed event by event
  and may end in the middle; the scan is never ahead of the chain (`ScanBounded`), so
  that a treasury created later is in a block still to be scanned.
- `BatchesAreTurns`: `TreasuryRotation` implements `RotationQueue` for any batch
  size. The index read from the cursor on is the queue; taking a batch moves the
  cursor modulo the length, which is to take the front and to put it behind.

### The surroundings

- `GrantsCovered`: `FaucetInv` adds to `OneGrantEach` that all balances are
  amounts, so that a closure never lowers the reserve; a claim takes one grant and
  adds one to the cardinality of `claimed`.
- `OwnersGetNoGrant`: `OwnersInv` adds `LifecycleOK` (a demo treasury is made and
  configured in one step, and pays the faucet) and bounds wallets and the `Total`
  of the owners' treasuries together. An exchange may move worth between the two
  assets, never add any.
- `NothingStaysOpen`, `EvidenceIsTrue`, `DeploymentsAreBuilt`: one invariant,
  `OperationsInv`. While nothing was abandoned, what is open has a running script
  that is past its opening and before its closing, and an opening under way has its
  script (`ClosersOK`); a run has at most one transaction of a kind (`OneEach`), so
  that a receipt is of the step the script is at; a script at step k has built
  the steps before (`ProgressOK`); what it has read or loaded is true of the
  journal (`KnowledgeOK`). The last is why the "paused" case needs the count of
  attempts, and why the highest attempt will do for the others.
- `BudgetKept`: `SponsorInv` adds that at most one process is in the critical
  section and then the lock exists (`Exclusive`), that the file and what is durable
  of it account for what was charged on their day and nothing was charged on a
  later one (`Covered`), and that a ledger about to be written includes its own
  reservation (`Drafted`). It does not depend on the clock: the day of a ledger
  never falls.
- `SentAccounted`: `AccountInv` sums what is issued, which is what was sent and
  what is reserved and about to be sent; per day it is at most what was charged.
- `CooldownHolds`: `CooldownInv` says that both ledgers remember each top-up, or it
  is so old that no clock within the bound can come near it again.
- `ChallengeOnce`: `AuthorizationInv` adds that what was accepted is remembered,
  has expired, or is of an earlier process (`Spent`), which a clock that goes
  forward never undoes.
- `FactOnce`, `AllExplained`: `LegacyInv` says that the process works on
  observations that exist (`FactsExist`), that a file's name is the hash of what
  is in it (`FilesHonest`), that the reasoning of what is being sent is stored,
  and that so it is of what is pending and journalled.
- `VerdictStays`, `ProjectionTyped`: `AuditInv`, in four parts for chain, reads,
  rows and decisions. A fresh hash is always left because a reorganisation takes
  at most the height of the chain; what was read lies on the chain's heights,
  because a reorganised chain is never shorter.
- `OnlyGoneOrphaned`: `PlacesInv`. A hash belongs to one height and fresh ones are
  larger than any used, so that a block that has left the chain does not return,
  and the verdict of a reconciliation stays right until it is applied.
- `RunsAreFaithful`: `Ingesting => Ingested`. While the chain stands still, the rows of the logs
  that are passed are the chain's and what is left is the rest of its logs; an
  upsert does not touch the rows before it, since each log brings its own id, and a
  refusal does not end in "done".
- `LaunchRepeatsNothing`, `ValidatedMandateFits`: `FlowInv`. A flow about to send
  has seen what the chain says or was overtaken, and what it deploys has passed
  the form; `ValidatedMandate` compares the form's checks with the constructor's, bound
  by bound.
- `DashboardIsTheOwners`: `ViewInv`. A discovery still mounted is one for the
  account of the session, and asks only for treasuries the current factory knows.
- `PageSettles`: `ViewerInv`. A read that is not cancelled is of the selected
  address; a part of the page is either still being read, or the address's own, or
  says that it failed.
- `OperationsTyped`, `SponsorTyped`, `ChallengesTyped`, `LegacyTyped`,
  `ConsoleTyped`: the type invariants. `LegacyTyped` holds a bound the code
  promises, that no execution exceeds `maxTradeSize`, and needs for it that an
  execution has an edge, hence two different prices.

### Only model-checked

Liveness under fairness is out of the prover's reach: `EveryTreasuryServed`,
`CycleEnds`, `RequestsAnswered`. So is the type invariant of
`TreasuryRotation` as a whole: `mandates` is what `SelectSeq` picks, which is
defined by recursion and of which the prover knows nothing; `RotationInvariant`
has the types of the rest. `ClosedAssetsReturned`, `RegistrationIsItsOwn` and
`NotRewritten` are violated by the code, as described above.

## Not modelled

- Tick and square-root price arithmetic (`V3TickMath`, the price libraries) and
  the observer that uses it: 256-bit numbers, which TLC does not have.
- The steps inside `PenguinV3Adapter.swapExactInput`, a sequence of transfers and
  balance checks in one transaction. The treasury's model takes from it that a
  swap pays at least the minimum or reverts.
- Hash and ABI encodings; the text of decisions, and the timestamp and rationale
  of the legacy's reasoning; HTTP parsing and the health endpoint of the sponsor.
- The contents of the console's views, `ownerExit` in the browser, the demo mode
  of the data provider. The instance page takes an RPC failure while it probes
  the journal for the journal's end (`contractReader.ts:78`), so that the length
  shown may be too small; `ViewSettles` bounds it from above only.
- One-shot scripts of the operator that keep no state (`audit-live-path.js`,
  `register-agent.js`, `registerAgentPerTenant.ts`, `fundPerTenant.ts`,
  `deploy-factory.js`) and `deploy-controlled-schema-v1.js`, whose constructor
  call no longer fits the factory.
- SQL, row level security, the table of demo requests, assets, test mocks.

`PROJECT.json` lists each component with its reason, and every hazard found in
the code with the properties that cover it. Two hazards have none: the adapter's
checks above, and that a launch repeated in the browser may create a second
treasury, which no document excludes.

## Plan

What is left, in the order of its worth:

1. The adapter, call by call, with a router that may take less, pay less or
   report otherwise; it should implement the outcome the treasury assumes of it,
   which is then worth proving as a refinement.
2. `mandates` in the type invariant of `TreasuryRotation`: the model would have to
   say which treasuries `SelectSeq` picks in a form the prover can expand.
3. `ScanChunk` over nodes at different heights, should the runner come to scan
   only up to a depth that every node has.
