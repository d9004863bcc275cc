------------------------------ MODULE LegacyRunner ------------------------------
(***************************************************************************)
(* The multi-tenant agent of the first contract generation: a watcher of   *)
(* the source chain behind failing and lagging RPC endpoints, proofs that  *)
(* have to wait for attestations, one decision per tenant by a language    *)
(* model, its reasoning in files, and ASCTreasuryJournal.executeArbitrage. *)
(* The source chain, its attestation, the destination market and the       *)
(* owners go on between any two steps; the process restarts at any of them *)
(* and loses its cursor and its decisions, not its files.                  *)
(*                                                                         *)
(* The watcher and the instances read a source transaction in two ways: the*)
(* watcher the price in the event of the observer it is pointed at, the    *)
(* instance the argument of a call of its PRICE_CONTRACT. Which contracts  *)
(* these are is up to the deployment, and nothing makes the two agree.     *)
(*                                                                         *)
(* A block holds at most one observation, so that a height names a fact.   *)
(* Rationale and timestamp of a reasoning payload are left out: they only  *)
(* make its hashes more distinct.                                          *)
(***************************************************************************)
EXTENDS Integers, Sequences, FiniteSets, FiniteSetsExt

CONSTANTS
  Tenants,       \* treasury instances
  Files,         \* what the tenants file may hold: sequences of instances, or None
  TreasuryAddress, \* the instance served when there is no file
  Guardrails,    \* per tenant: the instance's immutables
  PriceContract, \* PRICE_CONTRACT, whose calls the instances read
  Observations,  \* source transactions on which the watched observer reports
  DestPrices,    \* prices of the destination pool
  Lookback,      \* lookbackBlocks of the first poll
  ConfirmGap,    \* CONFIRM_GAP_TARGET_BLOCKS
  Window,        \* how far pollAt looks beyond its target
  LocalEstimate, \* MIN_ARB_WIDTH_BPS_LOCAL_ESTIMATE
  MaxHeight,     \* bound on the source chain
  MaxLag,        \* bound on how far an endpoint lags behind
  MaxAnswers,    \* bound on the model's answers
  MaxEpoch,      \* bound on the epochs of the rate limit
  None

ASSUME LegacyAssumption ==
  /\ Files \ {None} \subseteq Seq(Tenants) /\ TreasuryAddress \in Tenants
  /\ Guardrails \in [Tenants -> [maxTradeSize : Nat, minArbWidthBps : Nat \ {0},
                                 maxDriftBps : Nat, maxConfirmGapBlocks : Nat,
                                 maxActionsPerEpoch : Nat]]
  /\ \A o \in Observations : o.priceE6 \in Nat \ {0} /\ o.words \in Seq(Nat)
  /\ DestPrices \subseteq Nat \ {0}
  /\ {Lookback, ConfirmGap, Window, LocalEstimate, MaxHeight, MaxLag, MaxAnswers,
      MaxEpoch} \subseteq Nat

VARIABLES
  events,     \* observation in each block of the source chain, or None
  attested,   \* the last attested height
  destPrice,  \* price of the destination pool
  registered, \* instances on which the agent is registered
  epoch,      \* block.timestamp / EPOCH_LENGTH
  journal,    \* per tenant: what the instance executed
  pending,    \* broadcast transactions not mined yet
  file,       \* the tenants file
  files,      \* the reasoning store: payloads by their hash
  pc, runtimes, cursor, source, confirm,
  tenant,     \* index of the runtime whose turn it is
  quote,      \* the destination price this tenant's turn has read
  act,        \* what the model recommends
  cache,      \* decisions of this process
  answers

destination == <<destPrice, registered, epoch, journal>>
chain == <<events, attested, destination>>
proofs == <<runtimes, cursor, source, confirm>>
turn == <<tenant, quote, act>>
vars == <<chain, pending, file, files, pc, proofs, turn, cache, answers>>

Directions == {"SellBaseForQuote", "BuyBaseForQuote"}
SourceHead == Len(events)
Observed(from, to) == {h \in from..to : h \in DOMAIN events /\ events[h] # None}

Init ==
  /\ events = <<>> /\ attested = 0
  /\ destPrice \in DestPrices /\ registered \in SUBSET Tenants
  /\ epoch = 0 /\ journal = [t \in Tenants |-> {}] /\ pending = {}
  /\ file \in Files /\ files = {}
  /\ pc = "start" /\ runtimes = <<>> /\ cursor = None /\ source = None /\ confirm = None
  /\ tenant = 1 /\ quote = None /\ act = FALSE /\ cache = {} /\ answers = 0

--------------------------------------------------------------------------------
(* Prices: what the agent mirrors of the contract *)

MIN_NET_EDGE_BPS == 25

BpsGap(a, b) == IF a > b THEN ((a - b) * 10000) \div b ELSE ((b - a) * 10000) \div a

DirectionFor(conf, dest) ==
  CASE dest = conf -> None
    [] dest > conf -> "SellBaseForQuote"
    [] dest < conf -> "BuyBaseForQuote"

\* Per unit of value put in: the reference when selling, the cost when buying.
GrossEdge(conf, dest) ==
  IF dest > conf THEN ((dest - conf) * 10000) \div conf ELSE ((conf - dest) * 10000) \div dest

EdgeBps(conf, dest) ==
  LET gross == GrossEdge(conf, dest) IN
  IF gross > MIN_NET_EDGE_BPS THEN gross - MIN_NET_EDGE_BPS ELSE 0

--------------------------------------------------------------------------------
(* ASCTreasuryJournal *)

\* Variant for the sensitivity runs: one execution per fact and direction.
ActionKeyDirected(action) == <<action.source, action.direction>>

\* The key binds the instance (the journal it is looked up in) and the fact.
ActionKey(action) == action.source

AlreadyExecuted(t, action) == \E x \in journal[t] : ActionKey(x) = ActionKey(action)

BoundedTradeSize(g, width) ==
  LET scaled == (g.maxTradeSize * width) \div (g.minArbWidthBps * 4)
  IN IF scaled > g.maxTradeSize THEN g.maxTradeSize ELSE scaled

\* Both proofs verify: their blocks are attested and hold the observations.
Verifies(tx) == {tx.source, tx.confirm} \subseteq Observed(1, attested)

\* _decodePriceObservation: the argument of a call of observePrice(uint256) on
\* PRICE_CONTRACT, or None, where it reverts: another contract, another length of
\* the calldata, another selector. What has left an event has succeeded.
DecodePriceObservation(o) ==
  IF o.to = PriceContract /\ Len(o.words) = 1 /\ o.selector = "observePrice(uint256)"
  THEN o.words[1] ELSE None

\* The checks of executeArbitrage, each of which reverts.
Permits(t, tx) ==
  LET g == Guardrails[t] IN
  /\ t \in registered
  /\ ~AlreadyExecuted(t, tx)
  /\ Cardinality({x \in journal[t] : x.epoch = epoch}) < g.maxActionsPerEpoch
  /\ tx.confirm > tx.source /\ tx.confirm - tx.source <= g.maxConfirmGapBlocks
  /\ Verifies(tx)
  /\ LET src == DecodePriceObservation(events[tx.source])
         conf == DecodePriceObservation(events[tx.confirm])
     IN
     \* A price of zero is further from any than a drift bound allows.
     /\ {src, conf} \intersect {None, 0} = {}
     /\ BpsGap(src, conf) <= g.maxDriftBps
     /\ conf # destPrice => tx.direction = DirectionFor(conf, destPrice)
     /\ GrossEdge(conf, destPrice) >= g.minArbWidthBps + MIN_NET_EDGE_BPS

\* What an execution writes into the journal.
Entry(t, tx) ==
  [source |-> tx.source, confirm |-> tx.confirm, direction |-> tx.direction,
   decisionHash |-> tx.decisionHash, epoch |-> epoch,
   size |-> BoundedTradeSize(Guardrails[t],
              GrossEdge(DecodePriceObservation(events[tx.confirm]), destPrice))]

\* A transaction is mined. The swap may fail, and it moves the price.
Mine(tx) ==
  /\ tx \in pending /\ pending' = pending \ {tx}
  /\ \/ /\ Permits(tx.tenant, tx)
        /\ journal' = [journal EXCEPT ![tx.tenant] = @ \union {Entry(tx.tenant, tx)}]
        /\ destPrice' \in DestPrices
     \/ UNCHANGED <<journal, destPrice>>
  /\ UNCHANGED <<events, attested, registered, epoch, file, files, pc, proofs, turn,
                 cache, answers>>

--------------------------------------------------------------------------------
(* The chains and the owners *)

SourceBlock(observation) ==
  /\ SourceHead < MaxHeight /\ events' = Append(events, observation)
  /\ UNCHANGED <<attested, destination, pending, file, files, pc, proofs, turn, cache, answers>>

Attest ==
  /\ attested < SourceHead /\ attested' = attested + 1
  /\ UNCHANGED <<events, destination, pending, file, files, pc, proofs, turn, cache, answers>>

PriceMoves(price) ==
  /\ price # destPrice /\ destPrice' = price
  /\ UNCHANGED <<events, attested, registered, epoch, journal, pending, file, files, pc,
                 proofs, turn, cache, answers>>

\* The owner registers the agent or takes it off the instance.
SetRegistered(t) ==
  /\ registered' = IF t \in registered THEN registered \ {t} ELSE registered \union {t}
  /\ UNCHANGED <<events, attested, destPrice, epoch, journal, pending, file, files, pc,
                 proofs, turn, cache, answers>>

EpochPasses ==
  /\ epoch < MaxEpoch /\ epoch' = epoch + 1
  /\ UNCHANGED <<events, attested, destPrice, registered, journal, pending, file, files,
                 pc, proofs, turn, cache, answers>>

--------------------------------------------------------------------------------
(* The process *)

\* parseTenantsJson: not empty, no instance twice.
ParseTenants(f) == f # <<>> /\ \A i, j \in DOMAIN f : f[i] = f[j] => i = j

\* resolveTenantRoster: without a file the configured instance alone.
Roster == IF file = None THEN <<TreasuryAddress>> ELSE file

\* The guardrails come from the instance, never from the file.
ReadTreasuryGuardrails(t) == Guardrails[t]
CreateTenantRuntime(t) == [instance |-> t, guardrails |-> ReadTreasuryGuardrails(t)]

\* main before its loop; a file that does not parse ends the process.
Startup ==
  /\ pc = "start" /\ (file # None => ParseTenants(file))
  /\ runtimes' = [i \in DOMAIN Roster |-> CreateTenantRuntime(Roster[i])] /\ pc' = "poll"
  /\ UNCHANGED <<chain, pending, file, files, cursor, source, confirm, turn, cache, answers>>

\* The latest block of the endpoint that serves the call: failover tries them
\* all, and any of them may fail or lag.
Latest == {l \in 0..SourceHead : SourceHead - l <= MaxLag}

FromBlock(latest) ==
  IF cursor # None THEN cursor ELSE IF latest > Lookback THEN latest - Lookback ELSE 0

\* pollLatest: the cursor moves before anything is done with the result.
PollLatest(latest) ==
  /\ pc = "poll"
  /\ cursor' = latest + 1
  /\ LET found == Observed(FromBlock(latest), latest) IN
     IF found = {} THEN UNCHANGED <<source, pc>>
     ELSE source' = Max(found) /\ pc' = "filter"
  /\ UNCHANGED <<chain, pending, file, files, runtimes, confirm, turn, cache, answers>>

EndCycle == pc' = "poll" /\ source' = None /\ confirm' = None

\* The gap filter before any proof work.
PreFilter ==
  /\ pc = "filter"
  /\ IF BpsGap(events[source].priceE6, destPrice) < LocalEstimate THEN EndCycle
     ELSE pc' = "sourceProof" /\ UNCHANGED <<source, confirm>>
  /\ UNCHANGED <<chain, pending, file, files, runtimes, cursor, turn, cache, answers>>

WaitUntilReady(height) == height <= attested

BuildSourceProof ==
  /\ pc = "sourceProof" /\ WaitUntilReady(source) /\ pc' = "pollAt"
  /\ UNCHANGED <<chain, pending, file, files, proofs, turn, cache, answers>>

\* pollAt: the first observation at or after the target, up to the end of the
\* window or of what the endpoint has.
PollAt(latest) ==
  /\ pc = "pollAt"
  /\ LET target == source + ConfirmGap
         found == Observed(target, Min({target + Window, latest}))
     IN /\ WaitUntilReady(target)
        /\ IF found = {} THEN EndCycle
           ELSE confirm' = Min(found) /\ pc' = "awaitConfirm" /\ UNCHANGED source
  /\ UNCHANGED <<chain, pending, file, files, runtimes, cursor, turn, cache, answers>>

\* The second wait: the observation may lie above the target.
ConfirmReady == confirm # source + ConfirmGap => WaitUntilReady(confirm)

AwaitConfirm ==
  /\ pc = "awaitConfirm" /\ ConfirmReady /\ pc' = "confirmProof"
  /\ UNCHANGED <<chain, pending, file, files, proofs, turn, cache, answers>>

\* buildProof answers for an attested block only; see CycleFails.
BuildConfirmProof ==
  /\ pc = "confirmProof" /\ confirm <= attested
  /\ pc' = "tenant" /\ tenant' = 1
  /\ UNCHANGED <<chain, pending, file, files, proofs, quote, act, cache, answers>>

\* Any call of the shared half may throw: the cycle is over.
CycleFails ==
  /\ pc \in {"filter", "sourceProof", "pollAt", "awaitConfirm", "confirmProof"}
  /\ EndCycle
  /\ UNCHANGED <<chain, pending, file, files, runtimes, cursor, turn, cache, answers>>

Current == runtimes[tenant].instance
Direction == DirectionFor(events[confirm].priceE6, quote)
Gap == IF Direction = None THEN 0 ELSE EdgeBps(events[confirm].priceE6, quote)

\* The turn of the current tenant is over.
NextTenant ==
  /\ quote' = None /\ act' = FALSE
  /\ IF tenant < Len(runtimes)
     THEN tenant' = tenant + 1 /\ pc' = "tenant" /\ UNCHANGED <<source, confirm>>
     ELSE tenant' = 1 /\ EndCycle

\* A price of its own for each tenant, and the replay pre-flight.
ReadTenant ==
  /\ pc = "tenant"
  /\ IF AlreadyExecuted(Current, [source |-> source,
                                  direction |-> DirectionFor(events[confirm].priceE6, destPrice)])
     THEN NextTenant
     ELSE quote' = destPrice /\ pc' = "decide" /\ UNCHANGED <<tenant, act, source, confirm>>
  /\ UNCHANGED <<chain, pending, file, files, runtimes, cursor, cache, answers>>

\* cacheKey: two of the guardrails only.
CacheKey ==
  <<events[source].priceE6, events[confirm].priceE6, quote, Gap,
    runtimes[tenant].guardrails.maxTradeSize, runtimes[tenant].guardrails.minArbWidthBps>>

\* A decision of this process is used again, else the model is asked.
Decide ==
  /\ pc = "decide"
  /\ \/ \E d \in cache : d.key = CacheKey /\ act' = d.act /\ UNCHANGED <<cache, answers>>
     \/ /\ \A d \in cache : d.key # CacheKey
        /\ answers < MaxAnswers /\ answers' = answers + 1
        /\ act' \in BOOLEAN /\ cache' = cache \union {[key |-> CacheKey, act |-> act']}
  /\ pc' = "store"
  /\ UNCHANGED <<chain, pending, file, files, proofs, tenant, quote>>

\* The payload whose hash goes on the chain.
Payload ==
  [observedGapBps |-> Gap,
   sourcePrice |-> events[source].priceE6, confirmPrice |-> events[confirm].priceE6,
   destPrice |-> quote, outcome |-> IF act THEN "EXECUTE" ELSE "DECLINE",
   direction |-> Direction]

\* Variant for the sensitivity runs: the outcome is not part of what is hashed.
SerializeInputs(payload) == [payload EXCEPT !.outcome = "EXECUTE"]

\* What is hashed: every field of the payload.
Serialize(payload) == payload

\* put: the file named by the hash is written, over an older one of that name.
PutReasoning ==
  /\ pc = "store"
  /\ LET hash == Serialize(Payload) IN
     files' = {f \in files : f.hash # hash} \union {[hash |-> hash, payload |-> Payload]}
  /\ IF act /\ Direction # None THEN pc' = "submit" /\ UNCHANGED <<turn, source, confirm>>
     ELSE NextTenant
  /\ UNCHANGED <<chain, pending, file, runtimes, cursor, cache, answers>>

Transaction ==
  [tenant |-> Current, source |-> source, confirm |-> confirm,
   decisionHash |-> Serialize(Payload), direction |-> Direction]

\* submit: the gas estimate reverts as the transaction would.
Submit ==
  /\ pc = "submit"
  /\ \/ /\ Permits(Current, Transaction)
        /\ pending' = pending \union {Transaction} /\ pc' = "receipt"
        /\ UNCHANGED <<turn, source, confirm>>
     \/ /\ ~Permits(Current, Transaction) /\ NextTenant /\ UNCHANGED pending
  /\ UNCHANGED <<chain, file, files, runtimes, cursor, cache, answers>>

\* tx.wait: the transaction was mined, whatever became of it.
AwaitReceipt ==
  /\ pc = "receipt" /\ Transaction \notin pending
  /\ NextTenant
  /\ UNCHANGED <<chain, pending, file, files, runtimes, cursor, cache, answers>>

\* A call of a tenant's turn throws: the other tenants' turns come nevertheless.
TenantFails ==
  /\ pc \in {"tenant", "decide", "store", "submit", "receipt"} /\ NextTenant
  /\ UNCHANGED <<chain, pending, file, files, runtimes, cursor, cache, answers>>

\* The process ends and is started again.
Restart ==
  /\ pc' = "start" /\ runtimes' = <<>> /\ cursor' = None /\ source' = None /\ confirm' = None
  /\ tenant' = 1 /\ quote' = None /\ act' = FALSE /\ cache' = {}
  /\ UNCHANGED <<chain, pending, file, files, answers>>

Next ==
  \/ \E o \in Observations \union {None} : SourceBlock(o)
  \/ Attest
  \/ \E p \in DestPrices : PriceMoves(p)
  \/ \E t \in Tenants : SetRegistered(t)
  \/ EpochPasses
  \/ \E tx \in pending : Mine(tx)
  \/ Startup
  \/ \E l \in Latest : PollLatest(l) \/ PollAt(l)
  \/ PreFilter \/ BuildSourceProof \/ AwaitConfirm \/ BuildConfirmProof \/ CycleFails
  \/ ReadTenant \/ Decide \/ PutReasoning \/ Submit \/ AwaitReceipt \/ TenantFails
  \/ Restart

Spec == Init /\ [][Next]_vars

--------------------------------------------------------------------------------
(* The replay viewer *)

Stored(hash) == {f \in files : f.hash = hash}

VerifyHash(f) == Serialize(f.payload) = f.hash

\* What it says of a journal entry's reasoning.
Replay(entry) ==
  IF Stored(entry.decisionHash) = {} THEN "missing"
  ELSE IF \A f \in Stored(entry.decisionHash) : VerifyHash(f) THEN "match" ELSE "mismatch"

--------------------------------------------------------------------------------
(* Properties *)

\* The ranges of the state.
TypeOK ==
  /\ \A h \in DOMAIN events : events[h] \in Observations \union {None}
  /\ attested \in 0..SourceHead /\ destPrice \in DestPrices /\ registered \subseteq Tenants
  /\ \A t \in Tenants : \A x \in journal[t] :
       x.direction \in Directions /\ x.size <= Guardrails[t].maxTradeSize
  /\ cursor \in 0..(MaxHeight + 1) \union {None}
  /\ {source, confirm} \subseteq 1..MaxHeight \union {None}
  /\ \A i \in DOMAIN runtimes : runtimes[i].instance \in Tenants
  /\ answers \in 0..MaxAnswers

\* "One execution per fact per instance, by construction ... whichever direction
\* the evidence supports at execution time": not even when a restart, or an
\* endpoint that lags and takes the cursor back, brings the same fact again while
\* its first transaction is still on its way and the price has turned.
OncePerFact ==
  \A t \in Tenants : \A x, y \in journal[t] : x.source = y.source => x = y

\* The replay viewer, which reads the configured instance, explains every
\* execution of the agent there, whichever process made it: the reasoning is in a
\* file, its hash matches, no later decision has been written over it, and it says
\* EXECUTE in the direction of the execution and at the prices that the watcher
\* saw in the two blocks the journal names. What the instance itself has read in
\* them is another matter.
ExecutionsExplained ==
  \A x \in journal[TreasuryAddress] :
    /\ Replay(x) = "match"
    /\ \A f \in Stored(x.decisionHash) :
         /\ f.payload.outcome = "EXECUTE" /\ f.payload.direction = x.direction
         /\ f.payload.sourcePrice = events[x.source].priceE6
         /\ f.payload.confirmPrice = events[x.confirm].priceE6
================================================================================
