----------------------------- MODULE ProductRunner -----------------------------
(***************************************************************************)
(* One cycle of the schema-v1 product runner after its batch is chosen:    *)
(* two observations and their proofs, then for each mandate in turn a      *)
(* candidate, the model's decision, the rebuild loop with its preview, the *)
(* submission and the receipt. The destination chain, its owners, its      *)
(* market and its clock go on between any two steps; calls fail; the       *)
(* process restarts and its transactions stay behind.                      *)
(*                                                                         *)
(* What market and portfolio allow a treasury is abstracted to the trade   *)
(* the deterministic engine finds in them (AgentStrategies compares the    *)
(* agent's engine with the contract's).                                    *)
(***************************************************************************)
EXTENDS Integers, Sequences, FiniteSets, FiniteSetsExt

CONSTANTS
  Treasuries,     \* the autonomous treasuries of the batch
  Offers,         \* per treasury: the trades its market and portfolio may call for
  DailyBudget,    \* dailyRiskReductionValueE6
  MaxJitRebuilds, \* MAX_JIT_REBUILDS
  Days,           \* days of the destination chain and of the host's clock
  MaxCycles,      \* bound on the cycles
  MaxEpoch,       \* bound on the mode changes of all treasuries
  MaxFailures,    \* bound on the sends and receipts that fail
  MaxRestarts     \* bound on the runner's restarts

ASSUME RunnerAssumption ==
  /\ IsFiniteSet(Treasuries)
  /\ Offers \in [Treasuries -> SUBSET [strategy : {"arbitrage", "riskReduction"},
                                     amount : Nat \ {0}]]
  /\ DailyBudget \in Nat /\ MaxJitRebuilds \in Nat
  /\ Days \subseteq Nat /\ 0 \in Days
  /\ MaxCycles \in Nat /\ MaxEpoch \in Nat /\ MaxFailures \in Nat /\ MaxRestarts \in Nat

VARIABLES
  view,       \* the trade the state of the destination calls for, per treasury
  mandate,    \* per treasury: policy epoch, whether AUTONOMOUS, agent registered
  usedByDay,  \* riskReductionUsedByDay, per treasury
  chainDay,   \* block.timestamp / 1 days
  hostDay,    \* Date.now() / 86_400_000
  pending,    \* broadcast transactions not mined yet
  journal,    \* mined transactions with their results
  pc,         \* where the runner is
  queue,      \* mandates still to be run, the current one first
  approved,   \* what the model said EXECUTE to
  candidate,  \* the refreshed candidate
  rebuild,    \* iterations of the rebuild loop
  outgoing,   \* the proposal that passed the submitter's own preview
  pipeline,   \* the status shown for each treasury
  cycles, failures, restarts

chain == <<view, mandate, usedByDay, chainDay>>
run == <<queue, approved, candidate, rebuild, outgoing>>
bounds == <<cycles, failures, restarts>>
vars == <<chain, hostDay, pending, journal, pc, run, pipeline, bounds>>

\* Intents: a strategy together with its direction.
Strategies == {"arbitrage", "riskReduction"}
NoTrade == [strategy |-> "none", amount |-> 0]
Views(t) == Offers[t] \union {NoTrade}
Candidates == {NoTrade} \union [strategy : Strategies, amount : Nat \ {0}]
Mandates == [epoch : Nat, autonomous : BOOLEAN, registered : BOOLEAN]
\* moved: the destination has changed since the submitter's preview.
Proposals == [treasury : Treasuries, epoch : Nat, evidence : Nat,
              strategy : Strategies, amount : Nat, moved : BOOLEAN]
NoProposal == [treasury |-> "none"]
Results == {"EXECUTED", "REJECTED", "REVERTED"}
Statuses == {"none", "working", "waiting", "blocked", "executed", "failed"}

Init ==
  /\ view \in {v \in [Treasuries -> UNION {Views(t) : t \in Treasuries}] :
                \A t \in Treasuries : v[t] \in Views(t)}
  /\ mandate = [t \in Treasuries |-> [epoch |-> 0, autonomous |-> TRUE, registered |-> TRUE]]
  /\ usedByDay = [t \in Treasuries |-> [d \in Days |-> 0]]
  /\ chainDay = 0 /\ hostDay = 0
  /\ pending = {} /\ journal = {}
  /\ pc = "sleep" /\ queue = <<>> /\ approved = "none" /\ candidate = NoTrade
  /\ rebuild = 0 /\ outgoing = NoProposal
  /\ pipeline = [t \in Treasuries |-> "none"]
  /\ cycles = 0 /\ failures = 0 /\ restarts = 0

Least(a, b) == IF a <= b THEN a ELSE b

\* What the state of the destination calls for when day is taken as today.
TradeOn(t, day) ==
  LET left == DailyBudget - usedByDay[t][day] IN
  IF view[t].strategy # "riskReduction" THEN view[t]
  ELSE IF left = 0 THEN NoTrade
  ELSE [view[t] EXCEPT !.amount = Least(view[t].amount, left)]

\* makeContext and deriveCandidate: the day is the host's.
DeriveCandidate(t) == TradeOn(t, hostDay)

\* What submitProposal answers, as a preview or when it is mined.
Verdict(p) ==
  LET m == mandate[p.treasury]
      permitted == TradeOn(p.treasury, chainDay)
  IN CASE ~m.registered -> "reverts"
       [] m.registered /\ (~m.autonomous \/ m.epoch # p.epoch) -> "policy"
       [] OTHER ->
            IF \E x \in journal : x.result = "EXECUTED" /\ x.proposal.evidence = p.evidence
                                  /\ x.proposal.treasury = p.treasury THEN "evidence"
            ELSE IF permitted.strategy # p.strategy THEN "strategy"
            ELSE IF p.amount > permitted.amount THEN "amount"
            ELSE "none"

Current == Head(queue)

\* makeProposal: every execution field comes from the candidate and the mandate.
MakeProposal(c) ==
  [treasury |-> Current.treasury, epoch |-> Current.epoch, evidence |-> cycles,
   strategy |-> c.strategy, amount |-> c.amount, moved |-> FALSE]

--------------------------------------------------------------------------------
(* The destination *)

\* Everything that was previewed has been overtaken by a change.
Overtaken(p) == [p EXCEPT !.moved = TRUE]
DestinationMoves(t) ==
  /\ pending' = {IF p.treasury = t THEN Overtaken(p) ELSE p : p \in pending}
  /\ outgoing' = IF outgoing # NoProposal /\ outgoing.treasury = t
                 THEN Overtaken(outgoing) ELSE outgoing

MarketMoves(t) ==
  /\ view' \in {[view EXCEPT ![t] = v] : v \in Views(t) \ {view[t]}}
  /\ DestinationMoves(t)
  /\ UNCHANGED <<mandate, usedByDay, chainDay, hostDay, journal, pc, queue, approved,
                 candidate, rebuild, pipeline, bounds>>

SetAutomationMode(t) ==
  /\ MapThenSumSet(LAMBDA u : mandate[u].epoch, Treasuries) < MaxEpoch
  /\ mandate' = [mandate EXCEPT ![t].epoch = @ + 1, ![t].autonomous = ~@]
  /\ DestinationMoves(t)
  /\ UNCHANGED <<view, usedByDay, chainDay, hostDay, journal, pc, queue, approved,
                 candidate, rebuild, pipeline, bounds>>

DeregisterAgent(t) ==
  /\ mandate[t].registered
  /\ mandate' = [mandate EXCEPT ![t].registered = FALSE]
  /\ DestinationMoves(t)
  /\ UNCHANGED <<view, usedByDay, chainDay, hostDay, journal, pc, queue, approved,
                 candidate, rebuild, pipeline, bounds>>

\* The two clocks reach midnight one after the other, in either order.
ChainDayPasses ==
  /\ chainDay + 1 \in Days /\ chainDay <= hostDay
  /\ chainDay' = chainDay + 1
  /\ pending' = {Overtaken(p) : p \in pending}
  /\ outgoing' = IF outgoing = NoProposal THEN outgoing ELSE Overtaken(outgoing)
  /\ UNCHANGED <<view, mandate, usedByDay, hostDay, journal, pc, queue, approved,
                 candidate, rebuild, pipeline, bounds>>

HostDayPasses ==
  /\ hostDay + 1 \in Days /\ hostDay <= chainDay
  /\ hostDay' = hostDay + 1
  /\ UNCHANGED <<chain, pending, journal, pc, run, pipeline, bounds>>

Mined(p, result) ==
  /\ journal' = journal \union {[proposal |-> p, result |-> result]}

\* A transaction is mined: the treasury decides on the state it finds. What an
\* execution leaves the market in is another view.
Mine(p) ==
  /\ p \in pending
  /\ \/ /\ Verdict(p) = "none" /\ Mined(p, "EXECUTED")
        /\ view' \in {[view EXCEPT ![p.treasury] = v] : v \in Views(p.treasury)}
        /\ usedByDay' = IF p.strategy = "riskReduction"
                        THEN [usedByDay EXCEPT ![p.treasury][chainDay] = @ + p.amount]
                        ELSE usedByDay
        /\ pending' = {IF q.treasury = p.treasury THEN Overtaken(q) ELSE q :
                       q \in pending \ {p}}
        /\ outgoing' = IF outgoing # NoProposal /\ outgoing.treasury = p.treasury
                       THEN Overtaken(outgoing) ELSE outgoing
     \/ /\ Verdict(p) # "none"
        /\ Mined(p, IF Verdict(p) = "reverts" THEN "REVERTED" ELSE "REJECTED")
        /\ pending' = pending \ {p}
        /\ UNCHANGED <<view, usedByDay, outgoing>>
  /\ UNCHANGED <<mandate, chainDay, hostDay, pc, queue, approved, candidate, rebuild,
                 pipeline, bounds>>

--------------------------------------------------------------------------------
(* The cycle *)

Show(t, status) == pipeline' = [pipeline EXCEPT ![t] = status]

\* The run of the current treasury is over, and its pipeline shows status.
FinishTenant(status) ==
  /\ Show(Current.treasury, status)
  /\ queue' = Tail(queue)
  /\ pc' = IF queue' = <<>> THEN "sleep" ELSE "tenant"
  /\ approved' = "none" /\ candidate' = NoTrade /\ rebuild' = 0 /\ outgoing' = NoProposal

\* cycle: mandates of the batch, read before anything else; none, no cycle.
ReadMandates ==
  /\ pc = "sleep" /\ cycles < MaxCycles
  /\ LET eligible == {t \in Treasuries : mandate[t].registered /\ mandate[t].autonomous} IN
     /\ eligible # {}
     /\ \E order \in [1..Cardinality(eligible) -> eligible] :
          /\ {order[i] : i \in DOMAIN order} = eligible
          /\ queue' = [i \in DOMAIN order |->
                         [treasury |-> order[i], epoch |-> mandate[order[i]].epoch]]
     /\ pipeline' = [t \in Treasuries |-> IF t \in eligible THEN "working" ELSE pipeline[t]]
  /\ cycles' = cycles + 1 /\ pc' = "prove"
  /\ UNCHANGED <<chain, hostDay, pending, journal, approved, candidate, rebuild,
                 outgoing, failures, restarts>>

\* publishObservation twice and proofFor both. Any of the calls may fail, and a
\* confirmation that is not later than the source ends the cycle as well.
ProveObservations ==
  /\ pc = "prove"
  /\ \/ pc' = "tenant" /\ UNCHANGED queue
     \/ pc' = "sleep" /\ queue' = <<>>
  /\ UNCHANGED <<chain, hostDay, pending, journal, approved, candidate, rebuild,
                 outgoing, pipeline, bounds>>

\* runTenant: the first context and its candidate.
DeriveInitialCandidate ==
  /\ pc = "tenant"
  /\ LET c == DeriveCandidate(Current.treasury) IN
     \/ /\ c = NoTrade /\ FinishTenant("waiting")
     \/ /\ c # NoTrade /\ approved' = c.strategy /\ pc' = "decide"
        /\ Show(Current.treasury, "working")
        /\ UNCHANGED <<queue, candidate, rebuild, outgoing>>
  /\ UNCHANGED <<chain, hostDay, pending, journal, bounds>>

\* decide: EXECUTE, WAIT, or an answer that is refused.
Decide ==
  /\ pc = "decide"
  /\ \/ pc' = "refresh" /\ UNCHANGED <<queue, approved, candidate, rebuild, outgoing, pipeline>>
     \/ FinishTenant("waiting")
     \/ FinishTenant("failed")
  /\ UNCHANGED <<chain, hostDay, pending, journal, bounds>>

SameExecutionIntent(c) == c.strategy = approved

RebuildsLeft(n) == n < MaxJitRebuilds

\* Variant for the sensitivity runs: a rebuild is not counted.
AfterRebuildUncounted(n) == n

AfterRebuild(n) == n + 1

\* The head of the rebuild loop: a fresh context and its candidate.
Refresh ==
  /\ pc = "refresh"
  /\ LET c == DeriveCandidate(Current.treasury) IN
     IF RebuildsLeft(rebuild) /\ c # NoTrade /\ SameExecutionIntent(c)
     THEN /\ candidate' = c /\ pc' = "preview"
          /\ Show(Current.treasury, "working")
          /\ UNCHANGED <<queue, approved, rebuild, outgoing>>
     ELSE FinishTenant("waiting")
  /\ UNCHANGED <<chain, hostDay, pending, journal, bounds>>

\* The preview of the rebuilt proposal. AMOUNT_EXCEEDS_POLICY (and
\* AMOUNT_MISMATCH, which no treasury returns) rebuilds.
Preview ==
  /\ pc = "preview"
  /\ LET verdict == Verdict(MakeProposal(candidate)) IN
     \/ /\ verdict = "reverts" /\ FinishTenant("failed")
     \/ /\ verdict = "amount" /\ rebuild' = AfterRebuild(rebuild) /\ pc' = "refresh"
        /\ UNCHANGED <<queue, approved, candidate, outgoing, pipeline>>
     \/ /\ verdict \notin {"none", "reverts", "amount"} /\ FinishTenant("blocked")
     \/ /\ verdict = "none" /\ pc' = "submit"
        /\ Show(Current.treasury, "working")
        /\ UNCHANGED <<queue, approved, candidate, rebuild, outgoing>>
  /\ UNCHANGED <<chain, hostDay, pending, journal, bounds>>

\* Variant for the sensitivity runs: the submitter trusts its caller's preview.
PreflightPassesAlways(p) == TRUE

PreflightPasses(p) == Verdict(p) = "none"

\* PolicySubmitter.submit up to the broadcast: its own preview.
SubmitPreview ==
  /\ pc = "submit" /\ outgoing = NoProposal
  /\ LET p == MakeProposal(candidate) IN
     IF PreflightPasses(p)
     THEN /\ outgoing' = p /\ pc' = "send"
          /\ UNCHANGED <<queue, approved, candidate, rebuild, pipeline>>
     ELSE FinishTenant("failed")
  /\ UNCHANGED <<chain, hostDay, pending, journal, bounds>>

\* The broadcast; when the call fails the node may have it nevertheless.
Send ==
  /\ pc = "send"
  /\ \/ /\ pending' = pending \union {outgoing} /\ pc' = "wait"
        /\ UNCHANGED <<queue, approved, candidate, rebuild, outgoing, pipeline, failures>>
     \/ /\ failures < MaxFailures /\ failures' = failures + 1
        /\ pending' \in {pending, pending \union {outgoing}}
        /\ FinishTenant("failed")
  /\ UNCHANGED <<chain, hostDay, journal, cycles, restarts>>

\* Every mined version of the transaction that was sent.
Receipts ==
  {x \in journal : /\ x.proposal.treasury = outgoing.treasury
                   /\ x.proposal.evidence = outgoing.evidence}

StatusOf(result) == IF result = "EXECUTED" THEN "executed" ELSE "failed"

\* Variant for the sensitivity runs: the receipt is not waited for.
AwaitedNever == FinishTenant("failed")

Awaited == \E x \in Receipts : FinishTenant(StatusOf(x.result))

\* tx.wait and what follows it.
AwaitReceipt ==
  /\ pc = "wait" /\ Awaited
  /\ UNCHANGED <<chain, hostDay, pending, journal, bounds>>

\* Waiting for the receipt fails: the next treasury is run.
AwaitFails ==
  /\ pc = "wait" /\ failures < MaxFailures /\ failures' = failures + 1
  /\ FinishTenant("failed")
  /\ UNCHANGED <<chain, hostDay, pending, journal, cycles, restarts>>

\* The process ends and is started again: it remembers no transaction.
Restart ==
  /\ restarts < MaxRestarts /\ restarts' = restarts + 1
  /\ pc' = "sleep" /\ queue' = <<>> /\ approved' = "none" /\ candidate' = NoTrade
  /\ rebuild' = 0 /\ outgoing' = NoProposal
  /\ pipeline' = [t \in Treasuries |-> "none"]
  /\ UNCHANGED <<chain, hostDay, pending, journal, cycles, failures>>

Runner ==
  \/ ReadMandates \/ ProveObservations \/ DeriveInitialCandidate \/ Decide \/ Refresh
  \/ Preview \/ SubmitPreview \/ Send \/ AwaitReceipt

Next ==
  \/ \E t \in Treasuries : MarketMoves(t) \/ SetAutomationMode(t) \/ DeregisterAgent(t)
  \/ ChainDayPasses \/ HostDayPasses
  \/ \E p \in pending : Mine(p)
  \/ Runner \/ AwaitFails \/ Restart

Spec == Init /\ [][Next]_vars

\* The loop goes on while it can, and the chain mines what is sent to it.
FairSpec == Spec /\ WF_vars(Runner) /\ WF_vars(\E p \in pending : Mine(p))

--------------------------------------------------------------------------------
(* Properties *)

TypeOK ==
  /\ view \in [Treasuries -> Candidates] /\ \A t \in Treasuries : view[t] \in Views(t)
  /\ mandate \in [Treasuries -> Mandates]
  /\ usedByDay \in [Treasuries -> [Days -> 0..DailyBudget]]
  /\ chainDay \in Days /\ hostDay \in Days
  /\ pending \subseteq Proposals
  /\ \A x \in journal : x.proposal \in Proposals /\ x.result \in Results
  /\ queue \in Seq([treasury : Treasuries, epoch : Nat])
  /\ approved \in Strategies \union {"none"} /\ candidate \in Candidates
  /\ rebuild \in 0..MaxJitRebuilds
  /\ outgoing \in Proposals \union {NoProposal}
  /\ pipeline \in [Treasuries -> Statuses]

\* The runner does not spend a treasury's attempts on proposals it could have
\* known to be refused: what is rejected on the chain was overtaken by a change
\* after the submitter's preview ("rather than broadcasting stale terms").
RejectedOnlyIfOvertaken ==
  \A x \in journal : x.result # "EXECUTED" => x.proposal.moved

\* A cycle ends, however the destination moves under it: rebuilding is bounded.
CycleEnds == (pc # "sleep") ~> (pc = "sleep")

\* "writes are intentionally serialized: each treasury observes the state left
\* by the prior one": no context is read while a transaction of the runner is
\* on its way, as long as no call has failed and the process lives.
WritesSerialized ==
  failures = 0 /\ restarts = 0 /\ pc \in {"tenant", "refresh", "preview"} => pending = {}
================================================================================
