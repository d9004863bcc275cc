----------------------------- MODULE DemoOperations -----------------------------
(***************************************************************************)
(* The operator's scripts on the public testnet. The smoke scripts take    *)
(* one recorded treasury out of its pause, submit one proposal and record  *)
(* what became of it as evidence; the deployment scripts record new        *)
(* contracts; the market controller moves a pool. They run from several    *)
(* terminals, with one agent key, one owner key and one manifest, and any  *)
(* of their calls may fail or the process end.                             *)
(*                                                                         *)
(* The treasury is reduced to its mode, its policy epoch, the nonces spent *)
(* and its journal. The source chain has transactions of its own: what     *)
(* matters of an observation is the gap between the two.                   *)
(***************************************************************************)
EXTENDS Integers, Sequences, FiniteSets

CONSTANTS
  Terminals,   \* where scripts run
  Gaps,        \* distances between the two observations
  MaxRuns,     \* bound on the scripts started
  MaxMishaps,  \* bound on failing calls and ended processes
  MaxNonce     \* bound on the transactions of the agent key

ASSUME OperationsAssumption ==
  MaxRuns \in Nat /\ MaxMishaps \in Nat /\ MaxNonce \in Nat /\ Gaps \subseteq Nat

VARIABLES
  mode, policyEpoch, spentNonces, attempts, \* the treasury
  holdings,    \* how often its balances have changed
  sent,        \* transactions broadcast
  receipts,    \* those included
  built,       \* what deployments have put on the chain: run, step, address
  allowance,   \* has the router of the market controller an allowance?
  nonce,       \* transactions of the agent key so far
  smokeTests,  \* evidence in the manifest
  deployments, \* deployments recorded in a file
  scripts,     \* what runs in the terminals
  started, mishaps,
  abandoned    \* a script ended while a change of its own was open

operated == <<mode, policyEpoch, spentNonces, attempts, holdings>>
deployed == <<built, allowance>>
files == <<smokeTests, deployments>>
operationsVars ==
  <<operated, sent, receipts, deployed, nonce, files, scripts, started, mishaps, abandoned>>

Strategic == {"arbitrage", "rebalance"}
Risk == {"valid", "oversized"}
Smokes == Strategic \union Risk \union {"paused"}
Stepwise == {"lifecycle", "pool", "market"}

\* The transactions of the other scripts, in order.
LifecycleSteps ==
  <<"faucet", "storeA", "storeB", "factory", "configure", "seedWctc", "seedStable">>
PoolSteps ==
  <<"token", "token", "createPool", "initialize", "cardinality", "provider", "approveStable",
    "approveWctc", "provide">>
MarketSteps == <<"approve", "swap", "clear">>
StepsOf(kind) ==
  CASE kind = "lifecycle" -> LifecycleSteps [] kind = "pool" -> PoolSteps
    [] kind = "market" -> MarketSteps

Idle == [kind |-> "none"]

OperationsInit ==
  /\ mode = "paused" /\ policyEpoch = 0 /\ spentNonces = {} /\ attempts = <<>> /\ holdings = 0
  /\ sent = {} /\ receipts = {} /\ built = {} /\ allowance = FALSE /\ nonce = 0
  /\ smokeTests = {} /\ deployments = {}
  /\ scripts = [i \in Terminals |-> Idle] /\ started = 0 /\ mishaps = 0 /\ abandoned = FALSE

--------------------------------------------------------------------------------
(* The chain *)

Executions == Cardinality({n \in 1..Len(attempts) : attempts[n].result = "Executed"})

\* What submitProposal makes of a proposal, in the order of _universalReason.
\* "Refused" is any other reason or a failed execution.
Verdicts(p) ==
  IF mode = "paused" THEN {"PolicyPaused"}
  ELSE IF p.epoch # policyEpoch THEN {"PolicyHashMismatch"}
  ELSE IF p.nonce \in spentNonces THEN {"NonceAlreadyUsed"}
  ELSE IF p.kind = "oversized" THEN {"Oversized", "Refused"}
  ELSE {"Executed", "Refused"}

Included(tx, epoch) ==
  receipts' = IF \E i \in Terminals : scripts[i] # Idle /\ scripts[i].id = tx.run
              THEN receipts \union {[tx EXCEPT !.epoch = epoch]} ELSE receipts

\* setAutomationMode, which does nothing when the mode is there already.
MineMode(tx) ==
  /\ tx \in sent /\ tx.what \in {"enable", "pause"} /\ sent' = sent \ {tx}
  /\ LET new == IF tx.what = "enable" THEN "active" ELSE "paused"
         epoch == IF new = mode THEN policyEpoch ELSE policyEpoch + 1
     IN mode' = new /\ policyEpoch' = epoch /\ Included(tx, epoch)
  /\ UNCHANGED <<spentNonces, attempts, holdings, deployed, nonce, files, scripts,
                 started, mishaps, abandoned>>

MineProposal(tx) ==
  /\ tx \in sent /\ tx.what = "submit" /\ sent' = sent \ {tx} /\ Included(tx, tx.epoch)
  /\ \E v \in Verdicts(tx) :
       /\ attempts' = Append(attempts, [run |-> tx.run, result |-> v])
       /\ spentNonces' = IF v \in {"Executed", "Refused", "Oversized"}
                         THEN spentNonces \union {tx.nonce} ELSE spentNonces
       /\ holdings' = IF v = "Executed" THEN holdings + 1 ELSE holdings
  /\ UNCHANGED <<mode, policyEpoch, deployed, nonce, files, scripts, started, mishaps, abandoned>>

\* A contract's address follows from the nonce of its transaction.
MineStep(tx) ==
  /\ tx \in sent /\ tx.what = "step" /\ sent' = sent \ {tx} /\ Included(tx, tx.epoch)
  /\ built' = built \union {[run |-> tx.run, step |-> tx.step, address |-> tx.nonce[2]]}
  /\ allowance' = IF tx.kind = "market" /\ MarketSteps[tx.step] # "swap"
                  THEN MarketSteps[tx.step] = "approve" ELSE allowance
  /\ UNCHANGED <<operated, nonce, files, scripts, started, mishaps, abandoned>>

--------------------------------------------------------------------------------
(* What the scripts share *)

At(i, pc) == scripts[i] # Idle /\ scripts[i].pc = pc
Go(i, s) == scripts' = [scripts EXCEPT ![i] = s]

\* Variant for the sensitivity runs: the pause is part of a run that succeeds.
ThrownOut(s) == Idle

\* An error leaves main; what stands in the try block passes by the finally.
Thrown(s) ==
  IF s.open /\ s.pc \notin {"finally", "pausing"} THEN [s EXCEPT !.pc = "finally"] ELSE Idle

\* Has the script changed something that it has to change back?
Open(s) ==
  /\ s # Idle
  /\ s.open \/ s.pc = "enabling" \/ (s.kind = "market" /\ (s.step > 1 \/ s.pc = "waiting"))

Transaction(s, what) ==
  [run |-> s.id, what |-> what, kind |-> s.kind, step |-> s.step, nonce |-> s.nonce,
   epoch |-> s.epoch]

\* The receipt of what the script waits for, which is read once.
Receipt(i, what) == {r \in receipts : r.run = scripts[i].id /\ r.what = what}

StartScript(i, kind) ==
  /\ scripts[i] = Idle /\ started < MaxRuns /\ started' = started + 1
  /\ Go(i, [kind |-> kind, id |-> started', open |-> FALSE, step |-> 1, epoch |-> 0,
            nonce |-> <<"step", 0>>, plan |-> IF kind = "pool" THEN nonce ELSE 0, loaded |-> smokeTests,
            seen |-> [attempts |-> 0, executions |-> 0, holdings |-> 0],
            attempt |-> 0,
            pc |-> IF kind \in Smokes THEN "check" ELSE "plan"])
  /\ UNCHANGED <<operated, sent, receipts, deployed, nonce, files, mishaps, abandoned>>

\* The process ends, whatever was open.
ProcessEnds(i) ==
  /\ scripts[i] # Idle /\ mishaps < MaxMishaps /\ mishaps' = mishaps + 1
  /\ Go(i, Idle) /\ abandoned' = (abandoned \/ Open(scripts[i]))
  /\ receipts' = {r \in receipts : r.run # scripts[i].id}
  /\ UNCHANGED <<operated, sent, deployed, nonce, files, started>>

\* No finally block stands around the market controller's calls, the call that
\* enables and those of the finally block itself.
Unguarded(s) == Open(s) /\ (s.kind = "market" \/ s.pc \in {"enabling", "finally", "pausing"})

\* A call fails, or its transaction reverts, which setAutomationMode does not.
CallFails(i) ==
  /\ scripts[i] # Idle /\ mishaps < MaxMishaps /\ mishaps' = mishaps + 1
  /\ Go(i, Thrown(scripts[i])) /\ abandoned' = (abandoned \/ Unguarded(scripts[i]))
  /\ receipts' = {r \in receipts : r.run # scripts[i].id}
  /\ sent' \in {sent, {tx \in sent : tx.run = scripts[i].id => tx.what \in {"enable", "pause"}}}
  /\ UNCHANGED <<operated, deployed, nonce, files, started>>

--------------------------------------------------------------------------------
(* The smoke scripts *)

rest == <<operated, deployed, files, started, mishaps, abandoned>>
still == <<rest, sent, receipts, nonce>>

\* "treasury must start paused"
CheckTreasury(i) ==
  /\ At(i, "check")
  /\ LET s == scripts[i] IN
     Go(i, IF mode # "paused" THEN Idle
           ELSE [s EXCEPT !.pc = CASE s.kind \in Risk -> "fund" [] s.kind \in Strategic -> "observe"
                                   [] s.kind = "paused" -> "look"])
  /\ UNCHANGED still

\* Assets are sent to the treasury if it lacks them for what is to be shown.
Fund(i) ==
  /\ At(i, "fund")
  /\ \E missing \in (IF nonce < MaxNonce THEN {0, 1} ELSE {0}) :
       nonce' = nonce + missing /\ holdings' = holdings + missing
  /\ Go(i, [scripts[i] EXCEPT !.pc = IF scripts[i].kind \in Risk THEN "observe" ELSE "prove"])
  /\ UNCHANGED <<mode, policyEpoch, spentNonces, attempts, sent, receipts, deployed, files,
                 started, mishaps, abandoned>>

\* Two observations, 1 to 12 source blocks apart.
PublishObservations(i) ==
  /\ At(i, "observe")
  /\ \E gap \in Gaps :
       Go(i, IF gap \notin 1..12 THEN Idle
             ELSE [scripts[i] EXCEPT !.pc = IF scripts[i].kind \in Risk THEN "prove" ELSE "fund"])
  /\ UNCHANGED still

\* After both heights are attested and both proofs verified: the balances the
\* amount is computed from.
ReadBalances(i) ==
  /\ At(i, "prove")
  /\ Go(i, [scripts[i] EXCEPT !.seen.holdings = holdings,
                              !.pc = IF scripts[i].kind \in Risk THEN "enable" ELSE "decide"])
  /\ UNCHANGED still

\* What the model answers in the end: a transient error is tried again, four
\* times at most; any other, and an answer that does not parse, is a failure.
Answers == {"EXECUTE", "WAIT"}

\* The edge pays for the costs, the exposure is where a rebalance starts, and
\* the model says EXECUTE; or nothing is submitted.
Decide(i) ==
  /\ At(i, "decide")
  /\ \E candidate \in BOOLEAN, answer \in Answers :
       Go(i, IF candidate /\ answer = "EXECUTE" THEN [scripts[i] EXCEPT !.pc = "enable"] ELSE Idle)
  /\ UNCHANGED still

Enable(i) ==
  /\ At(i, "enable") /\ sent' = sent \union {Transaction(scripts[i], "enable")}
  /\ Go(i, [scripts[i] EXCEPT !.pc = "enabling"])
  /\ UNCHANGED <<rest, receipts, nonce>>

\* The policy hash is that of the receipt's block, the nonce follows the count
\* of attempts.
Propose(i) ==
  /\ At(i, "enabling")
  /\ \E r \in Receipt(i, "enable") :
       /\ receipts' = receipts \ {r}
       /\ Go(i, [scripts[i] EXCEPT !.open = TRUE, !.epoch = r.epoch, !.pc = "preview",
                   !.nonce = <<IF scripts[i].kind \in Risk THEN "risk" ELSE "strategy", Len(attempts)>>])
  /\ UNCHANGED <<rest, sent, nonce>>

\* The script for the paused treasury: the state before, the current policy
\* hash, always the same nonce.
LookAtPaused(i) ==
  /\ At(i, "look")
  /\ Go(i, [scripts[i] EXCEPT !.pc = "preview", !.epoch = policyEpoch, !.nonce = <<"paused", 0>>,
              !.seen = [attempts |-> Len(attempts), executions |-> Executions,
                        holdings |-> holdings]])
  /\ UNCHANGED still

Expected(kind) ==
  CASE kind = "paused" -> "PolicyPaused" [] kind = "oversized" -> "Oversized" [] OTHER -> "Executed"

PreviewProposal(i) ==
  /\ At(i, "preview")
  /\ \E v \in Verdicts(scripts[i]) :
       Go(i, IF v = Expected(scripts[i].kind) THEN [scripts[i] EXCEPT !.pc = "submit"]
             ELSE Thrown(scripts[i]))
  /\ UNCHANGED still

\* The risk scripts note the number of executions just before.
SubmitProposal(i) ==
  /\ At(i, "submit") /\ nonce < MaxNonce /\ nonce' = nonce + 1
  /\ sent' = sent \union {Transaction(scripts[i], "submit")}
  /\ Go(i, [scripts[i] EXCEPT !.pc = "submitting",
              !.seen.executions = IF scripts[i].kind \in Risk THEN Executions ELSE @])
  /\ UNCHANGED <<rest, receipts>>

AwaitSubmission(i) ==
  /\ At(i, "submitting")
  /\ \E r \in Receipt(i, "submit") : receipts' = receipts \ {r}
  /\ Go(i, [scripts[i] EXCEPT !.pc = "read"])
  /\ UNCHANGED <<rest, sent, nonce>>

Unchanged(s) == Executions = s.seen.executions /\ holdings = s.seen.holdings

\* Variant for the sensitivity runs: another's attempt may have come between.
ShowsCareless(s) == attempts # <<>> /\ attempts[Len(attempts)].result = Expected(s.kind)

\* Does the journal show what the script is to show?
Shows(s) ==
  /\ attempts # <<>> /\ attempts[Len(attempts)].result = Expected(s.kind)
  /\ s.kind \in {"paused", "oversized"} => Unchanged(s)
  /\ s.kind = "paused" => Len(attempts) = s.seen.attempts + 1

\* The attempt with the highest number is read.
ReadAttempt(i) ==
  /\ At(i, "read")
  /\ LET s == [scripts[i] EXCEPT !.attempt = Len(attempts)] IN
     Go(i, IF ~Shows(s) THEN Thrown(s)
           ELSE [s EXCEPT !.pc = IF s.kind \in Strategic THEN "finally" ELSE "record"])
  /\ UNCHANGED still

\* The manifest as it was read when the script started, and the new evidence.
RecordEvidence(i) ==
  /\ At(i, "record") /\ scripts[i].kind \in Smokes
  /\ LET s == scripts[i] IN
     /\ smokeTests' = s.loaded \union
          {[kind |-> s.kind, run |-> s.id, attempt |-> s.attempt, executions |-> s.seen.executions]}
     /\ Go(i, IF s.open THEN [s EXCEPT !.pc = "finally"] ELSE Idle)
  /\ UNCHANGED <<operated, sent, receipts, deployed, nonce, deployments, started, mishaps, abandoned>>

\* The finally block: back to paused unless it is.
Finally(i) ==
  /\ At(i, "finally")
  /\ IF mode = "paused" THEN Go(i, Idle) /\ UNCHANGED sent
     ELSE /\ sent' = sent \union {Transaction(scripts[i], "pause")}
          /\ Go(i, [scripts[i] EXCEPT !.pc = "pausing"])
  /\ UNCHANGED <<rest, receipts, nonce>>

ReturnedToPaused(i) ==
  /\ At(i, "pausing")
  /\ \E r \in Receipt(i, "pause") : receipts' = receipts \ {r}
  /\ Go(i, Idle)
  /\ UNCHANGED <<rest, sent, nonce>>

--------------------------------------------------------------------------------
(* Deployments and the market controller *)

\* The tokens' addresses follow from the nonce, which must not have moved when
\* the first of them is sent.
PlanPool(i) ==
  /\ At(i, "plan") /\ scripts[i].kind = "pool"
  /\ Go(i, IF nonce # scripts[i].plan THEN Idle ELSE [scripts[i] EXCEPT !.pc = "steps"])
  /\ UNCHANGED still

\* The addresses to be used again are recorded and the deployer can seed the
\* faucet, or nothing is deployed.
PlanLifecycle(i) ==
  /\ At(i, "plan") /\ scripts[i].kind = "lifecycle"
  /\ \E complete \in BOOLEAN :
       Go(i, IF complete THEN [scripts[i] EXCEPT !.pc = "steps"] ELSE Idle)
  /\ UNCHANGED still

\* The price is within bounds and not reached yet, the router belongs to the
\* factory and the controller has what it may spend.
PlanMarket(i) ==
  /\ At(i, "plan") /\ scripts[i].kind = "market"
  /\ \E permitted \in BOOLEAN :
       Go(i, IF permitted THEN [scripts[i] EXCEPT !.pc = "steps"] ELSE Idle)
  /\ UNCHANGED still

SendStep(i) ==
  /\ At(i, "steps") /\ nonce < MaxNonce /\ nonce' = nonce + 1
  /\ LET s == [scripts[i] EXCEPT !.nonce = <<"step", nonce>>, !.pc = "waiting"]
     IN sent' = sent \union {Transaction(s, "step")} /\ Go(i, s)
  /\ UNCHANGED <<rest, receipts>>

\* Variant for the sensitivity runs: the address is not compared.
AsPlannedAlways(s) == TRUE

\* "address mismatch"
AsPlanned(s) ==
  StepsOf(s.kind)[s.step] = "token" => s.nonce[2] = s.plan + s.step - 1

StepDone(i) ==
  /\ At(i, "waiting")
  /\ \E r \in Receipt(i, "step") : receipts' = receipts \ {r}
  /\ LET s == scripts[i] IN
     Go(i, IF ~AsPlanned(s) THEN Idle
           ELSE IF s.step = Len(StepsOf(s.kind)) THEN [s EXCEPT !.pc = "record"]
           ELSE [s EXCEPT !.step = @ + 1, !.pc = "steps"])
  /\ UNCHANGED <<rest, sent, nonce>>

\* After the readback, and only then, a deployment has a file.
RecordDeployment(i) ==
  /\ At(i, "record") /\ scripts[i].kind \in Stepwise
  /\ LET s == scripts[i] IN
     deployments' = {d \in deployments : d.kind # s.kind} \union
                      {[kind |-> s.kind, run |-> s.id, first |-> s.plan]}
  /\ Go(i, Idle)
  /\ UNCHANGED <<operated, sent, receipts, deployed, nonce, smokeTests, started, mishaps, abandoned>>

--------------------------------------------------------------------------------

OperationsNext ==
  \/ \E tx \in sent : MineMode(tx) \/ MineProposal(tx) \/ MineStep(tx)
  \/ \E i \in Terminals :
       \/ \E kind \in Smokes \union Stepwise : StartScript(i, kind)
       \/ ProcessEnds(i) \/ CallFails(i)
       \/ CheckTreasury(i) \/ Fund(i) \/ PublishObservations(i) \/ ReadBalances(i) \/ Decide(i)
       \/ Enable(i) \/ Propose(i) \/ LookAtPaused(i) \/ PreviewProposal(i)
       \/ SubmitProposal(i) \/ AwaitSubmission(i) \/ ReadAttempt(i) \/ RecordEvidence(i)
       \/ Finally(i) \/ ReturnedToPaused(i)
       \/ PlanPool(i) \/ PlanLifecycle(i) \/ PlanMarket(i)
       \/ SendStep(i) \/ StepDone(i) \/ RecordDeployment(i)

OperationsSpec == OperationsInit /\ [][OperationsNext]_operationsVars

--------------------------------------------------------------------------------
(* Properties *)

\* The ranges of the state.
OperationsTypeOK ==
  /\ mode \in {"paused", "active"} /\ nonce \in 0..MaxNonce /\ started \in 0..MaxRuns
  /\ mishaps \in 0..MaxMishaps /\ allowance \in BOOLEAN
  /\ \A i \in Terminals : scripts[i].kind \in Smokes \union Stepwise \union {"none"}

\* A smoke script leaves the treasury paused, the market controller its router
\* without an allowance, however many of them overlap, whatever an attempt
\* turns out to be and whichever call in between fails: while either is open, a
\* script that has to close it is running, or one ended because the very call
\* that opens or closes it failed, or because its process was ended.
NothingLeftOpen ==
  (mode = "active" \/ allowance) => (abandoned \/ \E i \in Terminals : Open(scripts[i]))

ExecutionsUpTo(n) == Cardinality({m \in 1..n : attempts[m].result = "Executed"})

\* Evidence in the manifest is true, though the attempt is looked up by the
\* highest number and others may have submitted meanwhile: a rejection while
\* paused is that of the script's own transaction, an oversized one was
\* rejected as such with nothing executed since before it was sent, a valid one
\* was executed.
EvidenceHolds ==
  \A c \in smokeTests :
    /\ attempts[c.attempt].result = Expected(c.kind)
    /\ c.kind = "paused" => attempts[c.attempt].run = c.run
    /\ c.kind \in {"paused", "oversized"} => ExecutionsUpTo(c.attempt) = c.executions

\* What a deployment's file names is on the chain as a whole, and the tokens of
\* the controlled pool are where they were predicted, although any step may
\* fail and other scripts send with the same key.
RecordedIsBuilt ==
  \A d \in deployments :
    \A k \in 1..Len(StepsOf(d.kind)) :
      \E b \in built : /\ b.run = d.run /\ b.step = k
                       /\ StepsOf(d.kind)[k] = "token" => b.address = d.first + k - 1
================================================================================
