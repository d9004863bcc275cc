----------------------------- MODULE Clients_proofs -----------------------------
(***************************************************************************)
(* The programs around the treasuries, for any number of what they handle: *)
(* the owner's browser, the sponsor's challenges that its actions go       *)
(* through, the page that shows an instance, and the audit projection.     *)
(* They share no state; each part below proves about one of them.          *)
(***************************************************************************)
EXTENDS OwnerConsole, SponsorAuthorization, InstanceViewer, AuditProjection, Totals,
        SequenceTheorems

-----------------------------------------------------------------------------
(* The mandate                                                             *)

(* The contract's MIN_EPOCH_LENGTH and MAX_EPOCH_LENGTH allow every epoch  *)
(* that the form allows.                                                   *)
EpochBounds == MinEpochLength <= 60 /\ 2592000 <= MaxEpochLength

LEMMA ValidatedMandate ==
  ASSUME EpochBounds,
         NEW d \in MandateDraft, ValidateMandate(d)
  PROVE  ValidPolicy(ToContractPolicies(d))
<1> DEFINE p == ToContractPolicies(d)
<1>1. /\ p.universal.enabledStrategies = d.enabledStrategies
      /\ p.universal.maxActionValue = d.maxActionValue
      /\ p.universal.maxSlippageBps = d.maxSlippageBps
      /\ p.universal.maxExecutionsPerEpoch = d.maxExecutionsPerEpoch
      /\ p.universal.maxAttemptsPerEpoch = d.maxAttemptsPerEpoch
      /\ p.universal.epochLength = d.epochLength
  BY DEF ToContractPolicies
<1>2. /\ p.arbitrage.minNetEdgeBps = d.minNetEdgeBps
      /\ p.arbitrage.maxArbitrageValue = Ceiling(d, "Arbitrage", d.maxArbitrageValue)
      /\ p.rebalance.targetWctcBps = d.targetWctcBps /\ p.rebalance.toleranceBps = d.toleranceBps
      /\ p.rebalance.maxRebalanceValue = Ceiling(d, "Rebalance", d.maxRebalanceValue)
      /\ p.risk.maxWctcExposureBps = d.maxWctcExposureBps
      /\ p.risk.maxRiskReductionValue = Ceiling(d, "RiskReduction", d.maxRiskReductionValue)
      /\ p.risk.dailyRiskReductionValue = Ceiling(d, "RiskReduction", d.dailyRiskReductionValue)
  BY DEF ToContractPolicies
<1> HIDE DEF p
<1>3. FitsUint16(d) /\ ValidatesLimits(d) /\ ValidatesStrategies(d) /\ ValidatesBand(d)
  BY DEF ValidateMandate
<1>4. /\ d.maxSlippageBps \in Int /\ d.targetWctcBps \in Int /\ d.toleranceBps \in Int
      /\ d.maxWctcExposureBps \in Int /\ d.minNetEdgeBps \in Int
  BY <1>3 DEF FitsUint16, InRange, MandateDraft, Number
<1>5. ValidUniversal(p.universal)
  <2>1. /\ d.enabledStrategies # {} /\ d.enabledStrategies \subseteq Strategies
        /\ d.maxActionValue \in Int /\ 1 <= d.maxActionValue
        /\ d.maxSlippageBps <= 1000
        /\ d.maxExecutionsPerEpoch \in Int /\ 1 <= d.maxExecutionsPerEpoch
        /\ d.maxAttemptsPerEpoch >= d.maxExecutionsPerEpoch
        /\ d.epochLength \in Int /\ 60 <= d.epochLength /\ d.epochLength <= 2592000
    BY <1>3 DEF ValidatesLimits, ParsesAmount, InRange, MandateDraft, Number
  <2>2. d.epochLength \in MinEpochLength..MaxEpochLength
    BY <2>1, UnitAssumption DEF EpochBounds
  <2>3. QED
    BY <1>1, <2>1, <2>2 DEF ValidUniversal, MaxAllowedSlippageBps
<1>6. ASSUME "Arbitrage" \in d.enabledStrategies
      PROVE  ValidArbitrage(p.arbitrage)
  <2>1. d.minNetEdgeBps > 0 /\ d.maxArbitrageValue \in Int /\ 1 <= d.maxArbitrageValue
    BY <1>3, <1>6 DEF ValidatesStrategies, ParsesAmount, InRange, MandateDraft, Number
  <2>2. QED
    BY <1>2, <1>4, <1>6, <2>1 DEF ValidArbitrage, Ceiling
<1>7. ASSUME "Rebalance" \in d.enabledStrategies
      PROVE  ValidRebalance(p.rebalance)
  <2>1. /\ d.targetWctcBps <= BPS /\ d.toleranceBps > 0
        /\ d.maxRebalanceValue \in Int /\ 1 <= d.maxRebalanceValue
    BY <1>3, <1>7 DEF ValidatesStrategies, ParsesAmount, InRange, MandateDraft, Number
  <2>2. QED
    BY <1>2, <1>4, <1>7, <2>1 DEF ValidRebalance, Ceiling
<1>8. ASSUME "RiskReduction" \in d.enabledStrategies
      PROVE  ValidRisk(p.risk)
  <2>1. /\ d.maxWctcExposureBps <= BPS
        /\ d.maxRiskReductionValue \in Int /\ 1 <= d.maxRiskReductionValue
        /\ d.dailyRiskReductionValue \in Int /\ 1 <= d.dailyRiskReductionValue
    BY <1>3, <1>8 DEF ValidatesStrategies, ParsesAmount, InRange, MandateDraft, Number
  <2>2. QED
    BY <1>2, <1>4, <1>8, <2>1 DEF ValidRisk, Ceiling
<1>9. {"Rebalance", "RiskReduction"} \subseteq d.enabledStrategies =>
        p.risk.maxWctcExposureBps > p.rebalance.targetWctcBps + p.rebalance.toleranceBps
  BY <1>2, <1>3 DEF ValidatesBand
<1>10. QED
  BY <1>1, <1>5, <1>6, <1>7, <1>8, <1>9 DEF ValidPolicy, p

-----------------------------------------------------------------------------
(* The actions under way                                                   *)

FlowFields ==
  {"kind", "by", "treasury", "step", "id", "seen", "at", "stale", "mounted", "fits"}
TxFields == {"kind", "treasury", "by", "id", "stale", "fits"}
LaunchKinds == {"fund", "authorize", "enable"}

(* Whether the chain says that a step of the launch is done.               *)
OnChain(kind, t) ==
  \/ kind = "fund" /\ t \in claimed
  \/ kind = "authorize" /\ t \in registered
  \/ kind = "enable" /\ t \in active

(* An action about to send has seen what the chain says, or has been told  *)
(* that it may not have.                                                   *)
FlowOK(f) ==
  /\ DOMAIN f = FlowFields
  /\ f.fits /\ f.at \in Nat \ {0} /\ f.kind \in FlowKinds
  /\ f.step = "send" /\ f.kind # "deploy" /\ ~f.stale =>
       /\ \A k \in LaunchKinds : k \notin f.seen => ~OnChain(k, f.treasury)
       /\ f.kind = "enable" => ~OnChain("enable", f.treasury)

(* So has a transaction on its way.                                        *)
SentOK(x) ==
  /\ DOMAIN x = TxFields
  /\ x.kind \in LaunchKinds /\ OnChain(x.kind, x.treasury) => x.stale

FlowInv ==
  /\ DOMAIN flows = Flows
  /\ \A i \in Flows : flows[i] # None => FlowOK(flows[i])
  /\ \A x \in pending : SentOK(x)
  /\ RepeatedOnlyIfOvertaken

LEMMA DoneIs ==
  ASSUME NEW t, NEW k \in LaunchKinds
  PROVE  k \in Done(t) <=> OnChain(k, t)
BY DEF Done, LaunchKinds, OnChain

(* A step that changes no treasury: every action is as good as before.     *)
LEMMA FlowFrame ==
  ASSUME FlowInv, UNCHANGED <<claimed, registered, active, mined>>,
         DOMAIN flows' = Flows,
         \A i \in Flows : flows'[i] # None => FlowOK(flows'[i]),
         \A x \in pending' : x \in pending \/ SentOK(x)
  PROVE  FlowInv'
<1>1. \A k, t : OnChain(k, t)' <=> OnChain(k, t)
  BY DEF OnChain
<1>2. ASSUME NEW i \in Flows, flows'[i] # None
      PROVE  FlowOK(flows[i])'
  <2>1. FlowOK(flows'[i])
    BY <1>2
  <2>2. QED
    BY <2>1 DEF FlowOK, OnChain
<1>3. ASSUME NEW x \in pending'
      PROVE  SentOK(x)'
  <2>1. SentOK(x)
    BY <1>3 DEF FlowInv
  <2>2. QED
    BY <2>1 DEF SentOK, OnChain
<1>4. RepeatedOnlyIfOvertaken'
  BY DEF FlowInv, RepeatedOnlyIfOvertaken
<1>5. QED
  BY <1>2, <1>3, <1>4 DEF FlowInv

(* The page is left.                                                       *)
LEMMA LeftOK ==
  ASSUME NEW f, f # None => FlowOK(f)
  PROVE  Left(f) # None => FlowOK(Left(f))
<1>1. CASE f = None
  BY <1>1 DEF Left
<1>2. CASE f # None
  <2> DEFINE g == [f EXCEPT !.mounted = FALSE]
  <2>1. Left(f) = g /\ FlowOK(f) /\ DOMAIN f = FlowFields
    BY <1>2 DEF Left, FlowOK
  <2>2. /\ DOMAIN g = FlowFields /\ g.fits = f.fits /\ g.at = f.at /\ g.step = f.step /\ g.kind = f.kind
        /\ g.stale = f.stale /\ g.seen = f.seen /\ g.treasury = f.treasury
    BY <2>1 DEF FlowFields
  <2> HIDE DEF g
  <2>3. FlowOK(g)
    BY <2>1, <2>2 DEF FlowOK
  <2>4. QED
    BY <2>1, <2>3
<1>3. QED
  BY <1>1, <1>2

LEMMA LeaveOK ==
  ASSUME FlowInv, UNCHANGED <<claimed, registered, active, mined, pending>>,
         NEW p, LeaveFlows(p)
  PROVE  FlowInv'
<1>1. flows' = flows \/ flows' = [i \in Flows |-> Left(flows[i])]
  BY DEF LeaveFlows
<1>2. DOMAIN flows' = Flows
  BY <1>1 DEF FlowInv
<1>3. ASSUME NEW i \in Flows
      PROVE  flows'[i] # None => FlowOK(flows'[i])
  <2>1. flows[i] # None => FlowOK(flows[i])
    BY DEF FlowInv
  <2>2. flows'[i] = flows[i] \/ flows'[i] = Left(flows[i])
    BY <1>1
  <2>3. QED
    BY <2>1, <2>2, LeftOK
<1>4. QED
  BY <1>2, <1>3, FlowFrame

(* One action advances.                                                    *)
LEMMA AdvanceOK ==
  ASSUME FlowInv, UNCHANGED <<claimed, registered, active, mined>>,
         NEW i \in Flows, NEW f, flows' = [flows EXCEPT ![i] = f], f # None => FlowOK(f),
         \A x \in pending' : x \in pending \/ SentOK(x)
  PROVE  FlowInv'
<1>1. DOMAIN flows' = Flows /\ \A j \in Flows : flows'[j] = IF j = i THEN f ELSE flows[j]
  BY DEF FlowInv
<1>2. \A j \in Flows : flows'[j] # None => FlowOK(flows'[j])
  BY <1>1 DEF FlowInv
<1>3. QED
  BY <1>1, <1>2, FlowFrame

(* A new action has not sent anything.                                     *)
Unsent(f) ==
  /\ DOMAIN f = FlowFields
  /\ f.fits /\ f.at = 1 /\ f.kind \in FlowKinds /\ f.step = "sponsor"

LEMMA StartOK ==
  ASSUME FlowInv, NEW i \in Flows, NEW f, flows' = [flows EXCEPT ![i] = f],
         UNCHANGED <<claimed, registered, active, mined, pending>>,
         Unsent(f)
  PROVE  FlowInv'
<1>1. FlowOK(f)
  BY DEF FlowOK, Unsent
<1>2. QED
  BY <1>1, AdvanceOK

LEMMA ObtainGasOK ==
  ASSUME FlowInv, NEW i \in Flows, ObtainGas(i)
  PROVE  FlowInv'
<1> DEFINE f == flows[i]
           g == [f EXCEPT !.step = IF f.kind = "deploy" THEN "send" ELSE "read"]
<1>1. /\ f # None /\ flows' = [flows EXCEPT ![i] = g]
      /\ UNCHANGED <<claimed, registered, active, mined, pending>>
  BY DEF ObtainGas, Waits, Advance, rest, treasuries
<1>2. FlowOK(f) /\ DOMAIN f = FlowFields
  BY <1>1 DEF FlowInv, FlowOK
<1> HIDE DEF f
<1>3. /\ DOMAIN g = FlowFields /\ g.fits = f.fits /\ g.at = f.at /\ g.kind = f.kind
      /\ g.step = IF f.kind = "deploy" THEN "send" ELSE "read"
  BY <1>2 DEF FlowFields
<1> HIDE DEF g
<1>4. FlowOK(g)
  BY <1>2, <1>3 DEF FlowOK
<1>5. QED
  BY <1>1, <1>4, AdvanceOK

(* What is read of the treasury is what the chain says.                    *)
LEMMA SeenOK ==
  ASSUME NEW f, FlowOK(f), NEW stale, NEW step,
         f.kind = "enable" => f.treasury \notin active
  PROVE  FlowOK([f EXCEPT !.step = step, !.seen = Done(f.treasury), !.stale = stale])
<1> DEFINE g == [f EXCEPT !.step = step, !.seen = Done(f.treasury), !.stale = stale]
<1>1. DOMAIN f = FlowFields /\ f.fits /\ f.at \in Nat \ {0}
  BY DEF FlowOK
<1>2. /\ DOMAIN g = FlowFields /\ g.fits = f.fits /\ g.at = f.at /\ g.kind = f.kind
      /\ g.treasury = f.treasury /\ g.seen = Done(f.treasury)
  BY <1>1 DEF FlowFields
<1> HIDE DEF g
<1>3. \A k \in LaunchKinds : k \notin g.seen => ~OnChain(k, g.treasury)
  BY <1>2, DoneIs
<1>4. g.kind = "enable" => ~OnChain("enable", g.treasury)
  BY <1>2 DEF OnChain
<1>5. FlowOK(g)
  BY <1>1, <1>2, <1>3, <1>4 DEF FlowOK
<1>6. QED
  BY <1>5 DEF g

LEMMA ReadStateOK ==
  ASSUME FlowInv, NEW i \in Flows, ReadState(i)
  PROVE  FlowInv'
<1> DEFINE f == flows[i]
           g == [f EXCEPT !.step = "send", !.seen = Done(f.treasury), !.stale = UnderWay(f.treasury)]
<1>1. /\ f # None /\ UNCHANGED <<claimed, registered, active, mined, pending>>
      /\ \/ flows' = [flows EXCEPT ![i] = None]
         \/ /\ flows' = [flows EXCEPT ![i] = g]
            /\ f.kind = "enable" => f.treasury \notin active
  BY DEF ReadState, Waits, Advance, rest, treasuries
<1>2. FlowOK(f)
  BY <1>1 DEF FlowInv
<1>4. CASE flows' = [flows EXCEPT ![i] = None]
  BY <1>1, <1>4, AdvanceOK
<1>5. CASE /\ flows' = [flows EXCEPT ![i] = g]
           /\ f.kind = "enable" => f.treasury \notin active
  <2>1. FlowOK(g)
    <3> HIDE DEF f
    <3>1. QED
      BY <1>2, <1>5, SeenOK
  <2> HIDE DEF g
  <2>2. QED
    BY <1>1, <1>5, <2>1, AdvanceOK
<1>6. QED
  BY <1>1, <1>4, <1>5

(* The transaction that is sent was not found done, or is overtaken.       *)
LEMMA SendOK ==
  ASSUME FlowInv, UNCHANGED <<claimed, registered, active, mined>>,
         NEW i \in Flows, NEW f, FlowOK(f), NEW kind, SendTransaction(i, f, kind),
         kind \in LaunchKinds /\ ~f.stale => ~OnChain(kind, f.treasury)
  PROVE  FlowInv'
<1> DEFINE tx == [kind |-> kind, treasury |-> f.treasury, by |-> f.by, id |-> f.id,
                  stale |-> f.stale, fits |-> f.fits]
           g == [f EXCEPT !.step = "receipt"]
<1>1. pending' = pending \union {tx} /\ flows' = [flows EXCEPT ![i] = g]
  BY DEF SendTransaction, Advance
<1>2. DOMAIN f = FlowFields /\ f.fits /\ f.at \in Nat \ {0} /\ f.kind \in FlowKinds
  BY DEF FlowOK
<1>3. DOMAIN g = FlowFields /\ g.fits = f.fits /\ g.at = f.at /\ g.step = "receipt" /\ g.kind = f.kind
  BY <1>2 DEF FlowFields
<1>4. SentOK(tx)
  BY DEF SentOK, TxFields
<1> HIDE DEF tx, g
<1>5. FlowOK(g)
  BY <1>2, <1>3 DEF FlowOK
<1>6. \A x \in pending' : x \in pending \/ SentOK(x)
  BY <1>1, <1>4
<1>7. QED
  BY <1>1, <1>5, <1>6, AdvanceOK

LEMMA LeastStep ==
  ASSUME NEW S \in SUBSET {1, 2, 3}, S # {}
  PROVE  \E n \in S : \A m \in S : n <= m
<1>1. CASE 1 \in S
  BY <1>1
<1>2. CASE 1 \notin S /\ 2 \in S
  BY <1>2
<1>3. CASE 1 \notin S /\ 2 \notin S
  <2>1. 3 \in S /\ \A m \in S : m = 3
    BY <1>3
  <2>2. QED
    BY <2>1
<1>4. QED
  BY <1>1, <1>2, <1>3

LEMMA SendLaunchOK ==
  ASSUME FlowInv, NEW i \in Flows, SendLaunch(i)
  PROVE  FlowInv'
<1> DEFINE f == flows[i]
<1>1. f # None /\ f.step = "send" /\ f.kind = "launch"
      /\ UNCHANGED <<claimed, registered, active, mined>>
  BY DEF SendLaunch, Waits, treasuries
<1>2. FlowOK(f) /\ DOMAIN f = FlowFields
  BY <1>1 DEF FlowInv, FlowOK
<1>3. CASE NotDone(f) = {}
  <2>1. flows' = [flows EXCEPT ![i] = None] /\ pending' = pending
    BY <1>3 DEF SendLaunch, Advance
  <2>2. QED
    BY <1>1, <2>1, AdvanceOK
<1>4. CASE NotDone(f) # {}
  <2> DEFINE k == CHOOSE n \in NotDone(f) : \A m \in NotDone(f) : n <= m
             g == [f EXCEPT !.at = k]
  <2>1. SendTransaction(i, g, Steps[k])
    BY <1>4 DEF SendLaunch
  <2>2. NotDone(f) \subseteq {1, 2, 3} /\ f.at \in Nat \ {0}
    BY <1>2 DEF NotDone, FlowOK
  <2>3. k \in NotDone(f)
    <3>1. \E n \in NotDone(f) : \A m \in NotDone(f) : n <= m
      BY <1>4, <2>2, LeastStep
    <3>2. QED
      BY <3>1
  <2> HIDE DEF k
  <2>4. Steps[k] \in LaunchKinds /\ Steps[k] \notin f.seen /\ k \in Nat \ {0}
    <3>1. k \in {1, 2, 3} /\ Steps[k] \notin f.seen
      BY <2>2, <2>3 DEF NotDone
    <3>2. QED
      BY <3>1 DEF Steps, LaunchKinds
  <2>5. /\ DOMAIN g = FlowFields /\ g.fits = f.fits /\ g.at = k /\ g.kind = f.kind
        /\ g.step = f.step /\ g.stale = f.stale /\ g.seen = f.seen /\ g.treasury = f.treasury
    BY <1>2 DEF FlowFields
  <2> HIDE DEF g
  <2>6. FlowOK(g)
    BY <1>2, <2>4, <2>5 DEF FlowOK
  <2>7. ~g.stale => ~OnChain(Steps[k], g.treasury)
    BY <1>1, <1>2, <2>4, <2>5 DEF FlowOK
  <2> DEFINE kind == Steps[k]
  <2>8. kind \in LaunchKinds /\ ~g.stale => ~OnChain(kind, g.treasury)
    BY <2>7
  <2>9. SendTransaction(i, g, kind)
    BY <2>1 DEF g, k
  <2> HIDE DEF kind
  <2>10. QED
    BY <1>1, <2>6, <2>8, <2>9, SendOK
<1>5. QED
  BY <1>3, <1>4

LEMMA SendOtherOK ==
  ASSUME FlowInv, NEW i \in Flows, SendOther(i)
  PROVE  FlowInv'
<1> DEFINE f == flows[i]
<1>1. /\ f # None /\ f.step = "send" /\ f.kind # "launch" /\ SendTransaction(i, f, f.kind)
      /\ UNCHANGED <<claimed, registered, active, mined>>
  BY DEF SendOther, Waits, treasuries
<1>2. FlowOK(f)
  BY <1>1 DEF FlowInv
<1>3. f.kind \in FlowKinds
  BY <1>1, <1>2 DEF FlowOK
<1>4. f.kind \in LaunchKinds /\ ~f.stale => ~OnChain(f.kind, f.treasury)
  BY <1>1, <1>2, <1>3 DEF FlowOK, LaunchKinds, FlowKinds, OnChain
<1> DEFINE kind == f.kind
<1> HIDE DEF f, kind
<1>5. QED
  BY <1>1, <1>2, <1>4, SendOK DEF kind

LEMMA ConfirmOK ==
  ASSUME FlowInv, NEW i \in Flows, ConfirmTransaction(i)
  PROVE  FlowInv'
<1> DEFINE f == flows[i]
           g == [f EXCEPT !.step = "send", !.at = @ + 1, !.seen = Done(f.treasury),
                          !.stale = UnderWay(f.treasury)]
<1>1. /\ f # None /\ UNCHANGED <<claimed, registered, active, mined, pending>>
      /\ \/ flows' = [flows EXCEPT ![i] = None]
         \/ flows' = [flows EXCEPT ![i] = g] /\ f.kind = "launch"
  BY DEF ConfirmTransaction, Waits, Advance, rest, treasuries
<1>2. FlowOK(f)
  BY <1>1 DEF FlowInv
<1>3. CASE flows' = [flows EXCEPT ![i] = None]
  BY <1>1, <1>3, AdvanceOK
<1>4. CASE flows' = [flows EXCEPT ![i] = g] /\ f.kind = "launch"
  <2>1. FlowOK(g)
    <3> HIDE DEF f
    <3> DEFINE h == [f EXCEPT !.at = @ + 1]
               stale == UnderWay(f.treasury)
    <3>1. DOMAIN f = FlowFields /\ f.fits /\ f.at \in Nat \ {0}
      BY <1>2 DEF FlowOK
    <3>2. /\ DOMAIN h = FlowFields /\ h.fits = f.fits /\ h.at = f.at + 1 /\ h.kind = f.kind
          /\ h.step = f.step /\ h.stale = f.stale /\ h.seen = f.seen /\ h.treasury = f.treasury
      BY <3>1 DEF FlowFields
    <3>3. g = [h EXCEPT !.step = "send", !.seen = Done(h.treasury), !.stale = stale]
      BY <3>1, <3>2 DEF FlowFields
    <3> HIDE DEF g, h, stale
    <3>4. FlowOK(h)
      BY <1>2, <3>1, <3>2 DEF FlowOK
    <3> DEFINE step == "send"
    <3>5. g = [h EXCEPT !.step = step, !.seen = Done(h.treasury), !.stale = stale]
      BY <3>3
    <3> HIDE DEF step
    <3>6. QED
      BY <1>4, <3>2, <3>4, <3>5, SeenOK
  <2> HIDE DEF g
  <2>2. QED
    BY <1>1, <1>4, <2>1, AdvanceOK
<1>5. QED
  BY <1>1, <1>3, <1>4

LEMMA ConfirmDeployOK ==
  ASSUME FlowInv, NEW i \in Flows, ConfirmDeploy(i)
  PROVE  FlowInv'
<1>1. /\ flows' = [j \in Flows |-> IF j = i THEN None ELSE IF page = "done" THEN flows[j]
                                   ELSE Left(flows[j])]
      /\ UNCHANGED <<claimed, registered, active, mined, pending>>
  BY DEF ConfirmDeploy, treasuries
<1>2. DOMAIN flows' = Flows
  BY <1>1
<1>3. ASSUME NEW j \in Flows
      PROVE  flows'[j] # None => FlowOK(flows'[j])
  <2>1. flows[j] # None => FlowOK(flows[j])
    BY DEF FlowInv
  <2>2. flows'[j] = None \/ flows'[j] = flows[j] \/ flows'[j] = Left(flows[j])
    BY <1>1
  <2>3. QED
    BY <2>1, <2>2, LeftOK
<1>4. QED
  BY <1>1, <1>2, <1>3, FlowFrame

LEMMA FailsOK ==
  ASSUME FlowInv, NEW i \in Flows, FlowFails(i)
  PROVE  FlowInv'
<1>1. /\ flows' = [flows EXCEPT ![i] = None]
      /\ UNCHANGED <<claimed, registered, active, mined, pending>>
  BY DEF FlowFails, Advance, rest, treasuries
<1>2. QED
  BY <1>1, AdvanceOK

(* What the chain says changes only for the treasury of the transaction,   *)
(* and who has read it is told.                                            *)
LEMMA MineOK ==
  ASSUME FlowInv, NEW tx \in pending, Mine(tx)
  PROVE  FlowInv'
<1> DEFINE t == tx.treasury
<1>1. /\ flows' = [i \in Flows |-> IF flows[i] = None THEN None ELSE Outdated(flows[i], t)]
      /\ pending' = {Outdated(x, t) : x \in pending \ {tx}}
      /\ Receipt(tx, t, Accepts(tx))
  BY DEF Mine
<1>2. ASSUME NEW k \in LaunchKinds, NEW u, u # t
      PROVE  OnChain(k, u)' <=> OnChain(k, u)
  <2>1. /\ u \in claimed' <=> u \in claimed
        /\ u \in registered' <=> u \in registered
        /\ u \in active' <=> u \in active
    BY <1>2 DEF Mine
  <2>2. QED
    BY <2>1 DEF OnChain
<1> HIDE DEF t
<1>3. ASSUME NEW i \in Flows, flows'[i] # None
      PROVE  FlowOK(flows[i])'
  <2>1. PICK f : f = flows[i]
    OBVIOUS
  <2>2. flows'[i] = Outdated(f, t) /\ f # None
    BY <1>1, <1>3, <2>1
  <2>3. FlowOK(f) /\ DOMAIN f = FlowFields /\ f.fits /\ f.at \in Nat \ {0} /\ f.kind \in FlowKinds
    BY <2>1, <2>2 DEF FlowInv, FlowOK
  <2>4. CASE f.treasury = t
    <3> DEFINE g == [f EXCEPT !.stale = TRUE]
    <3>1. flows'[i] = g
      BY <2>2, <2>4 DEF Outdated
    <3>2. DOMAIN g = FlowFields /\ g.fits = f.fits /\ g.at = f.at /\ g.stale /\ g.kind = f.kind
      BY <2>3 DEF FlowFields
    <3> HIDE DEF g
    <3>3. QED
      BY <2>3, <3>1, <3>2 DEF FlowOK
  <2>5. CASE f.treasury # t
    <3>1. flows'[i] = f
      BY <2>2, <2>5 DEF Outdated
    <3>2. \A k \in LaunchKinds : OnChain(k, f.treasury)' <=> OnChain(k, f.treasury)
      BY <1>2, <2>5
    <3>3. FlowOK(f)'
      <4>1. "enable" \in LaunchKinds
        BY DEF LaunchKinds
      <4>2. QED
        BY <2>3, <3>2, <4>1 DEF FlowOK
    <3>4. QED
      BY <3>1, <3>3 DEF FlowOK
  <2>6. QED
    BY <2>4, <2>5
<1>4. ASSUME NEW y \in pending'
      PROVE  SentOK(y)'
  <2>1. PICK x \in pending : y = Outdated(x, t)
    BY <1>1, <1>4
  <2>2. SentOK(x)
    BY DEF FlowInv
  <2>3. CASE x.treasury = t
    <3> DEFINE g == [x EXCEPT !.stale = TRUE]
    <3>1. y = g /\ DOMAIN x = TxFields
      BY <2>1, <2>2, <2>3 DEF Outdated, SentOK
    <3>2. DOMAIN g = TxFields /\ g.stale
      BY <3>1 DEF TxFields
    <3> HIDE DEF g
    <3>3. QED
      BY <3>1, <3>2 DEF SentOK
  <2>4. CASE x.treasury # t
    <3>1. y = x
      BY <2>1, <2>4 DEF Outdated
    <3>2. y.kind \in LaunchKinds => (OnChain(y.kind, y.treasury)' <=> OnChain(y.kind, y.treasury))
      BY <1>2, <2>4, <3>1
    <3>3. QED
      BY <2>2, <3>1, <3>2 DEF SentOK
  <2>5. QED
    BY <2>3, <2>4
<1>5. RepeatedOnlyIfOvertaken'
  <2> DEFINE new == [tx |-> tx, treasury |-> t, ok |-> Accepts(tx), repeated |-> tx.kind \in Done(t)]
  <2>1. mined' = mined \union {new}
    BY <1>1 DEF Receipt
  <2>2. new.tx = tx /\ (new.repeated <=> tx.kind \in Done(t))
    OBVIOUS
  <2> HIDE DEF new
  <2>3. new.repeated /\ new.tx.kind \in LaunchKinds => new.tx.stale
    BY <2>2, DoneIs DEF FlowInv, SentOK, t
  <2>4. QED
    BY <2>1, <2>3 DEF FlowInv, RepeatedOnlyIfOvertaken, LaunchKinds
<1>6. DOMAIN flows' = Flows
  BY <1>1
<1>7. QED
  BY <1>3, <1>4, <1>5, <1>6 DEF FlowInv

LEMMA MineDeployOK ==
  ASSUME FlowInv, NEW tx \in pending, MineDeploy(tx)
  PROVE  FlowInv'
<1>1. /\ tx.kind = "deploy" /\ pending' = pending \ {tx}
      /\ UNCHANGED <<claimed, registered, active, flows>>
  BY DEF MineDeploy, actions
<1>2. PICK t \in Treasuries : Receipt(tx, t, TRUE)
  BY DEF MineDeploy
<1> DEFINE new == [tx |-> tx, treasury |-> t, ok |-> TRUE, repeated |-> tx.kind \in Done(t)]
<1>3. mined' = mined \union {new} /\ new.tx = tx
  BY <1>2 DEF Receipt
<1> HIDE DEF new
<1>4. RepeatedOnlyIfOvertaken'
  BY <1>1, <1>3 DEF FlowInv, RepeatedOnlyIfOvertaken
<1>5. ASSUME NEW i \in Flows, flows'[i] # None
      PROVE  FlowOK(flows[i])'
  BY <1>1, <1>5 DEF FlowInv, FlowOK, OnChain
<1>6. ASSUME NEW x \in pending'
      PROVE  SentOK(x)'
  BY <1>1, <1>6 DEF FlowInv, SentOK, OnChain
<1>7. QED
  BY <1>1, <1>4, <1>5, <1>6 DEF FlowInv

LEMMA ReloadOK ==
  ASSUME FlowInv, Reload
  PROVE  FlowInv'
<1>1. flows' = [i \in Flows |-> None] /\ UNCHANGED <<claimed, registered, active, mined, pending>>
  BY DEF Reload, treasuries
<1>2. QED
  BY <1>1, FlowFrame

LEMMA OtherOK ==
  ASSUME FlowInv, UNCHANGED <<claimed, registered, active, mined, pending, flows>>
  PROVE  FlowInv'
<1>1. DOMAIN flows' = Flows /\ \A i \in Flows : flows'[i] # None => FlowOK(flows'[i])
  BY DEF FlowInv
<1>2. QED
  BY <1>1, FlowFrame

LEMMA FlowInit ==
  ConsoleInit => FlowInv
BY DEF ConsoleInit, FlowInv, RepeatedOnlyIfOvertaken

LEMMA FlowStep ==
  ASSUME EpochBounds, FlowInv, [ConsoleNext]_consoleVars
  PROVE  FlowInv'
<1>1. ASSUME NEW tx \in pending, MineDeploy(tx) \/ Mine(tx)
      PROVE  FlowInv'
  BY <1>1, MineDeployOK, MineOK
<1>2. ASSUME NEW i \in Flows, StartDeploy(i)
      PROVE  FlowInv'
  <2>1. PICK fits \in Verdicts : Start(i, "deploy", None, fits)
    BY <1>2 DEF StartDeploy
  <2>2. fits = TRUE
    <3>1. PICK d \in Drafts : ValidateMandate(d) /\ fits = ValidPolicy(ToContractPolicies(d))
      BY DEF Verdicts
    <3>2. ValidPolicy(ToContractPolicies(d))
      BY <3>1, ValidatedMandate, ConsoleAssumption
    <3>3. QED
      BY <3>1, <3>2
  <2>3. PICK f : f = [kind |-> "deploy", by |-> account, treasury |-> None, step |-> "sponsor",
                   id |-> starts, seen |-> {}, at |-> 1, stale |-> FALSE,
                   mounted |-> TRUE, fits |-> fits]
    OBVIOUS
  <2>4. flows' = [flows EXCEPT ![i] = f] /\ UNCHANGED <<claimed, registered, active, mined, pending>>
    BY <2>1, <2>3 DEF Start, treasuries
  <2>5. Unsent(f)
    BY <2>2, <2>3 DEF Unsent, FlowFields, FlowKinds
  <2>6. QED
    BY <2>4, <2>5, StartOK
<1>3. ASSUME NEW i \in Flows, StartLaunch(i)
      PROVE  FlowInv'
  <2>1. PICK f : f = [kind |-> "launch", by |-> account, treasury |-> opened, step |-> "sponsor",
                   id |-> starts, seen |-> {}, at |-> 1, stale |-> FALSE,
                   mounted |-> TRUE, fits |-> TRUE]
    OBVIOUS
  <2>2. flows' = [flows EXCEPT ![i] = f] /\ UNCHANGED <<claimed, registered, active, mined, pending>>
    BY <1>3, <2>1 DEF StartLaunch, Start, treasuries
  <2>3. Unsent(f)
    BY <2>1 DEF Unsent, FlowFields, FlowKinds
  <2>4. QED
    BY <2>2, <2>3, StartOK
<1>4. ASSUME NEW i \in Flows, NEW k \in {"enable", "pause", "close"}, NEW t \in Treasuries,
             StartOwnerAction(i, k, t)
      PROVE  FlowInv'
  <2>1. PICK f : f = [kind |-> k, by |-> account, treasury |-> t, step |-> "sponsor",
                   id |-> starts, seen |-> {}, at |-> 1, stale |-> FALSE,
                   mounted |-> TRUE, fits |-> TRUE]
    OBVIOUS
  <2>2. flows' = [flows EXCEPT ![i] = f] /\ UNCHANGED <<claimed, registered, active, mined, pending>>
    BY <1>4, <2>1 DEF StartOwnerAction, Start, treasuries
  <2>3. Unsent(f)
    BY <2>1 DEF Unsent, FlowFields, FlowKinds
  <2>4. QED
    BY <2>2, <2>3, StartOK
<1>5. ASSUME NEW i \in Flows,
             \/ ObtainGas(i) \/ ReadState(i) \/ SendLaunch(i) \/ SendOther(i)
             \/ ConfirmTransaction(i) \/ ConfirmDeploy(i) \/ FlowFails(i)
      PROVE  FlowInv'
  BY <1>5, ObtainGasOK, ReadStateOK, SendLaunchOK, SendOtherOK, ConfirmOK, ConfirmDeployOK, FailsOK
<1>6. ASSUME \/ \E p \in Pages, t \in Treasuries \union {None} : Navigate(p, t)
             \/ \E w \in Accounts, new \in BOOLEAN : SignIn(w, new)
             \/ CompleteSignIn \/ Logout
      PROVE  FlowInv'
  <2>1. UNCHANGED <<claimed, registered, active, mined, pending>> /\ \E p : LeaveFlows(p)
    BY <1>6 DEF Navigate, SignIn, CompleteSignIn, Logout, treasuries
  <2>2. QED
    BY <2>1, LeaveOK
<1>7. CASE Reload
  BY <1>7, ReloadOK
<1>8. ASSUME \/ \E t \in Treasuries, w \in Accounts : TransferOwnership(t, w)
             \/ SignInFails
             \/ \E t \in Treasuries \union {None} : StartDiscovery(t)
             \/ \E d \in discoveries : FinishDiscovery(d) \/ DiscoveryFails(d)
             \/ UNCHANGED consoleVars
      PROVE  FlowInv'
  <2>1. UNCHANGED <<claimed, registered, active, mined, pending, flows>>
    BY <1>8 DEF TransferOwnership, SignInFails, StartDiscovery, FinishDiscovery, DiscoveryFails,
                consoleVars, treasuries, actions
  <2>2. QED
    BY <2>1, OtherOK
<1>9. QED
  BY <1>1, <1>2, <1>3, <1>4, <1>5, <1>6, <1>7, <1>8 DEF ConsoleNext

(* "Safe steps that already confirmed will not be repeated on retry"       *)
(* (frontend/src/routes/SignUpDone.tsx): a launch transaction that finds   *)
(* its step done was sent while another one of that treasury was under way *)
(* or overtook it.                                                         *)
THEOREM LaunchRepeatsNothing ==
  ASSUME EpochBounds
  PROVE  ConsoleSpec => []RepeatedOnlyIfOvertaken
<1>1. FlowInv => RepeatedOnlyIfOvertaken
  BY DEF FlowInv
<1>2. QED
  BY <1>1, FlowInit, FlowStep, PTL DEF ConsoleSpec

(* A mandate that validateMandate lets through is accepted by the          *)
(* treasury's constructor: no deployment is under way that the chain would *)
(* refuse. The form's bounds on the epoch are within the contract's.       *)
THEOREM ValidatedMandateFits ==
  ASSUME EpochBounds
  PROVE  ConsoleSpec => []ValidatedIsAccepted
<1>1. FlowInv => ValidatedIsAccepted
  BY DEF FlowInv, FlowOK, ValidatedIsAccepted
<1>2. QED
  BY <1>1, FlowInit, FlowStep, PTL DEF ConsoleSpec

-----------------------------------------------------------------------------
(* The dashboard                                                           *)

(* A treasury of this factory that is the wallet's, or has been given away *)
(* by its owner since.                                                     *)
Owned(t, w) == t \in Treasuries /\ Current(t) /\ (owner[t] = w \/ t \in transferred)

(* A discovery that is still mounted is one of the dashboard's, for the    *)
(* account of the session.                                                 *)
DiscoveryOK(d) ==
  /\ DOMAIN d = {"owner", "mounted", "requested"} /\ d.owner \in Accounts
  /\ \A t \in d.requested : t \in Treasuries /\ Current(t)
  /\ d.mounted => page = "dashboard" /\ d.owner = account

ViewInv ==
  /\ DOMAIN owner = Treasuries /\ DOMAIN creator = Treasuries
  /\ account \in Accounts \union {None} /\ DOMAIN listed = Accounts
  /\ \A w \in Accounts : listed[w] # None => \A t \in listed[w] : Owned(t, w)
  /\ \A t \in shown : Owned(t, account)
  /\ \A d \in discoveries : DiscoveryOK(d)

(* A step that changes no owner: what is listed and shown has to be owned. *)
LEMMA ViewFrame ==
  ASSUME ViewInv, UNCHANGED <<creator, owner, transferred>>,
         account' \in Accounts \union {None}, DOMAIN listed' = Accounts,
         \A w \in Accounts : listed'[w] # None => \A t \in listed'[w] : Owned(t, w),
         \A t \in shown' : Owned(t, account'),
         \A d \in discoveries' : DiscoveryOK(d)'
  PROVE  ViewInv'
<1>1. \A t, w : Owned(t, w)' <=> Owned(t, w)
  BY DEF Owned, Current
<1>2. ASSUME NEW w \in Accounts, listed'[w] # None, NEW t \in listed'[w]
      PROVE  Owned(t, w)'
  BY <1>1, <1>2
<1>3. ASSUME NEW t \in shown'
      PROVE  Owned(t, account)'
  <2>1. Owned(t, account')
    BY <1>3
  <2>2. QED
    BY <2>1 DEF Owned, Current
<1>4. QED
  BY <1>2, <1>3 DEF ViewInv

(* The views stay as they are.                                             *)
LEMMA SameViews ==
  ASSUME ViewInv, UNCHANGED <<creator, owner, transferred, account, page, listed, shown, discoveries>>
  PROVE  ViewInv'
BY DEF ViewInv, DiscoveryOK, Owned, Current

(* Another page: what it shows was listed for the session's account.       *)
LEMMA GoOK ==
  ASSUME ViewInv, UNCHANGED <<creator, owner, transferred, listed>>,
         NEW p, NEW t, NEW w \in Accounts \union {None}, Go(p, t, w), account' = w,
         w # account => p # page \/ p # "dashboard"
  PROVE  ViewInv'
<1>1. /\ page' = p /\ discoveries' = {[d EXCEPT !.mounted = @ /\ p = page] : d \in discoveries}
      /\ shown' = IF p # "dashboard" \/ w = None THEN {}
                  ELSE IF p = page /\ listed[w] = None THEN shown ELSE Cached(w)
  BY DEF Go
<1>2. ASSUME NEW u \in shown'
      PROVE  Owned(u, account')
  <2>1. p = "dashboard" /\ w \in Accounts
    BY <1>1, <1>2
  <2>2. \/ u \in shown /\ w = account
        \/ listed[w] # None /\ u \in listed[w]
    BY <1>1, <1>2, <2>1 DEF Cached
  <2>3. QED
    BY <2>1, <2>2 DEF ViewInv
<1>3. ASSUME NEW e \in discoveries'
      PROVE  DiscoveryOK(e)'
  <2>1. PICK d \in discoveries : e = [d EXCEPT !.mounted = @ /\ p = page]
    BY <1>1
  <2>2. DiscoveryOK(d) /\ DOMAIN d = {"owner", "mounted", "requested"}
    BY DEF ViewInv, DiscoveryOK
  <2>3. /\ DOMAIN e = {"owner", "mounted", "requested"}
        /\ e.owner = d.owner /\ e.requested = d.requested /\ e.mounted = (d.mounted /\ p = page)
    BY <2>1, <2>2
  <2>4. e.mounted => page' = "dashboard" /\ e.owner = account'
    BY <1>1, <2>2, <2>3 DEF DiscoveryOK
  <2>5. QED
    BY <2>2, <2>3, <2>4 DEF DiscoveryOK, Current
<1>4. account' \in Accounts \union {None} /\ DOMAIN listed' = Accounts
      /\ \A v \in Accounts : listed'[v] # None => \A u \in listed'[v] : Owned(u, v)
  BY DEF ViewInv
<1>5. QED
  BY <1>2, <1>3, <1>4, ViewFrame

(* A treasury is created, or given away: no other one is another's by it.  *)
LEMMA DeployedView ==
  ASSUME ViewInv, NEW tx, MineDeploy(tx)
  PROVE  ViewInv'
<1>1. /\ UNCHANGED <<transferred, account, page, listed, shown, discoveries>>
      /\ \E t \in Treasuries : /\ creator[t] = None /\ creator' = [creator EXCEPT ![t] = tx.by]
                               /\ owner' = [owner EXCEPT ![t] = tx.by]
  BY DEF MineDeploy, session, dashboard, transfer
<1>2. PICK t \in Treasuries : /\ creator[t] = None /\ creator' = [creator EXCEPT ![t] = tx.by]
                              /\ owner' = [owner EXCEPT ![t] = tx.by]
  BY <1>1
<1>3. DOMAIN owner' = Treasuries /\ DOMAIN creator' = Treasuries
  BY <1>2 DEF ViewInv
<1>4. ASSUME NEW u, u \in Treasuries /\ Current(u)
      PROVE  u # t /\ Current(u)' /\ owner'[u] = owner[u]
  BY <1>2, <1>4 DEF ViewInv, Current
<1>5. ASSUME NEW w \in Accounts, listed'[w] # None, NEW u \in listed'[w]
      PROVE  Owned(u, w)'
  <2>1. Owned(u, w)
    BY <1>1, <1>5 DEF ViewInv
  <2>2. QED
    BY <1>1, <1>4, <2>1 DEF Owned
<1>6. ASSUME NEW u \in shown'
      PROVE  Owned(u, account)'
  <2>1. Owned(u, account)
    BY <1>1, <1>6 DEF ViewInv
  <2>2. QED
    BY <1>1, <1>4, <2>1 DEF Owned
<1>7. ASSUME NEW d \in discoveries'
      PROVE  DiscoveryOK(d)'
  <2>1. DiscoveryOK(d)
    BY <1>1, <1>7 DEF ViewInv
  <2>2. QED
    BY <1>1, <1>4, <2>1 DEF DiscoveryOK
<1>8. QED
  BY <1>1, <1>3, <1>5, <1>6, <1>7 DEF ViewInv

LEMMA TransferredView ==
  ASSUME ViewInv, NEW t \in Treasuries, NEW v \in Accounts, TransferOwnership(t, v)
  PROVE  ViewInv'
<1>1. /\ UNCHANGED <<creator, account, page, listed, shown, discoveries>>
      /\ owner' = [owner EXCEPT ![t] = v] /\ transferred' = transferred \union {t}
  BY DEF TransferOwnership, session, dashboard
<1>2. DOMAIN owner' = Treasuries
  BY <1>1 DEF ViewInv
<1>3. ASSUME NEW u, NEW w, Owned(u, w)
      PROVE  Current(u)' /\ u \in Treasuries /\ (owner'[u] = w \/ u \in transferred')
  BY <1>1, <1>3 DEF ViewInv, Owned, Current
<1>4. ASSUME NEW w \in Accounts, listed'[w] # None, NEW u \in listed'[w]
      PROVE  Owned(u, w)'
  <2>1. Owned(u, w)
    BY <1>1, <1>4 DEF ViewInv
  <2>2. QED
    BY <1>3, <2>1 DEF Owned
<1>5. ASSUME NEW u \in shown'
      PROVE  Owned(u, account)'
  <2>1. Owned(u, account)
    BY <1>1, <1>5 DEF ViewInv
  <2>2. QED
    BY <1>1, <1>3, <2>1 DEF Owned
<1>6. ASSUME NEW d \in discoveries'
      PROVE  DiscoveryOK(d)'
  BY <1>1, <1>6 DEF ViewInv, DiscoveryOK, Current
<1>7. QED
  BY <1>1, <1>2, <1>4, <1>5, <1>6 DEF ViewInv

(* A discovery starts for the account of the session, with a treasury that *)
(* the factory knows.                                                      *)
LEMMA StartedView ==
  ASSUME ViewInv, NEW r \in Treasuries \union {None}, StartDiscovery(r)
  PROVE  ViewInv'
<1>1. PICK d : d = [owner |-> account, mounted |-> TRUE,
                    requested |-> {t \in {r} \ {None} : Current(t)}]
  OBVIOUS
<1>2. /\ page = "dashboard" /\ account # None /\ discoveries' = discoveries \union {d}
      /\ UNCHANGED <<creator, owner, transferred, account, page, listed, shown>>
  BY <1>1 DEF StartDiscovery, treasuries, session, transfer
<1>3. DiscoveryOK(d)
  BY <1>1, <1>2 DEF ViewInv, DiscoveryOK
<1>4. ASSUME NEW e \in discoveries'
      PROVE  DiscoveryOK(e)'
  <2>1. DiscoveryOK(e)
    BY <1>2, <1>3 DEF ViewInv
  <2>2. QED
    BY <1>2, <2>1 DEF DiscoveryOK, Current
<1>5. QED
  BY <1>2, <1>4 DEF ViewInv, Owned, Current

(* What is known of an owner are treasuries of this factory; the reading   *)
(* keeps those that are the owner's.                                       *)
LEMMA FinishedView ==
  ASSUME ViewInv, NEW d \in discoveries, FinishDiscovery(d)
  PROVE  ViewInv'
<1>1. /\ discoveries' = discoveries \ {d}
      /\ UNCHANGED <<creator, owner, transferred, account, page>>
      /\ \E read \in SUBSET (Known(d.owner) \union d.requested) :
           /\ listed' = [listed EXCEPT ![d.owner] = OwnViews(read, d.owner)]
           /\ shown' = IF d.mounted THEN OwnViews(read, d.owner) ELSE shown
  BY DEF FinishDiscovery, treasuries, session, transfer
<1>2. PICK read \in SUBSET (Known(d.owner) \union d.requested) :
           /\ listed' = [listed EXCEPT ![d.owner] = OwnViews(read, d.owner)]
           /\ shown' = IF d.mounted THEN OwnViews(read, d.owner) ELSE shown
  BY <1>1
<1>3. DiscoveryOK(d)
  BY DEF ViewInv
<1>4. ASSUME NEW t \in OwnViews(read, d.owner)
      PROVE  Owned(t, d.owner)
  BY <1>3, <1>4 DEF OwnViews, Known, CreatedBy, DiscoveryOK, Owned
<1>5. ASSUME NEW w \in Accounts, listed'[w] # None, NEW t \in listed'[w]
      PROVE  Owned(t, w)
  BY <1>2, <1>4, <1>5 DEF ViewInv
<1>6. ASSUME NEW t \in shown'
      PROVE  Owned(t, account')
  BY <1>1, <1>2, <1>3, <1>4, <1>6 DEF ViewInv, DiscoveryOK
<1>7. ASSUME NEW e \in discoveries'
      PROVE  DiscoveryOK(e)'
  BY <1>1, <1>7 DEF ViewInv, DiscoveryOK, Current
<1>8. account' \in Accounts \union {None} /\ DOMAIN listed' = Accounts
  BY <1>1, <1>2 DEF ViewInv
<1>9. QED
  BY <1>1, <1>5, <1>6, <1>7, <1>8, ViewFrame

LEMMA ReloadedView ==
  ASSUME ViewInv, Reload
  PROVE  ViewInv'
<1>1. /\ account' \in {account, None} /\ listed' = [w \in Accounts |-> None]
      /\ shown' = {} /\ discoveries' = {} /\ UNCHANGED <<creator, owner, transferred>>
  BY DEF Reload, treasuries, transfer
<1>2. account' \in Accounts \union {None}
  BY <1>1 DEF ViewInv
<1>3. QED
  BY <1>1, <1>2, ViewFrame

LEMMA ViewInit ==
  ConsoleInit => ViewInv
BY ConsoleAssumption DEF ConsoleInit, ViewInv

(* Pages change for the account that signs in or out, or stays.            *)
LEMMA PageView ==
  ASSUME ViewInv,
         \/ \E p \in Pages, t \in Treasuries \union {None} : Navigate(p, t)
         \/ \E w \in Accounts, new \in BOOLEAN : SignIn(w, new)
         \/ CompleteSignIn \/ Logout
         \/ \E i \in Flows : ConfirmDeploy(i)
  PROVE  ViewInv'
<1>1. UNCHANGED <<creator, owner, transferred, listed>>
  BY DEF Navigate, SignIn, CompleteSignIn, Logout, ConfirmDeploy, treasuries, transfer
<1>2. account \in Accounts \union {None}
  BY DEF ViewInv
<1>3. CASE \E p \in Pages, t \in Treasuries \union {None} : Navigate(p, t)
  <2>1. PICK p \in Pages, t \in Treasuries \union {None} : Navigate(p, t)
    BY <1>3
  <2>2. Go(p, t, account) /\ account' = account
    BY <2>1 DEF Navigate
  <2>3. QED
    BY <1>1, <1>2, <2>2, GoOK
<1>4. CASE \E w \in Accounts, new \in BOOLEAN : SignIn(w, new)
  <2>1. PICK w \in Accounts, new \in BOOLEAN : SignIn(w, new)
    BY <1>4
  <2>2. PICK p : p = IF new THEN "mandate" ELSE "dashboard"
    OBVIOUS
  <2>3. PICK t : t = None
    OBVIOUS
  <2>4. Go(p, t, w) /\ account' = w /\ page = "signup"
    BY <2>1, <2>2, <2>3 DEF SignIn
  <2>5. p # page
    BY <2>2, <2>4
  <2>6. QED
    BY <1>1, <2>4, <2>5, GoOK
<1>5. CASE CompleteSignIn
  <2>1. PICK p : p = IF CreatedBy(signin) # {} THEN "dashboard" ELSE "mandate"
    OBVIOUS
  <2>2. PICK t : t = None
    OBVIOUS
  <2>3. Go(p, t, account) /\ account' = account
    BY <1>5, <2>1, <2>2 DEF CompleteSignIn
  <2>4. QED
    BY <1>1, <1>2, <2>3, GoOK
<1>6. CASE Logout
  <2>1. PICK p : p = "home"
    OBVIOUS
  <2>2. PICK w : w = None
    OBVIOUS
  <2>3. Go(p, w, w) /\ account' = w
    BY <1>6, <2>1, <2>2 DEF Logout
  <2>4. w \in Accounts \union {None} /\ p # "dashboard"
    BY <2>1, <2>2
  <2>5. QED
    BY <1>1, <2>3, <2>4, GoOK
<1>7. CASE \E i \in Flows : ConfirmDeploy(i)
  <2>1. PICK p, t : Go(p, t, account) /\ account' = account
    BY <1>7 DEF ConfirmDeploy
  <2>2. QED
    BY <1>1, <1>2, <2>1, GoOK
<1>8. QED
  BY <1>3, <1>4, <1>5, <1>6, <1>7

LEMMA ViewStep ==
  ASSUME ViewInv, [ConsoleNext]_consoleVars
  PROVE  ViewInv'
<1>1. ASSUME NEW tx \in pending, MineDeploy(tx) \/ Mine(tx)
      PROVE  ViewInv'
  <2>1. CASE MineDeploy(tx)
    BY <2>1, DeployedView
  <2>2. CASE Mine(tx)
    <3>1. UNCHANGED <<creator, owner, transferred, account, page, listed, shown, discoveries>>
      BY <2>2 DEF Mine, session, dashboard, transfer
    <3>2. QED
      BY <3>1, SameViews
  <2>3. QED
    BY <1>1, <2>1, <2>2
<1>2. ASSUME NEW t \in Treasuries, NEW w \in Accounts, TransferOwnership(t, w)
      PROVE  ViewInv'
  BY <1>2, TransferredView
<1>3. ASSUME NEW t \in Treasuries \union {None}, StartDiscovery(t)
      PROVE  ViewInv'
  BY <1>3, StartedView
<1>4. ASSUME NEW d \in discoveries, FinishDiscovery(d) \/ DiscoveryFails(d)
      PROVE  ViewInv'
  <2>1. CASE FinishDiscovery(d)
    BY <2>1, FinishedView
  <2>2. CASE DiscoveryFails(d)
    BY <2>2 DEF DiscoveryFails, treasuries, session, transfer, ViewInv, DiscoveryOK, Owned, Current
  <2>3. QED
    BY <1>4, <2>1, <2>2
<1>5. ASSUME NEW i \in Flows,
             \/ StartDeploy(i) \/ StartLaunch(i)
             \/ \E k \in {"enable", "pause", "close"}, t \in Treasuries : StartOwnerAction(i, k, t)
             \/ ObtainGas(i) \/ ReadState(i) \/ SendLaunch(i) \/ SendOther(i)
             \/ ConfirmTransaction(i) \/ FlowFails(i)
      PROVE  ViewInv'
  <2>1. UNCHANGED <<treasuries, session, dashboard, transfer>>
    BY <1>5 DEF StartDeploy, StartLaunch, StartOwnerAction, Start, ObtainGas, ReadState, SendLaunch,
                SendOther, ConfirmTransaction, FlowFails, rest
  <2>2. QED
    BY <2>1, SameViews DEF treasuries, session, dashboard, transfer
<1>6. CASE SignInFails \/ UNCHANGED consoleVars
  BY <1>6, SameViews DEF SignInFails, consoleVars, treasuries, session, dashboard, transfer
<1>7. QED
  BY <1>1, <1>2, <1>3, <1>4, <1>5, <1>6, PageView, ReloadedView DEF ConsoleNext

(* The dashboard holds no treasury of another account or of an earlier     *)
(* factory, whatever the table of instances says, whoever used the browser *)
(* before and whichever discoveries end late: it lists the session's own,  *)
(* unless one has been given away since (useOwnerTreasuries.ts).           *)
THEOREM DashboardIsTheOwners ==
  ConsoleSpec => []ShownIsOwned
<1>1. ViewInv => ShownIsOwned
  BY DEF ViewInv, Owned, Current, ShownIsOwned
<1>2. QED
  BY <1>1, ViewInit, ViewStep, PTL DEF ConsoleSpec

-----------------------------------------------------------------------------
(* The type of the console                                                 *)

FlowTyped(f) ==
  /\ DOMAIN f = FlowFields
  /\ f.kind \in FlowKinds /\ f.by \in Accounts /\ f.at \in 1..4
  /\ f.kind = "launch" /\ f.step = "receipt" => f.at \in 1..3

ConsoleTypes ==
  /\ owner \in [Treasuries -> Accounts \union {None}] /\ page \in Pages
  /\ account \in Accounts \union {None}
  /\ shown \subseteq Treasuries /\ DOMAIN listed = Accounts
  /\ \A w \in Accounts : listed[w] # None => listed[w] \subseteq Treasuries
  /\ \A d \in discoveries : /\ DOMAIN d = {"owner", "mounted", "requested"}
                            /\ d.requested \subseteq Treasuries
  /\ \A x \in pending : DOMAIN x = TxFields /\ x.by \in Accounts
  /\ DOMAIN flows = Flows
  /\ \A i \in Flows : flows[i] # None => FlowTyped(flows[i])
  /\ busy \in Treasuries \union {None}

(* A page that is left or loaded again, on whoever's account.              *)
LEMMA GoTyped ==
  ASSUME ConsoleTypes, NEW p \in Pages, NEW t, NEW who \in Accounts \union {None}, Go(p, t, who)
  PROVE  /\ page' \in Pages /\ shown' \subseteq Treasuries
         /\ \A d \in discoveries' : /\ DOMAIN d = {"owner", "mounted", "requested"}
                                    /\ d.requested \subseteq Treasuries
<1>1. page' = p /\ discoveries' = {[d EXCEPT !.mounted = @ /\ p = page] : d \in discoveries}
  BY DEF Go
<1>2. who # None => Cached(who) \subseteq Treasuries
  BY DEF Cached, ConsoleTypes
<1>3. shown' \subseteq Treasuries
  BY <1>2 DEF Go, ConsoleTypes
<1>4. ASSUME NEW d \in discoveries
      PROVE  LET e == [d EXCEPT !.mounted = @ /\ p = page]
             IN  DOMAIN e = {"owner", "mounted", "requested"} /\ e.requested \subseteq Treasuries
  BY DEF ConsoleTypes
<1>5. QED
  BY <1>1, <1>3, <1>4

LEMMA LeaveTyped ==
  ASSUME ConsoleTypes, NEW p, LeaveFlows(p)
  PROVE  /\ DOMAIN flows' = Flows /\ \A i \in Flows : flows'[i] # None => FlowTyped(flows'[i])
         /\ busy' \in Treasuries \union {None}
<1>1. ASSUME NEW i \in Flows, Left(flows[i]) # None
      PROVE  FlowTyped(Left(flows[i]))
  BY <1>1 DEF Left, ConsoleTypes, FlowTyped, FlowFields
<1>2. busy' \in Treasuries \union {None}
  BY Zenon DEF LeaveFlows, ConsoleTypes
<1>3. QED
  BY <1>1, <1>2 DEF LeaveFlows, ConsoleTypes

(* An owner action that moves on.                                          *)
LEMMA AdvanceTyped ==
  ASSUME ConsoleTypes, NEW i \in Flows, NEW f, Advance(i, f), f # None => FlowTyped(f)
  PROVE  /\ DOMAIN flows' = Flows /\ \A j \in Flows : flows'[j] # None => FlowTyped(flows'[j])
         /\ busy' \in Treasuries \union {None}
<1>1. busy' \in Treasuries \union {None}
  BY Zenon DEF Advance, ConsoleTypes
<1>2. flows' = [flows EXCEPT ![i] = f]
  BY DEF Advance
<1>3. QED
  BY <1>1, <1>2 DEF ConsoleTypes

LEMMA ChainTyped ==
  ASSUME ConsoleTypes, NEW tx \in pending, MineDeploy(tx) \/ Mine(tx)
  PROVE  ConsoleTypes'
<1>1. CASE MineDeploy(tx)
  <2>1. PICK t \in Treasuries : owner' = [owner EXCEPT ![t] = tx.by]
    BY <1>1 DEF MineDeploy
  <2>2. owner' \in [Treasuries -> Accounts \union {None}]
    BY <2>1 DEF ConsoleTypes
  <2>3. /\ pending' \subseteq pending
        /\ UNCHANGED <<session, dashboard, actions>>
    BY <1>1 DEF MineDeploy
  <2>4. QED
    BY <2>2, <2>3 DEF ConsoleTypes, session, dashboard, actions
<1>2. CASE Mine(tx)
  <2> DEFINE t == tx.treasury
  <2>1. /\ flows' = [i \in Flows |-> IF flows[i] = None THEN None ELSE Outdated(flows[i], t)]
        /\ pending' = {Outdated(x, t) : x \in pending \ {tx}}
        /\ UNCHANGED <<owner, session, dashboard, busy>>
    BY <1>2 DEF Mine
  <2>2. \A x \in pending' : DOMAIN x = TxFields /\ x.by \in Accounts
    <3>1. ASSUME NEW x \in pending
          PROVE  DOMAIN Outdated(x, t) = TxFields /\ Outdated(x, t).by \in Accounts
      BY DEF Outdated, ConsoleTypes, TxFields
    <3>2. QED
      BY <2>1, <3>1
  <2>3. ASSUME NEW i \in Flows, flows[i] # None
        PROVE  FlowTyped(Outdated(flows[i], t))
    BY <2>3 DEF Outdated, ConsoleTypes, FlowTyped, FlowFields
  <2>4. DOMAIN flows' = Flows /\ \A i \in Flows : flows'[i] # None => FlowTyped(flows'[i])
    BY <2>1, <2>3
  <2>5. QED
    BY <2>1, <2>2, <2>4 DEF ConsoleTypes, session, dashboard
<1>3. QED
  BY <1>1, <1>2

LEMMA SessionTyped ==
  ASSUME ConsoleTypes,
         \/ \E p \in Pages, t \in Treasuries \union {None} : Navigate(p, t)
         \/ \E w \in Accounts, new \in BOOLEAN : SignIn(w, new)
         \/ CompleteSignIn \/ SignInFails \/ Logout \/ Reload
  PROVE  ConsoleTypes'
<1>1. account \in Accounts \union {None} /\ {"home", "signup", "mandate", "done", "dashboard"} = Pages
  BY DEF ConsoleTypes, Pages
<1>2. ASSUME NEW p \in Pages, NEW t, NEW who \in Accounts \union {None}, NEW q,
             Go(p, t, who), LeaveFlows(q), account' \in Accounts \union {None},
             UNCHANGED <<owner, pending, listed>>
      PROVE  ConsoleTypes'
  BY <1>2, GoTyped, LeaveTyped DEF ConsoleTypes
<1>3. ASSUME NEW p \in Pages, NEW t \in Treasuries \union {None}, Navigate(p, t)
      PROVE  ConsoleTypes'
  BY <1>1, <1>2, <1>3 DEF Navigate, treasuries
<1>4. ASSUME NEW w \in Accounts, NEW new \in BOOLEAN, SignIn(w, new)
      PROVE  ConsoleTypes'
  <2>1. (IF new THEN "mandate" ELSE "dashboard") \in Pages
    BY <1>1
  <2>2. QED
    BY <1>2, <1>4, <2>1 DEF SignIn, treasuries
<1>5. CASE CompleteSignIn
  <2> DEFINE p == IF CreatedBy(signin) # {} THEN "dashboard" ELSE "mandate"
  <2>1. p \in Pages
    BY <1>1
  <2>2. Go(p, None, account) /\ LeaveFlows(p) /\ UNCHANGED <<owner, pending, listed, account>>
    BY <1>5 DEF CompleteSignIn, treasuries
  <2> HIDE DEF p
  <2>3. QED
    BY <1>1, <1>2, <2>1, <2>2
<1>6. CASE SignInFails
  BY <1>6 DEF SignInFails, ConsoleTypes, treasuries, dashboard, actions
<1>7. CASE Logout
  BY <1>1, <1>2, <1>7 DEF Logout, treasuries
<1>8. CASE Reload
  BY <1>8 DEF Reload, ConsoleTypes, treasuries
<1>9. QED
  BY <1>3, <1>4, <1>5, <1>6, <1>7, <1>8

LEMMA DiscoveryTyped ==
  ASSUME ConsoleTypes,
         \/ \E t \in Treasuries \union {None} : StartDiscovery(t)
         \/ \E d \in discoveries : FinishDiscovery(d) \/ DiscoveryFails(d)
  PROVE  ConsoleTypes'
<1>1. ASSUME NEW t \in Treasuries \union {None}, StartDiscovery(t)
      PROVE  ConsoleTypes'
  <2> DEFINE new == [owner |-> account, mounted |-> TRUE,
                     requested |-> {u \in {t} \ {None} : Current(u)}]
  <2>1. discoveries' = discoveries \union {new} /\ new.requested \subseteq Treasuries
    BY <1>1 DEF StartDiscovery
  <2>2. DOMAIN new = {"owner", "mounted", "requested"}
    OBVIOUS
  <2>3. UNCHANGED <<treasuries, pending, session, listed, shown, actions>>
    BY <1>1 DEF StartDiscovery
  <2> HIDE DEF new
  <2>4. QED
    BY <2>1, <2>2, <2>3 DEF ConsoleTypes, treasuries, session, actions
<1>2. ASSUME NEW d \in discoveries, FinishDiscovery(d)
      PROVE  ConsoleTypes'
  <2>1. PICK read \in SUBSET (Known(d.owner) \union d.requested) :
          /\ listed' = [listed EXCEPT ![d.owner] = OwnViews(read, d.owner)]
          /\ shown' = IF d.mounted THEN OwnViews(read, d.owner) ELSE shown
    BY <1>2 DEF FinishDiscovery
  <2>2. OwnViews(read, d.owner) \subseteq Treasuries
    BY DEF OwnViews, Known, CreatedBy, ConsoleTypes
  <2>3. /\ discoveries' \subseteq discoveries
        /\ UNCHANGED <<treasuries, pending, session, actions>>
    BY <1>2 DEF FinishDiscovery
  <2>4. QED
    BY <2>1, <2>2, <2>3 DEF ConsoleTypes, treasuries, session, actions
<1>3. ASSUME NEW d \in discoveries, DiscoveryFails(d)
      PROVE  ConsoleTypes'
  BY <1>3 DEF DiscoveryFails, ConsoleTypes, treasuries, session, actions
<1>4. QED
  BY <1>1, <1>2, <1>3

(* An owner action that goes on, sends or ends.                            *)
LEMMA ActionTyped ==
  ASSUME ConsoleTypes, NEW i \in Flows,
         \/ StartDeploy(i) \/ StartLaunch(i)
         \/ \E k \in {"enable", "pause", "close"}, t \in Treasuries : StartOwnerAction(i, k, t)
         \/ ObtainGas(i) \/ ReadState(i) \/ SendLaunch(i) \/ SendOther(i)
         \/ ConfirmTransaction(i) \/ ConfirmDeploy(i) \/ FlowFails(i)
  PROVE  ConsoleTypes'
<1> DEFINE f == flows[i]
<1>1. f # None => FlowTyped(f)
  BY DEF ConsoleTypes
<1>2. {"deploy", "launch", "enable", "pause", "close"} = FlowKinds
  BY DEF FlowKinds
<1>3. ASSUME NEW g, Advance(i, g), g # None => FlowTyped(g),
             \A x \in pending' : DOMAIN x = TxFields /\ x.by \in Accounts,
             UNCHANGED <<owner, page, account, shown, listed, discoveries>>
      PROVE  ConsoleTypes'
  BY <1>3, AdvanceTyped DEF ConsoleTypes
<1>4. \A x \in pending : DOMAIN x = TxFields /\ x.by \in Accounts
  BY DEF ConsoleTypes
<1>5. ASSUME NEW k \in FlowKinds, NEW t, NEW fits, Start(i, k, t, fits),
             busy' \in Treasuries \union {None}
      PROVE  ConsoleTypes'
  <2> DEFINE g == [kind |-> k, by |-> account, treasury |-> t, step |-> "sponsor",
                   id |-> starts, seen |-> {}, at |-> 1, stale |-> FALSE,
                   mounted |-> TRUE, fits |-> fits]
  <2>1. /\ flows' = [flows EXCEPT ![i] = g] /\ account \in Accounts
        /\ UNCHANGED <<owner, pending, page, account, shown, listed, discoveries>>
    BY <1>5 DEF Start, treasuries, session, dashboard, ConsoleTypes
  <2>2. DOMAIN g = FlowFields
    BY DEF FlowFields
  <2>3. FlowTyped(g)
    BY <2>1, <2>2 DEF FlowTyped
  <2> HIDE DEF g
  <2>4. DOMAIN flows' = Flows /\ \A j \in Flows : flows'[j] # None => FlowTyped(flows'[j])
    BY <2>1, <2>3 DEF ConsoleTypes
  <2>5. QED
    BY <1>5, <2>1, <2>4 DEF ConsoleTypes
<1>6. CASE \/ StartDeploy(i) \/ StartLaunch(i)
           \/ \E k \in {"enable", "pause", "close"}, t \in Treasuries : StartOwnerAction(i, k, t)
  <2>1. CASE StartDeploy(i) \/ StartLaunch(i)
    <3>1. busy' \in Treasuries \union {None}
      BY <2>1 DEF StartDeploy, StartLaunch, ConsoleTypes
    <3>2. QED
      BY <1>2, <1>5, <2>1, <3>1 DEF StartDeploy, StartLaunch
  <2>2. ASSUME NEW k \in {"enable", "pause", "close"}, NEW t \in Treasuries,
               StartOwnerAction(i, k, t)
        PROVE  ConsoleTypes'
    <3>1. k \in FlowKinds /\ busy' \in Treasuries \union {None} /\ Start(i, k, t, TRUE)
      BY <1>2, <2>2 DEF StartOwnerAction
    <3>2. QED
      BY <1>5, <3>1
  <2>3. QED
    BY <1>6, <2>1, <2>2
<1>7. CASE ObtainGas(i) \/ ReadState(i) \/ FlowFails(i)
  <2>1. UNCHANGED <<owner, pending, page, account, shown, listed, discoveries>>
    BY <1>7 DEF ObtainGas, ReadState, FlowFails, rest, treasuries, session, dashboard
  <2>2. PICK g : Advance(i, g) /\ (g # None => FlowTyped(g))
    <3>1. CASE ObtainGas(i)
      <4> DEFINE g == [f EXCEPT !.step = IF f.kind = "deploy" THEN "send" ELSE "read"]
      <4>1. Advance(i, g) /\ FlowTyped(f)
        BY <1>1, <3>1 DEF ObtainGas, Waits
      <4>2. FlowTyped(g)
        BY <4>1 DEF FlowTyped, FlowFields
      <4>3. QED
        BY <4>1, <4>2
    <3>2. CASE ReadState(i)
      <4> DEFINE g == [f EXCEPT !.step = "send", !.seen = Done(f.treasury),
                                !.stale = UnderWay(f.treasury)]
      <4>1. (Advance(i, None) \/ Advance(i, g)) /\ FlowTyped(f)
        BY <1>1, <3>2 DEF ReadState, Waits
      <4>2. FlowTyped(g)
        BY <4>1 DEF FlowTyped, FlowFields
      <4> HIDE DEF g
      <4>3. QED
        BY <4>1, <4>2
    <3>3. CASE FlowFails(i)
      BY <3>3 DEF FlowFails
    <3>4. QED
      BY <1>7, <3>1, <3>2, <3>3
  <2>3. QED
    BY <1>3, <1>4, <2>1, <2>2
<1>8. ASSUME NEW g, NEW k, FlowTyped(g), SendTransaction(i, g, k), g.kind = "launch" => g.at \in 1..3,
             UNCHANGED <<owner, page, account, shown, listed, discoveries>>
      PROVE  ConsoleTypes'
  <2> DEFINE tx == [kind |-> k, treasury |-> g.treasury, by |-> g.by, id |-> g.id,
                    stale |-> g.stale, fits |-> g.fits]
             h == [g EXCEPT !.step = "receipt"]
  <2>1. pending' = pending \union {tx} /\ Advance(i, h)
    BY <1>8 DEF SendTransaction
  <2>2. DOMAIN tx = TxFields /\ tx.by \in Accounts
    BY <1>8 DEF TxFields, FlowTyped
  <2>3. FlowTyped(h)
    BY <1>8 DEF FlowTyped, FlowFields
  <2> HIDE DEF tx, h
  <2>4. QED
    BY <1>3, <1>4, <1>8, <2>1, <2>2, <2>3
<1>9. CASE SendLaunch(i)
  <2>1. /\ FlowTyped(f) /\ f.kind = "launch"
        /\ UNCHANGED <<owner, page, account, shown, listed, discoveries>>
    BY <1>1, <1>9 DEF SendLaunch, Waits, treasuries, session, dashboard
  <2>2. CASE NotDone(f) = {}
    <3>1. Advance(i, None) /\ pending' = pending
      BY <1>9, <2>2 DEF SendLaunch
    <3>2. QED
      BY <1>3, <1>4, <2>1, <3>1
  <2>3. CASE NotDone(f) # {}
    <3> DEFINE k == CHOOSE n \in NotDone(f) : \A m \in NotDone(f) : n <= m
               g == [f EXCEPT !.at = k]
    <3>1. SendTransaction(i, g, Steps[k])
      BY <1>9, <2>3 DEF SendLaunch
    <3>2. k \in 1..3
      <4>1. NotDone(f) \subseteq 1..3 /\ f.at \in 1..4
        BY <2>1 DEF NotDone, FlowTyped
      <4>2. \E n \in NotDone(f) : \A m \in NotDone(f) : n <= m
        <5>1. CASE 1 \in NotDone(f)
          BY <4>1, <5>1
        <5>2. CASE 1 \notin NotDone(f) /\ 2 \in NotDone(f)
          BY <4>1, <5>2
        <5>3. CASE 1 \notin NotDone(f) /\ 2 \notin NotDone(f)
          BY <2>3, <4>1, <5>3
        <5>4. QED
          BY <5>1, <5>2, <5>3
      <4>3. QED
        BY <4>1, <4>2
    <3> HIDE DEF k
    <3>3. FlowTyped(g) /\ g.at \in 1..3
      BY <2>1, <3>2 DEF FlowTyped, FlowFields
    <3> HIDE DEF g
    <3>4. QED
      BY <1>8, <2>1, <3>1, <3>3
  <2>4. QED
    BY <2>2, <2>3
<1>10. CASE SendOther(i)
  BY <1>1, <1>8, <1>10 DEF SendOther, Waits, treasuries, session, dashboard
<1>11. CASE ConfirmTransaction(i)
  <2> DEFINE g == [f EXCEPT !.step = "send", !.at = @ + 1, !.seen = Done(f.treasury),
                            !.stale = UnderWay(f.treasury)]
  <2>1. /\ FlowTyped(f) /\ f.step = "receipt"
        /\ Advance(i, None) \/ (f.kind = "launch" /\ Advance(i, g))
    BY <1>1, <1>11 DEF ConfirmTransaction, Waits
  <2>2. UNCHANGED <<owner, pending, page, account, shown, listed, discoveries>>
    BY <1>11 DEF ConfirmTransaction, rest, treasuries, session, dashboard
  <2>3. f.kind = "launch" => FlowTyped(g)
    BY <2>1 DEF FlowTyped, FlowFields
  <2> HIDE DEF g
  <2>4. QED
    BY <1>3, <1>4, <2>1, <2>2, <2>3
<1>12. CASE ConfirmDeploy(i)
  <2>1. PICK x \in Receipts(f) :
          /\ Go("done", x.treasury, account)
          /\ flows' = [j \in Flows |-> IF j = i THEN None ELSE IF page = "done" THEN flows[j]
                                       ELSE Left(flows[j])]
    BY <1>12 DEF ConfirmDeploy
  <2>2. UNCHANGED <<owner, pending, account, listed>> /\ busy' = None
    BY <1>12 DEF ConfirmDeploy, treasuries
  <2>3. "done" \in Pages /\ account \in Accounts \union {None}
    BY DEF Pages, ConsoleTypes
  <2>4. ASSUME NEW j \in Flows, flows[j] # None
        PROVE  FlowTyped(Left(flows[j]))
    BY <2>4 DEF Left, ConsoleTypes, FlowTyped, FlowFields
  <2>5. DOMAIN flows' = Flows /\ \A j \in Flows : flows'[j] # None => FlowTyped(flows'[j])
    BY <2>1, <2>4 DEF Left, ConsoleTypes
  <2>6. QED
    BY <2>1, <2>2, <2>3, <2>5, GoTyped DEF ConsoleTypes
<1>13. QED
  BY <1>6, <1>7, <1>9, <1>10, <1>11, <1>12

(* The type of the console; among it, that no treasury is shown that does  *)
(* not exist and a launch is never beyond its three steps.                 *)
THEOREM ConsoleTyped == ConsoleSpec => []ConsoleTypeOK
<1>1. ConsoleInit => ConsoleTypes
  BY ConsoleAssumption DEF ConsoleInit, ConsoleTypes
<1>2. ConsoleTypes => ConsoleTypeOK
  BY DEF ConsoleTypes, ConsoleTypeOK, FlowTyped
<1>3. ConsoleTypes /\ [ConsoleNext]_consoleVars => ConsoleTypes'
  <2> SUFFICES ASSUME ConsoleTypes, [ConsoleNext]_consoleVars
               PROVE  ConsoleTypes'
    OBVIOUS
  <2>1. ASSUME NEW t \in Treasuries, NEW w \in Accounts, TransferOwnership(t, w)
        PROVE  ConsoleTypes'
    BY <2>1 DEF TransferOwnership, ConsoleTypes, session, dashboard, actions
  <2>2. CASE UNCHANGED consoleVars
    BY <2>2 DEF ConsoleTypes, consoleVars, treasuries, session, dashboard, actions
  <2>3. QED
    BY <2>1, <2>2, ChainTyped, SessionTyped, DiscoveryTyped, ActionTyped DEF ConsoleNext
<1>4. QED
  BY <1>1, <1>2, <1>3, PTL DEF ConsoleSpec

-----------------------------------------------------------------------------
(* The challenges                                                          *)

(* Challenges carry numbers the clock and the secret can be compared with, *)
(* and no secret is older than the process's.                              *)
Dated(n) == n.expiresAt \in Int /\ n.secret \in Int /\ n.secret <= secret

Typed ==
  /\ clock \in Int /\ secret \in Int /\ rollbacks \in Nat
  /\ \A n \in issued : Dated(n)
  /\ \A x \in signed : x.nonce \in issued
  /\ \A a \in accepted : a.nonce \in issued

(* What Consume would refuse: a challenge that is remembered, has expired, *)
(* or is of an earlier process.                                            *)
Spent(n) == n \in used \/ n.expiresAt <= clock \/ n.secret # secret

AuthorizationInv ==
  /\ Typed
  /\ rollbacks = 0 => AcceptedOnce /\ \A a \in accepted : Spent(a.nonce)

LEMMA InitAuthorization == Init => AuthorizationInv
BY DEF Init, AuthorizationInv, Typed, AcceptedOnce

(* The one step that accepts: what it accepts was over for none before.    *)
LEMMA ConsumeAuthorization ==
  ASSUME AuthorizationInv, NEW w \in Wallets, NEW x \in signed, Consume(x, w)
  PROVE  AuthorizationInv'
<1> DEFINE new == [nonce |-> x.nonce, signer |-> x.address, recipient |-> w,
                   at |-> clock, n |-> Cardinality(accepted)]
<1>1. /\ accepted' = accepted \union {new} /\ used' = StillUsed \union {x.nonce}
      /\ UNCHANGED <<clock, secret, issued, signed, rollbacks>>
      /\ new.nonce = x.nonce
  BY DEF Consume
<1>2. Typed'
  BY <1>1 DEF AuthorizationInv, Typed, Dated
<1>3. ~Spent(x.nonce) /\ Dated(x.nonce)
  BY DEF Consume, Fresh, Genuine, Spent, AuthorizationInv, Typed, Dated
<1>4. ASSUME rollbacks = 0
      PROVE  AcceptedOnce' /\ \A a \in accepted' : Spent(a.nonce)'
  <2>1. \A a \in accepted : Spent(a.nonce) /\ Dated(a.nonce) /\ a.nonce # x.nonce
    BY <1>3, <1>4 DEF AuthorizationInv, Typed
  <2>2. AcceptedOnce'
    BY <1>1, <1>4, <2>1 DEF AcceptedOnce, AuthorizationInv
  <2>3. \A a \in accepted : Spent(a.nonce)'
    BY <1>1, <2>1 DEF Spent, StillUsed, Dated, AuthorizationInv, Typed
  <2>4. Spent(new.nonce)'
    BY <1>1 DEF Spent
  <2>5. QED
    BY <1>1, <2>2, <2>3, <2>4
<1>5. QED
  BY <1>1, <1>2, <1>4 DEF AuthorizationInv

LEMMA StepAuthorization == AuthorizationInv /\ [Next]_vars => AuthorizationInv'
<1> SUFFICES ASSUME AuthorizationInv, [Next]_vars
             PROVE  AuthorizationInv'
  OBVIOUS
<1> USE DEF AuthorizationInv, Typed, Dated, Spent, AcceptedOnce
<1>1. CASE Tick
  BY <1>1 DEF Tick
<1>2. CASE SetClockBack
  BY <1>2 DEF SetClockBack
<1>3. CASE Restart
  BY <1>3 DEF Restart, NextSecret
<1>4. ASSUME NEW w \in Wallets, Issue(w)
      PROVE  AuthorizationInv'
  <2>1. issued \subseteq issued' /\ UNCHANGED <<clock, secret, used, signed, accepted, rollbacks>>
    BY <1>4 DEF Issue
  <2>2. \A n \in issued' : Dated(n)
    BY <1>4, AuthorizationAssumption DEF Issue
  <2>3. QED
    BY <2>1, <2>2
<1>5. ASSUME NEW w \in Wallets, NEW n \in issued, Sign(w, n)
      PROVE  AuthorizationInv'
  BY <1>5 DEF Sign
<1>6. CASE UNCHANGED vars
  BY <1>6 DEF vars
<1>7. QED
  BY <1>1, <1>2, <1>3, <1>4, <1>5, <1>6, ConsumeAuthorization DEF Next

(* As long as the clock is not set back, a challenge is accepted at most   *)
(* once, although the process forgets consumed ones when they expire and   *)
(* all of them when it restarts.                                           *)
THEOREM ChallengeOnce == Spec => []AcceptedOnce
<1>1. AuthorizationInv => AcceptedOnce
  <2>1. AuthorizationInv /\ rollbacks # 0 => AcceptedOnce
    BY DEF AcceptedOnce
  <2>2. QED
    BY <2>1 DEF AuthorizationInv
<1>2. QED
  BY <1>1, InitAuthorization, StepAuthorization, PTL DEF Spec

(* The part of the type that the safety of the challenges does not need.   *)
AuthorizationTypes ==
  /\ clock \in 0..MaxClock /\ secret \in 0..MaxRestarts
  /\ IsFiniteSet(issued) /\ issued \subseteq Nonces
  /\ used \subseteq {n \in issued : n.secret = secret}
  /\ \A x \in signed : x.nonce \in issued /\ x.address \in Wallets
  /\ \A a \in accepted : a.nonce \in issued
  /\ rollbacks \in 0..MaxRollback

LEMMA AuthorizationTypesStep == AuthorizationTypes /\ [Next]_vars => AuthorizationTypes'
<1> SUFFICES ASSUME AuthorizationTypes, [Next]_vars
             PROVE  AuthorizationTypes'
  OBVIOUS
<1> USE AuthorizationAssumption DEF AuthorizationTypes
<1>1. CASE Tick
  BY <1>1 DEF Tick
<1>2. CASE SetClockBack
  BY <1>2 DEF SetClockBack
<1>3. CASE Restart
  BY <1>3 DEF Restart, NextSecret
<1>4. ASSUME NEW w \in Wallets, Issue(w)
      PROVE  AuthorizationTypes'
  <2> DEFINE new == [random |-> Cardinality(issued), expiresAt |-> clock + Ttl,
                     address |-> w, secret |-> secret]
  <2>1. /\ issued' = issued \union {new}
        /\ UNCHANGED <<clock, secret, used, signed, accepted, rollbacks>>
    BY <1>4 DEF Issue
  <2>2. new \in Nonces
    <3>1. Cardinality(issued) \in Nat
      BY FS_CardinalityType
    <3>2. QED
      BY <3>1 DEF Nonces
  <2>3. IsFiniteSet(issued')
    BY <2>1, FS_AddElement
  <2> HIDE DEF new
  <2>4. QED
    BY <2>1, <2>2, <2>3
<1>5. ASSUME NEW w \in Wallets, NEW n \in issued, Sign(w, n)
      PROVE  AuthorizationTypes'
  BY <1>5 DEF Sign
<1>6. ASSUME NEW w \in Wallets, NEW x \in signed, Consume(x, w)
      PROVE  AuthorizationTypes'
  <2>1. /\ used' \subseteq used \union {x.nonce} /\ x.nonce.secret = secret
        /\ UNCHANGED <<clock, secret, issued, signed, rollbacks>>
    BY <1>6 DEF Consume, StillUsed, Genuine
  <2>2. \A a \in accepted' : a.nonce \in issued
    BY <1>6 DEF Consume
  <2>3. QED
    BY <2>1, <2>2
<1>7. CASE UNCHANGED vars
  BY <1>7 DEF vars
<1>8. QED
  BY <1>1, <1>2, <1>3, <1>4, <1>5, <1>6, <1>7 DEF Next

(* The type of the sponsor's challenges; among it, that a process          *)
(* remembers no nonce but its own, and accepts none it has not handed out. *)
THEOREM ChallengesTyped == Spec => []TypeOK
<1>1. Init => AuthorizationTypes
  BY AuthorizationAssumption, FS_EmptySet DEF Init, AuthorizationTypes
<1>2. AuthorizationTypes => TypeOK
  BY DEF AuthorizationTypes, TypeOK
<1>3. QED
  BY <1>1, <1>2, AuthorizationTypesStep, PTL DEF Spec

-----------------------------------------------------------------------------
(* The page of an instance                                                 *)

(* A read whose answer will count for part k of the page.                  *)
Pending(k) == \E r \in reads : r.kind = k /\ ~r.cancelled

(* A read that has not been cancelled is of the selected address.          *)
ReadOK(r) ==
  /\ r \in [kind : {"tenants", "treasury", "balance", "agent"}, of : Selectable \union {Unset},
            cancelled : BOOLEAN]
  /\ r.kind # "tenants" /\ ~r.cancelled => r.of = address

(* A part of the page is loading while its read is under way; afterwards   *)
(* it is the selected address's, or says that it cannot be had.            *)
TreasuryOK ==
  IF Pending("treasury") THEN ~error
  ELSE /\ ~loading /\ (error <=> treasury = Empty)
       /\ treasury # Empty => /\ treasury.of = address /\ address \in Instances
                              /\ treasury.journalLength \in Nat
                              /\ treasury.journalLength <= entries[address]
BalanceOK ==
  ~Pending("balance") => ~balanceLoading /\ (address # Unset => balance.of = address)

ViewerInv ==
  /\ deployed \subseteq Instances /\ discovered \subseteq deployed
  /\ DOMAIN entries = Instances /\ \A i \in Instances : entries[i] \in Nat
  /\ served = Malformed \/ \E S : served = Rows(S) /\ S \subseteq deployed \union {BadRow}
  /\ error \in BOOLEAN
  /\ \A r \in reads : ReadOK(r)
  /\ TreasuryOK /\ BalanceOK

LEMMA ViewerStart ==
  ViewerInit => ViewerInv
<1> SUFFICES ASSUME ViewerInit
             PROVE  ViewerInv
  OBVIOUS
<1>1. CASE Configured = Unset
  <2>1. reads = {Discovery}
    BY <1>1 DEF ViewerInit, Effects
  <2>2. ~Pending("treasury") /\ ~Pending("balance") /\ \A r \in reads : ReadOK(r)
    BY <2>1 DEF Pending, ReadOK, Discovery
  <2>3. QED
    BY <1>1, <2>2, ViewerAssumption DEF ViewerInit, ViewerInv, TreasuryOK, BalanceOK
<1>2. CASE Configured # Unset
  <2>1. reads = {Discovery} \union
                  {[kind |-> k, of |-> address, cancelled |-> FALSE] : k \in {"treasury", "balance", "agent"}}
    BY <1>2 DEF ViewerInit, Effects
  <2>2. Pending("treasury") /\ Pending("balance")
    <3>1. ASSUME NEW k \in {"treasury", "balance", "agent"}
          PROVE  Pending(k)
      <4>1. [kind |-> k, of |-> address, cancelled |-> FALSE] \in reads
        BY <2>1
      <4>2. QED
        BY <4>1 DEF Pending
    <3>2. QED
      BY <3>1
  <2>3. ASSUME NEW r \in reads
        PROVE  ReadOK(r)
    <3>1. address \in Selectable \union {Unset}
      BY ViewerAssumption DEF ViewerInit, Selectable
    <3>2. CASE r = Discovery
      BY <3>2 DEF ReadOK, Discovery
    <3>3. CASE r # Discovery
      <4>1. PICK k \in {"treasury", "balance", "agent"} :
              r = [kind |-> k, of |-> address, cancelled |-> FALSE]
        BY <2>1, <3>3
      <4>2. QED
        BY <3>1, <4>1 DEF ReadOK
    <3>4. QED
      BY <3>2, <3>3
  <2>4. QED
    BY <1>2, <2>2, <2>3, ViewerAssumption DEF ViewerInit, ViewerInv, TreasuryOK, BalanceOK
<1>3. QED
  BY <1>1, <1>2

(* What happens on the chain and to the file: journals only grow, and      *)
(* treasuries are only added.                                              *)
LEMMA ChainStep ==
  ASSUME ViewerInv,
         (\E i \in Instances : CreateTreasury(i) \/ SetSubmitter(i) \/ Journal(i)) \/ IndexTenants
  PROVE  ViewerInv'
<1>1. /\ UNCHANGED <<address, treasury, loading, error, balance, balanceLoading, discovered, reads>>
      /\ deployed \subseteq deployed'
  BY DEF CreateTreasury, SetSubmitter, Journal, IndexTenants, Change, shownValues
<1>2. deployed' \subseteq Instances
  BY DEF CreateTreasury, SetSubmitter, Journal, IndexTenants, ViewerInv
<1>3. /\ DOMAIN entries' = Instances
      /\ \A i \in Instances : entries'[i] \in Nat /\ entries[i] <= entries'[i]
  BY DEF CreateTreasury, SetSubmitter, Journal, IndexTenants, ViewerInv
<1>4. served' = Malformed \/ \E S : served' = Rows(S) /\ S \subseteq deployed' \union {BadRow}
  <2>1. CASE IndexTenants
    <3>1. \/ served' = Malformed \/ served' = Rows(deployed) \/ served' = Rows(deployed \union {BadRow})
      BY <2>1 DEF IndexTenants
    <3>2. QED
      BY <1>1, <3>1
  <2>2. CASE \E i \in Instances : CreateTreasury(i) \/ SetSubmitter(i) \/ Journal(i)
    <3>1. served' = served
      BY <2>2 DEF CreateTreasury, SetSubmitter, Journal
    <3>2. QED
      BY <1>1, <3>1 DEF ViewerInv
  <2>3. QED
    BY <2>1, <2>2
<1>5. \A r \in reads' : ReadOK(r)'
  BY <1>1 DEF ViewerInv, ReadOK
<1>6. /\ Pending("treasury")' <=> Pending("treasury")
      /\ Pending("balance")' <=> Pending("balance")
  BY <1>1 DEF Pending
<1>7. TreasuryOK'
  BY <1>1, <1>3, <1>6 DEF ViewerInv, TreasuryOK, Empty
<1>8. BalanceOK'
  BY <1>1, <1>6 DEF ViewerInv, BalanceOK
<1>9. QED
  BY <1>1, <1>2, <1>3, <1>4, <1>5, <1>7, <1>8 DEF ViewerInv

(* The address has one read of a kind that counts: once it has arrived,    *)
(* none is left; and what has been cancelled does not matter.              *)
LEMMA ReadArrives ==
  ASSUME ViewerInv, NEW r \in reads, Over(r), address' = address
  PROVE  /\ \A x \in reads' : ReadOK(x)'
         /\ \A k : Pending(k)' => Pending(k)
         /\ \A k : k # r.kind \/ r.cancelled => (Pending(k) => Pending(k)')
         /\ ~r.cancelled /\ r.kind # "tenants" => Pending(r.kind) /\ ~Pending(r.kind)'
<1>1. reads' = reads \ {r} /\ ReadOK(r) /\ \A x \in reads : ReadOK(x)
  BY DEF Over, ViewerInv
<1>2. ASSUME NEW x \in reads'
      PROVE  ReadOK(x)'
  BY <1>1, <1>2 DEF ReadOK
<1>3. \A k : Pending(k)' => Pending(k)
  BY <1>1 DEF Pending
<1>4. ASSUME NEW k, k # r.kind \/ r.cancelled, Pending(k)
      PROVE  Pending(k)'
  BY <1>1, <1>4 DEF Pending
<1>5. ASSUME ~r.cancelled, r.kind # "tenants"
      PROVE  Pending(r.kind) /\ ~Pending(r.kind)'
  <2>1. Pending(r.kind)
    BY <1>5 DEF Pending
  <2>2. ASSUME NEW x \in reads, x # r, x.kind = r.kind, ~x.cancelled
        PROVE  FALSE
    <3>1. x.of = r.of /\ x.cancelled = r.cancelled
      BY <1>1, <1>5, <2>2 DEF ReadOK
    <3>2. x = r
      BY <1>1, <2>2, <3>1 DEF ReadOK
    <3>3. QED
      BY <2>2, <3>2
  <2>3. ~Pending(r.kind)'
    BY <1>1, <2>2 DEF Pending
  <2>4. QED
    BY <2>1, <2>3
<1>6. QED
  BY <1>2, <1>3, <1>4, <1>5

(* The guardrails arrive, or the error.                                    *)
LEMMA TreasuryStep ==
  ASSUME ViewerInv, NEW r \in reads, TreasuryArrives(r)
  PROVE  ViewerInv'
<1>1. /\ r.kind = "treasury" /\ Over(r)
      /\ UNCHANGED <<deployed, entries, served, discovered, address, balance, balanceLoading>>
  BY DEF TreasuryArrives, instances
<1>2. ReadOK(r)
  BY DEF ViewerInv
<1>3. /\ \A x \in reads' : ReadOK(x)'
      /\ \A k : Pending(k)' => Pending(k)
      /\ \A k : k # "treasury" \/ r.cancelled => (Pending(k) => Pending(k)')
      /\ ~r.cancelled => Pending("treasury") /\ ~Pending("treasury")'
  BY <1>1, ReadArrives
<1>4. BalanceOK'
  <2>1. Pending("balance") => Pending("balance")'
    BY <1>3
  <2>2. QED
    BY <1>1, <2>1 DEF ViewerInv, BalanceOK
<1>5. TreasuryOK' /\ error' \in BOOLEAN
  <2>1. CASE r.cancelled
    <3>1. UNCHANGED <<treasury, error, loading>>
      BY <2>1 DEF TreasuryArrives, InForce
    <3>2. Pending("treasury")' <=> Pending("treasury")
      BY <1>3, <2>1
    <3>3. QED
      BY <1>1, <3>1, <3>2 DEF ViewerInv, TreasuryOK, Empty
  <2>2. CASE ~r.cancelled
    <3>1. /\ ~Pending("treasury")' /\ ~error
      BY <1>3, <2>2 DEF ViewerInv, TreasuryOK
    <3>2. r.of = address /\ ~loading'
      BY <1>1, <1>2, <2>2 DEF ReadOK, TreasuryArrives, InForce
    <3>3. \/ treasury' \in FetchTreasuryInfo(address) /\ UNCHANGED error
          \/ treasury' = Empty /\ error' = TRUE
      BY <2>2, <3>2 DEF TreasuryArrives, InForce
    <3>4. CASE treasury' \in FetchTreasuryInfo(address) /\ UNCHANGED error
      <4>1. address \in Instances
        BY <3>4 DEF FetchTreasuryInfo, ViewerInv
      <4>2. PICK n \in 0..entries[address] : treasury' = [of |-> address, journalLength |-> n]
        BY <3>4 DEF FetchTreasuryInfo
      <4>3. n \in Nat /\ n <= entries[address]
        BY <4>1, <4>2 DEF ViewerInv
      <4>4. treasury' # Empty /\ treasury'.of = address /\ treasury'.journalLength = n
        <5>1. DOMAIN treasury' = {"of", "journalLength"}
          BY <4>2
        <5>2. DOMAIN Empty = {"of"}
          BY DEF Empty
        <5>3. treasury' # Empty
          <6>1. "journalLength" \in DOMAIN treasury' /\ "journalLength" \notin DOMAIN Empty
            BY <5>1, <5>2
          <6>2. QED
            BY <6>1
        <5>4. treasury'.of = address /\ treasury'.journalLength = n
          BY <4>2
        <5>5. QED
          BY <5>3, <5>4
      <4>5. error' \in BOOLEAN
        BY <3>4 DEF ViewerInv
      <4>6. QED
        BY <1>1, <3>1, <3>2, <3>4, <4>1, <4>3, <4>4, <4>5 DEF TreasuryOK, Empty
    <3>5. CASE treasury' = Empty /\ error' = TRUE
      BY <3>1, <3>2, <3>5 DEF TreasuryOK, Empty
    <3>6. QED
      BY <3>1, <3>3, <3>4, <3>5 DEF ViewerInv
  <2>3. QED
    BY <1>2, <2>1, <2>2 DEF ReadOK
<1>6. QED
  BY <1>1, <1>3, <1>4, <1>5 DEF ViewerInv

LEMMA BalanceStep ==
  ASSUME ViewerInv, NEW r \in reads, BalanceArrives(r)
  PROVE  ViewerInv'
<1>1. /\ r.kind = "balance" /\ Over(r)
      /\ UNCHANGED <<deployed, entries, served, discovered, address, treasury, loading, error>>
  BY DEF BalanceArrives, instances
<1>2. ReadOK(r)
  BY DEF ViewerInv
<1>3. /\ \A x \in reads' : ReadOK(x)'
      /\ \A k : Pending(k)' => Pending(k)
      /\ \A k : k # "balance" \/ r.cancelled => (Pending(k) => Pending(k)')
      /\ ~r.cancelled => Pending("balance") /\ ~Pending("balance")'
  BY <1>1, ReadArrives
<1>4. TreasuryOK'
  <2>1. Pending("treasury") <=> Pending("treasury")'
    BY <1>3
  <2>2. QED
    BY <1>1, <2>1 DEF ViewerInv, TreasuryOK, Empty
<1>5. BalanceOK'
  <2>1. CASE r.cancelled
    <3>1. UNCHANGED <<balance, balanceLoading>>
      BY <2>1 DEF BalanceArrives, InForce
    <3>2. Pending("balance")' <=> Pending("balance")
      BY <1>3, <2>1
    <3>3. QED
      BY <1>1, <3>1, <3>2 DEF ViewerInv, BalanceOK
  <2>2. CASE ~r.cancelled
    <3>1. r.of = address
      BY <1>1, <1>2, <2>2 DEF ReadOK
    <3>2. balance' \in FetchNativeBalance(address) \union {Unavailable(address)} /\ balanceLoading' = FALSE
      BY <2>2, <3>1 DEF BalanceArrives, InForce
    <3>3. balance'.of = address
      BY <3>2 DEF FetchNativeBalance, Unavailable
    <3>4. QED
      BY <1>1, <3>2, <3>3 DEF BalanceOK
  <2>3. QED
    BY <1>2, <2>1, <2>2 DEF ReadOK
<1>6. QED
  BY <1>1, <1>3, <1>4, <1>5 DEF ViewerInv

(* The registration and the list of instances are no part of the page that *)
(* the invariant is about; a list only holds instances of the file.        *)
LEMMA OtherArrives ==
  ASSUME ViewerInv, NEW r \in reads, RegistrationArrives(r) \/ TenantsArrive(r)
  PROVE  ViewerInv'
<1>1. /\ r.kind \notin {"treasury", "balance"} /\ Over(r)
      /\ UNCHANGED <<deployed, entries, served, address, treasury, loading, error, balance,
                     balanceLoading>>
  BY DEF RegistrationArrives, TenantsArrive, instances, shownValues
<1>2. /\ \A x \in reads' : ReadOK(x)'
      /\ Pending("treasury")' <=> Pending("treasury")
      /\ Pending("balance")' <=> Pending("balance")
  <2>1. /\ \A x \in reads' : ReadOK(x)'
        /\ \A k : Pending(k)' => Pending(k)
        /\ \A k : k # r.kind \/ r.cancelled => (Pending(k) => Pending(k)')
    BY <1>1, ReadArrives
  <2>2. QED
    BY <1>1, <2>1
<1>3. discovered' \subseteq deployed
  <2>1. CASE RegistrationArrives(r)
    BY <2>1 DEF RegistrationArrives, ViewerInv
  <2>2. CASE TenantsArrive(r)
    <3>1. discovered' \in FetchTenantList
      BY <2>2 DEF TenantsArrive
    <3>2. CASE served = Malformed
      BY <3>1, <3>2 DEF FetchTenantList
    <3>3. CASE served # Malformed
      <4>1. PICK S : served = Rows(S) /\ S \subseteq deployed \union {BadRow}
        BY <3>3 DEF ViewerInv
      <4>2. served.tenants = S
        BY <4>1 DEF Rows
      <4>3. QED
        BY <3>1, <4>1, <4>2 DEF FetchTenantList, IsDiscoveredTenant
    <3>4. QED
      BY <3>2, <3>3
  <2>3. QED
    BY <2>1, <2>2
<1>4. TreasuryOK' /\ BalanceOK'
  BY <1>1, <1>2 DEF ViewerInv, TreasuryOK, BalanceOK, Empty
<1>5. QED
  BY <1>1, <1>2, <1>3, <1>4 DEF ViewerInv

(* Another address: its own reads are under way, and no other counts.      *)
LEMMA SwitchStep ==
  ASSUME ViewerInv, NEW a \in Selectable, Switch(a)
  PROVE  ViewerInv'
<1>1. /\ address' = a /\ loading' = TRUE /\ error' = FALSE
      /\ reads' = {[r EXCEPT !.cancelled = (r.kind # "tenants")] : r \in reads} \union Effects(a)
      /\ UNCHANGED <<deployed, entries, served, discovered>>
  BY DEF Switch, instances
<1>2. a # Unset
  BY ViewerAssumption DEF Selectable
<1>3. Effects(a) = {[kind |-> k, of |-> a, cancelled |-> FALSE] : k \in {"treasury", "balance", "agent"}}
  BY <1>2 DEF Effects
<1>4. ASSUME NEW x \in reads'
      PROVE  ReadOK(x)'
  <2>1. CASE x \in Effects(a)
    <3>1. PICK k \in {"treasury", "balance", "agent"} : x = [kind |-> k, of |-> a, cancelled |-> FALSE]
      BY <1>3, <2>1
    <3>2. QED
      BY <1>1, <3>1 DEF ReadOK
  <2>2. CASE x \notin Effects(a)
    <3>1. PICK r \in reads : x = [r EXCEPT !.cancelled = (r.kind # "tenants")]
      BY <1>1, <2>2
    <3>2. ReadOK(r)
      BY DEF ViewerInv
    <3>3. /\ x \in [kind : {"tenants", "treasury", "balance", "agent"}, of : Selectable \union {Unset},
                     cancelled : BOOLEAN]
          /\ x.kind = r.kind /\ x.cancelled = (r.kind # "tenants")
      BY <3>1, <3>2 DEF ReadOK
    <3>4. x.kind # "tenants" => x.cancelled
      BY <3>3
    <3>5. QED
      BY <3>3, <3>4 DEF ReadOK
  <2>3. QED
    BY <2>1, <2>2
<1>5. ASSUME NEW k \in {"treasury", "balance", "agent"}
      PROVE  Pending(k)'
  <2>1. [kind |-> k, of |-> a, cancelled |-> FALSE] \in reads'
    BY <1>1, <1>3
  <2>2. QED
    BY <2>1 DEF Pending
<1>6. Pending("treasury")' /\ Pending("balance")'
  BY <1>5
<1>7. TreasuryOK' /\ BalanceOK'
  BY <1>1, <1>6 DEF TreasuryOK, BalanceOK
<1>8. QED
  BY <1>1, <1>4, <1>7 DEF ViewerInv

(* However answers overtake each other and whatever is selected meanwhile  *)
(* (frontend/src/routes/Treasury.tsx): once the last address's own reads    *)
(* have ended, the page shows the guardrails and the balance of that        *)
(* address, or says that it cannot; no spinner is left, and the journal is  *)
(* never longer than on the chain.                                          *)
THEOREM PageSettles ==
  ViewerSpec => []ViewSettles
<1>1. ViewerInv /\ [ViewerNext]_viewerVars => ViewerInv'
  <2> SUFFICES ASSUME ViewerInv, [ViewerNext]_viewerVars
               PROVE  ViewerInv'
    OBVIOUS
  <2>1. CASE UNCHANGED viewerVars
    <3>1. UNCHANGED <<deployed, entries, served, address, treasury, loading, error, balance,
                      balanceLoading, discovered, reads>>
      BY <2>1 DEF viewerVars, instances, shownValues
    <3>2. QED
      BY <3>1 DEF ViewerInv, ReadOK, TreasuryOK, BalanceOK, Pending, Empty
  <2>2. ASSUME NEW r \in reads,
               \/ TreasuryArrives(r) \/ BalanceArrives(r) \/ RegistrationArrives(r) \/ TenantsArrive(r)
        PROVE  ViewerInv'
    BY <2>2, TreasuryStep, BalanceStep, OtherArrives
  <2>3. QED
    BY <2>1, <2>2, ChainStep, SwitchStep DEF ViewerNext
<1>2. ViewerInv => ViewSettles
  <2> SUFFICES ASSUME ViewerInv, Settled
               PROVE  /\ ~loading /\ ~balanceLoading /\ (error <=> treasury = Empty)
                      /\ treasury # Empty => /\ treasury.of = address
                                             /\ treasury.journalLength <= entries[address]
                      /\ address # Unset => balance.of = address
                      /\ discovered \subseteq deployed
    BY DEF ViewSettles
  <2>1. ~Pending("treasury") /\ ~Pending("balance")
    BY DEF Settled, Pending
  <2>2. QED
    BY <2>1 DEF ViewerInv, TreasuryOK, BalanceOK
<1>3. QED
  BY <1>1, <1>2, ViewerStart, PTL DEF ViewerSpec

-----------------------------------------------------------------------------
(* The audit projection: attempts and their heights                        *)

LEMMA AttemptIdsIs ==
  ASSUME NEW c, NEW h \in Nat
  PROVE  /\ AttemptIds(c, h) \in 0..h /\ AttemptIds(c, 0) = 0
         /\ h > 0 => AttemptIds(c, h) = AttemptIds(c, h - 1) + IF c[h].tx # Nothing THEN 1 ELSE 0
<1> DEFINE of(k) == {i \in 1..k : c[i].tx # Nothing}
<1>1. ASSUME NEW k \in Nat
      PROVE  IsFiniteSet(of(k)) /\ Cardinality(of(k)) \in 0..k
  <2>1. IsFiniteSet(1..k) /\ Cardinality(1..k) = k
    BY FS_Interval
  <2>2. of(k) \in SUBSET (1..k)
    OBVIOUS
  <2>3. IsFiniteSet(of(k)) /\ Cardinality(of(k)) <= k
    BY <2>1, <2>2, FS_Subset
  <2>4. QED
    BY <2>3, FS_CardinalityType
<1>2. of(0) = {}
  OBVIOUS
<1>3. ASSUME h > 0
      PROVE  Cardinality(of(h)) = Cardinality(of(h - 1)) + IF c[h].tx # Nothing THEN 1 ELSE 0
  <2>1. h - 1 \in Nat
    BY <1>3
  <2>2. IsFiniteSet(of(h - 1)) /\ Cardinality(of(h - 1)) \in Nat
    BY <1>1, <2>1
  <2>3. h \notin of(h - 1)
    OBVIOUS
  <2>4. of(h) = IF c[h].tx # Nothing THEN of(h - 1) \union {h} ELSE of(h - 1)
    <3>1. \A i : i \in 1..h <=> i \in 1..(h - 1) \/ i = h
      BY <1>3
    <3>2. QED
      BY <3>1
  <2> HIDE DEF of
  <2>5. Cardinality(of(h - 1) \union {h}) = Cardinality(of(h - 1)) + 1
    BY <2>2, <2>3, FS_AddElement
  <2>6. QED
    BY <2>2, <2>4, <2>5
<1>4. Cardinality(of(0)) = 0
  BY <1>2, FS_EmptySet
<1>5. \A k : AttemptIds(c, k) = Cardinality(of(k))
  BY DEF AttemptIds
<1> HIDE DEF of
<1>6. QED
  BY <1>1, <1>3, <1>4, <1>5

(* Every id up to the number of attempts is that of an attempt.            *)
LEMMA HeightExists ==
  ASSUME NEW n \in Nat, n <= Len(chain), NEW S, chain \in Seq(S),
         NEW id \in 1..AttemptIds(chain, n)
  PROVE  /\ HeightOf(id) \in 1..Len(chain) /\ chain[HeightOf(id)].tx # Nothing
         /\ AttemptIds(chain, HeightOf(id)) = id
<1> DEFINE heights == {h \in 0..n : AttemptIds(chain, h) >= id}
           D == {0..h : h \in heights}
<1>1. \A k \in Nat : AttemptIds(chain, k) \in Nat
  <2> SUFFICES ASSUME NEW k \in Nat
               PROVE  AttemptIds(chain, k) \in Nat
    OBVIOUS
  <2>1. AttemptIds(chain, k) \in 0..k
    BY AttemptIdsIs
  <2>2. QED
    BY <2>1
<1>2. id \in Nat /\ id >= 1 /\ id <= AttemptIds(chain, n)
  BY <1>1
<1>3. 0..n \in D /\ D \in SUBSET SUBSET (0..n)
  <2>1. n \in heights
    BY <1>1, <1>2
  <2>2. QED
    BY <2>1
<1>4. IsFiniteSet(0..n)
  BY FS_Interval
<1>5. PICK s \in D : \A x \in s : s \ {x} \notin D
  <2>1. D # {}
    BY <1>3
  <2> HIDE DEF D
  <2>2. QED
    BY <1>3, <1>4, <2>1, SmallestSubset
<1>6. PICK h \in heights : s = 0..h
  BY <1>5
<1>7. h \in 0..n /\ AttemptIds(chain, h) >= id
  BY <1>6
<1>8. h > 0
  <2>1. AttemptIds(chain, 0) = 0
    BY AttemptIdsIs
  <2>2. QED
    BY <1>2, <1>7, <2>1
<1>9. AttemptIds(chain, h - 1) < id
  <2>1. s \ {h} = 0..(h - 1)
    BY <1>6, <1>7, <1>8
  <2>2. h \in s
    BY <1>6, <1>7
  <2>3. h - 1 \notin heights
    <3> HIDE DEF heights
    <3>1. 0..(h - 1) \notin D
      BY <1>5, <2>1, <2>2
    <3>2. QED
      BY <3>1
  <2>4. h - 1 \in 0..n /\ h - 1 \in Nat
    BY <1>7, <1>8
  <2>5. AttemptIds(chain, h - 1) \in Nat
    BY <1>1, <2>4
  <2> DEFINE before == AttemptIds(chain, h - 1)
  <2>6. ~(before >= id)
    BY <2>3, <2>4
  <2> HIDE DEF before
  <2>7. before < id
    BY <1>2, <2>5, <2>6 DEF before
  <2>8. QED
    BY <2>7 DEF before
<1>10. AttemptIds(chain, h) = AttemptIds(chain, h - 1) + IF chain[h].tx # Nothing THEN 1 ELSE 0
  BY <1>7, <1>8, AttemptIdsIs
<1>11. chain[h].tx # Nothing /\ AttemptIds(chain, h) = id
  <2>0. h - 1 \in Nat /\ h \in Nat
    BY <1>7, <1>8
  <2>1. AttemptIds(chain, h - 1) \in Nat /\ AttemptIds(chain, h) \in Nat
    BY <1>1, <2>0
  <2> DEFINE before == AttemptIds(chain, h - 1)
             now == AttemptIds(chain, h)
             there == chain[h].tx # Nothing
  <2>2. /\ before \in Nat /\ now \in Nat /\ now >= id /\ before < id
        /\ there => now = before + 1
        /\ ~there => now = before + 0
    BY <1>7, <1>9, <1>10, <2>1
  <2> HIDE DEF before, now, there
  <2>3. there /\ now = id
    BY <1>2, <2>2
  <2>4. QED
    BY <2>3 DEF now, there
<1>12. Len(chain) \in Nat /\ DOMAIN chain = 1..Len(chain)
  BY LenProperties
<1>13. h \in DOMAIN chain
  BY <1>7, <1>8, <1>12
<1>14. \E x \in DOMAIN chain : chain[x].tx # Nothing /\ AttemptIds(chain, x) = id
  BY <1>11, <1>13
<1>15. /\ HeightOf(id) \in DOMAIN chain
       /\ chain[HeightOf(id)].tx # Nothing /\ AttemptIds(chain, HeightOf(id)) = id
  <2> DEFINE P(x) == chain[x].tx # Nothing /\ AttemptIds(chain, x) = id
  <2>1. HeightOf(id) = CHOOSE x \in DOMAIN chain : P(x)
    BY DEF HeightOf
  <2>2. \E x \in DOMAIN chain : P(x)
    BY <1>14
  <2>3. HeightOf(id) \in DOMAIN chain /\ P(HeightOf(id))
    <3> HIDE DEF P
    <3>1. QED
      BY <2>1, <2>2
  <2>4. QED
    BY <2>3
<1>16. QED
  BY <1>12, <1>15

-----------------------------------------------------------------------------
(* The audit projection: the type of its state                             *)

Records == [id : Ids, content : Txs \union {Nothing}]
Puttings == [tx : Txs, envelope : Envelopes]
MaxHash == MaxHeight * (MaxReorgs + 1)

(* Hashes suffice because a reorganisation takes at most MaxHeight new     *)
(* ones; heights that were read stay, since a chain never shrinks.         *)
ChainInv ==
  /\ setting \in Settings /\ chain \in Seq(Blocks) /\ Len(chain) <= MaxHeight
  /\ reorgs \in 0..MaxReorgs /\ nextHash \in Nat /\ 1 <= nextHash
  /\ nextHash + (MaxHeight - Len(chain)) + MaxHeight * (MaxReorgs - reorgs) <= MaxHash + 1

ReadsInv ==
  /\ latest \in 0..Len(chain) /\ logs \in Seq(Logs)
  /\ pc \in {"idle", "logs", "record", "upsert", "done"} /\ undisturbed \in BOOLEAN
  /\ (pc \in {"record", "upsert"} => logs # <<>>)
  /\ \A i \in DOMAIN logs : logs[i].block <= Len(chain) /\ logs[i].id >= 1
  /\ pc = "upsert" => record \in Records /\ (record.content = Nothing <=> record.id = 0)

RowsInv ==
  /\ attempts \in [Ids -> AttemptRows \union {Nothing}]
  /\ \A id \in Ids : attempts[id] # Nothing => (attempts[id].content = Nothing <=> id = 0)

DecisionsInv ==
  /\ decisions \in [Txs -> Envelopes \union {Nothing}]
  /\ putting \in [Writers -> Puttings \union {Nothing}]

AuditInv == ChainInv /\ ReadsInv /\ RowsInv /\ DecisionsInv

LEMMA Absent ==
  ASSUME setting \in Settings
  PROVE  Nothing \notin Txs /\ Nothing \notin AttemptRows
BY NothingAssumption DEF Txs, AttemptRows

LEMMA AuditStart == AuditInit => AuditInv
<1> SUFFICES ASSUME AuditInit
             PROVE  AuditInv
  OBVIOUS
<1>1. /\ setting \in Settings /\ chain = <<>> /\ nextHash = 1
      /\ attempts = [i \in Ids |-> Nothing] /\ latest = 0 /\ logs = <<>> /\ pc = "idle"
      /\ undisturbed = FALSE
      /\ decisions = [t \in Txs |-> Nothing] /\ putting = [w \in Writers |-> Nothing]
      /\ reorgs = 0
  BY DEF AuditInit
<1>2. MaxHeight \in Nat /\ MaxReorgs \in Nat
  BY AuditAssumption
<1>3. Len(<<>>) = 0 /\ <<>> \in Seq(Blocks) /\ <<>> \in Seq(Logs) /\ DOMAIN <<>> = {}
  OBVIOUS
<1>4. 1 + (MaxHeight - 0) + MaxHeight * (MaxReorgs - 0) <= MaxHash + 1
  <2>1. MaxHeight * (MaxReorgs + 1) = MaxHeight * MaxReorgs + MaxHeight
    BY <1>2
  <2>2. MaxHeight * MaxReorgs \in Nat
    BY <1>2
  <2>3. MaxReorgs - 0 = MaxReorgs
    BY <1>2
  <2>4. QED
    BY <1>2, <2>1, <2>2, <2>3 DEF MaxHash
<1>5. ChainInv
  BY <1>1, <1>2, <1>3, <1>4 DEF ChainInv
<1>6. ReadsInv
  <2>1. latest \in 0..Len(chain) /\ logs \in Seq(Logs)
    BY <1>1, <1>3
  <2>0. undisturbed \in BOOLEAN
    BY <1>1, Zenon
  <2>2. \A i \in DOMAIN logs : logs[i].block <= Len(chain) /\ logs[i].id >= 1
    BY <1>1, <1>3
  <2>3. QED
    BY <1>1, <2>0, <2>1, <2>2 DEF ReadsInv
<1>7. RowsInv /\ DecisionsInv
  BY <1>1 DEF RowsInv, DecisionsInv
<1>8. QED
  BY <1>5, <1>6, <1>7 DEF AuditInv

(* What is read of a chain that keeps its length stays readable.           *)
LEMMA ReadsKept ==
  ASSUME ReadsInv, Len(chain) \in Nat, Len(chain') \in Nat, Len(chain) <= Len(chain'),
         UNCHANGED <<setting, latest, logs, record, pc>>, undisturbed' \in BOOLEAN
  PROVE  ReadsInv'
<1>1. /\ latest' \in 0..Len(chain')
      /\ \A i \in DOMAIN logs' : logs'[i].block <= Len(chain') /\ logs'[i].id >= 1
  <2>1. latest' \in 0..Len(chain')
    BY DEF ReadsInv
  <2>2. ASSUME NEW i \in DOMAIN logs
        PROVE  logs[i].block <= Len(chain') /\ logs[i].id >= 1
    <3>1. logs[i] \in Logs /\ logs[i].block <= Len(chain) /\ logs[i].id >= 1
      BY <2>2, ElementOfSeq DEF ReadsInv
    <3>2. logs[i].block \in Nat
      BY <3>1 DEF Logs
    <3>3. QED
      BY <3>1, <3>2
  <2>3. QED
    BY <2>1, <2>2
<1>2. logs' \in Seq(Logs)' /\ Records' = Records
  BY DEF ReadsInv, Logs, Hashes, Txs, Ids, Records
<1>3. QED
  BY <1>1, <1>2 DEF ReadsInv

LEMMA MineStep == AuditInv /\ MineBlock => AuditInv'
<1> SUFFICES ASSUME AuditInv, MineBlock
             PROVE  AuditInv'
  OBVIOUS
<1>1. ChainInv /\ ReadsInv /\ RowsInv /\ DecisionsInv
  BY DEF AuditInv
<1>2. MaxHeight \in Nat /\ MaxReorgs \in Nat /\ Len(chain) \in Nat
  BY <1>1, AuditAssumption, LenProperties DEF ChainInv
<1>3. /\ Len(chain) < MaxHeight /\ nextHash' = nextHash + 1
      /\ UNCHANGED <<setting, attempts, decisions, latest, logs, record, pc, undisturbed, putting,
                     reorgs>>
  BY DEF MineBlock, projection, indexer
<1>4. PICK tx \in Txs \union {Nothing} : chain' = Append(chain, [hash |-> nextHash, tx |-> tx])
  BY DEF MineBlock
<1> DEFINE spare == MaxHeight * (MaxReorgs - reorgs)
<1>5. spare \in Nat
  <2>1. MaxReorgs - reorgs \in Nat
    BY <1>1, <1>2 DEF ChainInv
  <2>2. QED
    BY <1>2, <2>1
<1>6. nextHash + (MaxHeight - Len(chain)) + spare <= MaxHash + 1 /\ nextHash \in Nat /\ 1 <= nextHash
  BY <1>1 DEF ChainInv
<1>7. MaxHash \in Nat
  BY <1>2 DEF MaxHash
<1> HIDE DEF spare
<1>8. nextHash \in Hashes
  BY <1>2, <1>3, <1>5, <1>6, <1>7 DEF Hashes, MaxHash
<1>9. chain' \in Seq(Blocks) /\ Len(chain') = Len(chain) + 1
  <2>1. [hash |-> nextHash, tx |-> tx] \in Blocks
    BY <1>8 DEF Blocks
  <2> DEFINE block == [hash |-> nextHash, tx |-> tx]
  <2>2. chain \in Seq(Blocks) /\ block \in Blocks /\ chain' = Append(chain, block)
    BY <1>1, <1>4, <2>1 DEF ChainInv
  <2> HIDE DEF block
  <2>3. QED
    BY <2>2, AppendProperties
<1>10. ChainInv'
  <2>1. Blocks' = Blocks /\ Txs' = Txs
    BY <1>3 DEF Blocks, Hashes, Txs
  <2>2. /\ nextHash' + (MaxHeight - Len(chain')) + spare <= MaxHash + 1
        /\ nextHash' \in Nat /\ 1 <= nextHash' /\ Len(chain') <= MaxHeight
    BY <1>2, <1>3, <1>5, <1>6, <1>7, <1>9
  <2>3. MaxHeight * (MaxReorgs - reorgs') = spare
    BY <1>3 DEF spare
  <2>4. QED
    BY <1>1, <1>3, <1>9, <2>1, <2>2, <2>3 DEF ChainInv
<1>11. ReadsInv'
  <2>1. undisturbed' \in BOOLEAN
    BY <1>1, <1>3 DEF ReadsInv
  <2>2. Len(chain) <= Len(chain') /\ Len(chain') \in Nat
    BY <1>2, <1>9
  <2>3. QED
    BY <1>1, <1>2, <1>3, <2>1, <2>2, ReadsKept
<1>12. RowsInv' /\ DecisionsInv'
  BY <1>1, <1>3 DEF RowsInv, DecisionsInv, AttemptRows, RowsOf, Txs, Writers, Puttings
<1>13. QED
  BY <1>10, <1>11, <1>12 DEF AuditInv

LEMMA ReorganiseStep ==
  ASSUME AuditInv, NEW height \in 0..(Len(chain) - 1), Reorganise(height)
  PROVE  AuditInv'
<1>1. ChainInv /\ ReadsInv /\ RowsInv /\ DecisionsInv
  BY DEF AuditInv
<1>2. MaxHeight \in Nat /\ MaxReorgs \in Nat /\ Len(chain) \in Nat /\ DOMAIN chain = 1..Len(chain)
  BY <1>1, AuditAssumption, LenProperties DEF ChainInv
<1>3. /\ reorgs < MaxReorgs /\ reorgs' = reorgs + 1
      /\ UNCHANGED <<setting, attempts, decisions, latest, logs, record, pc, putting>>
      /\ undisturbed' = FALSE
  BY DEF Reorganise, projection, indexer
<1> DEFINE kept == SubSeq(chain, 1, height)
           n == Len(chain) - height
<1>4. nextHash' = nextHash + n
  BY DEF Reorganise
<1>5. PICK txs \in [1..n -> Txs \union {Nothing}] :
        chain' = kept \o [i \in 1..n |-> [hash |-> nextHash + i - 1, tx |-> txs[i]]]
  BY DEF Reorganise
<1>6. n \in Nat /\ n >= 1 /\ n <= Len(chain) /\ height \in Nat /\ height + n = Len(chain)
  BY <1>2
<1>7. kept \in Seq(Blocks) /\ Len(kept) = height
  <2>1. \A i \in 1..height : chain[i] \in Blocks
    BY <1>1, <1>2, ElementOfSeq DEF ChainInv
  <2>2. kept \in Seq(Blocks) /\ Len(kept) = IF 1 <= height THEN height - 1 + 1 ELSE 0
    BY <1>6, <2>1, SubSeqProperties
  <2>3. QED
    BY <1>6, <2>2
<1> DEFINE spare == MaxHeight * (MaxReorgs - reorgs')
           added == [i \in 1..n |-> [hash |-> nextHash + i - 1, tx |-> txs[i]]]
<1>9. /\ spare \in Nat /\ MaxHeight * (MaxReorgs - reorgs) = spare + MaxHeight
      /\ reorgs' \in 0..MaxReorgs
  <2>1. reorgs' \in 0..MaxReorgs /\ MaxReorgs - reorgs' \in Nat
        /\ MaxReorgs - reorgs = (MaxReorgs - reorgs') + 1
    BY <1>1, <1>2, <1>3 DEF ChainInv
  <2> DEFINE left == MaxReorgs - reorgs'
  <2>2. left \in Nat
    BY <2>1
  <2> HIDE DEF left
  <2>3. MaxHeight * left \in Nat /\ MaxHeight * (left + 1) = MaxHeight * left + MaxHeight
    BY <1>2, <2>2
  <2>4. QED
    BY <2>1, <2>3 DEF left
<1>10. /\ nextHash + (MaxHeight - Len(chain)) + spare + MaxHeight <= MaxHash + 1
       /\ nextHash \in Nat /\ 1 <= nextHash /\ Len(chain) <= MaxHeight /\ MaxHash \in Nat
  <2>1. /\ nextHash + (MaxHeight - Len(chain)) + MaxHeight * (MaxReorgs - reorgs) <= MaxHash + 1
        /\ nextHash \in Nat /\ 1 <= nextHash /\ Len(chain) <= MaxHeight
    BY <1>1 DEF ChainInv
  <2>2. MaxHash \in Nat
    BY <1>2 DEF MaxHash
  <2> DEFINE before == MaxHeight * (MaxReorgs - reorgs)
  <2>3. before = spare + MaxHeight /\ nextHash + (MaxHeight - Len(chain)) + before <= MaxHash + 1
    BY <1>9, <2>1
  <2> HIDE DEF before, spare
  <2>4. QED
    BY <1>2, <1>9, <2>1, <2>2, <2>3
<1> HIDE DEF spare, n, kept
<1>11. added \in Seq(Blocks) /\ Len(added) = n
  <2>1. ASSUME NEW i \in 1..n
        PROVE  [hash |-> nextHash + i - 1, tx |-> txs[i]] \in Blocks
    <3>1. nextHash + i - 1 \in 1..MaxHash
      BY <1>2, <1>6, <1>9, <1>10
    <3>2. nextHash + i - 1 \in Hashes
      BY <3>1 DEF Hashes, MaxHash
    <3>3. txs[i] \in Txs \union {Nothing}
      BY <1>5
    <3>4. QED
      BY <3>2, <3>3 DEF Blocks
  <2>2. added \in [1..n -> Blocks]
    BY <2>1
  <2> HIDE DEF added
  <2>3. QED
    BY <1>6, <2>2, IsASeq, LenProperties
<1> HIDE DEF added
<1>12. chain' \in Seq(Blocks) /\ Len(chain') = Len(chain)
  <2>1. chain' = kept \o added
    BY <1>5 DEF added
  <2>2. chain' \in Seq(Blocks) /\ Len(chain') = height + n
    BY <1>7, <1>11, <2>1, ConcatProperties
  <2>3. QED
    BY <1>6, <2>2
<1>13. ChainInv'
  <2>1. Blocks' = Blocks /\ Txs' = Txs
    BY <1>3 DEF Blocks, Hashes, Txs
  <2>2. /\ nextHash' + (MaxHeight - Len(chain')) + spare <= MaxHash + 1
        /\ nextHash' \in Nat /\ 1 <= nextHash' /\ Len(chain') <= MaxHeight
    BY <1>2, <1>4, <1>6, <1>9, <1>10, <1>12
  <2>3. QED
    BY <1>1, <1>3, <1>9, <1>12, <2>1, <2>2 DEF ChainInv, spare
<1>14. ReadsInv'
  <2>1. Len(chain) <= Len(chain') /\ Len(chain') \in Nat
    BY <1>2, <1>12
  <2>2. QED
    BY <1>1, <1>2, <1>3, <2>1, ReadsKept
<1>15. RowsInv' /\ DecisionsInv'
  BY <1>1, <1>3 DEF RowsInv, DecisionsInv, AttemptRows, RowsOf, Txs, Writers, Puttings
<1>16. QED
  BY <1>13, <1>14, <1>15 DEF AuditInv

(* The logs of some blocks tell of attempts that the chain has.            *)
LEMMA LogsTyped ==
  ASSUME ChainInv, NEW height \in 0..Len(chain)
  PROVE  /\ LogsUpTo(height) \in Seq(Logs)
         /\ \A i \in DOMAIN LogsUpTo(height) :
              LogsUpTo(height)[i].block <= Len(chain) /\ LogsUpTo(height)[i].id >= 1
<1> DEFINE n == AttemptIds(chain, height)
           log(id) == [tx |-> chain[HeightOf(id)].tx, block |-> HeightOf(id),
                       hash |-> chain[HeightOf(id)].hash, id |-> id]
<1>1. /\ chain \in Seq(Blocks) /\ Len(chain) \in Nat /\ Len(chain) <= MaxHeight /\ MaxHeight \in Nat
  BY AuditAssumption, LenProperties DEF ChainInv
<1>2. height \in Nat /\ height <= Len(chain)
  BY <1>1
<1>3. n \in Nat /\ n <= height
  <2>1. n \in 0..height
    BY <1>2, AttemptIdsIs
  <2>2. QED
    BY <1>2, <2>1
<1>4. ASSUME NEW id \in 1..n
      PROVE  log(id) \in Logs /\ log(id).block <= Len(chain) /\ log(id).id >= 1
  <2> DEFINE h == HeightOf(id)
  <2>1. h \in 1..Len(chain) /\ chain[h].tx # Nothing
    BY <1>1, <1>2, <1>4, HeightExists
  <2> HIDE DEF h
  <2>2. chain[h] \in Blocks
    BY <1>1, <2>1, ElementOfSeq
  <2>3. chain[h].tx \in Txs /\ chain[h].hash \in Hashes
    BY <2>1, <2>2 DEF Blocks
  <2>4. id \in Ids /\ id >= 1
    BY <1>1, <1>2, <1>3 DEF Ids
  <2>5. h \in 1..MaxHeight
    BY <1>1, <2>1
  <2>6. [tx |-> chain[h].tx, block |-> h, hash |-> chain[h].hash, id |-> id] \in Logs
    BY <2>3, <2>4, <2>5 DEF Logs
  <2>7. QED
    BY <1>1, <2>1, <2>4, <2>6 DEF h
<1>5. LogsUpTo(height) = [id \in 1..n |-> log(id)]
  BY DEF LogsUpTo
<1> HIDE DEF log
<1>6. LogsUpTo(height) \in [1..n -> Logs]
  BY <1>4, <1>5
<1> HIDE DEF n
<1>7. LogsUpTo(height) \in Seq(Logs)
  BY <1>3, <1>6, IsASeq
<1>8. QED
  BY <1>4, <1>5, <1>7

LEMMA IndexerStep ==
  AuditInv /\ (ReadLatest \/ ReadLogs \/ ReadRecord \/ RunEnds) => AuditInv'
<1> SUFFICES ASSUME AuditInv, ReadLatest \/ ReadLogs \/ ReadRecord \/ RunEnds
             PROVE  AuditInv'
  OBVIOUS
<1>1. ChainInv /\ ReadsInv /\ RowsInv /\ DecisionsInv
  BY DEF AuditInv
<1>2. Len(chain) \in Nat /\ MaxHeight \in Nat /\ Len(chain) <= MaxHeight
  BY <1>1, AuditAssumption, LenProperties DEF ChainInv
<1>3. UNCHANGED <<setting, chain, nextHash, attempts, decisions, putting, reorgs>>
  BY DEF ReadLatest, ReadLogs, ReadRecord, RunEnds, projection
<1>4. ChainInv' /\ RowsInv' /\ DecisionsInv'
  BY <1>1, <1>3 DEF ChainInv, Blocks, RowsInv, DecisionsInv, AttemptRows, RowsOf, Hashes, Txs,
                    Writers, Puttings
<1>5. Logs' = Logs /\ Records' = Records /\ chain' = chain
  BY <1>3 DEF Logs, Records, Hashes, Txs
<1>6. CASE ReadLatest
  <2>1. latest' = Len(chain) /\ pc' = "logs" /\ logs' = logs /\ undisturbed' = TRUE
    BY <1>6 DEF ReadLatest
  <2>2. QED
    BY <1>1, <1>2, <1>4, <1>5, <2>1 DEF AuditInv, ReadsInv
<1>7. CASE ReadLogs
  <2>1. /\ logs' = LogsUpTo(latest) /\ latest' = latest
        /\ pc' = (IF logs' = <<>> THEN "done" ELSE "record") /\ undisturbed' = undisturbed
    BY <1>7 DEF ReadLogs
  <2>2. latest \in 0..Len(chain)
    BY <1>1 DEF ReadsInv
  <2>3. /\ logs' \in Seq(Logs)
        /\ \A i \in DOMAIN logs' : logs'[i].block <= Len(chain) /\ logs'[i].id >= 1
    BY <1>1, <2>1, <2>2, LogsTyped
  <2>4. QED
    BY <1>4, <1>5, <2>1, <2>2, <2>3 DEF AuditInv, ReadsInv
<1>8. CASE ReadRecord
  <2> DEFINE log == Head(logs)
  <2>1. /\ pc = "record" /\ pc' = "upsert" /\ latest' = latest /\ logs' = logs
        /\ undisturbed' = undisturbed
        /\ record' = IF log.id > AttemptIds(chain, log.block) THEN [id |-> 0, content |-> Nothing]
                     ELSE [id |-> log.id, content |-> chain[HeightOf(log.id)].tx]
    BY <1>8 DEF ReadRecord
  <2>2. logs \in Seq(Logs) /\ logs # <<>>
    BY <1>1, <2>1 DEF ReadsInv
  <2>3. log \in Logs /\ 1 \in DOMAIN logs /\ log = logs[1]
    BY <2>2, HeadTailProperties, LenProperties, EmptySeq
  <2>4. log.block \in Nat /\ log.block <= Len(chain) /\ log.id \in Ids /\ log.id >= 1
    BY <1>1, <2>3 DEF ReadsInv, Logs
  <2>5. record' \in Records /\ (record'.content = Nothing <=> record'.id = 0)
    <3>1. CASE log.id > AttemptIds(chain, log.block)
      <4>1. 0 \in Ids
        BY <1>2 DEF Ids
      <4>2. QED
        BY <2>1, <3>1, <4>1 DEF Records
    <3>2. CASE ~(log.id > AttemptIds(chain, log.block))
      <4> DEFINE id == log.id
                 height == log.block
                 h == HeightOf(id)
      <4>1. AttemptIds(chain, height) \in 0..height
        BY <2>4, AttemptIdsIs
      <4>2. id \in 1..AttemptIds(chain, height)
        BY <1>2, <2>4, <3>2, <4>1 DEF Ids
      <4>3. height \in Nat /\ height <= Len(chain) /\ chain \in Seq(Blocks)
        BY <1>1, <2>4 DEF ChainInv
      <4> HIDE DEF id, height
      <4>4. h \in 1..Len(chain) /\ chain[h].tx # Nothing
        BY <4>2, <4>3, HeightExists
      <4> HIDE DEF h
      <4>5. chain[h] \in Blocks
        BY <4>3, <4>4, ElementOfSeq
      <4>6. chain[h].tx \in Txs
        BY <4>4, <4>5 DEF Blocks
      <4>7. record' = [id |-> id, content |-> chain[h].tx]
        BY <2>1, <3>2 DEF id, h
      <4>8. id \in Ids /\ id # 0
        BY <2>4 DEF id, Ids
      <4>9. QED
        BY <4>4, <4>6, <4>7, <4>8 DEF Records
    <3>3. QED
      BY <3>1, <3>2
  <2>6. QED
    BY <1>1, <1>4, <1>5, <2>1, <2>5 DEF AuditInv, ReadsInv
<1>9. CASE RunEnds
  <2>1. logs' = <<>> /\ pc' = "idle" /\ latest' = latest /\ undisturbed' = undisturbed
    BY <1>9 DEF RunEnds
  <2>2. logs' \in Seq(Logs) /\ DOMAIN logs' = {}
    BY <2>1
  <2>3. QED
    BY <1>1, <1>4, <1>5, <2>1, <2>2 DEF AuditInv, ReadsInv
<1>10. QED
  BY <1>6, <1>7, <1>8, <1>9

(* What the row of an attempt becomes when its log is ingested.            *)
LEMMA NormalizedTyped ==
  ASSUME AuditInv, pc = "upsert"
  PROVE  /\ Normalized \in AttemptRows /\ record.id \in Ids
         /\ Normalized.content = Nothing <=> record.id = 0
<1>1. logs \in Seq(Logs) /\ logs # <<>> /\ record \in Records
      /\ (record.content = Nothing <=> record.id = 0)
  BY DEF AuditInv, ReadsInv
<1>2. Head(logs) \in Logs
  BY <1>1, HeadTailProperties
<1>3. Normalized \in AttemptRows
  BY <1>1, <1>2 DEF Normalized, AttemptRows, RowsOf, Logs, Records
<1>4. Normalized.content = record.content
  BY DEF Normalized
<1>5. QED
  BY <1>1, <1>3, <1>4 DEF Records

LEMMA UpsertStep == AuditInv /\ UpsertAttempt => AuditInv'
<1> SUFFICES ASSUME AuditInv, UpsertAttempt
             PROVE  AuditInv'
  OBVIOUS
<1>1. ChainInv /\ ReadsInv /\ RowsInv /\ DecisionsInv
  BY DEF AuditInv
<1>2. /\ pc = "upsert"
      /\ \/ logs' = <<>> /\ pc' = "idle" /\ attempts' = attempts
         \/ /\ logs' = Tail(logs) /\ attempts' = [attempts EXCEPT ![record.id] = Normalized]
            /\ pc' = IF logs' = <<>> THEN "done" ELSE "record"
      /\ UNCHANGED <<setting, chain, nextHash, latest, undisturbed, decisions, putting, reorgs>>
  BY DEF UpsertAttempt, Refusal, NextLog
<1>3. ChainInv' /\ DecisionsInv' /\ Logs' = Logs /\ AttemptRows' = AttemptRows
  BY <1>1, <1>2 DEF ChainInv, Blocks, DecisionsInv, Hashes, Txs, Writers, Puttings, Logs,
                    AttemptRows, RowsOf
<1>4. RowsInv'
  <2>1. CASE attempts' = attempts
    BY <1>1, <1>3, <2>1 DEF RowsInv
  <2>2. CASE attempts' = [attempts EXCEPT ![record.id] = Normalized]
    <3> DEFINE row == Normalized
               at == record.id
    <3>1. row \in AttemptRows /\ at \in Ids /\ (row.content = Nothing <=> at = 0)
      BY <1>2, NormalizedTyped
    <3>2. attempts \in [Ids -> AttemptRows \union {Nothing}] /\ attempts' = [attempts EXCEPT ![at] = row]
      BY <1>1, <2>2 DEF RowsInv
    <3> HIDE DEF row, at
    <3>3. attempts' \in [Ids -> AttemptRows \union {Nothing}]
      BY <3>1, <3>2
    <3>4. ASSUME NEW id \in Ids, attempts'[id] # Nothing
          PROVE  attempts'[id].content = Nothing <=> id = 0
      BY <1>1, <3>1, <3>2, <3>4 DEF RowsInv
    <3>5. QED
      BY <1>3, <3>3, <3>4 DEF RowsInv
  <2>3. QED
    BY <1>2, <2>1, <2>2
<1>5. ReadsInv'
  <2>1. logs \in Seq(Logs) /\ logs # <<>>
    BY <1>1, <1>2 DEF ReadsInv
  <2>2. /\ Tail(logs) \in Seq(Logs) /\ Len(Tail(logs)) = Len(logs) - 1
        /\ \A i \in 1..Len(Tail(logs)) : Tail(logs)[i] = logs[i + 1]
    BY <2>1, HeadTailProperties
  <2>3. Len(logs) \in Nat /\ DOMAIN logs = 1..Len(logs) /\ DOMAIN Tail(logs) = 1..Len(Tail(logs))
    BY <2>1, <2>2, LenProperties
  <2>4. ASSUME NEW i \in DOMAIN Tail(logs)
        PROVE  Tail(logs)[i].block <= Len(chain) /\ Tail(logs)[i].id >= 1
    <3>1. Tail(logs)[i] = logs[i + 1] /\ i + 1 \in DOMAIN logs
      BY <2>2, <2>3
    <3>2. QED
      BY <1>1, <3>1 DEF ReadsInv
  <2>5. <<>> \in Seq(Logs) /\ DOMAIN <<>> = {}
    OBVIOUS
  <2>6. /\ logs' \in Seq(Logs)
        /\ \A i \in DOMAIN logs' : logs'[i].block <= Len(chain) /\ logs'[i].id >= 1
    BY <1>2, <2>2, <2>4, <2>5
  <2>7. QED
    BY <1>1, <1>2, <1>3, <2>6 DEF ReadsInv
<1>6. QED
  BY <1>3, <1>4, <1>5 DEF AuditInv

(* A row that is marked stays the row of its transaction.                  *)
LEMMA OrphanedIs ==
  ASSUME NEW row \in AttemptRows \union {Nothing}
  PROVE  /\ row = Nothing => Orphaned(row) = Nothing
         /\ row \in AttemptRows => /\ Orphaned(row) \in AttemptRows
                                   /\ Orphaned(row).tx = row.tx
                                   /\ Orphaned(row).content = row.content
BY DEF Orphaned, AttemptRows, RowsOf

LEMMA ReconcileStep ==
  AuditInv /\ ((\E hash \in Hashes : CheckBlock(hash)) \/ MarkBlockOrphaned) => AuditInv'
<1> SUFFICES ASSUME AuditInv, (\E hash \in Hashes : CheckBlock(hash)) \/ MarkBlockOrphaned
             PROVE  AuditInv'
  OBVIOUS
<1>1. ChainInv /\ ReadsInv /\ RowsInv /\ DecisionsInv
  BY DEF AuditInv
<1>2. UNCHANGED <<setting, chain, nextHash, latest, logs, record, pc, undisturbed, decisions,
                  putting, reorgs>>
  BY DEF CheckBlock, MarkBlockOrphaned, projection, indexer
<1>3. ChainInv' /\ ReadsInv' /\ DecisionsInv' /\ AttemptRows' = AttemptRows
  BY <1>1, <1>2 DEF ChainInv, Blocks, ReadsInv, DecisionsInv, Hashes, Txs, Writers, Puttings, Logs,
                    Records, AttemptRows, RowsOf
<1>4. attempts' = attempts \/ attempts' = [i \in Ids |-> Orphaned(attempts[i])]
  BY DEF CheckBlock, MarkBlockOrphaned, projection
<1>5. RowsInv'
  <2>1. CASE attempts' = attempts
    BY <1>1, <1>3, <2>1 DEF RowsInv
  <2>2. CASE attempts' = [i \in Ids |-> Orphaned(attempts[i])]
    <3>1. ASSUME NEW id \in Ids
          PROVE  /\ attempts'[id] \in AttemptRows \union {Nothing}
                 /\ attempts'[id] # Nothing => (attempts'[id].content = Nothing <=> id = 0)
      <4> DEFINE row == attempts[id]
      <4>1. row \in AttemptRows \union {Nothing} /\ (row # Nothing => (row.content = Nothing <=> id = 0))
        BY <1>1 DEF RowsInv
      <4>2. attempts'[id] = Orphaned(row)
        BY <2>2
      <4> HIDE DEF row
      <4>3. /\ row = Nothing => Orphaned(row) = Nothing
            /\ row \in AttemptRows => /\ Orphaned(row) \in AttemptRows
                                      /\ Orphaned(row).content = row.content
        BY <4>1, OrphanedIs
      <4>4. QED
        BY <4>1, <4>2, <4>3
    <3>2. attempts' \in [Ids -> AttemptRows \union {Nothing}]
      BY <2>2, <3>1
    <3>3. QED
      BY <1>3, <3>1, <3>2 DEF RowsInv
  <2>3. QED
    BY <1>4, <2>1, <2>2
<1>6. QED
  BY <1>3, <1>5 DEF AuditInv

LEMMA DecisionStep ==
  ASSUME AuditInv, NEW w \in Writers,
         StoreDecision(w) \/ (\E tx \in Txs, e \in Envelopes : LookUpDecision(w, tx, e))
  PROVE  AuditInv'
<1>1. ChainInv /\ ReadsInv /\ RowsInv /\ DecisionsInv
  BY DEF AuditInv
<1>2. UNCHANGED <<setting, chain, nextHash, attempts, latest, logs, record, pc, undisturbed, reorgs>>
  BY DEF StoreDecision, LookUpDecision, projection, indexer
<1>3. ChainInv' /\ ReadsInv' /\ RowsInv'
  BY <1>1, <1>2 DEF ChainInv, Blocks, ReadsInv, RowsInv, Hashes, Txs, Logs, Records, AttemptRows,
                    RowsOf
<1>4. Txs' = Txs /\ Writers' = Writers /\ Puttings' = Puttings
  BY <1>2 DEF Txs, Writers, Puttings
<1>5. decisions \in [Txs -> Envelopes \union {Nothing}] /\ putting \in [Writers -> Puttings \union {Nothing}]
  BY <1>1 DEF DecisionsInv
<1>6. decisions' \in [Txs -> Envelopes \union {Nothing}] /\ putting' \in [Writers -> Puttings \union {Nothing}]
  <2>1. CASE StoreDecision(w)
    <3>1. /\ putting[w] # Nothing /\ putting' = [putting EXCEPT ![w] = Nothing]
          /\ decisions' = [decisions EXCEPT ![putting[w].tx] = Stored(w)]
      BY <2>1 DEF StoreDecision
    <3>2. putting[w] \in Puttings
      BY <1>5, <3>1
    <3>3. putting[w].tx \in Txs /\ putting[w].envelope \in Envelopes
      BY <3>2 DEF Puttings
    <3>4. Stored(w) \in Envelopes \union {Nothing}
      BY <1>5, <3>3 DEF Stored
    <3>5. QED
      BY <1>5, <3>1, <3>4
  <2>2. ASSUME NEW tx \in Txs, NEW e \in Envelopes, LookUpDecision(w, tx, e)
        PROVE  decisions' = decisions /\ putting' \in [Writers -> Puttings \union {Nothing}]
    <3>1. decisions' = decisions /\ putting' = [putting EXCEPT ![w] = [tx |-> tx, envelope |-> e]]
      BY <2>2 DEF LookUpDecision, projection
    <3>2. [tx |-> tx, envelope |-> e] \in Puttings
      BY DEF Puttings
    <3>3. QED
      BY <1>5, <3>1, <3>2
  <2>3. QED
    BY <1>5, <2>1, <2>2
<1>7. DecisionsInv'
  BY <1>4, <1>6 DEF DecisionsInv
<1>8. QED
  BY <1>3, <1>7 DEF AuditInv

LEMMA AuditStep == AuditInv /\ [AuditNext]_auditVars => AuditInv'
<1> SUFFICES ASSUME AuditInv, [AuditNext]_auditVars
             PROVE  AuditInv'
  OBVIOUS
<1>1. CASE UNCHANGED auditVars
  BY <1>1 DEF auditVars, projection, indexer, AuditInv, ChainInv, Blocks, ReadsInv, RowsInv,
              DecisionsInv, Hashes, Txs, Writers, Puttings, Logs, Records, AttemptRows, RowsOf
<1>2. CASE AuditNext
  <2>1. \/ MineBlock
        \/ \E h \in 0..(Len(chain) - 1) : Reorganise(h)
        \/ ReadLatest \/ ReadLogs \/ ReadRecord \/ RunEnds
        \/ UpsertAttempt
        \/ (\E hash \in Hashes : CheckBlock(hash)) \/ MarkBlockOrphaned
        \/ \E w \in Writers :
             StoreDecision(w) \/ (\E tx \in Txs, e \in Envelopes : LookUpDecision(w, tx, e))
    BY <1>2 DEF AuditNext, Indexer
  <2>2. QED
    BY <2>1, MineStep, ReorganiseStep, IndexerStep, UpsertStep, ReconcileStep, DecisionStep
<1>3. QED
  BY <1>1, <1>2

(* The state of the projection has its type, whatever the chain does       *)
(* between the reads of the indexer: hashes, heights and ids stay within   *)
(* their bounds, and only the empty record tells of no transaction.        *)
THEOREM ProjectionTyped == AuditSpec => []AuditTypeOK
<1>1. AuditInv => AuditTypeOK
  <2> SUFFICES ASSUME AuditInv
               PROVE  AuditTypeOK
    OBVIOUS
  <2>1. ChainInv /\ ReadsInv /\ RowsInv /\ DecisionsInv
    BY DEF AuditInv
  <2>2. Len(chain) \in Nat /\ Len(chain) <= MaxHeight /\ MaxHeight \in Nat
    BY <2>1, AuditAssumption, LenProperties DEF ChainInv
  <2>3. latest \in 0..MaxHeight
    BY <2>1, <2>2 DEF ReadsInv
  <2>4. QED
    BY <2>1, <2>3 DEF AuditTypeOK, ChainInv, ReadsInv, RowsInv, DecisionsInv
<1>2. QED
  BY <1>1, AuditStart, AuditStep, PTL DEF AuditSpec

-----------------------------------------------------------------------------
(* The audit projection: verdicts                                          *)

(* What a replay has vouched for stays so: the first of two writers of a   *)
(* decision wins, so no later one turns the verdict on a row.              *)
THEOREM VerdictStays == AuditSpec => VerdictKept
<1>1. AuditInv /\ [AuditNext]_auditVars =>
        [\A id \in Ids :
           Integrity(id) \in {"MATCH", "MISMATCH"} /\ attempts'[id] = attempts[id] =>
             Integrity(id)' = Integrity(id)]_auditVars
  <2> SUFFICES ASSUME AuditInv, [AuditNext]_auditVars, NEW id \in Ids,
                      Integrity(id) \in {"MATCH", "MISMATCH"}, attempts'[id] = attempts[id]
               PROVE  Integrity(id)' = Integrity(id)
    BY Zenon
  <2> DEFINE t == attempts[id].content
  <2>1. /\ attempts \in [Ids -> AttemptRows \union {Nothing}]
        /\ decisions \in [Txs -> Envelopes \union {Nothing}]
    BY DEF AuditInv, RowsInv, DecisionsInv
  <2>2. /\ attempts[id] # Nothing /\ t # Nothing /\ decisions[t] # Nothing
        /\ Integrity(id) = IF decisions[t] = "genuine" THEN "MATCH" ELSE "MISMATCH"
    BY DEF Integrity
  <2>3. t \in Txs
    BY <2>1, <2>2 DEF AttemptRows, RowsOf
  <2>4. decisions'[t] = decisions[t]
    <3>1. ASSUME NEW w \in Writers, StoreDecision(w)
          PROVE  decisions'[t] = decisions[t]
      <4> DEFINE at == putting[w].tx
      <4>1. decisions' = [decisions EXCEPT ![at] = Stored(w)]
        BY <3>1 DEF StoreDecision
      <4>2. decisions[at] # Nothing => Stored(w) = decisions[at]
        BY DEF Stored
      <4> HIDE DEF at, t
      <4>3. QED
        BY <2>1, <2>2, <2>3, <4>1, <4>2
    <3>2. CASE ~(\E w \in Writers : StoreDecision(w))
      <4>1. decisions' = decisions
        BY <3>2 DEF AuditNext, auditVars, projection, MineBlock, Reorganise, Indexer, ReadLatest,
                    ReadLogs, ReadRecord, UpsertAttempt, RunEnds, CheckBlock, MarkBlockOrphaned,
                    LookUpDecision
      <4>2. QED
        BY <4>1
    <3>3. QED
      BY <3>1, <3>2
  <2>5. Integrity(id)' = IF decisions'[t] = "genuine" THEN "MATCH" ELSE "MISMATCH"
    BY <2>2, <2>4 DEF Integrity
  <2>6. QED
    BY <2>2, <2>4, <2>5
<1>2. QED
  BY <1>1, AuditStart, AuditStep, PTL DEF AuditSpec, VerdictKept

-----------------------------------------------------------------------------
(* The audit projection: what is marked as orphaned                        *)

(* A hash belongs to one height, and a row or log has the height of its    *)
(* hash as long as the chain has a block of that hash.                     *)
Placed(x) ==
  /\ x.hash \in Nat /\ x.hash < nextHash
  /\ \A h \in DOMAIN chain : chain[h].hash = x.hash => h = x.block

BlocksDistinct ==
  /\ \A h \in DOMAIN chain : chain[h].hash \in Nat /\ chain[h].hash < nextHash
  /\ \A h, k \in DOMAIN chain : chain[h].hash = chain[k].hash => h = k

(* A verdict that a block is gone stays right: no block returns.           *)
VerdictHolds ==
  checking # Nothing =>
    /\ checking.hash \in Nat /\ checking.hash < nextHash
    /\ checking.canonical \/ \A h \in DOMAIN chain : chain[h].hash # checking.hash

PlacesInv ==
  /\ BlocksDistinct /\ VerdictHolds
  /\ \A i \in DOMAIN logs : Placed(logs[i])
  /\ \A id \in Ids : attempts[id] # Nothing => Placed(attempts[id])
  /\ OrphanedIsGone

(* Whatever the chain does, its new blocks have new hashes.                *)
Grown ==
  /\ nextHash \in Nat /\ nextHash' \in Nat /\ nextHash <= nextHash'
  /\ Len(chain') \in Nat /\ DOMAIN chain' = 1..Len(chain')
  /\ \A h \in DOMAIN chain' :
       \/ h \in DOMAIN chain /\ chain'[h] = chain[h]
       \/ chain'[h].hash \in Nat /\ nextHash <= chain'[h].hash /\ chain'[h].hash < nextHash'
  /\ \A h, k \in DOMAIN chain' :
       nextHash <= chain'[h].hash /\ chain'[h].hash = chain'[k].hash => h = k

LEMMA MinedGrows ==
  ASSUME AuditInv, BlocksDistinct, MineBlock
  PROVE  Grown /\ UNCHANGED <<attempts, logs, checking>>
<1>1. chain \in Seq(Blocks) /\ nextHash \in Nat
  BY DEF AuditInv, ChainInv
<1>2. PICK block : chain' = Append(chain, block) /\ block.hash = nextHash /\ nextHash' = nextHash + 1
  BY DEF MineBlock
<1>3. /\ Len(chain) \in Nat /\ DOMAIN chain = 1..Len(chain)
      /\ DOMAIN chain' = 1..(Len(chain) + 1) /\ chain'[Len(chain) + 1] = block
      /\ \A i \in 1..Len(chain) : chain'[i] = chain[i]
  BY <1>1, <1>2
<1>4. \A h \in DOMAIN chain' : \/ h \in DOMAIN chain /\ chain'[h] = chain[h]
                               \/ h = Len(chain) + 1 /\ chain'[h].hash = nextHash
  BY <1>2, <1>3
<1>5. \A h \in DOMAIN chain : chain[h].hash \in Nat /\ chain[h].hash < nextHash
  BY DEF BlocksDistinct
<1>6. Grown
  <2>1. Len(chain') = Len(chain) + 1 /\ DOMAIN chain' = 1..Len(chain')
    BY <1>1, <1>2
  <2>2. QED
    BY <1>1, <1>2, <1>3, <1>4, <1>5, <2>1 DEF Grown
<1>7. QED
  BY <1>6 DEF MineBlock, projection, indexer

LEMMA ReorganisedGrows ==
  ASSUME AuditInv, BlocksDistinct, NEW height \in 0..(Len(chain) - 1), Reorganise(height)
  PROVE  Grown /\ UNCHANGED <<attempts, logs, checking>>
<1> DEFINE kept == SubSeq(chain, 1, height)
           n == Len(chain) - height
<1>1. chain \in Seq(Blocks) /\ nextHash \in Nat
  BY DEF AuditInv, ChainInv
<1>2. Len(chain) \in Nat /\ DOMAIN chain = 1..Len(chain) /\ n \in Nat /\ height \in Nat
      /\ height + n = Len(chain)
  BY <1>1, LenProperties
<1>3. PICK added : /\ chain' = kept \o added /\ DOMAIN added = 1..n
                   /\ \A i \in 1..n : added[i].hash = nextHash + i - 1
                   /\ added \in Seq({added[i] : i \in 1..n}) /\ nextHash' = nextHash + n
  <2>1. PICK txs : chain' = kept \o [i \in 1..n |-> [hash |-> nextHash + i - 1, tx |-> txs[i]]]
    BY DEF Reorganise
  <2> DEFINE added == [i \in 1..n |-> [hash |-> nextHash + i - 1, tx |-> txs[i]]]
  <2>2. /\ DOMAIN added = 1..n /\ \A i \in 1..n : added[i].hash = nextHash + i - 1
        /\ added = [i \in 1..n |-> added[i]]
    OBVIOUS
  <2>3. nextHash' = nextHash + n /\ chain' = kept \o added
    BY <2>1 DEF Reorganise
  <2> HIDE DEF added
  <2>4. added \in [1..n -> {added[i] : i \in 1..n}]
    <3> DEFINE S == {added[i] : i \in 1..n}
    <3>1. \A i \in 1..n : added[i] \in S
      OBVIOUS
    <3> HIDE DEF S
    <3>2. added \in [1..n -> S]
      BY <2>2, <3>1
    <3>3. QED
      BY <3>2 DEF S
  <2>5. added \in Seq({added[i] : i \in 1..n})
    BY <1>2, <2>4, IsASeq
  <2>6. QED
    BY <2>2, <2>3, <2>5
<1>4. /\ kept \in Seq(Blocks) /\ Len(kept) = height
      /\ \A i \in 1..height : kept[i] = chain[i]
  <2>1. \A i \in 1..height : chain[i] \in Blocks
    BY <1>1, <1>2, ElementOfSeq
  <2>2. /\ kept \in Seq(Blocks) /\ Len(kept) = IF 1 <= height THEN height - 1 + 1 ELSE 0
        /\ \A i \in 1..(height - 1 + 1) : kept[i] = chain[1 + i - 1]
    BY <1>2, <2>1, SubSeqProperties
  <2>3. \A i \in 1..height : kept[i] = chain[i]
    BY <1>2, <2>2
  <2>4. QED
    BY <1>2, <2>2, <2>3
<1> HIDE DEF kept, n
<1>5. Len(chain') = Len(chain) /\ DOMAIN chain' = 1..Len(chain)
      /\ \A h \in 1..Len(chain) : chain'[h] = IF h <= height THEN kept[h] ELSE added[h - height]
  <2> DEFINE S == Blocks \union {added[i] : i \in 1..n}
  <2>1. kept \in Seq(S) /\ added \in Seq(S)
    BY <1>3, <1>4
  <2>2. Len(added) = n
    BY <1>2, <1>3, LenProperties
  <2> HIDE DEF S
  <2>3. /\ chain' \in Seq(S) /\ Len(chain') = height + n
        /\ \A i \in 1..(height + n) : chain'[i] = IF i <= height THEN kept[i] ELSE added[i - height]
    BY <1>3, <1>4, <2>1, <2>2, ConcatProperties
  <2>4. QED
    BY <1>2, <2>3, LenProperties
<1>6. \A h \in DOMAIN chain' :
        \/ h \in DOMAIN chain /\ h \in Nat /\ h <= height /\ chain'[h] = chain[h]
        \/ h \in DOMAIN chain /\ h \in Nat /\ h > height /\ chain'[h].hash = nextHash + (h - height) - 1
  <2> TAKE h \in DOMAIN chain'
  <2>1. h \in 1..Len(chain)
    BY <1>5
  <2>2. CASE h <= height
    BY <1>2, <1>4, <1>5, <2>1, <2>2
  <2>3. CASE h > height
    <3>1. h - height \in 1..n
      BY <1>2, <2>1, <2>3
    <3>2. chain'[h] = added[h - height]
      BY <1>2, <1>5, <2>1, <2>3
    <3>3. added[h - height].hash = nextHash + (h - height) - 1
      BY <1>3, <3>1
    <3>4. QED
      BY <1>2, <2>1, <2>3, <3>2, <3>3
  <2>4. QED
    BY <1>2, <2>1, <2>2, <2>3
<1>7. \A h \in DOMAIN chain : chain[h].hash \in Nat /\ chain[h].hash < nextHash
  BY DEF BlocksDistinct
<1>8. \A h \in DOMAIN chain' :
        \/ h \in DOMAIN chain /\ chain'[h] = chain[h]
        \/ chain'[h].hash \in Nat /\ nextHash <= chain'[h].hash /\ chain'[h].hash < nextHash'
  <2> TAKE h \in DOMAIN chain'
  <2>1. h \in 1..Len(chain)
    BY <1>5
  <2>2. CASE h > height /\ chain'[h].hash = nextHash + (h - height) - 1
    <3> DEFINE at == h - height
    <3>1. at \in Nat /\ 1 <= at /\ at <= n
      BY <1>2, <2>1, <2>2
    <3>2. chain'[h].hash = nextHash + at - 1
      BY <2>2
    <3> HIDE DEF at
    <3>3. QED
      BY <1>1, <1>2, <1>3, <3>1, <3>2
  <2>3. QED
    BY <1>6, <2>2
<1>9. \A h, k \in DOMAIN chain' :
        nextHash <= chain'[h].hash /\ chain'[h].hash = chain'[k].hash => h = k
  BY <1>1, <1>2, <1>6, <1>7
<1>10. Grown
  <2>1. nextHash' \in Nat /\ nextHash <= nextHash'
    BY <1>1, <1>2, <1>3
  <2>2. Len(chain') \in Nat /\ DOMAIN chain' = 1..Len(chain')
    BY <1>2, <1>5
  <2>3. QED
    BY <1>1, <1>8, <1>9, <2>1, <2>2 DEF Grown
<1>11. QED
  BY <1>10 DEF Reorganise, projection

(* New hashes disturb neither the rows nor a verdict.                      *)
LEMMA PlacesGrow ==
  ASSUME AuditInv, PlacesInv, Grown, UNCHANGED <<attempts, logs, checking>>
  PROVE  PlacesInv'
<1>1. /\ nextHash \in Nat /\ nextHash' \in Nat /\ nextHash <= nextHash'
      /\ \A h \in DOMAIN chain : chain[h].hash \in Nat /\ chain[h].hash < nextHash
      /\ \A h, k \in DOMAIN chain : chain[h].hash = chain[k].hash => h = k
      /\ \A h \in DOMAIN chain' :
           \/ h \in DOMAIN chain /\ chain'[h] = chain[h]
           \/ chain'[h].hash \in Nat /\ nextHash <= chain'[h].hash /\ chain'[h].hash < nextHash'
      /\ \A h, k \in DOMAIN chain' :
           nextHash <= chain'[h].hash /\ chain'[h].hash = chain'[k].hash => h = k
  BY DEF PlacesInv, BlocksDistinct, Grown
<1>2. BlocksDistinct'
  <2>1. \A h \in DOMAIN chain' : chain'[h].hash \in Nat /\ chain'[h].hash < nextHash'
    BY <1>1
  <2>2. ASSUME NEW h \in DOMAIN chain', NEW k \in DOMAIN chain', chain'[h].hash = chain'[k].hash
        PROVE  h = k
    <3>1. CASE nextHash <= chain'[h].hash
      BY <1>1, <2>2, <3>1
    <3>2. CASE ~(nextHash <= chain'[h].hash)
      <4>1. /\ h \in DOMAIN chain /\ chain'[h] = chain[h]
            /\ k \in DOMAIN chain /\ chain'[k] = chain[k]
        BY <1>1, <2>2, <3>2
      <4>2. QED
        BY <1>1, <2>2, <4>1
    <3>3. QED
      BY <3>1, <3>2
  <2>3. QED
    BY <2>1, <2>2 DEF BlocksDistinct
<1>3. ASSUME NEW hash \in Nat, hash < nextHash, NEW h \in DOMAIN chain', chain'[h].hash = hash
      PROVE  h \in DOMAIN chain /\ chain[h].hash = hash
  BY <1>1, <1>3
<1>4. ASSUME NEW x, Placed(x)
      PROVE  Placed(x)'
  <2>1. x.hash \in Nat /\ x.hash < nextHash /\ \A h \in DOMAIN chain : chain[h].hash = x.hash => h = x.block
    BY <1>4 DEF Placed
  <2>2. x.hash < nextHash'
    BY <1>1, <2>1
  <2>3. \A h \in DOMAIN chain' : chain'[h].hash = x.hash => h = x.block
    BY <1>3, <2>1
  <2>4. QED
    BY <2>1, <2>2, <2>3 DEF Placed
<1>5. VerdictHolds'
  <2>1. CASE checking = Nothing
    BY <2>1, Zenon DEF VerdictHolds
  <2>2. CASE checking # Nothing
    <3>1. checking.hash \in Nat /\ checking.hash < nextHash
      BY <2>2, Zenon DEF PlacesInv, VerdictHolds
    <3>2. checking.hash < nextHash'
      BY <1>1, <3>1
    <3>3. (\A h \in DOMAIN chain : chain[h].hash # checking.hash)
            => \A h \in DOMAIN chain' : chain'[h].hash # checking.hash
      BY <1>3, <3>1
    <3>4. checking.canonical \/ \A h \in DOMAIN chain : chain[h].hash # checking.hash
      BY <2>2, Zenon DEF PlacesInv, VerdictHolds
    <3>5. checking' = checking
      OBVIOUS
    <3>6. QED
      BY <3>1, <3>2, <3>3, <3>4, <3>5, Zenon DEF VerdictHolds
  <2>3. QED
    BY <2>1, <2>2
<1>6. OrphanedIsGone'
  <2> SUFFICES ASSUME NEW id \in Ids, attempts[id] # Nothing, IsCanonical(attempts[id])'
               PROVE  attempts[id].status = "CANONICAL"
    BY DEF OrphanedIsGone, Ids
  <2> DEFINE row == attempts[id]
  <2>1. row.block <= Len(chain') /\ chain'[row.block].hash = row.hash
    BY DEF IsCanonical
  <2>2. row.hash \in Nat /\ row.hash < nextHash /\ row \in AttemptRows
    BY DEF PlacesInv, Placed, AuditInv, RowsInv
  <2>3. row.block \in Nat /\ 1 <= row.block
    BY <2>2 DEF AttemptRows, RowsOf
  <2> HIDE DEF row
  <2>4. row.block \in DOMAIN chain'
    BY <2>1, <2>3 DEF Grown
  <2>5. row.block \in DOMAIN chain /\ chain[row.block].hash = row.hash
    BY <1>3, <2>1, <2>2, <2>4
  <2>6. DOMAIN chain = 1..Len(chain)
    BY LenProperties DEF AuditInv, ChainInv
  <2>7. IsCanonical(row)
    BY <2>3, <2>5, <2>6 DEF IsCanonical
  <2>8. QED
    BY <2>7 DEF PlacesInv, OrphanedIsGone, row
<1>7. (\A i \in DOMAIN logs : Placed(logs[i]))'
      /\ (\A id \in Ids : attempts[id] # Nothing => Placed(attempts[id]))'
  BY <1>4 DEF PlacesInv, Ids
<1>8. QED
  BY <1>2, <1>5, <1>6, <1>7 DEF PlacesInv

(* Logs that are read are of blocks the chain has.                         *)
LEMMA LogsPlaced ==
  ASSUME ChainInv, BlocksDistinct, NEW at \in 0..Len(chain), NEW i \in DOMAIN LogsUpTo(at)
  PROVE  Placed(LogsUpTo(at)[i])
<1> DEFINE h == HeightOf(i)
<1>1. chain \in Seq(Blocks) /\ Len(chain) \in Nat /\ DOMAIN chain = 1..Len(chain)
  BY LenProperties DEF ChainInv
<1>2. at \in Nat /\ at <= Len(chain)
  BY <1>1
<1>3. i \in 1..AttemptIds(chain, at)
  BY DEF LogsUpTo
<1>4. h \in 1..Len(chain)
  BY <1>1, <1>2, <1>3, HeightExists
<1>5. LogsUpTo(at)[i].hash = chain[h].hash /\ LogsUpTo(at)[i].block = h
  BY <1>3 DEF LogsUpTo
<1> HIDE DEF h
<1>6. QED
  BY <1>1, <1>4, <1>5 DEF BlocksDistinct, Placed

LEMMA PlacesStep == AuditInv /\ PlacesInv /\ [AuditNext]_auditVars => PlacesInv'
<1> SUFFICES ASSUME AuditInv, PlacesInv, [AuditNext]_auditVars
             PROVE  PlacesInv'
  OBVIOUS
<1>0. BlocksDistinct /\ chain \in Seq(Blocks) /\ DOMAIN chain = 1..Len(chain)
  BY LenProperties DEF PlacesInv, AuditInv, ChainInv
<1>1. ASSUME UNCHANGED <<chain, nextHash>>
      PROVE  /\ BlocksDistinct' /\ \A x : Placed(x) => Placed(x)'
             /\ \A row : IsCanonical(row)' = IsCanonical(row)
  BY <1>0, <1>1 DEF BlocksDistinct, Placed, IsCanonical
<1>2. CASE UNCHANGED <<chain, nextHash, attempts, logs, checking>>
  <2>1. VerdictHolds'
    BY <1>2, Zenon DEF PlacesInv, VerdictHolds
  <2>2. QED
    BY <1>1, <1>2, <2>1 DEF PlacesInv, OrphanedIsGone, Ids
<1>3. CASE MineBlock \/ \E h \in 0..(Len(chain) - 1) : Reorganise(h)
  BY <1>0, <1>3, MinedGrows, ReorganisedGrows, PlacesGrow
<1>4. ASSUME UNCHANGED <<chain, nextHash, attempts, checking>>,
             \A i \in DOMAIN logs' : Placed(logs'[i])
      PROVE  PlacesInv'
  <2>1. VerdictHolds'
    BY <1>4, Zenon DEF PlacesInv, VerdictHolds
  <2>2. QED
    BY <1>1, <1>4, <2>1 DEF PlacesInv, OrphanedIsGone, Ids
<1>5. CASE ReadLogs
  <2>1. UNCHANGED <<chain, nextHash, attempts, checking>> /\ logs' = LogsUpTo(latest)
    BY <1>5 DEF ReadLogs, projection
  <2>2. ChainInv /\ latest \in 0..Len(chain)
    BY DEF AuditInv, ReadsInv
  <2>3. \A i \in DOMAIN logs' : Placed(logs'[i])
    BY <1>0, <2>1, <2>2, LogsPlaced
  <2>4. QED
    BY <1>4, <2>1, <2>3
<1>6. CASE RunEnds
  <2>1. UNCHANGED <<chain, nextHash, attempts, checking>> /\ logs' = <<>>
    BY <1>6 DEF RunEnds, projection
  <2>2. QED
    BY <1>4, <2>1
<1>7. CASE UpsertAttempt
  <2>1. UNCHANGED <<chain, nextHash, checking>> /\ pc = "upsert"
    BY <1>7 DEF UpsertAttempt
  <2>2. logs \in Seq(Logs) /\ logs # <<>>
    BY <2>1 DEF AuditInv, ReadsInv
  <2>3. CASE attempts' = attempts /\ logs' = <<>>
    BY <1>4, <2>1, <2>3
  <2>4. CASE attempts' = [attempts EXCEPT ![record.id] = Normalized] /\ logs' = Tail(logs)
    <3> DEFINE row == Normalized
               at == record.id
    <3>1. Head(logs) = logs[1] /\ 1 \in DOMAIN logs
      BY <2>2, HeadTailProperties, LenProperties, EmptySeq
    <3>2. row.hash = logs[1].hash /\ row.block = logs[1].block /\ row.status = "CANONICAL"
      BY <3>1 DEF Normalized
    <3>3. Placed(row)
      <4>1. Placed(logs[1])
        BY <3>1 DEF PlacesInv
      <4> HIDE DEF row
      <4>2. QED
        BY <3>2, <4>1 DEF Placed
    <3>4. at \in Ids /\ row \in AttemptRows
      BY <2>1, NormalizedTyped
    <3>5. /\ attempts \in [Ids -> AttemptRows \union {Nothing}]
          /\ attempts' = [attempts EXCEPT ![at] = row]
      BY <2>4 DEF AuditInv, RowsInv
    <3> HIDE DEF row, at
    <3>6. \A id \in Ids : attempts'[id] = IF id = at THEN row ELSE attempts[id]
      BY <3>4, <3>5
    <3>7. (\A id \in Ids : attempts[id] # Nothing => Placed(attempts[id]))'
      BY <1>1, <2>1, <3>3, <3>6 DEF PlacesInv, Ids
    <3>8. OrphanedIsGone'
      BY <1>1, <2>1, <3>2, <3>6 DEF PlacesInv, OrphanedIsGone, Ids
    <3>9. \A i \in DOMAIN logs' : Placed(logs'[i])
      <4>1. /\ Tail(logs) \in Seq(Logs) /\ Len(Tail(logs)) = Len(logs) - 1
            /\ \A i \in 1..Len(Tail(logs)) : Tail(logs)[i] = logs[i + 1]
        BY <2>2, HeadTailProperties
      <4>2. Len(logs) \in Nat /\ DOMAIN logs = 1..Len(logs) /\ DOMAIN Tail(logs) = 1..Len(Tail(logs))
        BY <2>2, <4>1, LenProperties
      <4>3. ASSUME NEW i \in DOMAIN Tail(logs)
            PROVE  Tail(logs)[i] = logs[i + 1] /\ i + 1 \in DOMAIN logs
        BY <4>1, <4>2
      <4>4. QED
        BY <2>4, <4>3 DEF PlacesInv
    <3>10. VerdictHolds'
      BY <2>1, Zenon DEF PlacesInv, VerdictHolds
    <3>11. QED
      BY <1>1, <2>1, <3>7, <3>8, <3>9, <3>10 DEF PlacesInv
  <2>5. QED
    BY <1>7, <2>3, <2>4 DEF UpsertAttempt, Refusal, NextLog
<1>8. CASE \E hash \in Hashes : CheckBlock(hash)
  <2>0. PICK hash \in Hashes : CheckBlock(hash)
    BY <1>8
  <2>1. PICK id \in Ids :
          /\ attempts[id] # Nothing /\ attempts[id].hash = hash
          /\ checking' = [block |-> attempts[id].block, hash |-> hash,
                          canonical |-> IsCanonical(attempts[id])]
          /\ UNCHANGED <<chain, nextHash, attempts, logs>>
    BY <2>0, Zenon DEF CheckBlock, projection, indexer
  <2> DEFINE row == attempts[id]
  <2>2. Placed(row) /\ row \in AttemptRows
    BY <2>1 DEF PlacesInv, AuditInv, RowsInv
  <2>3. row.block \in Nat /\ 1 <= row.block
    BY <2>2 DEF AttemptRows, RowsOf
  <2>4. hash \in Nat /\ hash < nextHash /\ \A h \in DOMAIN chain : chain[h].hash = hash => h = row.block
    BY <2>1, <2>2 DEF Placed
  <2>5. IsCanonical(row) \/ \A h \in DOMAIN chain : chain[h].hash # hash
    <3> HIDE DEF row
    <3>1. ASSUME NEW h \in DOMAIN chain, chain[h].hash = hash
          PROVE  IsCanonical(row)
      BY <1>0, <2>1, <2>3, <2>4, <3>1, LenProperties DEF IsCanonical, row
    <3>2. QED
      BY <3>1
  <2>6. checking'.hash = hash /\ checking'.canonical = IsCanonical(row)
    BY <2>1
  <2>7. VerdictHolds'
    <3>1. chain' = chain /\ nextHash' = nextHash
      BY <2>1
    <3> HIDE DEF row
    <3>2. checking'.canonical \/ \A h \in DOMAIN chain : chain[h].hash # hash
      BY <2>5, <2>6, Zenon
    <3>3. QED
      BY <2>4, <2>6, <3>1, <3>2, Zenon DEF VerdictHolds
  <2>8. QED
    BY <1>1, <2>1, <2>7 DEF PlacesInv, OrphanedIsGone, Ids
<1>9. CASE MarkBlockOrphaned
  <2>1. UNCHANGED <<chain, nextHash, logs>> /\ checking # Nothing /\ checking' = Nothing
    BY <1>9 DEF MarkBlockOrphaned, indexer
  <2>2. VerdictHolds'
    BY <2>1, Zenon DEF VerdictHolds
  <2>3. CASE attempts' = attempts
    BY <1>1, <2>1, <2>2, <2>3 DEF PlacesInv, OrphanedIsGone, Ids
  <2>4. CASE /\ attempts' = [id \in Ids |-> Orphaned(attempts[id])]
             /\ \A h \in DOMAIN chain : chain[h].hash # checking.hash
    <3>1. ASSUME NEW id \in Ids
          PROVE  /\ attempts'[id] # Nothing => Placed(attempts'[id])
                 /\ attempts'[id] # Nothing /\ IsCanonical(attempts'[id]) =>
                      attempts'[id].status = "CANONICAL"
      <4> DEFINE row == attempts[id]
      <4>1. attempts'[id] = Orphaned(row)
        BY <2>4
      <4>2. /\ row \in AttemptRows \union {Nothing}
            /\ row # Nothing => Placed(row)
            /\ row # Nothing /\ IsCanonical(row) => row.status = "CANONICAL"
        BY DEF AuditInv, RowsInv, PlacesInv, OrphanedIsGone
      <4> HIDE DEF row
      <4>3. CASE row = Nothing \/ row.hash # checking.hash
        BY <4>1, <4>2, <4>3 DEF Orphaned
      <4>4. CASE row # Nothing /\ row.hash = checking.hash
        <5>1. /\ Orphaned(row).hash = row.hash /\ Orphaned(row).block = row.block
              /\ row.block \in Nat /\ 1 <= row.block
          BY <4>2, <4>4 DEF Orphaned, AttemptRows, RowsOf
        <5>2. ~IsCanonical(Orphaned(row))
          BY <1>0, <2>4, <4>4, <5>1, LenProperties DEF IsCanonical
        <5>3. Placed(Orphaned(row))
          BY <4>2, <4>4, <5>1 DEF Placed
        <5>4. QED
          BY <4>1, <5>2, <5>3
      <4>5. QED
        BY <4>3, <4>4
    <3>2. QED
      BY <1>1, <2>1, <2>2, <3>1 DEF PlacesInv, OrphanedIsGone, Ids
  <2>5. QED
    BY <1>9, <2>1, <2>3, <2>4, Zenon DEF MarkBlockOrphaned, PlacesInv, VerdictHolds
<1>10. QED
  <2>1. CASE UNCHANGED auditVars
    BY <1>2, <2>1 DEF auditVars, projection, indexer
  <2>2. CASE ReadLatest \/ ReadRecord
             \/ \E w \in Writers :
                  StoreDecision(w) \/ (\E tx \in Txs, e \in Envelopes : LookUpDecision(w, tx, e))
    BY <1>2, <2>2 DEF ReadLatest, ReadRecord, StoreDecision, LookUpDecision, projection, indexer
  <2>3. QED
    BY <1>3, <1>5, <1>6, <1>7, <1>8, <1>9, <2>1, <2>2 DEF AuditNext, Indexer

LEMMA InitPlaces == AuditInit => PlacesInv
<1> SUFFICES ASSUME AuditInit
             PROVE  PlacesInv
  OBVIOUS
<1>1. /\ chain = <<>> /\ logs = <<>> /\ checking = Nothing
      /\ \A id \in Ids : attempts[id] = Nothing
  BY DEF AuditInit
<1>2. DOMAIN <<>> = {}
  OBVIOUS
<1>3. VerdictHolds
  BY <1>1, Zenon DEF VerdictHolds
<1>4. QED
  BY <1>1, <1>2, <1>3 DEF PlacesInv, BlocksDistinct, OrphanedIsGone

(* Only rows of blocks that the chain has left are marked as orphaned: a   *)
(* verdict of reconcileBlock that has aged does not mark the rows that     *)
(* were ingested again in between.                                         *)
THEOREM OnlyGoneOrphaned == AuditSpec => []OrphanedIsGone
<1>1. PlacesInv => OrphanedIsGone
  BY DEF PlacesInv
<1>2. QED
  BY <1>1, InitPlaces, AuditStart, AuditStep, PlacesStep, PTL DEF AuditSpec

-----------------------------------------------------------------------------
(* The audit projection: a run that has ended                              *)

(* The number of attempts grows with every attempt.                        *)
LEMMA AttemptIdsGrow ==
  ASSUME NEW c, NEW h \in Nat, NEW k \in Nat, h < k, c[k].tx # Nothing
  PROVE  AttemptIds(c, h) < AttemptIds(c, k)
<1> DEFINE S == {i \in 1..h : c[i].tx # Nothing}
           T == {i \in 1..k : c[i].tx # Nothing}
<1>1. IsFiniteSet(1..k)
  BY FS_Interval
<1>2. T \in SUBSET (1..k)
  OBVIOUS
<1>3. IsFiniteSet(T)
  BY <1>1, <1>2, FS_Subset
<1>4. S \in SUBSET T /\ k \in T /\ k \notin S
  OBVIOUS
<1>5. AttemptIds(c, h) = Cardinality(S) /\ AttemptIds(c, k) = Cardinality(T)
  BY DEF AttemptIds
<1> HIDE DEF S, T
<1>6. IsFiniteSet(S) /\ Cardinality(S) <= Cardinality(T) /\ Cardinality(S) # Cardinality(T)
  BY <1>3, <1>4, FS_Subset
<1>7. Cardinality(S) \in Nat /\ Cardinality(T) \in Nat
  BY <1>3, <1>6, FS_CardinalityType
<1>8. QED
  BY <1>5, <1>6, <1>7

LEMMA HeightUnique ==
  ASSUME NEW c, NEW h \in Nat, NEW k \in Nat, c[h].tx # Nothing, c[k].tx # Nothing,
         AttemptIds(c, h) = AttemptIds(c, k)
  PROVE  h = k
<1>1. AttemptIds(c, h) \in Nat /\ AttemptIds(c, k) \in Nat
  BY AttemptIdsIs
<1>2. ~(h < k) /\ ~(k < h)
  BY <1>1, AttemptIdsGrow
<1>3. QED
  BY <1>2

(* Attempts of the chain have the place they had when a block is mined.    *)
LEMMA MinedKeeps ==
  ASSUME AuditInv, MineBlock
  PROVE  /\ AttemptIds(chain', latest) = AttemptIds(chain, latest)
         /\ \A id \in 1..AttemptIds(chain, latest) :
              HeightOf(id)' = HeightOf(id) /\ chain'[HeightOf(id)] = chain[HeightOf(id)]
<1>1. chain \in Seq(Blocks) /\ latest \in 0..Len(chain) /\ Len(chain) \in Nat
  BY LenProperties DEF AuditInv, ChainInv, ReadsInv
<1>2. PICK block : chain' = Append(chain, block)
  BY DEF MineBlock
<1>3. DOMAIN chain' = 1..(Len(chain) + 1) /\ \A i \in 1..Len(chain) : chain'[i] = chain[i]
  BY <1>1, <1>2
<1>4. ASSUME NEW h \in 0..Len(chain)
      PROVE  AttemptIds(chain', h) = AttemptIds(chain, h)
  <2>1. \A i \in 1..h : chain'[i].tx = chain[i].tx
    BY <1>1, <1>3
  <2>2. {i \in 1..h : chain'[i].tx # Nothing} = {i \in 1..h : chain[i].tx # Nothing}
    BY <2>1
  <2>3. QED
    BY <2>2 DEF AttemptIds
<1>5. ASSUME NEW id \in 1..AttemptIds(chain, latest)
      PROVE  HeightOf(id)' = HeightOf(id) /\ chain'[HeightOf(id)] = chain[HeightOf(id)]
  <2> DEFINE h == HeightOf(id)
             Of(k) == chain'[k].tx # Nothing /\ AttemptIds(chain', k) = id
  <2>1. h \in 1..Len(chain) /\ chain[h].tx # Nothing /\ AttemptIds(chain, h) = id
    BY <1>1, HeightExists
  <2> HIDE DEF h
  <2>2. h \in DOMAIN chain' /\ Of(h) /\ chain'[h] = chain[h]
    BY <1>1, <1>3, <1>4, <2>1
  <2>3. \A k \in DOMAIN chain' : Of(k) => k = h
    <3>1. ASSUME NEW k \in DOMAIN chain', Of(k)
          PROVE  k = h
      BY <1>3, <2>1, <2>2, <3>1, HeightUnique
    <3>2. QED
      BY <3>1
  <2>4. HeightOf(id)' = CHOOSE k \in DOMAIN chain' : Of(k)
    BY DEF HeightOf
  <2> HIDE DEF Of
  <2>5. (CHOOSE k \in DOMAIN chain' : Of(k)) = h
    BY <2>2, <2>3
  <2>6. QED
    BY <2>2, <2>4, <2>5 DEF h
<1>6. QED
  BY <1>1, <1>4, <1>5

(* What is left of the logs is the end of what was read, and the rows of   *)
(* the others are those of the chain.                                      *)
Passed == AttemptIds(chain, latest) - Len(logs)

Ingesting == undisturbed /\ pc \in {"record", "upsert", "done"}

Ingested ==
  /\ Len(logs) <= AttemptIds(chain, latest)
  /\ \A i \in 1..Len(logs) : logs[i] = LogsUpTo(latest)[Passed + i]
  /\ \A id \in 1..Passed : attempts[id] = ChainRow(id)
  /\ pc = "upsert" => record = [id |-> Head(logs).id, content |-> Head(logs).tx]
  /\ pc = "done" => logs = <<>>

(* The log that is next tells of the attempt that is next.                 *)
LEMMA NextLogIs ==
  ASSUME AuditInv, Ingested, logs # <<>>
  PROVE  /\ Passed + 1 \in 1..AttemptIds(chain, latest) /\ Passed \in Nat
         /\ HeightOf(Passed + 1) \in DOMAIN chain
         /\ AttemptIds(chain, HeightOf(Passed + 1)) = Passed + 1
         /\ Head(logs) = [tx |-> chain[HeightOf(Passed + 1)].tx, block |-> HeightOf(Passed + 1),
                          hash |-> chain[HeightOf(Passed + 1)].hash, id |-> Passed + 1]
<1>1. /\ chain \in Seq(Blocks) /\ DOMAIN chain = 1..Len(chain) /\ Len(chain) \in Nat
      /\ logs \in Seq(Logs) /\ latest \in 0..Len(chain)
  BY LenProperties DEF AuditInv, ChainInv, ReadsInv
<1>2. Len(logs) \in Nat /\ Len(logs) >= 1 /\ Head(logs) = logs[1]
  BY <1>1, LenProperties, EmptySeq, HeadTailProperties
<1>3. latest \in Nat /\ latest <= Len(chain) /\ AttemptIds(chain, latest) \in Nat
  BY <1>1, AttemptIdsIs
<1>4. Passed \in Nat /\ Passed + 1 \in 1..AttemptIds(chain, latest)
  BY <1>2, <1>3 DEF Ingested, Passed
<1>5. logs[1] = LogsUpTo(latest)[Passed + 1]
  BY <1>2 DEF Ingested
<1> DEFINE id == Passed + 1
<1> HIDE DEF id
<1>6. id \in 1..AttemptIds(chain, latest)
  BY <1>4 DEF id
<1>7. /\ HeightOf(id) \in 1..Len(chain) /\ AttemptIds(chain, HeightOf(id)) = id
      /\ LogsUpTo(latest)[id] = [tx |-> chain[HeightOf(id)].tx, block |-> HeightOf(id),
                                 hash |-> chain[HeightOf(id)].hash, id |-> id]
  BY <1>1, <1>3, <1>6, HeightExists DEF LogsUpTo
<1>8. QED
  BY <1>1, <1>2, <1>4, <1>5, <1>7 DEF id

LEMMA UpsertIngests ==
  ASSUME AuditInv, Ingested, UpsertAttempt, pc' \in {"record", "upsert", "done"}
  PROVE  Ingested'
<1>1. /\ pc = "upsert" /\ UNCHANGED <<setting, chain, latest>>
      /\ logs' = Tail(logs) /\ attempts' = [attempts EXCEPT ![record.id] = Normalized]
      /\ pc' = IF logs' = <<>> THEN "done" ELSE "record"
  BY DEF UpsertAttempt, Refusal, NextLog
<1>2. /\ logs \in Seq(Logs) /\ logs # <<>> /\ chain \in Seq(Blocks)
      /\ attempts \in [Ids -> AttemptRows \union {Nothing}]
      /\ latest \in Nat
  BY <1>1, LenProperties DEF AuditInv, ReadsInv, ChainInv, RowsInv
<1>3. /\ Len(logs) \in Nat /\ Len(logs') = Len(logs) - 1
      /\ \A i \in 1..Len(logs') : logs'[i] = logs[i + 1]
  BY <1>1, <1>2, HeadTailProperties, LenProperties
<1> DEFINE n == AttemptIds(chain, latest)
           next == Passed + 1
           h == HeightOf(next)
<1>4. n \in Nat
  BY <1>2, AttemptIdsIs
<1>5. /\ next \in 1..n /\ Passed \in Nat
      /\ Head(logs) = [tx |-> chain[h].tx, block |-> h, hash |-> chain[h].hash, id |-> next]
  BY <1>2, NextLogIs
<1>6. record.id = next /\ Normalized = ChainRow(next) /\ record.id \in Ids
  <2>1. record = [id |-> Head(logs).id, content |-> Head(logs).tx]
    BY <1>1 DEF Ingested
  <2>2. record.id = next /\ record.content = chain[h].tx
    BY <1>5, <2>1
  <2>3. Normalized = ChainRow(next)
    BY <1>5, <2>2 DEF Normalized, ChainRow
  <2>4. QED
    BY <1>1, <2>2, <2>3, NormalizedTyped
<1>7. AttemptIds(chain', latest') = n /\ Passed' = next
  <2>1. AttemptIds(chain', latest') = n /\ Passed' = n - Len(logs')
    BY <1>1 DEF Passed
  <2>2. Passed = n - Len(logs)
    BY DEF Passed
  <2> HIDE DEF n
  <2>3. QED
    BY <1>3, <1>4, <2>1, <2>2
<1>8. \A id : ChainRow(id)' = ChainRow(id)
  BY <1>1 DEF ChainRow, HeightOf
<1>9. LogsUpTo(latest)' = LogsUpTo(latest)
  BY <1>1 DEF LogsUpTo, HeightOf
<1> HIDE DEF h
<1>10. \A id \in 1..Passed' : attempts'[id] = ChainRow(id)'
  <2>1. ASSUME NEW id \in 1..next
        PROVE  attempts'[id] = ChainRow(id)
    <3>1. CASE id = next
      BY <1>1, <1>2, <1>6, <3>1
    <3>2. CASE id # next
      <4>1. id \in 1..Passed
        BY <1>5, <2>1, <3>2
      <4>2. attempts[id] = ChainRow(id)
        BY <4>1 DEF Ingested
      <4> HIDE DEF next
      <4>3. attempts'[id] = attempts[id]
        <5>1. attempts' = [attempts EXCEPT ![next] = Normalized]
          BY <1>1, <1>6
        <5>2. id \in Ids
          <6>1. n <= latest /\ latest <= MaxHeight /\ MaxHeight \in Nat /\ next \in 1..n
            BY <1>2, <1>5, AttemptIdsIs, AuditAssumption, LenProperties DEF AuditInv, ReadsInv, ChainInv
          <6> HIDE DEF n
          <6>2. QED
            BY <1>2, <1>4, <2>1, <6>1 DEF Ids
        <5>3. QED
          BY <1>2, <3>2, <5>1, <5>2
      <4>4. QED
        BY <4>2, <4>3
    <3>3. QED
      BY <3>1, <3>2
  <2>2. QED
    BY <1>7, <1>8, <2>1
<1>11. Len(logs') <= n /\ \A i \in 1..Len(logs') : logs'[i] = LogsUpTo(latest)'[Passed' + i]
  <2>1. Len(logs) <= n /\ \A i \in 1..Len(logs) : logs[i] = LogsUpTo(latest)[Passed + i]
    BY DEF Ingested
  <2>2. ASSUME NEW i \in 1..Len(logs')
        PROVE  logs'[i] = LogsUpTo(latest)[next + i]
    <3>1. i + 1 \in 1..Len(logs) /\ logs'[i] = logs[i + 1] /\ Passed + (i + 1) = (Passed + 1) + i
      BY <1>3, <1>5, <2>2
    <3>2. logs[i + 1] = LogsUpTo(latest)[Passed + (i + 1)]
      BY <2>1, <3>1
    <3>3. QED
      BY <3>1, <3>2
  <2> HIDE DEF n, next
  <2>3. QED
    BY <1>3, <1>4, <1>7, <1>9, <2>1, <2>2
<1>12. (pc' = "done" => logs' = <<>>) /\ pc' # "upsert"
  BY <1>1
<1>13. QED
  BY <1>7, <1>10, <1>11, <1>12 DEF Ingested

(* A row that is on the chain is not marked.                               *)
LEMMA MarkKeepsIngested ==
  ASSUME AuditInv, PlacesInv, Ingested, MarkBlockOrphaned
  PROVE  Ingested'
<1>1. UNCHANGED <<setting, chain, latest, logs, record, pc>>
  BY DEF MarkBlockOrphaned, indexer
<1>2. /\ \A id : ChainRow(id)' = ChainRow(id)
      /\ LogsUpTo(latest)' = LogsUpTo(latest) /\ Passed' = Passed
  BY <1>1 DEF ChainRow, HeightOf, LogsUpTo, Passed
<1>3. ASSUME NEW id \in 1..Passed
      PROVE  attempts'[id] = ChainRow(id)
  <2>1. /\ chain \in Seq(Blocks) /\ Len(chain) \in Nat /\ DOMAIN chain = 1..Len(chain)
        /\ latest \in Nat /\ latest <= Len(chain) /\ Len(chain) <= MaxHeight /\ MaxHeight \in Nat
        /\ Len(logs) \in Nat
    BY AuditAssumption, LenProperties DEF AuditInv, ChainInv, ReadsInv
  <2>2. AttemptIds(chain, latest) \in 0..latest
    BY <2>1, AttemptIdsIs
  <2>3. id \in 1..AttemptIds(chain, latest) /\ id \in Ids
    BY <1>3, <2>1, <2>2 DEF Passed, Ids
  <2>4. HeightOf(id) \in DOMAIN chain /\ attempts[id] = ChainRow(id)
    BY <1>3, <2>1, <2>3, HeightExists DEF Ingested
  <2>5. attempts[id].hash = chain[HeightOf(id)].hash
    BY <2>4 DEF ChainRow
  <2>6. CASE attempts' = attempts
    BY <2>4, <2>6
  <2>7. CASE /\ attempts' = [i \in Ids |-> Orphaned(attempts[i])]
             /\ \A h \in DOMAIN chain : chain[h].hash # checking.hash
    BY <2>3, <2>4, <2>5, <2>7 DEF Orphaned
  <2>8. QED
    BY <2>6, <2>7, Zenon DEF MarkBlockOrphaned, PlacesInv, VerdictHolds
<1>4. QED
  BY <1>1, <1>2, <1>3 DEF Ingested

LEMMA IngestStep ==
  AuditInv /\ PlacesInv /\ (Ingesting => Ingested) /\ [AuditNext]_auditVars
    => (Ingesting => Ingested)'
<1> SUFFICES ASSUME AuditInv, PlacesInv, Ingesting => Ingested, [AuditNext]_auditVars, Ingesting'
             PROVE  Ingested'
  OBVIOUS
<1>1. undisturbed' /\ pc' \in {"record", "upsert", "done"}
  BY Zenon DEF Ingesting
<1>2. ASSUME UNCHANGED <<chain, latest, logs, record, pc, undisturbed, attempts>>
      PROVE  Ingested'
  <2>1. Ingested
    BY <1>1, <1>2, Zenon DEF Ingesting
  <2>2. /\ \A id : ChainRow(id)' = ChainRow(id)
        /\ LogsUpTo(latest)' = LogsUpTo(latest) /\ Passed' = Passed
    BY <1>2 DEF ChainRow, HeightOf, LogsUpTo, Passed
  <2>3. QED
    BY <1>2, <2>1, <2>2 DEF Ingested
<1>3. CASE MineBlock
  <2>1. UNCHANGED <<latest, logs, record, pc, undisturbed, attempts>>
    BY <1>3 DEF MineBlock, projection, indexer
  <2>2. Ingested
    BY <1>1, <2>1, Zenon DEF Ingesting
  <2>3. /\ AttemptIds(chain', latest) = AttemptIds(chain, latest)
        /\ \A id \in 1..AttemptIds(chain, latest) :
             HeightOf(id)' = HeightOf(id) /\ chain'[HeightOf(id)] = chain[HeightOf(id)]
    BY <1>3, MinedKeeps
  <2>4. LogsUpTo(latest)' = LogsUpTo(latest) /\ Passed' = Passed
    BY <2>1, <2>3 DEF LogsUpTo, Passed
  <2>5. ASSUME NEW id \in 1..Passed
        PROVE  ChainRow(id)' = ChainRow(id)
    <3>1. latest \in Nat /\ logs \in Seq(Logs) /\ Len(logs) \in Nat
      BY LenProperties DEF AuditInv, ReadsInv, ChainInv
    <3>2. AttemptIds(chain, latest) \in Nat
      BY <3>1, AttemptIdsIs
    <3>3. id \in 1..AttemptIds(chain, latest)
      BY <2>5, <3>1, <3>2 DEF Passed
    <3>4. QED
      BY <2>3, <3>3 DEF ChainRow
  <2>6. QED
    BY <2>1, <2>2, <2>3, <2>4, <2>5 DEF Ingested
<1>4. ASSUME NEW h, Reorganise(h)
      PROVE  FALSE
  <2>1. undisturbed' = FALSE
    BY <1>4 DEF Reorganise
  <2>2. QED
    BY <1>1, <2>1, Zenon
<1>5. CASE ReadLogs
  <2>1. /\ UNCHANGED <<chain, latest, attempts>> /\ logs' = LogsUpTo(latest)
        /\ pc' = IF logs' = <<>> THEN "done" ELSE "record"
    BY <1>5 DEF ReadLogs, projection
  <2>2. latest \in Nat
    BY LenProperties DEF AuditInv, ReadsInv, ChainInv
  <2> DEFINE n == AttemptIds(chain, latest)
  <2>3. n \in Nat
    BY <2>2, AttemptIdsIs
  <2>4. LogsUpTo(latest)' = LogsUpTo(latest) /\ AttemptIds(chain', latest') = n
    BY <2>1 DEF LogsUpTo, HeightOf
  <2>5. LogsUpTo(latest) \in Seq(Logs)
    BY LogsTyped DEF AuditInv, ReadsInv
  <2>6. Len(LogsUpTo(latest)) = n
    <3>1. DOMAIN LogsUpTo(latest) = 1..n
      BY DEF LogsUpTo
    <3> HIDE DEF n
    <3>2. QED
      BY <2>3, <2>5, <3>1, LenProperties
  <2>7. Passed' = 0
    <3>1. Passed' = n - Len(logs')
      BY <2>4 DEF Passed
    <3> HIDE DEF n
    <3>2. QED
      BY <2>1, <2>3, <2>6, <3>1
  <2>8. \A i \in 1..Len(logs') : logs'[i] = LogsUpTo(latest)'[Passed' + i]
    <3> HIDE DEF n
    <3>1. \A i \in 1..n : 0 + i = i
      BY <2>3
    <3>2. QED
      BY <2>1, <2>4, <2>6, <2>7, <3>1
  <2>9. Len(logs') <= n /\ 1..Passed' = {}
    <3> HIDE DEF n
    <3>1. QED
      BY <2>1, <2>3, <2>6, <2>7
  <2>10. pc' # "upsert" /\ (pc' = "done" => logs' = <<>>)
    BY <2>1
  <2>11. QED
    BY <2>4, <2>8, <2>9, <2>10 DEF Ingested
<1>6. CASE ReadRecord
  <2>1. /\ UNCHANGED <<chain, latest, attempts, logs, undisturbed>>
        /\ pc = "record" /\ pc' = "upsert"
        /\ record' = IF Head(logs).id > AttemptIds(chain, Head(logs).block)
                     THEN [id |-> 0, content |-> Nothing]
                     ELSE [id |-> Head(logs).id, content |-> chain[HeightOf(Head(logs).id)].tx]
    BY <1>6 DEF ReadRecord, projection
  <2>2. Ingested /\ logs # <<>>
    <3>1. Ingesting
      BY <1>1, <2>1, Zenon DEF Ingesting
    <3>2. QED
      BY <2>1, <3>1 DEF AuditInv, ReadsInv
  <2> DEFINE next == Passed + 1
             h == HeightOf(next)
  <2>3. /\ next \in Nat /\ AttemptIds(chain, h) = next
        /\ Head(logs) = [tx |-> chain[h].tx, block |-> h, hash |-> chain[h].hash, id |-> next]
    BY <2>2, NextLogIs
  <2>4. record' = [id |-> Head(logs).id, content |-> Head(logs).tx]
    <3>1. Head(logs).id = next /\ Head(logs).block = h /\ Head(logs).tx = chain[h].tx
      BY <2>3
    <3>2. HeightOf(Head(logs).id) = h
      BY <3>1
    <3> HIDE DEF next, h
    <3>3. ~(Head(logs).id > AttemptIds(chain, Head(logs).block))
      BY <2>3, <3>1
    <3>4. QED
      BY <2>1, <3>1, <3>2, <3>3
  <2>5. /\ \A id : ChainRow(id)' = ChainRow(id)
        /\ LogsUpTo(latest)' = LogsUpTo(latest) /\ Passed' = Passed
    BY <2>1 DEF ChainRow, HeightOf, LogsUpTo, Passed
  <2>6. QED
    BY <2>1, <2>2, <2>4, <2>5 DEF Ingested
<1>7. CASE UpsertAttempt
  <2>1. pc = "upsert" /\ undisturbed' = undisturbed
    BY <1>7 DEF UpsertAttempt
  <2>2. Ingested
    BY <1>1, <2>1, Zenon DEF Ingesting
  <2>3. QED
    BY <1>1, <1>7, <2>2, UpsertIngests
<1>8. CASE MarkBlockOrphaned
  <2>1. UNCHANGED <<pc, undisturbed>>
    BY <1>8 DEF MarkBlockOrphaned, indexer
  <2>2. Ingested
    BY <1>1, <2>1, Zenon DEF Ingesting
  <2>3. QED
    BY <1>8, <2>2, MarkKeepsIngested
<1>9. CASE ReadLatest \/ RunEnds
  <2>1. pc' \in {"logs", "idle"}
    BY <1>9 DEF ReadLatest, RunEnds
  <2>2. QED
    BY <1>1, <2>1
<1>10. CASE \/ \E hash \in Hashes : CheckBlock(hash)
            \/ \E w \in Writers :
                 StoreDecision(w) \/ (\E tx \in Txs, e \in Envelopes : LookUpDecision(w, tx, e))
            \/ UNCHANGED auditVars
  BY <1>2, <1>10 DEF CheckBlock, StoreDecision, LookUpDecision, auditVars, projection, indexer
<1>11. QED
  BY <1>3, <1>4, <1>5, <1>6, <1>7, <1>8, <1>9, <1>10 DEF AuditNext, Indexer

(* A run of the indexer that ends without an error leaves the chain's own  *)
(* row for every attempt up to its height, if the chain has not            *)
(* reorganised since it began: whatever the table held before, and         *)
(* whatever reconciliations go on meanwhile, in either repository.         *)
THEOREM RunsAreFaithful == AuditSpec => []RunsFaithful
<1>1. AuditInit => (Ingesting => Ingested)
  BY DEF AuditInit, Ingesting
<1>2. AuditInv /\ (Ingesting => Ingested) => RunsFaithful
  <2> SUFFICES ASSUME AuditInv, Ingesting => Ingested, pc = "done", undisturbed,
                      NEW id \in 1..AttemptIds(chain, latest)
               PROVE  attempts[id] = ChainRow(id)
    BY Zenon DEF RunsFaithful
  <2>1. Ingested
    BY Zenon DEF Ingesting
  <2>2. logs = <<>> /\ Len(<<>>) = 0 /\ latest \in Nat
    BY <2>1, LenProperties DEF Ingested, AuditInv, ReadsInv, ChainInv
  <2>3. Passed = AttemptIds(chain, latest)
    <3>1. AttemptIds(chain, latest) \in Nat
      BY <2>2, AttemptIdsIs
    <3>2. QED
      BY <2>2, <3>1 DEF Passed
  <2>4. QED
    BY <2>1, <2>3 DEF Ingested
<1>3. QED
  BY <1>1, <1>2, InitPlaces, AuditStart, AuditStep, PlacesStep, IngestStep, PTL DEF AuditSpec
============================================================================
