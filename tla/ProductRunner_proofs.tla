-------------------------- MODULE ProductRunner_proofs --------------------------
(***************************************************************************)
(* The product runner's submissions, for any number of treasuries, any     *)
(* trades the market calls for, clocks, failures and restarts: what the    *)
(* chain rejects was overtaken after the submitter's preview, and in a     *)
(* life without failures no context is read while a transaction is on its  *)
(* way.                                                                    *)
(***************************************************************************)
EXTENDS ProductRunner, FiniteSetTheorems, SequenceTheorems, TLAPS

-----------------------------------------------------------------------------
(* The invariant                                                           *)

Stages == {"sleep", "prove", "tenant", "decide", "refresh", "preview", "submit", "send", "wait"}

(* What the stage of the cycle says of its variables.                      *)
Staged ==
  /\ pc \in Stages /\ cycles \in Nat /\ failures \in Nat /\ restarts \in Nat
  /\ pc # "sleep" => queue # << >>
  /\ pc = "preview" => rebuild < MaxJitRebuilds
  /\ pc \in {"preview", "submit"} => candidate.strategy \in Strategies /\ candidate.amount \in Nat \ {0}
  /\ pc \in {"send", "wait"} <=> outgoing # NoProposal
  /\ pc \in {"send", "wait"} => /\ outgoing \in Proposals /\ outgoing.evidence = cycles
                                /\ outgoing.treasury = queue[1].treasury

(* A treasury is queued once in a cycle.                                   *)
QueuedOnce ==
  \A i, j \in DOMAIN queue : queue[i].treasury = queue[j].treasury => i = j

(* What was attempted in this cycle is not still to be run, except for the *)
(* transaction whose receipt is waited for.                                *)
Behind(p) ==
  /\ p.evidence \in Nat /\ p.evidence <= cycles
  /\ p.evidence = cycles =>
       \A i \in DOMAIN queue : queue[i].treasury = p.treasury => i = 1 /\ pc = "wait"
Attempted ==
  /\ \A p \in pending : Behind(p)
  /\ \A x \in journal : Behind(x.proposal)

(* A proposal the destination has not overtaken would still be executed.   *)
Permitted(p) == ~p.moved => Verdict(p) = "none"
UpToDate ==
  /\ \A p \in pending : Permitted(p)
  /\ outgoing # NoProposal => Permitted(outgoing)

(* Without a failure there is one transaction at most, sent in this run.   *)
Serial ==
  failures = 0 /\ restarts = 0 =>
    /\ pc # "wait" => pending = {}
    /\ \A p, q \in pending : p = q
    /\ pending # {} => Receipts = {}

RunnerInv ==
  TypeOK /\ Staged /\ QueuedOnce /\ Attempted /\ UpToDate /\ RejectedOnlyIfOvertaken /\ Serial

-----------------------------------------------------------------------------
(* Types                                                                   *)

(* A proposal and what the destination made of it.                         *)
Kin(q, p) == q.treasury = p.treasury /\ q.evidence = p.evidence

LEMMA OvertakenProposal ==
  ASSUME NEW p \in Proposals
  PROVE  /\ Overtaken(p) \in Proposals /\ Overtaken(p).moved /\ Kin(Overtaken(p), p)
BY DEF Overtaken, Proposals, Kin

LEMMA TradeType ==
  ASSUME TypeOK, NEW t \in Treasuries, NEW day \in Days
  PROVE  /\ TradeOn(t, day) \in {NoTrade} \union [strategy : Strategies, amount : Nat \ {0}]
         /\ TradeOn(t, day).strategy = "riskReduction" =>
              TradeOn(t, day).amount <= DailyBudget - usedByDay[t][day]
<1> DEFINE v == view[t]
           left == DailyBudget - usedByDay[t][day]
<1>1. v \in {NoTrade} \union [strategy : Strategies, amount : Nat \ {0}]
  BY RunnerAssumption DEF TypeOK, Views, Strategies
<1>2. left \in Nat /\ usedByDay[t][day] \in 0..DailyBudget
  BY RunnerAssumption DEF TypeOK
<1>3. TradeOn(t, day) = IF v.strategy # "riskReduction" THEN v
                        ELSE IF left = 0 THEN NoTrade
                        ELSE [v EXCEPT !.amount = Least(v.amount, left)]
  BY DEF TradeOn
<1> HIDE DEF v, left
<1>4. CASE v.strategy # "riskReduction"
  BY <1>1, <1>3, <1>4
<1>5. CASE v.strategy = "riskReduction" /\ left = 0
  BY <1>3, <1>5 DEF NoTrade
<1>6. CASE v.strategy = "riskReduction" /\ left # 0
  <2>1. v \in [strategy : Strategies, amount : Nat \ {0}]
    BY <1>1, <1>6 DEF NoTrade
  <2> DEFINE least == Least(v.amount, left)
  <2>2. least \in Nat \ {0} /\ least <= left
    BY <2>1, <1>2, <1>6 DEF Least
  <2>3. TradeOn(t, day) = [v EXCEPT !.amount = least]
    BY <1>3, <1>6
  <2> HIDE DEF least
  <2>4. TradeOn(t, day) \in [strategy : Strategies, amount : Nat \ {0}]
        /\ TradeOn(t, day).amount = least
    BY <2>1, <2>2, <2>3
  <2>5. QED
    BY <2>2, <2>4 DEF left
<1>7. QED
  BY <1>4, <1>5, <1>6

LEMMA CurrentType ==
  ASSUME TypeOK, queue # << >>
  PROVE  /\ Current = queue[1] /\ Current.treasury \in Treasuries /\ Current.epoch \in Nat
         /\ 1 \in DOMAIN queue
         /\ Tail(queue) \in Seq([treasury : Treasuries, epoch : Nat])
         /\ DOMAIN Tail(queue) = 1..(Len(queue) - 1)
         /\ \A i \in DOMAIN Tail(queue) :
              i \in Nat \ {0} /\ i + 1 \in DOMAIN queue /\ Tail(queue)[i] = queue[i + 1]
<1> DEFINE S == [treasury : Treasuries, epoch : Nat]
<1>1. queue \in Seq(S)
  BY DEF TypeOK
<1> HIDE DEF S
<1>2. /\ Len(queue) \in Nat \ {0} /\ DOMAIN queue = 1..Len(queue)
      /\ queue[1] \in S /\ Current = queue[1]
  BY <1>1, EmptySeq DEF Current
<1>3. /\ Tail(queue) \in Seq(S) /\ Len(Tail(queue)) = Len(queue) - 1
      /\ DOMAIN Tail(queue) = 1..(Len(queue) - 1)
      /\ \A i \in 1..Len(Tail(queue)) : Tail(queue)[i] = queue[i + 1]
  <2>1. Tail(queue) \in Seq(S) /\ Len(Tail(queue)) = Len(queue) - 1
    BY <1>1, HeadTailProperties
  <2>2. DOMAIN Tail(queue) = 1..Len(Tail(queue))
    BY <2>1
  <2>3. QED
    BY <1>1, <2>1, <2>2, HeadTailProperties
<1>4. \A i \in 1..(Len(queue) - 1) : i + 1 \in 1..Len(queue)
  BY <1>2
<1>5. QED
  BY <1>2, <1>3, <1>4 DEF S

(* What happens when the run of a treasury is over.                        *)
LEMMA Finished ==
  ASSUME TypeOK, Staged, QueuedOnce, queue # << >>, NEW status \in Statuses,
         FinishTenant(status)
  PROVE  /\ queue' \in Seq([treasury : Treasuries, epoch : Nat])
         /\ pc' \in {"sleep", "tenant"} /\ (pc' # "sleep" => queue' # << >>)
         /\ approved' = "none" /\ candidate' = NoTrade /\ rebuild' = 0
         /\ outgoing' = NoProposal
         /\ pipeline' \in [Treasuries -> Statuses]
         /\ QueuedOnce'
         /\ \A i \in DOMAIN queue' : /\ i + 1 \in DOMAIN queue /\ queue'[i] = queue[i + 1]
                                     /\ queue'[i].treasury # queue[1].treasury
<1>1. queue' = Tail(queue)
  BY DEF FinishTenant
<1>2. pipeline' \in [Treasuries -> Statuses]
  BY CurrentType DEF FinishTenant, Show, TypeOK
<1>3. \A i \in DOMAIN queue' :
        i \in Nat \ {0} /\ i + 1 \in DOMAIN queue /\ queue'[i] = queue[i + 1]
  BY <1>1, CurrentType
<1>4. \A i \in DOMAIN queue' : queue'[i].treasury # queue[1].treasury
  BY <1>3, CurrentType DEF QueuedOnce
<1>5. QueuedOnce'
  BY <1>3 DEF QueuedOnce
<1>6. QED
  BY <1>1, <1>2, <1>3, <1>4, <1>5, CurrentType DEF FinishTenant

-----------------------------------------------------------------------------
(* The destination                                                         *)

(* A step of the destination: proposals are carried over, and one that is  *)
(* not overtaken finds the verdict it found before.                        *)
Carried(q, p) ==
  /\ p \in Proposals => q \in Proposals
  /\ Kin(q, p)
  /\ ~q.moved => q = p /\ Verdict(p)' = Verdict(p)

DestinationStep ==
  /\ UNCHANGED <<pc, queue, approved, candidate, rebuild, pipeline, bounds>>
  /\ \A q \in pending' : \E p \in pending : Carried(q, p)
  /\ IF outgoing = NoProposal THEN outgoing' = NoProposal
     ELSE Carried(outgoing', outgoing)
  /\ (\A p, q \in pending : p = q) => \A p, q \in pending' : p = q
  /\ \/ journal' = journal
     \/ /\ (\A p, q \in pending : p = q) => pending' = {}
        /\ \E p \in pending, result \in Results :
             /\ journal' = journal \union {[proposal |-> p, result |-> result]}
             /\ result # "EXECUTED" => Verdict(p) # "none"

(* Whether the treasury has executed on the evidence of a proposal.        *)
Consumed(p) ==
  \E x \in journal : x.result = "EXECUTED" /\ x.proposal.evidence = p.evidence
                     /\ x.proposal.treasury = p.treasury

LEMMA VerdictUnaffected ==
  ASSUME NEW p, chainDay' = chainDay,
         view'[p.treasury] = view[p.treasury], mandate'[p.treasury] = mandate[p.treasury],
         usedByDay'[p.treasury] = usedByDay[p.treasury],
         Consumed(p)' <=> Consumed(p)
  PROVE  Verdict(p)' = Verdict(p)
<1>1. TradeOn(p.treasury, chainDay)' = TradeOn(p.treasury, chainDay)
  BY DEF TradeOn
<1> DEFINE permitted == TradeOn(p.treasury, chainDay)
<1>2. Verdict(p) =
        LET m == mandate[p.treasury] IN
        CASE ~m.registered -> "reverts"
          [] m.registered /\ (~m.autonomous \/ m.epoch # p.epoch) -> "policy"
          [] OTHER -> IF Consumed(p) THEN "evidence"
                      ELSE IF permitted.strategy # p.strategy THEN "strategy"
                      ELSE IF p.amount > permitted.amount THEN "amount"
                      ELSE "none"
  BY DEF Verdict, Consumed
<1>3. Verdict(p)' =
        LET m == mandate'[p.treasury] IN
        CASE ~m.registered -> "reverts"
          [] m.registered /\ (~m.autonomous \/ m.epoch # p.epoch) -> "policy"
          [] OTHER -> IF Consumed(p)' THEN "evidence"
                      ELSE IF permitted'.strategy # p.strategy THEN "strategy"
                      ELSE IF p.amount > permitted'.amount THEN "amount"
                      ELSE "none"
  BY DEF Verdict, Consumed
<1>4. permitted' = permitted
  BY <1>1
<1> HIDE DEF permitted
<1>5. QED
  BY <1>2, <1>3, <1>4

(* One treasury's surroundings move: its proposals are overtaken, and what *)
(* the others' find is as before.                                          *)
LEMMA TreasuryMoves ==
  ASSUME TypeOK, NEW t \in Treasuries, DestinationMoves(t), journal' = journal,
         \A p \in Proposals : p.treasury # t => Verdict(p)' = Verdict(p),
         UNCHANGED <<pc, queue, approved, candidate, rebuild, pipeline, bounds>>
  PROVE  DestinationStep
<1>1. ASSUME NEW p \in Proposals
      PROVE  p.treasury = t => Carried(Overtaken(p), p)
  BY OvertakenProposal DEF Carried
<1>2. ASSUME NEW p \in Proposals
      PROVE  p.treasury # t => Carried(p, p)
  BY DEF Carried, Kin
<1>3. ASSUME NEW q \in pending'
      PROVE  \E p \in pending : Carried(q, p)
  <2>1. PICK p \in pending : q = IF p.treasury = t THEN Overtaken(p) ELSE p
    BY DEF DestinationMoves
  <2>2. p \in Proposals
    BY DEF TypeOK
  <2>3. QED
    BY <1>1, <1>2, <2>1, <2>2
<1>4. IF outgoing = NoProposal THEN outgoing' = NoProposal ELSE Carried(outgoing', outgoing)
  <2>1. CASE outgoing = NoProposal
    BY <2>1 DEF DestinationMoves
  <2>2. CASE outgoing # NoProposal /\ outgoing.treasury = t
    <3>1. outgoing \in Proposals /\ outgoing' = Overtaken(outgoing)
      BY <2>2 DEF TypeOK, DestinationMoves
    <3>2. Overtaken(outgoing) \in Proposals /\ Overtaken(outgoing).moved
          /\ Kin(Overtaken(outgoing), outgoing)
      BY <3>1, OvertakenProposal
    <3>3. QED
      BY <2>2, <3>1, <3>2 DEF Carried
  <2>3. CASE outgoing # NoProposal /\ outgoing.treasury # t
    <3>1. outgoing \in Proposals /\ outgoing' = outgoing
      BY <2>3 DEF TypeOK, DestinationMoves
    <3>2. Verdict(outgoing)' = Verdict(outgoing)
      BY <2>3, <3>1
    <3>3. QED
      BY <2>3, <3>1, <3>2 DEF Carried, Kin
  <2>4. QED
    BY <2>1, <2>2, <2>3
<1>5. (\A p, q \in pending : p = q) => \A p, q \in pending' : p = q
  BY DEF DestinationMoves
<1>6. QED
  BY <1>3, <1>4, <1>5 DEF DestinationStep

LEMMA MarketStep ==
  ASSUME TypeOK, NEW t \in Treasuries, MarketMoves(t)
  PROVE  DestinationStep
<1>1. ASSUME NEW p \in Proposals, p.treasury # t
      PROVE  Verdict(p)' = Verdict(p)
  <2>1. p.treasury \in Treasuries
    BY DEF Proposals
  <2>2. view'[p.treasury] = view[p.treasury]
    BY <1>1, <2>1 DEF MarketMoves, TypeOK
  <2>3. QED
    BY <2>2, VerdictUnaffected DEF MarketMoves, Consumed
<1>2. QED
  BY <1>1, TreasuryMoves DEF MarketMoves

LEMMA OwnerStep ==
  ASSUME TypeOK, NEW t \in Treasuries, SetAutomationMode(t) \/ DeregisterAgent(t)
  PROVE  DestinationStep
<1>1. ASSUME NEW p \in Proposals, p.treasury # t
      PROVE  Verdict(p)' = Verdict(p)
  <2>1. p.treasury \in Treasuries
    BY DEF Proposals
  <2>2. mandate'[p.treasury] = mandate[p.treasury]
    BY <1>1, <2>1 DEF SetAutomationMode, DeregisterAgent, TypeOK
  <2>3. QED
    BY <2>2, VerdictUnaffected DEF SetAutomationMode, DeregisterAgent, Consumed
<1>2. QED
  BY <1>1, TreasuryMoves DEF SetAutomationMode, DeregisterAgent

LEMMA DayStep ==
  ASSUME TypeOK, ChainDayPasses
  PROVE  DestinationStep
<1>1. ASSUME NEW p \in Proposals
      PROVE  Carried(Overtaken(p), p)
  BY OvertakenProposal DEF Carried
<1>2. \A q \in pending' : \E p \in pending : Carried(q, p)
  BY <1>1 DEF ChainDayPasses, TypeOK
<1>3. IF outgoing = NoProposal THEN outgoing' = NoProposal ELSE Carried(outgoing', outgoing)
  <2>1. CASE outgoing = NoProposal
    BY <2>1 DEF ChainDayPasses
  <2>2. CASE outgoing # NoProposal
    <3>1. outgoing \in Proposals /\ outgoing' = Overtaken(outgoing)
      BY <2>2 DEF TypeOK, ChainDayPasses
    <3>2. Overtaken(outgoing) \in Proposals /\ Overtaken(outgoing).moved
          /\ Kin(Overtaken(outgoing), outgoing)
      BY <3>1, OvertakenProposal
    <3>3. QED
      BY <2>2, <3>1, <3>2 DEF Carried
  <2>3. QED
    BY <2>1, <2>2
<1>4. (\A p, q \in pending : p = q) => \A p, q \in pending' : p = q
  BY DEF ChainDayPasses
<1>5. QED
  BY <1>2, <1>3, <1>4 DEF DestinationStep, ChainDayPasses

LEMMA HostDayStep ==
  ASSUME TypeOK, HostDayPasses
  PROVE  DestinationStep
<1>1. \A p \in Proposals : Verdict(p)' = Verdict(p)
  BY VerdictUnaffected DEF HostDayPasses, chain, Consumed
<1>2. \A p \in Proposals : Carried(p, p)
  BY <1>1 DEF Carried, Kin
<1>3. outgoing # NoProposal => Carried(outgoing', outgoing)
  <2>1. outgoing' = outgoing
    BY DEF HostDayPasses, run
  <2>2. outgoing # NoProposal => outgoing \in Proposals /\ Verdict(outgoing)' = Verdict(outgoing)
    BY <1>1, <2>1 DEF TypeOK
  <2>3. QED
    BY <2>1, <2>2 DEF Carried, Kin
<1>4. QED
  BY <1>2, <1>3 DEF DestinationStep, HostDayPasses, chain, run, TypeOK

(* The record a mined transaction leaves.                                  *)
Mark(p, result) == [proposal |-> p, result |-> result]

LEMMA ExecutionStep ==
  ASSUME TypeOK, NEW p \in pending, Mine(p), Verdict(p) = "none"
  PROVE  DestinationStep
<1> USE DEF Mark
<1>1. /\ Mined(p, "EXECUTED") /\ UNCHANGED <<mandate, chainDay>>
      /\ view' \in {[view EXCEPT ![p.treasury] = v] : v \in Views(p.treasury)}
      /\ usedByDay' = IF p.strategy = "riskReduction"
                      THEN [usedByDay EXCEPT ![p.treasury][chainDay] = @ + p.amount]
                      ELSE usedByDay
      /\ pending' = {IF q.treasury = p.treasury THEN Overtaken(q) ELSE q : q \in pending \ {p}}
      /\ outgoing' = IF outgoing # NoProposal /\ outgoing.treasury = p.treasury
                     THEN Overtaken(outgoing) ELSE outgoing
      /\ UNCHANGED <<pc, queue, approved, candidate, rebuild, pipeline, bounds>>
  BY DEF Mine
<1>2. journal' = journal \union {Mark(p, "EXECUTED")} /\ p \in Proposals
  BY <1>1 DEF Mined, TypeOK
<1>3. ASSUME NEW q \in Proposals, q.treasury # p.treasury
      PROVE  Verdict(q)' = Verdict(q)
  <2>1. q.treasury \in Treasuries
    BY DEF Proposals
  <2>2. view'[q.treasury] = view[q.treasury]
    BY <1>1, <1>3, <2>1 DEF TypeOK
  <2>3. usedByDay'[q.treasury] = usedByDay[q.treasury]
    BY <1>1, <1>3, <2>1 DEF TypeOK
  <2>4. Consumed(q)' <=> Consumed(q)
    BY <1>2, <1>3 DEF Consumed
  <2>5. QED
    BY <1>1, <2>2, <2>3, <2>4, VerdictUnaffected
<1>4. ASSUME NEW q \in Proposals
      PROVE  /\ q.treasury = p.treasury => Carried(Overtaken(q), q)
             /\ q.treasury # p.treasury => Carried(q, q)
  BY <1>3, OvertakenProposal DEF Carried, Kin
<1>5. ASSUME NEW q \in pending'
      PROVE  \E o \in pending : Carried(q, o)
  <2>1. PICK o \in pending \ {p} : q = IF o.treasury = p.treasury THEN Overtaken(o) ELSE o
    BY <1>1
  <2>2. o \in Proposals
    BY DEF TypeOK
  <2>3. QED
    BY <1>4, <2>1, <2>2
<1>6. IF outgoing = NoProposal THEN outgoing' = NoProposal ELSE Carried(outgoing', outgoing)
  <2>1. CASE outgoing = NoProposal
    BY <1>1, <2>1
  <2>2. CASE outgoing # NoProposal /\ outgoing.treasury = p.treasury
    <3>1. outgoing \in Proposals /\ outgoing' = Overtaken(outgoing)
      BY <1>1, <2>2 DEF TypeOK
    <3>2. Overtaken(outgoing) \in Proposals /\ Overtaken(outgoing).moved
          /\ Kin(Overtaken(outgoing), outgoing)
      BY <3>1, OvertakenProposal
    <3>3. QED
      BY <2>2, <3>1, <3>2 DEF Carried
  <2>3. CASE outgoing # NoProposal /\ outgoing.treasury # p.treasury
    <3>1. outgoing \in Proposals /\ outgoing' = outgoing
      BY <1>1, <2>3 DEF TypeOK
    <3>2. Verdict(outgoing)' = Verdict(outgoing)
      BY <1>3, <2>3, <3>1
    <3>3. QED
      BY <2>3, <3>1, <3>2 DEF Carried, Kin
  <2>4. QED
    BY <2>1, <2>2, <2>3
<1>7. (\A q, o \in pending : q = o) => pending' = {}
  BY <1>1
<1>8. "EXECUTED" \in Results
  BY DEF Results
<1>9. QED
  BY <1>1, <1>2, <1>5, <1>6, <1>7, <1>8 DEF DestinationStep

LEMMA RejectionStep ==
  ASSUME TypeOK, NEW p \in pending, Mine(p), Verdict(p) # "none"
  PROVE  DestinationStep
<1> DEFINE result == IF Verdict(p) = "reverts" THEN "REVERTED" ELSE "REJECTED"
<1>1. /\ Mined(p, result) /\ pending' = pending \ {p}
      /\ UNCHANGED <<view, usedByDay, outgoing, mandate, chainDay>>
      /\ UNCHANGED <<pc, queue, approved, candidate, rebuild, pipeline, bounds>>
  BY DEF Mine
<1>2. result \in Results /\ result # "EXECUTED"
  BY DEF Results
<1> HIDE DEF result
<1>3. journal' = journal \union {Mark(p, result)}
  BY <1>1 DEF Mined, Mark
<1>4. ASSUME NEW q \in Proposals
      PROVE  Verdict(q)' = Verdict(q)
  <2>1. Consumed(q)' <=> Consumed(q)
    BY <1>2, <1>3 DEF Consumed, Mark
  <2>2. QED
    BY <1>1, <2>1, VerdictUnaffected
<1>5. \A q \in pending' : q \in pending /\ Carried(q, q)
  BY <1>1, <1>4 DEF Carried, Kin, TypeOK
<1>6. outgoing # NoProposal => Carried(outgoing', outgoing)
  <2>1. outgoing # NoProposal => outgoing \in Proposals /\ Verdict(outgoing)' = Verdict(outgoing)
    BY <1>1, <1>4 DEF TypeOK
  <2>2. QED
    BY <1>1, <2>1 DEF Carried, Kin
<1>7. (\A q, o \in pending : q = o) => pending' = {}
  BY <1>1
<1>8. QED
  BY <1>1, <1>2, <1>3, <1>5, <1>6, <1>7 DEF DestinationStep, Mark

(* What a step of the destination leaves of the invariant.                 *)
LEMMA DestinationKeeps ==
  ASSUME RunnerInv, TypeOK', DestinationStep
  PROVE  RunnerInv'
<1>1. UNCHANGED <<pc, queue, approved, candidate, rebuild, cycles, failures, restarts>>
  BY DEF DestinationStep, bounds
<1>2. /\ outgoing = NoProposal => outgoing' = NoProposal
      /\ outgoing # NoProposal =>
           /\ outgoing' \in Proposals /\ outgoing' # NoProposal
           /\ Kin(outgoing', outgoing)
           /\ ~outgoing'.moved => outgoing' = outgoing /\ Verdict(outgoing)' = Verdict(outgoing)
  <2>1. \A p \in Proposals : p # NoProposal
    BY DEF Proposals, NoProposal
  <2>2. QED
    BY <2>1 DEF DestinationStep, Carried, RunnerInv, TypeOK
<1>3. Staged'
  BY <1>1, <1>2 DEF RunnerInv, Staged, Kin
<1>4. QueuedOnce'
  BY <1>1 DEF RunnerInv, QueuedOnce
<1>5. \A q \in pending' : \E p \in pending :
        Kin(q, p) /\ (~q.moved => q = p /\ Verdict(p)' = Verdict(p))
  BY DEF DestinationStep, Carried
<1>6. \A x \in journal' : x \in journal \/ \E p \in pending : x.proposal = p
  BY DEF DestinationStep
<1>7. Attempted'
  <2>1. ASSUME NEW q, NEW p, Kin(q, p), Behind(p)
        PROVE  Behind(q)'
    BY <1>1, <2>1 DEF Kin, Behind
  <2>2. ASSUME NEW q, Behind(q)
        PROVE  Behind(q)'
    BY <1>1, <2>2 DEF Behind
  <2>3. \A q \in pending' : Behind(q)'
    BY <1>5, <2>1 DEF RunnerInv, Attempted
  <2>4. \A x \in journal' : Behind(x.proposal)'
    BY <1>6, <2>2 DEF RunnerInv, Attempted
  <2>5. QED
    BY <2>3, <2>4 DEF Attempted
<1>8. UpToDate'
  <2>1. \A q \in pending' : Permitted(q)'
    BY <1>5 DEF RunnerInv, UpToDate, Permitted
  <2>2. outgoing' # NoProposal => Permitted(outgoing)'
    BY <1>2 DEF RunnerInv, UpToDate, Permitted
  <2>3. QED
    BY <2>1, <2>2 DEF UpToDate
<1>9. RejectedOnlyIfOvertaken'
  BY DEF DestinationStep, RunnerInv, RejectedOnlyIfOvertaken, UpToDate, Permitted
<1>10. Serial'
  <2>1. SUFFICES ASSUME failures = 0, restarts = 0
                 PROVE  /\ pc # "wait" => pending' = {}
                        /\ \A p, q \in pending' : p = q
                        /\ pending' # {} => Receipts' = {}
    BY <1>1 DEF Serial
  <2>2. /\ pc # "wait" => pending = {}
        /\ \A p, q \in pending : p = q
        /\ pending # {} => Receipts = {}
    BY <2>1 DEF RunnerInv, Serial
  <2>3. (pc # "wait" => pending' = {}) /\ \A p, q \in pending' : p = q
    BY <1>5, <2>2 DEF DestinationStep
  <2>4. ASSUME pending' # {}
        PROVE  Receipts' = {}
    <3>1. journal' = journal /\ pending # {}
      BY <1>5, <2>2, <2>4 DEF DestinationStep
    <3>2. outgoing # NoProposal /\ Kin(outgoing', outgoing)
      BY <1>2, <2>2, <3>1 DEF RunnerInv, Staged
    <3>3. QED
      BY <2>2, <3>1, <3>2 DEF Receipts, Kin
  <2>5. QED
    BY <2>3, <2>4
<1>11. QED
  BY <1>3, <1>4, <1>7, <1>8, <1>9, <1>10 DEF RunnerInv

LEMMA DestinationTypes ==
  ASSUME RunnerInv, DestinationStep,
         view' \in [Treasuries -> Candidates], \A t \in Treasuries : view'[t] \in Views(t),
         mandate' \in [Treasuries -> Mandates],
         usedByDay' \in [Treasuries -> [Days -> 0..DailyBudget]],
         chainDay' \in Days, hostDay' \in Days
  PROVE  TypeOK'
<1>1. UNCHANGED <<queue, approved, candidate, rebuild, pipeline>>
  BY DEF DestinationStep
<1>2. pending' \subseteq Proposals
  BY DEF DestinationStep, Carried, RunnerInv, TypeOK
<1>3. outgoing' \in Proposals \union {NoProposal}
  BY DEF DestinationStep, Carried, RunnerInv, TypeOK
<1>4. \A x \in journal' : x.proposal \in Proposals /\ x.result \in Results
  BY DEF DestinationStep, RunnerInv, TypeOK
<1>5. QED
  BY <1>1, <1>2, <1>3, <1>4 DEF RunnerInv, TypeOK

LEMMA ViewsAreCandidates ==
  ASSUME NEW t \in Treasuries
  PROVE  Views(t) \subseteq Candidates
BY RunnerAssumption DEF Views, Candidates, Strategies

LEMMA MarketKeeps ==
  ASSUME RunnerInv, NEW t \in Treasuries, MarketMoves(t)
  PROVE  RunnerInv'
<1>1. DestinationStep
  BY MarketStep DEF RunnerInv
<1>2. view' \in [Treasuries -> Candidates] /\ \A u \in Treasuries : view'[u] \in Views(u)
  BY ViewsAreCandidates DEF MarketMoves, RunnerInv, TypeOK
<1>3. TypeOK'
  BY <1>1, <1>2, DestinationTypes DEF MarketMoves, RunnerInv, TypeOK
<1>4. QED
  BY <1>1, <1>3, DestinationKeeps

LEMMA OwnerKeeps ==
  ASSUME RunnerInv, NEW t \in Treasuries, SetAutomationMode(t) \/ DeregisterAgent(t)
  PROVE  RunnerInv'
<1>1. DestinationStep
  BY OwnerStep DEF RunnerInv
<1>2. mandate[t] \in Mandates /\ mandate \in [Treasuries -> Mandates]
  BY DEF RunnerInv, TypeOK
<1>3. mandate' \in [Treasuries -> Mandates]
  <2>1. CASE SetAutomationMode(t)
    <3> DEFINE epoch == mandate[t].epoch + 1
               autonomous == ~mandate[t].autonomous
               m == [mandate[t] EXCEPT !.epoch = epoch, !.autonomous = autonomous]
    <3>1. epoch \in Nat /\ autonomous \in BOOLEAN
      BY <1>2 DEF Mandates
    <3>2. mandate' = [mandate EXCEPT ![t] = m]
      <4>1. mandate' = [mandate EXCEPT ![t].epoch = @ + 1, ![t].autonomous = ~@]
        BY <2>1 DEF SetAutomationMode
      <4>2. QED
        BY <1>2, <4>1
    <3> HIDE DEF epoch, autonomous
    <3>3. m \in Mandates
      BY <1>2, <3>1 DEF Mandates
    <3> HIDE DEF m
    <3>4. QED
      BY <1>2, <3>2, <3>3
  <2>2. CASE DeregisterAgent(t)
    BY <2>2, <1>2 DEF DeregisterAgent, Mandates
  <2>3. QED
    BY <2>1, <2>2
<1>4. TypeOK'
  BY <1>1, <1>3, DestinationTypes DEF SetAutomationMode, DeregisterAgent, RunnerInv, TypeOK
<1>5. QED
  BY <1>1, <1>4, DestinationKeeps

LEMMA ClocksKeep ==
  ASSUME RunnerInv, ChainDayPasses \/ HostDayPasses
  PROVE  RunnerInv'
<1>1. DestinationStep
  BY DayStep, HostDayStep DEF RunnerInv
<1>2. TypeOK'
  BY <1>1, DestinationTypes DEF ChainDayPasses, HostDayPasses, chain, RunnerInv, TypeOK
<1>3. QED
  BY <1>1, <1>2, DestinationKeeps

(* What a treasury sells to reduce risk fits into the day's budget.        *)
LEMMA BudgetedVerdict ==
  ASSUME TypeOK, NEW p \in Proposals, Verdict(p) = "none", p.strategy = "riskReduction"
  PROVE  usedByDay[p.treasury][chainDay] + p.amount \in 0..DailyBudget
<1>1. p.treasury \in Treasuries /\ chainDay \in Days /\ p.amount \in Nat
  BY DEF Proposals, TypeOK
<1> DEFINE permitted == TradeOn(p.treasury, chainDay)
           used == usedByDay[p.treasury][chainDay]
<1>2. used \in Nat /\ used <= DailyBudget /\ DailyBudget \in Nat
  BY <1>1, RunnerAssumption DEF TypeOK
<1>3. permitted.strategy = p.strategy /\ ~(p.amount > permitted.amount)
  BY DEF Verdict
<1>4. /\ permitted \in {NoTrade} \union [strategy : Strategies, amount : Nat \ {0}]
      /\ permitted.strategy = "riskReduction" => permitted.amount <= DailyBudget - used
  BY <1>1, TradeType
<1> HIDE DEF permitted, used
<1>5. permitted.amount \in Nat
  BY <1>4 DEF NoTrade
<1>6. used + p.amount \in 0..DailyBudget
  BY <1>1, <1>2, <1>3, <1>4, <1>5
<1>7. QED
  BY <1>6 DEF used

LEMMA MineKeeps ==
  ASSUME RunnerInv, NEW p \in pending, Mine(p)
  PROVE  RunnerInv'
<1>1. DestinationStep
  BY ExecutionStep, RejectionStep DEF RunnerInv
<1>2. p \in Proposals /\ p.treasury \in Treasuries /\ chainDay \in Days /\ p.amount \in Nat
  BY DEF RunnerInv, TypeOK, Proposals
<1>3. view' \in [Treasuries -> Candidates] /\ \A u \in Treasuries : view'[u] \in Views(u)
  BY <1>2, ViewsAreCandidates DEF Mine, RunnerInv, TypeOK
<1>4. usedByDay' \in [Treasuries -> [Days -> 0..DailyBudget]]
  <2>1. CASE usedByDay' = usedByDay
    BY <2>1 DEF RunnerInv, TypeOK
  <2>2. CASE Verdict(p) = "none" /\ p.strategy = "riskReduction"
    <3> DEFINE used == usedByDay[p.treasury][chainDay] + p.amount
               ofTreasury == [usedByDay[p.treasury] EXCEPT ![chainDay] = used]
    <3>1. used \in 0..DailyBudget
      BY <1>2, <2>2, BudgetedVerdict DEF RunnerInv
    <3>2. usedByDay' = [usedByDay EXCEPT ![p.treasury] = ofTreasury]
      BY <1>2, <2>2 DEF Mine, RunnerInv, TypeOK
    <3> HIDE DEF used
    <3>3. ofTreasury \in [Days -> 0..DailyBudget]
      BY <1>2, <3>1 DEF RunnerInv, TypeOK
    <3> HIDE DEF ofTreasury
    <3>4. QED
      BY <1>2, <3>2, <3>3 DEF RunnerInv, TypeOK
  <2>3. QED
    BY <2>1, <2>2 DEF Mine
<1>5. TypeOK'
  BY <1>1, <1>3, <1>4, DestinationTypes DEF Mine, RunnerInv, TypeOK
<1>6. QED
  BY <1>1, <1>5, DestinationKeeps

-----------------------------------------------------------------------------
(* The cycle                                                               *)

Quiet == UNCHANGED <<chain, hostDay, pending, journal, cycles>>

LEMMA QuietVerdict ==
  ASSUME NEW p, Quiet
  PROVE  Verdict(p)' = Verdict(p)
BY VerdictUnaffected DEF Quiet, chain, Consumed

(* The queue stays as it is, or its first treasury has been run.           *)
QueueKept == queue' = queue /\ (pc' = "wait" <=> pc = "wait")
QueueAdvanced ==
  \A i \in DOMAIN queue' : i \in Nat \ {0} /\ i + 1 \in DOMAIN queue /\ queue'[i] = queue[i + 1]

(* A step of the cycle that broadcasts nothing.                            *)
LEMMA CycleKeeps ==
  ASSUME RunnerInv, TypeOK', Staged', QueuedOnce', Serial', Quiet,
         QueueKept \/ QueueAdvanced,
         outgoing' \in {NoProposal, outgoing} \/ Verdict(outgoing)' = "none"
  PROVE  RunnerInv'
<1>1. UNCHANGED <<pending, journal, cycles>>
  BY DEF Quiet
<1>2. ASSUME NEW p, Behind(p)
      PROVE  Behind(p)'
  <2>1. CASE QueueKept
    BY <1>1, <1>2, <2>1 DEF Behind, QueueKept
  <2>2. CASE QueueAdvanced
    BY <1>1, <1>2, <2>2 DEF Behind, QueueAdvanced
  <2>3. QED
    BY <2>1, <2>2
<1>3. Attempted'
  BY <1>1, <1>2 DEF RunnerInv, Attempted
<1>4. UpToDate'
  <2>1. \A p \in pending' : Permitted(p)'
    BY <1>1, QuietVerdict DEF RunnerInv, UpToDate, Permitted
  <2>2. outgoing' # NoProposal => Permitted(outgoing)'
    <3>1. CASE Verdict(outgoing)' = "none"
      BY <3>1 DEF Permitted
    <3>2. CASE outgoing' = outgoing
      <4>1. PICK p : p = outgoing
        OBVIOUS
      <4>2. Verdict(p)' = Verdict(p)
        BY QuietVerdict
      <4>3. p # NoProposal /\ ~p.moved => Verdict(p) = "none"
        BY <4>1 DEF RunnerInv, UpToDate, Permitted
      <4>4. QED
        BY <3>2, <4>1, <4>2, <4>3 DEF Permitted
    <3>3. QED
      BY <3>1, <3>2
  <2>3. QED
    BY <2>1, <2>2 DEF UpToDate
<1>5. RejectedOnlyIfOvertaken'
  BY <1>1 DEF RunnerInv, RejectedOnlyIfOvertaken
<1>6. QED
  BY <1>3, <1>4, <1>5 DEF RunnerInv

(* Before anything is broadcast there is nothing on its way to wait for.   *)
LEMMA SerialBefore ==
  ASSUME RunnerInv, pc # "wait", UNCHANGED <<pending, failures, restarts>>
  PROVE  Serial'
BY DEF RunnerInv, Serial

(* The run of a treasury ends.                                             *)
LEMMA FinishKeeps ==
  ASSUME RunnerInv, queue # << >>, NEW status \in Statuses, FinishTenant(status), Quiet,
         failures' \in Nat, restarts' \in Nat, Serial'
  PROVE  RunnerInv'
<1>1. /\ queue' \in Seq([treasury : Treasuries, epoch : Nat])
      /\ pc' \in {"sleep", "tenant"} /\ (pc' # "sleep" => queue' # << >>)
      /\ approved' = "none" /\ candidate' = NoTrade /\ rebuild' = 0
      /\ outgoing' = NoProposal
      /\ pipeline' \in [Treasuries -> Statuses]
      /\ QueuedOnce'
  BY Finished DEF RunnerInv
<1>2. QueueAdvanced
  BY CurrentType DEF FinishTenant, QueueAdvanced, RunnerInv
<1>3. TypeOK'
  <2>1. 0 \in 0..MaxJitRebuilds
    BY RunnerAssumption
  <2>2. UNCHANGED <<view, mandate, usedByDay, chainDay, hostDay, pending, journal>>
    BY DEF Quiet, chain
  <2>3. candidate' \in Candidates
    BY <1>1 DEF Candidates
  <2>4. QED
    BY <1>1, <2>1, <2>2, <2>3 DEF RunnerInv, TypeOK
<1>4. Staged'
  BY <1>1 DEF Quiet, RunnerInv, Staged, Stages
<1>5. QED
  BY <1>1, <1>2, <1>3, <1>4, CycleKeeps

LEMMA ReadMandatesKeeps ==
  ASSUME RunnerInv, ReadMandates
  PROVE  RunnerInv'
<1> DEFINE eligible == {t \in Treasuries : mandate[t].registered /\ mandate[t].autonomous}
           size == Cardinality(eligible)
<1>1. PICK order \in [1..size -> eligible] :
        /\ {order[i] : i \in DOMAIN order} = eligible
        /\ queue' = [i \in DOMAIN order |->
                       [treasury |-> order[i], epoch |-> mandate[order[i]].epoch]]
  BY DEF ReadMandates
<1>2. /\ pc = "sleep" /\ pc' = "prove" /\ eligible # {} /\ cycles' = cycles + 1
      /\ pipeline' = [t \in Treasuries |-> IF t \in eligible THEN "working" ELSE pipeline[t]]
      /\ UNCHANGED <<chain, hostDay, pending, journal, approved, candidate, rebuild,
                     outgoing, failures, restarts>>
  BY DEF ReadMandates
<1>3. IsFiniteSet(eligible) /\ size \in Nat
  BY RunnerAssumption, FS_Subset, FS_CardinalityType
<1>4. \A i, j \in 1..size : order[i] = order[j] => i = j
  <2>1. order \in Surjection(1..size, eligible)
    BY <1>1 DEF Surjection
  <2>2. IsFiniteSet(1..size) /\ Cardinality(1..size) = size
    BY <1>3, FS_Interval
  <2>3. order \in Injection(1..size, eligible)
    BY <2>1, <2>2, FS_SurjSameCardinalityImpliesInj
  <2>4. QED
    BY <2>3 DEF Injection, IsInjective
<1>5. \A t \in eligible : t \in Treasuries /\ mandate[t].epoch \in Nat
  BY DEF RunnerInv, TypeOK, Mandates
<1>6. DOMAIN order = 1..size /\ DOMAIN queue' = 1..size /\ 1..size # {}
  BY <1>1, <1>2
<1> HIDE DEF eligible, size
<1>7. \A i \in 1..size : /\ queue'[i] \in [treasury : Treasuries, epoch : Nat]
                         /\ queue'[i].treasury = order[i]
  BY <1>1, <1>5, <1>6
<1>8. queue' \in Seq([treasury : Treasuries, epoch : Nat])
  <2>1. queue' = [i \in 1..size |-> queue'[i]]
    BY <1>1, <1>6
  <2> DEFINE S == [treasury : Treasuries, epoch : Nat]
  <2>2. \A i \in 1..size : queue'[i] \in S
    BY <1>7
  <2> HIDE DEF S
  <2>3. queue' \in [1..size -> S]
    BY <2>1, <2>2
  <2>4. queue' \in Seq(S)
    BY <1>3, <2>3, SeqDef
  <2>5. QED
    BY <2>4 DEF S
<1>9. queue' # << >>
  <2>1. DOMAIN << >> = {}
    OBVIOUS
  <2>2. QED
    BY <1>6, <2>1
<1>10. QueuedOnce'
  BY <1>4, <1>6, <1>7 DEF QueuedOnce
<1>11. TypeOK'
  BY <1>2, <1>8 DEF chain, RunnerInv, TypeOK, Statuses
<1>12. outgoing = NoProposal
  BY <1>2 DEF RunnerInv, Staged
<1>13. Staged'
  BY <1>2, <1>9, <1>12 DEF RunnerInv, Staged, Stages
<1>14. Attempted'
  <2>1. ASSUME NEW p, Behind(p)
        PROVE  Behind(p)'
    BY <1>2, <2>1 DEF Behind, RunnerInv, Staged
  <2>2. QED
    BY <1>2, <2>1 DEF RunnerInv, Attempted
<1>15. UpToDate'
  <2>1. \A p : Verdict(p)' = Verdict(p)
    BY <1>2, VerdictUnaffected DEF chain, Consumed
  <2>2. QED
    BY <1>2, <1>12, <2>1 DEF RunnerInv, UpToDate, Permitted
<1>16. RejectedOnlyIfOvertaken'
  BY <1>2 DEF RunnerInv, RejectedOnlyIfOvertaken
<1>17. Serial'
  BY <1>2, SerialBefore
<1>18. QED
  BY <1>10, <1>11, <1>13, <1>14, <1>15, <1>16, <1>17 DEF RunnerInv

LEMMA ProveObservationsKeeps ==
  ASSUME RunnerInv, ProveObservations
  PROVE  RunnerInv'
<1>1. /\ pc = "prove" /\ Quiet /\ UNCHANGED <<approved, candidate, rebuild, outgoing, pipeline>>
      /\ UNCHANGED <<failures, restarts>>
      /\ \/ pc' = "tenant" /\ queue' = queue
         \/ pc' = "sleep" /\ queue' = << >>
  BY DEF ProveObservations, Quiet, bounds
<1>2. outgoing = NoProposal /\ queue # << >>
  BY <1>1 DEF RunnerInv, Staged
<1>3. queue' \in Seq([treasury : Treasuries, epoch : Nat]) /\ (queue' = queue \/ DOMAIN queue' = {})
  <2>1. << >> \in Seq([treasury : Treasuries, epoch : Nat]) /\ DOMAIN << >> = {}
    BY EmptySeq
  <2>2. QED
    BY <1>1, <2>1 DEF RunnerInv, TypeOK
<1>4. TypeOK'
  BY <1>1, <1>3 DEF Quiet, chain, RunnerInv, TypeOK
<1>5. Staged'
  BY <1>1, <1>2 DEF Quiet, RunnerInv, Staged, Stages
<1>6. QueuedOnce'
  BY <1>3 DEF RunnerInv, QueuedOnce
<1>7. QueueKept \/ QueueAdvanced
  BY <1>1, <1>3 DEF QueueKept, QueueAdvanced
<1>8. Serial'
  BY <1>1, SerialBefore DEF Quiet
<1>9. QED
  BY <1>1, <1>4, <1>5, <1>6, <1>7, <1>8, CycleKeeps

(* A step within the run of a treasury.                                    *)
LEMMA WithinKeeps ==
  ASSUME RunnerInv, TypeOK', Staged', Quiet, queue' = queue,
         UNCHANGED <<failures, restarts>>, pc # "wait", pc' # "wait",
         outgoing' \in {NoProposal, outgoing} \/ Verdict(outgoing)' = "none"
  PROVE  RunnerInv'
<1>1. QueuedOnce' /\ QueueKept
  BY DEF RunnerInv, QueuedOnce, QueueKept
<1>2. Serial'
  BY SerialBefore DEF Quiet
<1>3. QED
  BY <1>1, <1>2, CycleKeeps

(* Its run ends before anything was broadcast.                             *)
LEMMA EarlyFinishKeeps ==
  ASSUME RunnerInv, pc \notin {"sleep", "wait"}, NEW status \in Statuses, FinishTenant(status),
         Quiet, UNCHANGED <<failures, restarts>>
  PROVE  RunnerInv'
<1>1. queue # << >> /\ failures' \in Nat /\ restarts' \in Nat
  BY DEF RunnerInv, Staged
<1>2. Serial'
  BY SerialBefore DEF Quiet
<1>3. QED
  BY <1>1, <1>2, FinishKeeps

LEMMA ShownType ==
  ASSUME TypeOK, queue # << >>, NEW status \in Statuses, Show(Current.treasury, status)
  PROVE  pipeline' \in [Treasuries -> Statuses]
BY CurrentType DEF Show, TypeOK

LEMMA CandidateType ==
  ASSUME TypeOK, queue # << >>
  PROVE  LET c == DeriveCandidate(Current.treasury) IN
         /\ c \in Candidates
         /\ c # NoTrade => c.strategy \in Strategies /\ c.amount \in Nat \ {0}
BY CurrentType, TradeType DEF DeriveCandidate, Candidates, TypeOK

LEMMA DeriveInitialCandidateKeeps ==
  ASSUME RunnerInv, DeriveInitialCandidate
  PROVE  RunnerInv'
<1> DEFINE c == DeriveCandidate(Current.treasury)
<1>1. pc = "tenant" /\ Quiet /\ UNCHANGED <<failures, restarts>>
  BY DEF DeriveInitialCandidate, Quiet, bounds
<1>2. CASE FinishTenant("waiting")
  BY <1>1, <1>2, EarlyFinishKeeps DEF Statuses
<1>3. CASE /\ c # NoTrade /\ approved' = c.strategy /\ pc' = "decide"
           /\ Show(Current.treasury, "working")
           /\ UNCHANGED <<queue, candidate, rebuild, outgoing>>
  <2>1. queue # << >> /\ c.strategy \in Strategies
    BY <1>1, <1>3, CandidateType DEF RunnerInv, Staged
  <2>2. pipeline' \in [Treasuries -> Statuses]
    BY <1>3, <2>1, ShownType DEF RunnerInv, Statuses
  <2>3. TypeOK'
    BY <1>1, <1>3, <2>1, <2>2 DEF Quiet, chain, RunnerInv, TypeOK
  <2>4. Staged'
    BY <1>1, <1>3, <2>1 DEF Quiet, RunnerInv, Staged, Stages
  <2>5. QED
    BY <1>1, <1>3, <2>3, <2>4, WithinKeeps
<1>4. QED
  BY <1>2, <1>3 DEF DeriveInitialCandidate

LEMMA DecideKeeps ==
  ASSUME RunnerInv, Decide
  PROVE  RunnerInv'
<1>1. pc = "decide" /\ Quiet /\ UNCHANGED <<failures, restarts>>
  BY DEF Decide, Quiet, bounds
<1>2. CASE FinishTenant("waiting") \/ FinishTenant("failed")
  BY <1>1, <1>2, EarlyFinishKeeps DEF Statuses
<1>3. CASE /\ pc' = "refresh"
           /\ UNCHANGED <<queue, approved, candidate, rebuild, outgoing, pipeline>>
  <2>1. TypeOK'
    BY <1>1, <1>3 DEF Quiet, chain, RunnerInv, TypeOK
  <2>2. Staged'
    BY <1>1, <1>3 DEF Quiet, RunnerInv, Staged, Stages
  <2>3. QED
    BY <1>1, <1>3, <2>1, <2>2, WithinKeeps
<1>4. QED
  BY <1>2, <1>3 DEF Decide

LEMMA RefreshKeeps ==
  ASSUME RunnerInv, Refresh
  PROVE  RunnerInv'
<1> DEFINE c == DeriveCandidate(Current.treasury)
<1>1. pc = "refresh" /\ Quiet /\ UNCHANGED <<failures, restarts>>
  BY DEF Refresh, Quiet, bounds
<1>2. CASE FinishTenant("waiting")
  BY <1>1, <1>2, EarlyFinishKeeps DEF Statuses
<1>3. CASE /\ RebuildsLeft(rebuild) /\ c # NoTrade /\ candidate' = c /\ pc' = "preview"
           /\ Show(Current.treasury, "working")
           /\ UNCHANGED <<queue, approved, rebuild, outgoing>>
  <2>1. queue # << >> /\ c.strategy \in Strategies /\ c.amount \in Nat \ {0} /\ c \in Candidates
    BY <1>1, <1>3, CandidateType DEF RunnerInv, Staged
  <2>2. pipeline' \in [Treasuries -> Statuses]
    BY <1>3, <2>1, ShownType DEF RunnerInv, Statuses
  <2> HIDE DEF c
  <2>3. TypeOK'
    BY <1>1, <1>3, <2>1, <2>2 DEF Quiet, chain, RunnerInv, TypeOK
  <2>4. Staged'
    BY <1>1, <1>3, <2>1 DEF Quiet, RunnerInv, Staged, Stages, RebuildsLeft
  <2>5. QED
    BY <1>1, <1>3, <2>3, <2>4, WithinKeeps
<1>4. QED
  BY <1>2, <1>3 DEF Refresh

LEMMA MakeProposalType ==
  ASSUME RunnerInv, pc \in {"preview", "submit"}
  PROVE  /\ MakeProposal(candidate) \in Proposals
         /\ MakeProposal(candidate).evidence = cycles
         /\ MakeProposal(candidate).treasury = queue[1].treasury
<1>1. /\ queue # << >> /\ cycles \in Nat
      /\ candidate.strategy \in Strategies /\ candidate.amount \in Nat
  BY DEF RunnerInv, Staged
<1>2. QED
  BY <1>1, CurrentType DEF MakeProposal, Proposals, RunnerInv

LEMMA PreviewKeeps ==
  ASSUME RunnerInv, Preview
  PROVE  RunnerInv'
<1> DEFINE verdict == Verdict(MakeProposal(candidate))
<1>1. pc = "preview" /\ Quiet /\ UNCHANGED <<failures, restarts>>
  BY DEF Preview, Quiet, bounds
<1>2. CASE FinishTenant("failed") \/ FinishTenant("blocked")
  BY <1>1, <1>2, EarlyFinishKeeps DEF Statuses
<1>3. CASE /\ rebuild' = AfterRebuild(rebuild) /\ pc' = "refresh"
           /\ UNCHANGED <<queue, approved, candidate, outgoing, pipeline>>
  <2>1. rebuild' \in 0..MaxJitRebuilds
    BY <1>1, <1>3, RunnerAssumption DEF AfterRebuild, RunnerInv, Staged, TypeOK
  <2>2. TypeOK'
    BY <1>1, <1>3, <2>1 DEF Quiet, chain, RunnerInv, TypeOK
  <2>3. Staged'
    BY <1>1, <1>3 DEF Quiet, RunnerInv, Staged, Stages
  <2>4. QED
    BY <1>1, <1>3, <2>2, <2>3, WithinKeeps
<1>4. CASE /\ pc' = "submit" /\ Show(Current.treasury, "working")
           /\ UNCHANGED <<queue, approved, candidate, rebuild, outgoing>>
  <2>1. queue # << >>
    BY <1>1 DEF RunnerInv, Staged
  <2>2. pipeline' \in [Treasuries -> Statuses]
    BY <1>4, <2>1, ShownType DEF RunnerInv, Statuses
  <2>3. TypeOK'
    BY <1>1, <1>4, <2>2 DEF Quiet, chain, RunnerInv, TypeOK
  <2>4. Staged'
    BY <1>1, <1>4 DEF Quiet, RunnerInv, Staged, Stages
  <2>5. QED
    BY <1>1, <1>4, <2>3, <2>4, WithinKeeps
<1>5. QED
  BY <1>2, <1>3, <1>4 DEF Preview

(* The submitter's own preview: what passes is permitted at that moment.   *)
LEMMA SubmitPreviewKeeps ==
  ASSUME RunnerInv, SubmitPreview
  PROVE  RunnerInv'
<1>1. pc = "submit" /\ Quiet /\ UNCHANGED <<failures, restarts>>
  BY DEF SubmitPreview, Quiet, bounds
<1>2. CASE FinishTenant("failed")
  BY <1>1, <1>2, EarlyFinishKeeps DEF Statuses
<1>3. CASE /\ PreflightPasses(MakeProposal(candidate)) /\ outgoing' = MakeProposal(candidate)
           /\ pc' = "send" /\ UNCHANGED <<queue, approved, candidate, rebuild, pipeline>>
  <2>1. PICK p \in Proposals : /\ p = MakeProposal(candidate) /\ Verdict(p) = "none"
                               /\ p.evidence = cycles /\ p.treasury = queue[1].treasury
    BY <1>1, <1>3, MakeProposalType DEF PreflightPasses
  <2>2. p # NoProposal /\ outgoing' = p
    BY <1>3, <2>1 DEF Proposals, NoProposal
  <2>3. Verdict(outgoing)' = "none"
    <3>1. Verdict(p)' = "none"
      BY <1>1, <2>1, QuietVerdict
    <3>2. QED
      BY <2>2, <3>1
  <2>4. TypeOK'
    BY <1>1, <1>3, <2>2 DEF Quiet, chain, RunnerInv, TypeOK
  <2>5. Staged'
    BY <1>1, <1>3, <2>1, <2>2 DEF Quiet, RunnerInv, Staged, Stages
  <2>6. QED
    BY <1>1, <1>3, <2>3, <2>4, <2>5, WithinKeeps
<1>4. QED
  BY <1>2, <1>3 DEF SubmitPreview

(* A broadcast is the first of its treasury in the cycle.                  *)
LEMMA NoReceiptYet ==
  ASSUME RunnerInv, pc = "send"
  PROVE  Receipts = {} /\ \A p \in pending : ~Kin(p, outgoing)
<1>1. /\ outgoing.evidence = cycles /\ outgoing.treasury = queue[1].treasury /\ queue # << >>
  BY DEF RunnerInv, Staged
<1>2. 1 \in DOMAIN queue
  BY <1>1, CurrentType DEF RunnerInv
<1>3. ASSUME NEW p, Behind(p)
      PROVE  ~Kin(p, outgoing)
  BY <1>1, <1>2, <1>3 DEF Behind, Kin
<1>4. QED
  BY <1>3 DEF Receipts, Kin, RunnerInv, Attempted

LEMMA SendKeeps ==
  ASSUME RunnerInv, Send
  PROVE  RunnerInv'
<1>1. pc = "send" /\ UNCHANGED <<chain, hostDay, journal, cycles, restarts>>
  BY DEF Send
<1>2. /\ queue # << >> /\ outgoing \in Proposals /\ outgoing # NoProposal
      /\ outgoing.evidence = cycles /\ outgoing.treasury = queue[1].treasury
      /\ cycles \in Nat /\ failures \in Nat /\ restarts \in Nat
  BY <1>1 DEF RunnerInv, Staged
<1>3. \A p : Verdict(p)' = Verdict(p)
  BY <1>1, VerdictUnaffected DEF chain, Consumed
<1>4. Permitted(outgoing)
  BY <1>2 DEF RunnerInv, UpToDate
<1>5. pending' \subseteq pending \union {outgoing}
  BY DEF Send
<1>6. \A p \in pending' : p \in Proposals /\ Permitted(p)'
  BY <1>2, <1>3, <1>4, <1>5 DEF RunnerInv, TypeOK, UpToDate, Permitted
<1>7. RejectedOnlyIfOvertaken'
  BY <1>1 DEF RunnerInv, RejectedOnlyIfOvertaken
<1>8. CASE /\ pending' = pending \union {outgoing} /\ pc' = "wait"
           /\ UNCHANGED <<queue, approved, candidate, rebuild, outgoing, pipeline, failures>>
  <2>1. TypeOK'
    BY <1>1, <1>6, <1>8 DEF chain, RunnerInv, TypeOK
  <2>2. Staged' /\ QueuedOnce'
    BY <1>1, <1>2, <1>8 DEF RunnerInv, Staged, Stages, QueuedOnce
  <2>3. ASSUME NEW p, Behind(p)
        PROVE  Behind(p)'
    BY <1>1, <1>8, <2>3 DEF Behind
  <2>4. Behind(outgoing)'
    <3>1. \A i \in DOMAIN queue : queue[i].treasury = queue[1].treasury => i = 1
      BY <1>2, CurrentType DEF RunnerInv, QueuedOnce
    <3>2. QED
      BY <1>1, <1>2, <1>8, <3>1 DEF Behind
  <2>5. Attempted'
    BY <1>1, <1>8, <2>3, <2>4 DEF RunnerInv, Attempted
  <2>6. UpToDate'
    <3>1. PICK p : p = outgoing
      OBVIOUS
    <3>2. Permitted(p)'
      BY <1>3, <1>4, <3>1 DEF Permitted
    <3>3. QED
      BY <1>6, <1>8, <3>1, <3>2 DEF UpToDate
  <2>7. Serial'
    <3>1. Receipts' = Receipts
      BY <1>1, <1>8 DEF Receipts
    <3>2. QED
      BY <1>1, <1>8, <3>1, NoReceiptYet DEF RunnerInv, Serial
  <2>8. QED
    BY <1>7, <2>1, <2>2, <2>5, <2>6, <2>7 DEF RunnerInv
<1>9. CASE failures' = failures + 1 /\ FinishTenant("failed")
  <2>1. /\ queue' \in Seq([treasury : Treasuries, epoch : Nat])
        /\ pc' \in {"sleep", "tenant"} /\ (pc' # "sleep" => queue' # << >>)
        /\ approved' = "none" /\ candidate' = NoTrade /\ rebuild' = 0
        /\ outgoing' = NoProposal
        /\ pipeline' \in [Treasuries -> Statuses]
        /\ QueuedOnce'
        /\ \A i \in DOMAIN queue' : /\ i + 1 \in DOMAIN queue /\ queue'[i] = queue[i + 1]
                                    /\ queue'[i].treasury # queue[1].treasury
    BY <1>2, <1>9, Finished DEF RunnerInv, Statuses
  <2>2. TypeOK'
    <3>1. 0 \in 0..MaxJitRebuilds /\ candidate' \in Candidates
      BY <2>1, RunnerAssumption DEF Candidates
    <3>2. QED
      BY <1>1, <1>6, <2>1, <3>1 DEF chain, RunnerInv, TypeOK
  <2>3. Staged'
    BY <1>1, <1>2, <1>9, <2>1 DEF Staged, Stages
  <2>4. QueueAdvanced
    BY <1>2, <1>9, CurrentType DEF FinishTenant, QueueAdvanced, RunnerInv
  <2>5. ASSUME NEW p, Behind(p)
        PROVE  Behind(p)'
    BY <1>1, <2>4, <2>5 DEF Behind, QueueAdvanced
  <2>6. ASSUME NEW p, p = outgoing
        PROVE  Behind(p)'
    BY <1>1, <1>2, <2>1, <2>6 DEF Behind
  <2>7. Attempted'
    <3>1. \A p \in pending' : Behind(p)'
      BY <1>5, <2>5, <2>6 DEF RunnerInv, Attempted
    <3>2. \A x \in journal' : Behind(x.proposal)'
      BY <1>1, <2>5 DEF RunnerInv, Attempted
    <3>3. QED
      BY <3>1, <3>2 DEF Attempted
  <2>8. UpToDate'
    BY <1>6, <2>1 DEF UpToDate
  <2>9. Serial'
    BY <1>2, <1>9 DEF Serial
  <2>10. QED
    BY <1>7, <2>1, <2>2, <2>3, <2>7, <2>8, <2>9 DEF RunnerInv
<1>10. QED
  BY <1>8, <1>9 DEF Send

LEMMA AwaitReceiptKeeps ==
  ASSUME RunnerInv, AwaitReceipt
  PROVE  RunnerInv'
<1>1. pc = "wait" /\ Quiet /\ UNCHANGED <<failures, restarts>>
  BY DEF AwaitReceipt, Quiet, bounds
<1>2. PICK x \in Receipts : FinishTenant(StatusOf(x.result))
  BY DEF AwaitReceipt, Awaited
<1>3. StatusOf(x.result) \in Statuses
  BY DEF StatusOf, Statuses
<1>4. queue # << >> /\ failures' \in Nat /\ restarts' \in Nat
  BY <1>1 DEF RunnerInv, Staged
<1>5. Serial'
  BY <1>1, <1>2 DEF RunnerInv, Serial, Quiet
<1>6. QED
  BY <1>1, <1>2, <1>3, <1>4, <1>5, FinishKeeps

LEMMA AwaitFailsKeeps ==
  ASSUME RunnerInv, AwaitFails
  PROVE  RunnerInv'
<1>1. pc = "wait" /\ Quiet /\ failures' = failures + 1 /\ restarts' = restarts
  BY DEF AwaitFails, Quiet
<1>2. queue # << >> /\ failures' \in Nat /\ restarts' \in Nat /\ failures' # 0
  BY <1>1 DEF RunnerInv, Staged
<1>3. Serial'
  BY <1>2 DEF Serial
<1>4. QED
  BY <1>1, <1>2, <1>3, FinishKeeps DEF AwaitFails, Statuses

LEMMA RestartKeeps ==
  ASSUME RunnerInv, Restart
  PROVE  RunnerInv'
<1>1. /\ Quiet /\ restarts' = restarts + 1 /\ failures' = failures
      /\ pc' = "sleep" /\ queue' = << >> /\ approved' = "none" /\ candidate' = NoTrade
      /\ rebuild' = 0 /\ outgoing' = NoProposal /\ pipeline' = [t \in Treasuries |-> "none"]
  BY DEF Restart, Quiet
<1>2. << >> \in Seq([treasury : Treasuries, epoch : Nat]) /\ DOMAIN << >> = {}
  BY EmptySeq
<1>3. TypeOK'
  <2>1. 0 \in 0..MaxJitRebuilds /\ candidate' \in Candidates
        /\ pipeline' \in [Treasuries -> Statuses]
    BY <1>1, RunnerAssumption DEF Candidates, Statuses
  <2>2. QED
    BY <1>1, <1>2, <2>1 DEF Quiet, chain, RunnerInv, TypeOK
<1>4. Staged'
  BY <1>1 DEF Quiet, RunnerInv, Staged, Stages
<1>5. QueuedOnce' /\ QueueAdvanced
  BY <1>1, <1>2 DEF QueuedOnce, QueueAdvanced
<1>6. restarts' # 0
  BY <1>1 DEF RunnerInv, Staged
<1>7. Serial'
  BY <1>6 DEF Serial
<1>8. QED
  BY <1>1, <1>3, <1>4, <1>5, <1>7, CycleKeeps

-----------------------------------------------------------------------------
(* Theorems                                                                *)

LEMMA InitRunnerInv == Init => RunnerInv
<1> SUFFICES ASSUME Init
             PROVE  RunnerInv
  OBVIOUS
<1>1. view \in [Treasuries -> Candidates] /\ \A t \in Treasuries : view[t] \in Views(t)
  <2>1. /\ view \in [Treasuries -> UNION {Views(t) : t \in Treasuries}]
        /\ \A t \in Treasuries : view[t] \in Views(t)
    BY DEF Init
  <2>2. \A t \in Treasuries : view[t] \in Candidates
    BY <2>1, ViewsAreCandidates
  <2>3. QED
    BY <2>1, <2>2
<1>2. mandate \in [Treasuries -> Mandates] /\ usedByDay \in [Treasuries -> [Days -> 0..DailyBudget]]
  BY RunnerAssumption DEF Init, Mandates
<1>3. queue \in Seq([treasury : Treasuries, epoch : Nat]) /\ DOMAIN queue = {}
  <2>1. << >> \in Seq([treasury : Treasuries, epoch : Nat]) /\ DOMAIN << >> = {}
    BY EmptySeq
  <2>2. QED
    BY <2>1 DEF Init
<1>4. TypeOK
  BY <1>1, <1>2, <1>3, RunnerAssumption DEF Init, TypeOK, Candidates, Statuses
<1>5. Staged
  BY DEF Init, Staged, Stages
<1>6. QueuedOnce
  BY <1>3 DEF QueuedOnce
<1>7. Attempted /\ UpToDate /\ RejectedOnlyIfOvertaken /\ Serial
  BY DEF Init, Attempted, UpToDate, RejectedOnlyIfOvertaken, Serial
<1>8. QED
  BY <1>4, <1>5, <1>6, <1>7 DEF RunnerInv

LEMMA StutterKeeps ==
  ASSUME RunnerInv, UNCHANGED vars
  PROVE  RunnerInv'
<1>1. Quiet /\ QueueKept /\ UNCHANGED <<queue, approved, candidate, rebuild, outgoing, pipeline,
                                        pc, failures, restarts>>
  BY DEF vars, Quiet, QueueKept, run, bounds
<1>2. TypeOK'
  BY <1>1 DEF Quiet, chain, RunnerInv, TypeOK
<1>3. Staged' /\ QueuedOnce'
  BY <1>1 DEF Quiet, RunnerInv, Staged, QueuedOnce
<1>4. Serial'
  BY <1>1 DEF Quiet, RunnerInv, Serial, Receipts
<1>5. QED
  BY <1>1, <1>2, <1>3, <1>4, CycleKeeps

LEMMA NextRunnerInv == RunnerInv /\ [Next]_vars => RunnerInv'
<1> SUFFICES ASSUME RunnerInv, [Next]_vars
             PROVE  RunnerInv'
  OBVIOUS
<1>1. ASSUME NEW t \in Treasuries, MarketMoves(t)
      PROVE  RunnerInv'
  BY <1>1, MarketKeeps
<1>2. ASSUME NEW t \in Treasuries, SetAutomationMode(t) \/ DeregisterAgent(t)
      PROVE  RunnerInv'
  BY <1>2, OwnerKeeps
<1>3. CASE ChainDayPasses \/ HostDayPasses
  BY <1>3, ClocksKeep
<1>4. ASSUME NEW p \in pending, Mine(p)
      PROVE  RunnerInv'
  BY <1>4, MineKeeps
<1>5. CASE Runner
  BY <1>5, ReadMandatesKeeps, ProveObservationsKeeps, DeriveInitialCandidateKeeps, DecideKeeps,
     RefreshKeeps, PreviewKeeps, SubmitPreviewKeeps, SendKeeps, AwaitReceiptKeeps DEF Runner
<1>6. CASE AwaitFails \/ Restart
  BY <1>6, AwaitFailsKeeps, RestartKeeps
<1>7. CASE UNCHANGED vars
  BY <1>7, StutterKeeps
<1>8. QED
  BY <1>1, <1>2, <1>3, <1>4, <1>5, <1>6, <1>7 DEF Next

(* The type of the runner's state and of the chain it works on: rebuilds   *)
(* stay within MAX_JIT_REBUILDS, and no execution sells more in a day to   *)
(* reduce risk than dailyRiskReductionValueE6, whichever day the host's    *)
(* clock made the proposal for.                                            *)
THEOREM RunnerTyped == Spec => []TypeOK
<1>1. RunnerInv => TypeOK
  BY DEF RunnerInv
<1>2. QED
  BY <1>1, InitRunnerInv, NextRunnerInv, PTL DEF Spec

(* What the chain rejects or reverts of the runner's submissions was       *)
(* overtaken by a change of the destination after the preview that         *)
(* PolicySubmitter.submit makes: no attempt is spent on stale terms.       *)
THEOREM RejectionsOvertaken == Spec => []RejectedOnlyIfOvertaken
<1>1. RunnerInv => RejectedOnlyIfOvertaken
  BY DEF RunnerInv
<1>2. QED
  BY <1>1, InitRunnerInv, NextRunnerInv, PTL DEF Spec

(* The queue of mandates is serial: as long as no call has failed and the  *)
(* process lives, no context is read, no candidate refreshed and nothing   *)
(* previewed while a transaction of the runner waits to be mined.          *)
THEOREM SerialWrites == Spec => []WritesSerialized
<1>1. RunnerInv => WritesSerialized
  BY DEF RunnerInv, Serial, WritesSerialized
<1>2. QED
  BY <1>1, InitRunnerInv, NextRunnerInv, PTL DEF Spec
============================================================================
