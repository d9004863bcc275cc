-------------------------- MODULE LegacyRunner_proofs --------------------------
(***************************************************************************)
(* What an instance of the first generation executes, for any number of    *)
(* instances, endpoints as slow and unreliable as they like, any file of   *)
(* tenants, and restarts at any moment: a fact at most once, and nothing   *)
(* the stored reasoning does not explain.                                  *)
(***************************************************************************)
EXTENDS LegacyRunner, WellFoundedInduction, TLAPS

--------------------------------------------------------------------------------
(* The least and the greatest of a set of heights *)

Below == {p \in Nat \X Nat : p[1] < p[2]}

LEMMA BelowWellFounded == IsWellFoundedOn(Below, Nat)
<1>1. Below = OpToRel(<, Nat)
  BY DEF Below, OpToRel
<1>2. QED
  BY <1>1, NatLessThanWellFounded

LEMMA LeastHeight ==
  ASSUME NEW S \in SUBSET Nat, S # {}
  PROVE  \E x \in S : \A y \in S : x <= y
<1>1. PICK x \in S : \A y \in S : ~(<<y, x>> \in Below)
  BY BelowWellFounded, WFMin
<1>2. \A y \in S : ~(y < x)
  <2> TAKE y \in S
  <2>1. <<y, x>> \in Nat \X Nat /\ <<y, x>>[1] = y /\ <<y, x>>[2] = x
    OBVIOUS
  <2>2. QED
    BY <1>1, <2>1 DEF Below
<1>3. QED
  BY <1>2

LEMMA MinOfHeights ==
  ASSUME NEW S \in SUBSET Nat, S # {}
  PROVE  Min(S) \in S
BY LeastHeight DEF Min

LEMMA MaxOfHeights ==
  ASSUME NEW n \in Nat, NEW S \in SUBSET (0..n), S # {}
  PROVE  Max(S) \in S
<1> DEFINE T == {n - x : x \in S}
<1>1. \A x \in S : x \in Nat /\ n - x \in Nat
  OBVIOUS
<1>2. T \in SUBSET Nat /\ T # {}
  BY <1>1
<1>3. PICK d \in T : \A y \in T : d <= y
  BY <1>2, LeastHeight
<1>4. PICK x \in S : d = n - x
  OBVIOUS
<1>5. \A y \in S : x >= y
  BY <1>1, <1>3, <1>4
<1>6. QED
  BY <1>5 DEF Max

--------------------------------------------------------------------------------
(* The invariant *)

Waiting == {"filter", "sourceProof", "pollAt"}
Confirmed == {"awaitConfirm", "confirmProof", "tenant", "decide", "store", "submit", "receipt"}
Sending == {"submit", "receipt"}

Blocks == Observations \union {None}

(* The process works on observations that are on the source chain.         *)
FactsExist ==
  /\ events \in Seq(Blocks)
  /\ pc \in Waiting \union Confirmed => source \in DOMAIN events
  /\ pc \in Confirmed => confirm \in DOMAIN events

FilesHonest == \A f \in files : f.hash = f.payload

(* Before a transaction is sent its reasoning is in a file.                *)
ReasoningStored ==
  pc \in Sending => act /\ \E f \in files : f.hash = Payload

Explains(payload, tx) ==
  /\ payload.outcome = "EXECUTE" /\ payload.direction = tx.direction
  /\ payload.sourcePrice = events[tx.source].priceE6
  /\ payload.confirmPrice = events[tx.confirm].priceE6

Explained(tx) ==
  /\ tx.source \in DOMAIN events /\ tx.confirm \in DOMAIN events
  /\ \E f \in files : f.hash = tx.decisionHash /\ Explains(f.payload, tx)

JournalExplained == \A t \in Tenants : \A x \in journal[t] : Explained(x)

LegacyInv ==
  /\ FactsExist /\ FilesHonest /\ ReasoningStored
  /\ \A tx \in pending : Explained(tx)
  /\ journal = [t \in Tenants |-> journal[t]]
  /\ JournalExplained /\ OncePerFact

LEMMA InitLegacy == Init => LegacyInv
BY DEF Init, LegacyInv, FactsExist, FilesHonest, ReasoningStored, JournalExplained, OncePerFact,
       Waiting, Confirmed, Sending, Blocks

(* What is explained stays so while the source chain grows and files are   *)
(* added.                                                                  *)
LEMMA StaysExplained ==
  ASSUME FactsExist, NEW tx, Explained(tx),
         \A h \in DOMAIN events : h \in DOMAIN events' /\ events'[h] = events[h],
         \A f \in files : \E g \in files' : g.hash = f.hash /\ g.payload = f.payload
  PROVE  Explained(tx)'
BY DEF Explained, Explains

(* A step that neither executes nor sends.                                 *)
LEMMA QuietStep ==
  ASSUME LegacyInv, UNCHANGED <<journal, pending>>,
         \A h \in DOMAIN events : h \in DOMAIN events' /\ events'[h] = events[h],
         \A f \in files : \E g \in files' : g.hash = f.hash /\ g.payload = f.payload,
         FactsExist', FilesHonest', ReasoningStored'
  PROVE  LegacyInv'
<1>1. \A tx \in pending' : Explained(tx)'
  BY StaysExplained DEF LegacyInv
<1>2. JournalExplained'
  BY StaysExplained DEF LegacyInv, JournalExplained
<1>3. OncePerFact'
  BY DEF LegacyInv, OncePerFact
<1>4. QED
  BY <1>1, <1>2, <1>3 DEF LegacyInv

LEMMA ObservedExist ==
  ASSUME FactsExist, NEW from, NEW to, Observed(from, to) # {}
  PROVE  /\ Max(Observed(from, to)) \in DOMAIN events
         /\ Min(Observed(from, to)) \in DOMAIN events
<1> DEFINE found == Observed(from, to)
<1>1. found \subseteq DOMAIN events /\ DOMAIN events = 1..Len(events) /\ Len(events) \in Nat
  BY DEF FactsExist, Observed
<1>2. found \in SUBSET (0..Len(events)) /\ found \in SUBSET Nat
  BY <1>1
<1>3. Max(found) \in found /\ Min(found) \in found
  BY <1>1, <1>2, MaxOfHeights, MinOfHeights
<1>4. QED
  BY <1>1, <1>3

--------------------------------------------------------------------------------
(* Steps *)

(* A new block of the source chain, whatever the process is at.            *)
LEMMA SourceBlockLegacy ==
  ASSUME LegacyInv, NEW o \in Blocks, SourceBlock(o)
  PROVE  LegacyInv'
<1>1. /\ events' = Append(events, o) /\ events \in Seq(Blocks)
      /\ UNCHANGED <<files, pc, source, confirm, quote, act, journal, pending>>
  BY DEF SourceBlock, LegacyInv, FactsExist, destination, proofs, turn
<1>2. \A h \in DOMAIN events : h \in DOMAIN events' /\ events'[h] = events[h]
  BY <1>1
<1>3. FactsExist'
  BY <1>1, <1>2 DEF LegacyInv, FactsExist
<1>4. ReasoningStored'
  <2>1. CASE pc \in Sending
    <3>1. source \in DOMAIN events /\ confirm \in DOMAIN events
      BY <2>1 DEF LegacyInv, FactsExist, Sending, Confirmed
    <3>2. Payload' = Payload
      BY <1>1, <1>2, <3>1 DEF Payload, Gap, Direction
    <3>3. QED
      BY <1>1, <3>2 DEF LegacyInv, ReasoningStored
  <2>2. CASE pc \notin Sending
    BY <1>1, <2>2 DEF ReasoningStored
  <2>3. QED
    BY <2>1, <2>2
<1>5. FilesHonest'
  BY <1>1 DEF LegacyInv, FilesHonest
<1>6. QED
  BY <1>1, <1>2, <1>3, <1>4, <1>5, QuietStep

(* A step that leaves the observations, the files and the transactions     *)
(* alone and does not go on to send.                                       *)
LEMMA InnerStep ==
  ASSUME LegacyInv, UNCHANGED <<events, files, journal, pending>>, FactsExist',
         \/ pc' \notin Sending
         \/ pc \in Sending /\ UNCHANGED <<source, confirm, quote, act>>
  PROVE  LegacyInv'
<1>1. ReasoningStored'
  <2>1. CASE pc' \notin Sending
    BY <2>1 DEF ReasoningStored
  <2>2. CASE pc \in Sending /\ UNCHANGED <<source, confirm, quote, act>>
    <3>1. Payload' = Payload
      BY <2>2 DEF Payload, Gap, Direction
    <3>2. QED
      BY <2>2, <3>1 DEF LegacyInv, ReasoningStored
  <2>3. QED
    BY <2>1, <2>2
<1>2. FilesHonest'
  BY DEF LegacyInv, FilesHonest
<1>3. QED
  BY <1>1, <1>2, QuietStep

LEMMA NextTenantFacts ==
  ASSUME LegacyInv, pc \in Confirmed, NextTenant, UNCHANGED events
  PROVE  FactsExist' /\ pc' \notin Sending
BY DEF LegacyInv, FactsExist, NextTenant, EndCycle, Waiting, Confirmed, Sending

(* The mining of a transaction: the instance's own checks exclude a second *)
(* execution of a fact.                                                    *)
LEMMA MineLegacy ==
  ASSUME LegacyInv, NEW tx \in pending, Mine(tx)
  PROVE  LegacyInv'
<1>1. /\ UNCHANGED <<events, files, pc, source, confirm, quote, act>>
      /\ pending' = pending \ {tx}
  BY DEF Mine, proofs, turn
<1>2. FactsExist' /\ FilesHonest' /\ ReasoningStored' /\ \A y \in pending' : Explained(y)'
  <2>1. Payload' = Payload
    BY <1>1 DEF Payload, Gap, Direction
  <2>2. \A y : Explained(y)' = Explained(y)
    BY <1>1 DEF Explained, Explains
  <2>3. QED
    BY <1>1, <2>1, <2>2 DEF LegacyInv, FactsExist, FilesHonest, ReasoningStored
<1>3. CASE UNCHANGED journal
  <2>1. OncePerFact'
    BY <1>3 DEF LegacyInv, OncePerFact
  <2>2. JournalExplained'
    BY <1>1, <1>3 DEF LegacyInv, JournalExplained, Explained, Explains
  <2>3. QED
    BY <1>2, <1>3, <2>1, <2>2 DEF LegacyInv
<1>4. CASE Permits(tx.tenant, tx) /\
           journal' = [journal EXCEPT ![tx.tenant] = @ \union {Entry(tx.tenant, tx)}]
  <2>0. PICK e : e = Entry(tx.tenant, tx)
    OBVIOUS
  <2>1. /\ e.source = tx.source /\ e.confirm = tx.confirm /\ e.direction = tx.direction
        /\ e.decisionHash = tx.decisionHash
    BY <2>0 DEF Entry
  <2>2. \A x \in journal[tx.tenant] : x.source # tx.source
    BY <1>4 DEF Permits, AlreadyExecuted, ActionKey
  <2>3. /\ journal' = [t \in Tenants |-> journal'[t]]
        /\ \A t \in Tenants : journal'[t] = IF t = tx.tenant THEN journal[t] \union {e}
                                            ELSE journal[t]
    BY <1>4, <2>0 DEF LegacyInv
  <2>4. OncePerFact'
    BY <2>1, <2>2, <2>3 DEF LegacyInv, OncePerFact
  <2>5. Explained(e)'
    BY <1>1, <2>1 DEF LegacyInv, Explained, Explains
  <2>6. \A t \in Tenants : \A x \in journal[t] : Explained(x)'
    BY <1>1 DEF LegacyInv, JournalExplained, Explained, Explains
  <2>7. JournalExplained'
    BY <2>3, <2>5, <2>6 DEF JournalExplained
  <2>8. QED
    BY <1>2, <2>3, <2>4, <2>7 DEF LegacyInv
<1>5. QED
  BY <1>3, <1>4 DEF Mine

(* What the process does on the chain of no one.                           *)
LEMMA ProcessLegacy ==
  ASSUME LegacyInv,
         \/ Startup \/ (\E l \in Latest : PollLatest(l) \/ PollAt(l))
         \/ PreFilter \/ BuildSourceProof \/ AwaitConfirm \/ BuildConfirmProof \/ CycleFails
         \/ ReadTenant \/ Decide \/ AwaitReceipt \/ TenantFails \/ Restart
  PROVE  LegacyInv'
<1> USE DEF Waiting, Confirmed, Sending
<1>1. CASE Startup
  <2>1. UNCHANGED <<events, files, journal, pending>> /\ pc' = "poll"
    BY <1>1 DEF Startup, chain, destination
  <2>2. FactsExist'
    BY <2>1 DEF LegacyInv, FactsExist
  <2>3. QED
    BY <2>1, <2>2, InnerStep
<1>2. ASSUME NEW l \in Latest, PollLatest(l)
      PROVE  LegacyInv'
  <2>1. UNCHANGED <<events, files, journal, pending>> /\ pc' \in {"poll", "filter"}
    BY <1>2 DEF PollLatest, chain, destination
  <2>2. FactsExist'
    <3>1. CASE Observed(FromBlock(l), l) = {}
      BY <1>2, <2>1, <3>1 DEF PollLatest, LegacyInv, FactsExist
    <3>2. CASE Observed(FromBlock(l), l) # {}
      BY <1>2, <2>1, <3>2, ObservedExist DEF PollLatest, LegacyInv, FactsExist
    <3>3. QED
      BY <3>1, <3>2
  <2>3. QED
    BY <2>1, <2>2, InnerStep
<1>3. ASSUME NEW l \in Latest, PollAt(l)
      PROVE  LegacyInv'
  <2> DEFINE end == Min({source + ConfirmGap + Window, l})
             found == Observed(source + ConfirmGap, end)
  <2>1. UNCHANGED <<events, files, journal, pending>> /\ pc' \in {"poll", "awaitConfirm"}
    BY <1>3 DEF PollAt, EndCycle, chain, destination
  <2>2. FactsExist'
    <3>1. CASE found = {}
      BY <1>3, <2>1, <3>1 DEF PollAt, EndCycle, LegacyInv, FactsExist
    <3>2. CASE found # {}
      <4>1. Min(found) \in DOMAIN events
        BY <3>2, ObservedExist DEF LegacyInv
      <4>2. pc = "pollAt" /\ confirm' = Min(found) /\ UNCHANGED source
        BY <1>3, <3>2 DEF PollAt
      <4>3. QED
        BY <2>1, <4>1, <4>2 DEF LegacyInv, FactsExist
    <3>3. QED
      BY <3>1, <3>2
  <2>3. QED
    BY <2>1, <2>2, InnerStep
<1>4. CASE PreFilter \/ BuildSourceProof \/ AwaitConfirm \/ BuildConfirmProof \/ CycleFails
  <2>1. UNCHANGED <<events, files, journal, pending>>
    BY <1>4 DEF PreFilter, BuildSourceProof, AwaitConfirm, BuildConfirmProof, CycleFails, chain,
                destination
  <2>2. FactsExist' /\ pc' \notin Sending
    BY <1>4, <2>1 DEF PreFilter, BuildSourceProof, AwaitConfirm, BuildConfirmProof, CycleFails,
                      EndCycle, LegacyInv, FactsExist, proofs
  <2>3. QED
    BY <2>1, <2>2, InnerStep
<1>5. CASE ReadTenant \/ Decide
  <2>1. UNCHANGED <<events, files, journal, pending>> /\ pc \in {"tenant", "decide"}
    BY <1>5 DEF ReadTenant, Decide, chain, destination
  <2>2. CASE NextTenant
    BY <2>1, <2>2, NextTenantFacts, InnerStep
  <2>3. CASE pc' \in {"decide", "store"} /\ UNCHANGED <<source, confirm>>
    <3>1. FactsExist'
      BY <2>1, <2>3 DEF LegacyInv, FactsExist
    <3>2. QED
      BY <2>1, <2>3, <3>1, InnerStep
  <2>4. QED
    BY <1>5, <2>2, <2>3 DEF ReadTenant, Decide, proofs
<1>6. CASE AwaitReceipt \/ TenantFails
  <2>1. UNCHANGED <<events, files, journal, pending>> /\ pc \in Confirmed /\ NextTenant
    BY <1>6 DEF AwaitReceipt, TenantFails, chain, destination
  <2>2. QED
    BY <2>1, NextTenantFacts, InnerStep
<1>7. CASE Restart
  <2>1. UNCHANGED <<events, files, journal, pending>> /\ pc' = "start"
    BY <1>7 DEF Restart, chain, destination
  <2>2. FactsExist'
    BY <2>1 DEF LegacyInv, FactsExist
  <2>3. QED
    BY <2>1, <2>2, InnerStep
<1>8. QED
  BY <1>1, <1>2, <1>3, <1>4, <1>5, <1>6, <1>7

(* The reasoning goes into a file named by its hash, over one that, with   *)
(* the same hash, holds the same.                                          *)
LEMMA PutReasoningLegacy ==
  ASSUME LegacyInv, PutReasoning
  PROVE  LegacyInv'
<1>0. PICK p : p = Payload
  OBVIOUS
<1>1. /\ files' = {f \in files : f.hash # p} \union {[hash |-> p, payload |-> p]}
      /\ UNCHANGED <<events, journal, pending>> /\ pc = "store"
  BY <1>0 DEF PutReasoning, Serialize, chain, destination
<1> DEFINE new == [hash |-> p, payload |-> p]
<1>a. new.hash = p /\ new.payload = p /\ new \in files'
  BY <1>1
<1> HIDE DEF new
<1>2. \A f \in files : \E g \in files' : g.hash = f.hash /\ g.payload = f.payload
  <2> TAKE f \in files
  <2>1. CASE f.hash = p
    BY <1>a, <2>1 DEF LegacyInv, FilesHonest
  <2>2. CASE f.hash # p
    BY <1>1, <2>2
  <2>3. QED
    BY <2>1, <2>2
<1>3. FilesHonest'
  BY <1>1 DEF LegacyInv, FilesHonest
<1>4. FactsExist' /\ ReasoningStored'
  <2>1. CASE pc' = "submit" /\ act /\ UNCHANGED <<turn, source, confirm>>
    <3>1. FactsExist'
      BY <1>1, <2>1 DEF LegacyInv, FactsExist, Waiting, Confirmed
    <3>2. Payload' = p /\ act'
      BY <1>0, <1>1, <2>1 DEF Payload, Gap, Direction, turn
    <3>3. \E f \in files' : f.hash = p
      BY <1>a
    <3>4. QED
      BY <3>1, <3>2, <3>3 DEF ReasoningStored
  <2>2. CASE NextTenant
    BY <1>1, <2>2, NextTenantFacts DEF ReasoningStored, Confirmed
  <2>3. QED
    BY <2>1, <2>2 DEF PutReasoning
<1>5. QED
  BY <1>1, <1>2, <1>3, <1>4, QuietStep

(* A transaction is sent for a fact the source chain holds, with the hash  *)
(* of a file that says why.                                                *)
LEMMA SubmitLegacy ==
  ASSUME LegacyInv, Submit
  PROVE  LegacyInv'
<1>1. UNCHANGED <<events, files, journal>> /\ pc = "submit"
  BY DEF Submit, chain, destination
<1>2. CASE NextTenant /\ UNCHANGED pending
  BY <1>1, <1>2, NextTenantFacts, InnerStep DEF Confirmed
<1>3. CASE /\ pending' = pending \union {Transaction} /\ pc' = "receipt"
           /\ UNCHANGED <<turn, source, confirm>>
  <2>0. PICK x : x = Transaction
    OBVIOUS
  <2>1. FactsExist' /\ FilesHonest'
    BY <1>1, <1>3 DEF LegacyInv, FactsExist, FilesHonest, Waiting, Confirmed
  <2>2. ReasoningStored'
    <3>1. Payload' = Payload
      BY <1>1, <1>3 DEF Payload, Gap, Direction, turn
    <3>2. QED
      BY <1>1, <1>3, <3>1 DEF LegacyInv, ReasoningStored, Sending, turn
  <2>3. Explained(x)
    <3>1. source \in DOMAIN events /\ confirm \in DOMAIN events
      BY <1>1 DEF LegacyInv, FactsExist, Confirmed
    <3>2. PICK f \in files : f.hash = Payload /\ f.payload = Payload
      BY <1>1 DEF LegacyInv, ReasoningStored, FilesHonest, Sending
    <3>3. Explains(Payload, x)
      BY <1>1, <2>0 DEF LegacyInv, ReasoningStored, Sending, Explains, Payload, Transaction
    <3>4. QED
      BY <2>0, <3>1, <3>2, <3>3 DEF Explained, Transaction, Serialize
  <2>4. \A tx \in pending \union {x} : Explained(tx)'
    BY <1>1, <2>3 DEF LegacyInv, Explained, Explains
  <2>5. \A tx \in pending' : Explained(tx)'
    BY <1>3, <2>0, <2>4
  <2>6. JournalExplained' /\ OncePerFact'
    BY <1>1 DEF LegacyInv, JournalExplained, OncePerFact, Explained, Explains
  <2>7. QED
    BY <1>1, <2>1, <2>2, <2>5, <2>6 DEF LegacyInv
<1>4. QED
  BY <1>2, <1>3 DEF Submit

(* What the attestation, the market and the owners do.                     *)
LEMMA OutsideLegacy ==
  ASSUME LegacyInv,
         \/ Attest \/ EpochPasses \/ UNCHANGED vars
         \/ \E p \in DestPrices : PriceMoves(p)
         \/ \E t \in Tenants : SetRegistered(t)
  PROVE  LegacyInv'
<1>1. /\ UNCHANGED <<events, files, journal, pending>>
      /\ UNCHANGED <<pc, source, confirm, quote, act>>
  BY DEF Attest, EpochPasses, PriceMoves, SetRegistered, vars, chain, destination, proofs, turn
<1>2. FactsExist'
  BY <1>1 DEF LegacyInv, FactsExist
<1>3. QED
  BY <1>1, <1>2, InnerStep

LEMMA StepLegacy == LegacyInv /\ [Next]_vars => LegacyInv'
BY SourceBlockLegacy, MineLegacy, ProcessLegacy, PutReasoningLegacy, SubmitLegacy, OutsideLegacy
DEF Next, Blocks

--------------------------------------------------------------------------------
(* Theorems *)

(* An instance executes a fact at most once, however often restarts and    *)
(* lagging endpoints bring it again, in whichever direction.               *)
THEOREM FactOnce == Spec => []OncePerFact
<1>1. LegacyInv => OncePerFact
  BY DEF LegacyInv
<1>2. QED
  BY <1>1, InitLegacy, StepLegacy, PTL DEF Spec

(* In the journal that the viewer reads every execution of the agent is    *)
(* explained by the reasoning stored under the hash it carries, by         *)
(* whichever process it was stored: it tells of the prices the watcher saw *)
(* in the blocks of the execution. The instance decodes its prices from    *)
(* the calldata of their transactions; nothing is assumed about the        *)
(* relation of the two.                                                    *)
THEOREM AllExplained == Spec => []ExecutionsExplained
<1>1. LegacyInv => ExecutionsExplained
  <2> SUFFICES ASSUME LegacyInv, NEW x \in journal[TreasuryAddress]
               PROVE  /\ Replay(x) = "match"
                      /\ \A f \in Stored(x.decisionHash) : Explains(f.payload, x)
    BY DEF ExecutionsExplained, Explains
  <2>1. PICK g \in files : g.hash = x.decisionHash /\ Explains(g.payload, x)
    BY LegacyAssumption DEF LegacyInv, JournalExplained, Explained
  <2>2. \A f \in Stored(x.decisionHash) : VerifyHash(f) /\ f.payload = g.payload
    BY <2>1 DEF LegacyInv, FilesHonest, Stored, VerifyHash, Serialize
  <2>3. Stored(x.decisionHash) # {}
    BY <2>1 DEF Stored
  <2>4. QED
    BY <2>1, <2>2, <2>3 DEF Replay
<1>2. QED
  BY <1>1, InitLegacy, StepLegacy, PTL DEF Spec

--------------------------------------------------------------------------------
(* The ranges of the state *)

Ranges ==
  /\ file \in Files /\ Len(events) <= MaxHeight /\ attested \in 0..Len(events)
  /\ destPrice \in DestPrices /\ registered \subseteq Tenants
  /\ \A t \in Tenants : \A x \in journal[t] :
       x.direction \in Directions /\ x.size <= Guardrails[t].maxTradeSize
  /\ cursor \in 0..(MaxHeight + 1) \union {None}
  /\ source \in 1..MaxHeight \union {None} /\ confirm \in 1..MaxHeight \union {None}
  /\ \A i \in DOMAIN runtimes : runtimes[i].instance \in Tenants
  /\ answers \in 0..MaxAnswers

LEMMA Heights ==
  ASSUME FactsExist, Ranges
  PROVE  /\ Len(events) \in Nat /\ MaxHeight \in Nat /\ MaxAnswers \in Nat
         /\ DOMAIN events = 1..Len(events) /\ DOMAIN events \subseteq 1..MaxHeight
<1>1. MaxHeight \in Nat /\ MaxAnswers \in Nat
  BY LegacyAssumption
<1>2. Len(events) \in Nat /\ DOMAIN events = 1..Len(events) /\ Len(events) <= MaxHeight
  BY DEF FactsExist, Ranges
<1>3. QED
  BY <1>1, <1>2

(* A trade is never larger than the owner allows, and an execution has a   *)
(* direction: without one there is no edge.                                *)
LEMMA EntryInRange ==
  ASSUME LegacyInv, Ranges, NEW t \in Tenants, NEW tx, Permits(t, tx)
  PROVE  /\ Entry(t, tx).direction \in Directions
         /\ Entry(t, tx).size <= Guardrails[t].maxTradeSize
<1>1. PICK seen, conf : seen = events[tx.confirm] /\ conf = DecodePriceObservation(seen)
  OBVIOUS
<1>2. /\ tx.confirm \in DOMAIN events /\ seen # None /\ conf # None /\ conf # 0
      /\ conf # destPrice => tx.direction = DirectionFor(conf, destPrice)
      /\ GrossEdge(conf, destPrice) >= Guardrails[t].minArbWidthBps + MIN_NET_EDGE_BPS
  BY <1>1 DEF Permits, Verifies, Observed
<1>3. conf \in Nat \ {0} /\ destPrice \in Nat \ {0}
  <2>1. seen \in Observations
    BY <1>1, <1>2 DEF LegacyInv, FactsExist, Blocks
  <2>2. Len(seen.words) = 1 /\ conf = seen.words[1] /\ seen.words \in Seq(Nat)
    BY <1>1, <1>2, <2>1, LegacyAssumption DEF DecodePriceObservation
  <2>3. conf \in Nat
    BY <2>2
  <2>4. QED
    BY <1>2, <2>3, LegacyAssumption DEF Ranges
<1>4. Guardrails[t].maxTradeSize \in Nat /\ Guardrails[t].minArbWidthBps \in Nat \ {0}
  BY LegacyAssumption
<1>5. PICK edge : edge = GrossEdge(conf, destPrice)
  OBVIOUS
<1>6. edge \in Int
  BY <1>3, <1>5 DEF GrossEdge
<1>7. conf # destPrice
  <2>1. CASE conf = destPrice
    <3>1. conf - conf = 0 /\ 0 * 10000 = 0 /\ 0 \div conf = 0 /\ ~(conf > conf)
      BY <1>3
    <3>2. edge = 0
      BY <1>5, <2>1, <3>1 DEF GrossEdge
    <3>3. QED
      BY <1>2, <1>4, <1>5, <3>2 DEF MIN_NET_EDGE_BPS
  <2>2. QED
    BY <2>1
<1>8. tx.direction \in Directions
  <2>1. destPrice > conf \/ destPrice < conf
    BY <1>3, <1>7
  <2>2. DirectionFor(conf, destPrice) \in Directions
    <3>1. CASE destPrice > conf
      BY <1>3, <1>7, <3>1 DEF DirectionFor, Directions
    <3>2. CASE destPrice < conf
      <4>1. ~(destPrice > conf) /\ destPrice # conf
        BY <1>3, <3>2
      <4>2. QED
        BY <3>2, <4>1 DEF DirectionFor, Directions
    <3>3. QED
      BY <2>1, <3>1, <3>2
  <2>3. QED
    BY <1>2, <1>7, <2>2
<1>9. BoundedTradeSize(Guardrails[t], edge) <= Guardrails[t].maxTradeSize
  <2>1. PICK max, least : max = Guardrails[t].maxTradeSize /\ least = Guardrails[t].minArbWidthBps
    OBVIOUS
  <2>2. PICK scaled : scaled = (max * edge) \div (least * 4)
    OBVIOUS
  <2>3. max * edge \in Int /\ least * 4 \in Nat \ {0}
    BY <1>4, <1>6, <2>1
  <2>4. scaled \in Int /\ max \in Int
    BY <1>4, <2>1, <2>2, <2>3
  <2>5. (IF scaled > max THEN max ELSE scaled) <= max
    BY <2>4
  <2>6. QED
    BY <2>1, <2>2, <2>5 DEF BoundedTradeSize
<1>10. Entry(t, tx).direction = tx.direction
       /\ Entry(t, tx).size = BoundedTradeSize(Guardrails[t], edge)
  BY <1>1, <1>5 DEF Entry
<1>11. QED
  BY <1>8, <1>9, <1>10

(* What happens on the chains.                                             *)
LEMMA ChainRanges ==
  ASSUME LegacyInv, Ranges,
         \/ \E o \in Blocks : SourceBlock(o)
         \/ Attest \/ EpochPasses \/ UNCHANGED vars
         \/ \E p \in DestPrices : PriceMoves(p)
         \/ \E t \in Tenants : SetRegistered(t)
         \/ \E tx \in pending : Mine(tx)
  PROVE  Ranges'
<1>1. UNCHANGED <<file, cursor, source, confirm, runtimes, answers>>
  BY DEF SourceBlock, Attest, EpochPasses, PriceMoves, SetRegistered, Mine, vars, proofs
<1>2. Len(events) \in Nat /\ MaxHeight \in Nat
  BY Heights DEF LegacyInv
<1>3. ASSUME NEW o \in Blocks, SourceBlock(o)
      PROVE  Ranges'
  <2>1. Len(events') = Len(events) + 1 /\ Len(events) < MaxHeight
    BY <1>3 DEF SourceBlock, SourceHead, LegacyInv, FactsExist
  <2>2. UNCHANGED <<attested, destPrice, registered, journal>>
    BY <1>3 DEF SourceBlock, destination
  <2>3. QED
    BY <1>1, <1>2, <2>1, <2>2 DEF Ranges
<1>4. CASE Attest
  <2>1. attested < Len(events) /\ attested' = attested + 1 /\ UNCHANGED <<events, destination>>
    BY <1>4 DEF Attest, SourceHead
  <2>2. QED
    BY <1>1, <1>2, <2>1 DEF Ranges, destination
<1>5. ASSUME NEW tx \in pending, Mine(tx)
      PROVE  Ranges'
  <2>1. UNCHANGED <<events, attested, registered>>
    BY <1>5 DEF Mine
  <2>2. CASE UNCHANGED <<journal, destPrice>>
    BY <1>1, <2>1, <2>2 DEF Ranges
  <2>3. CASE /\ Permits(tx.tenant, tx) /\ destPrice' \in DestPrices
             /\ journal' = [journal EXCEPT ![tx.tenant] = @ \union {Entry(tx.tenant, tx)}]
    <3>1. ASSUME NEW t \in Tenants, NEW x \in journal'[t]
          PROVE  x.direction \in Directions /\ x.size <= Guardrails[t].maxTradeSize
      <4>1. x \in journal[t] \/ (t = tx.tenant /\ x = Entry(t, tx))
        BY <2>3, <3>1 DEF LegacyInv
      <4>2. QED
        BY <2>3, <4>1, EntryInRange DEF Ranges
    <3>2. QED
      BY <1>1, <2>1, <2>3, <3>1 DEF Ranges
  <2>4. QED
    BY <1>5, <2>2, <2>3 DEF Mine
<1>6. CASE \/ EpochPasses \/ UNCHANGED vars
           \/ \E p \in DestPrices : PriceMoves(p)
           \/ \E t \in Tenants : SetRegistered(t)
  <2>1. UNCHANGED <<events, attested, journal>> /\ destPrice' \in DestPrices
        /\ registered' \subseteq Tenants
    BY <1>6 DEF EpochPasses, PriceMoves, SetRegistered, vars, chain, destination, Ranges
  <2>2. QED
    BY <1>1, <2>1 DEF Ranges
<1>7. QED
  BY <1>3, <1>4, <1>5, <1>6

(* What the process does, up to its decisions.                             *)
LEMMA ProcessRanges ==
  ASSUME LegacyInv, Ranges,
         \/ Startup \/ (\E l \in Latest : PollLatest(l) \/ PollAt(l))
         \/ PreFilter \/ BuildSourceProof \/ AwaitConfirm \/ BuildConfirmProof \/ CycleFails
         \/ ReadTenant \/ Decide \/ PutReasoning \/ Submit \/ AwaitReceipt \/ TenantFails \/ Restart
  PROVE  Ranges'
<1> DEFINE Inside(s) == s \in 1..MaxHeight \union {None}
<1>0. /\ Len(events) \in Nat /\ MaxHeight \in Nat /\ MaxAnswers \in Nat
      /\ DOMAIN events \subseteq 1..MaxHeight /\ FactsExist
  BY Heights DEF LegacyInv
<1>a. UNCHANGED <<chain, file>>
  BY DEF Startup, PollLatest, PollAt, PreFilter, BuildSourceProof, AwaitConfirm, BuildConfirmProof,
         CycleFails, ReadTenant, Decide, PutReasoning, Submit, AwaitReceipt, TenantFails, Restart
<1>b. ASSUME /\ cursor' \in 0..(MaxHeight + 1) \union {None} /\ Inside(source') /\ Inside(confirm')
             /\ \A i \in DOMAIN runtimes' : runtimes'[i].instance \in Tenants
             /\ answers' \in 0..MaxAnswers
      PROVE  Ranges'
  BY <1>a, <1>b DEF Ranges, chain, destination
<1>c. /\ cursor \in 0..(MaxHeight + 1) \union {None} /\ Inside(source) /\ Inside(confirm)
      /\ Inside(None) /\ \A i \in DOMAIN runtimes : runtimes[i].instance \in Tenants
      /\ answers \in 0..MaxAnswers
  BY DEF Ranges
<1> HIDE DEF Inside
<1>d. NextTenant => Inside(source') /\ Inside(confirm')
  BY <1>c, Zenon DEF NextTenant, EndCycle
<1>1. CASE Startup
  <2>1. UNCHANGED <<cursor, source, confirm, answers>>
    BY <1>1 DEF Startup
  <2>2. runtimes' = [i \in DOMAIN Roster |-> CreateTenantRuntime(Roster[i])]
    BY <1>1 DEF Startup
  <2>3. Roster \in Seq(Tenants)
    BY LegacyAssumption DEF Roster, Ranges
  <2>4. \A i \in DOMAIN Roster : Roster[i] \in Tenants
    BY <2>3
  <2>5. \A i \in DOMAIN runtimes' : runtimes'[i].instance \in Tenants
    BY <2>2, <2>4 DEF CreateTenantRuntime
  <2>6. QED
    BY <1>b, <1>c, <2>1, <2>5
<1>2. ASSUME NEW l \in Latest, PollLatest(l)
      PROVE  Ranges'
  <2>1. l \in 0..Len(events) /\ cursor' = l + 1 /\ UNCHANGED <<runtimes, confirm, answers>>
    BY <1>2 DEF Latest, PollLatest, SourceHead
  <2>2. Inside(source')
    <3>1. CASE Observed(FromBlock(l), l) = {}
      BY <1>2, <1>c, <3>1, Zenon DEF PollLatest
    <3>2. CASE Observed(FromBlock(l), l) # {}
      <4>1. source' = Max(Observed(FromBlock(l), l))
        BY <1>2, <3>2 DEF PollLatest
      <4>2. source' \in 1..MaxHeight
        BY <1>0, <3>2, <4>1, ObservedExist
      <4>3. QED
        BY <4>2 DEF Inside
    <3>3. QED
      BY <3>1, <3>2
  <2>3. cursor' \in 0..(MaxHeight + 1)
    BY <1>0, <2>1 DEF Ranges
  <2>4. QED
    BY <1>b, <1>c, <2>1, <2>2, <2>3
<1>3. ASSUME NEW l \in Latest, PollAt(l)
      PROVE  Ranges'
  <2> DEFINE found == Observed(source + ConfirmGap, Min({source + ConfirmGap + Window, l}))
  <2>1. UNCHANGED <<runtimes, cursor, answers>>
    BY <1>3 DEF PollAt
  <2>2. Inside(source') /\ Inside(confirm')
    <3>1. CASE found = {}
      BY <1>3, <1>c, <3>1 DEF PollAt, EndCycle
    <3>2. CASE found # {}
      <4>1. confirm' = Min(found) /\ UNCHANGED source
        BY <1>3, <3>2 DEF PollAt
      <4>2. confirm' \in 1..MaxHeight
        BY <1>0, <3>2, <4>1, ObservedExist
      <4>3. QED
        BY <1>c, <4>1, <4>2 DEF Inside
    <3>3. QED
      BY <3>1, <3>2
  <2>3. QED
    BY <1>b, <1>c, <2>1, <2>2
<1>4. CASE PreFilter \/ BuildSourceProof \/ AwaitConfirm \/ BuildConfirmProof \/ CycleFails
  <2>1. UNCHANGED <<runtimes, cursor, answers>>
    BY <1>4 DEF PreFilter, BuildSourceProof, AwaitConfirm, BuildConfirmProof, CycleFails, proofs
  <2>2. Inside(source') /\ Inside(confirm')
    BY <1>4, <1>c, Zenon DEF PreFilter, BuildSourceProof, AwaitConfirm, BuildConfirmProof, CycleFails,
       EndCycle, proofs
  <2>3. QED
    BY <1>b, <1>c, <2>1, <2>2
<1>5. CASE ReadTenant \/ PutReasoning \/ Submit \/ AwaitReceipt \/ TenantFails
  <2>1. UNCHANGED <<runtimes, cursor, answers>>
    BY <1>5 DEF ReadTenant, PutReasoning, Submit, AwaitReceipt, TenantFails
  <2>2. NextTenant \/ UNCHANGED <<source, confirm>>
    BY <1>5, Zenon DEF ReadTenant, PutReasoning, Submit, AwaitReceipt, TenantFails
  <2>3. QED
    BY <1>b, <1>c, <1>d, <2>1, <2>2
<1>6. CASE Decide
  <2>1. UNCHANGED proofs /\ (UNCHANGED answers \/ (answers < MaxAnswers /\ answers' = answers + 1))
    BY <1>6, Zenon DEF Decide
  <2>2. answers' \in 0..MaxAnswers
    BY <1>0, <1>c, <2>1
  <2>3. QED
    BY <1>b, <1>c, <2>1, <2>2 DEF proofs
<1>7. CASE Restart
  BY <1>7, <1>b, <1>c DEF Restart
<1>8. QED
  BY <1>1, <1>2, <1>3, <1>4, <1>5, <1>6, <1>7

LEMMA StepRanges == LegacyInv /\ Ranges /\ [Next]_vars => Ranges'
BY ChainRanges, ProcessRanges DEF Next, Blocks

(* The type invariant of the first generation, for any guardrails and any  *)
(* files: among it, that no execution is larger than its instance's        *)
(* maxTradeSize and that each has a direction, whatever the agent sent     *)
(* (ASCTreasuryJournal.executeArbitrage, agent/src/tenantRunner.ts).       *)
THEOREM LegacyTyped == Spec => []TypeOK
<1>1. Init => Ranges
  <2>1. MaxHeight \in Nat /\ MaxAnswers \in Nat
    BY LegacyAssumption
  <2>2. QED
    BY <2>1 DEF Init, Ranges
<1>2. LegacyInv /\ Ranges => TypeOK
  <2> SUFFICES ASSUME LegacyInv, Ranges PROVE TypeOK
    OBVIOUS
  <2>1. \A h \in DOMAIN events : events[h] \in Observations \union {None}
    BY DEF LegacyInv, FactsExist, Blocks
  <2>2. attested \in 0..SourceHead
    BY DEF Ranges, SourceHead
  <2>3. QED
    BY <2>1, <2>2 DEF Ranges, TypeOK
<1>3. QED
  BY <1>1, <1>2, InitLegacy, StepLegacy, StepRanges, PTL DEF Spec
============================================================================
