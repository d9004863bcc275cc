---------------------------- MODULE TreasuryRotation ----------------------------
(***************************************************************************)
(* How the schema-v1 product runner finds and schedules treasuries: the    *)
(* incremental scan of the factory's events, the batch cursor, the reading *)
(* of mandates and the serial queue of one cycle, with failures of any RPC *)
(* call, restarts, and nodes that answer from different heads.             *)
(***************************************************************************)
EXTENDS Integers, Sequences, FiniteSets

CONSTANTS
  Treasuries,  \* treasuries the factory may create
  FactoryFrom, \* FACTORY_FROM_BLOCK
  LogChunk,    \* FACTORY_LOG_CHUNK
  MaxTenants,  \* MAX_TENANTS
  Lagging,     \* whether a call may be answered by a node behind the head
  MaxBlock,    \* bound on the chain's height
  MaxFailures, \* bound on the calls that fail
  MaxRestarts  \* bound on the runner's restarts

ASSUME RotationAssumption ==
  /\ IsFiniteSet(Treasuries)
  /\ FactoryFrom \in Nat /\ LogChunk \in Nat \ {0} /\ MaxTenants \in Nat \ {0}
  /\ MaxBlock \in Nat /\ MaxFailures \in Nat /\ MaxRestarts \in Nat
  /\ Lagging \in BOOLEAN

VARIABLES
  head,             \* height of the destination chain
  events,           \* TreasuryCreated events in chain order
  autonomous,       \* treasuries that are AUTONOMOUS with this agent registered
  nextFactoryBlock, \* first block not scanned yet
  treasuryIndex,    \* treasuries in the order of discovery
  tenantCursor,     \* position of the next batch in treasuryIndex
  pc,               \* where the loop is
  latest,           \* the height the current refresh scans up to
  batch,            \* the treasuries of the current cycle
  mandates,         \* those of them still to be run
  failures, restarts

chain == <<head, events, autonomous>>
index == <<nextFactoryBlock, treasuryIndex, tenantCursor>>
cycleVars == <<latest, batch, mandates>>
vars == <<chain, index, pc, cycleVars, failures, restarts>>

Event == [treasury : Treasuries, block : Nat]
Stages == {"sleep", "refresh", "scan", "batch", "read", "observe", "queue"}

Indexed == {treasuryIndex[i] : i \in DOMAIN treasuryIndex}
Created == {events[i].treasury : i \in DOMAIN events}

Init ==
  /\ head = 0 /\ events = <<>> /\ autonomous = {}
  /\ nextFactoryBlock = FactoryFrom /\ treasuryIndex = <<>> /\ tenantCursor = 0
  /\ pc = "sleep" /\ latest = 0 /\ batch = <<>> /\ mandates = <<>>
  /\ failures = 0 /\ restarts = 0

--------------------------------------------------------------------------------
(* The chain and the owners *)

Mine ==
  /\ head < MaxBlock /\ head' = head + 1
  /\ UNCHANGED <<events, autonomous, index, pc, cycleVars, failures, restarts>>

\* createTreasury, once or twice in one block. FACTORY_FROM_BLOCK is the block
\* of the factory's deployment: there is none before.
CreateTreasuries(new) ==
  /\ head < MaxBlock /\ FactoryFrom <= head + 1 /\ new \subseteq Treasuries \ Created
  /\ head' = head + 1
  /\ \E order \in [1..Cardinality(new) -> new] :
       /\ {order[i] : i \in DOMAIN order} = new
       /\ events' = events \o [i \in DOMAIN order |->
                                 [treasury |-> order[i], block |-> head + 1]]
  /\ autonomous' = autonomous \union new
  /\ UNCHANGED <<index, pc, cycleVars, failures, restarts>>

SetMode(t) ==
  /\ t \in Created
  /\ autonomous' = IF t \in autonomous THEN autonomous \ {t} ELSE autonomous \union {t}
  /\ UNCHANGED <<head, events, index, pc, cycleVars, failures, restarts>>

--------------------------------------------------------------------------------
(* The loop *)

\* The head of the node that answers a call.
Views == IF Lagging THEN 0..head ELSE {head}

Goto(stage) == pc' = stage

\* cycle() up to its first read of the factory.
StartCycle ==
  /\ pc = "sleep" /\ Goto("refresh")
  /\ UNCHANGED <<chain, index, cycleVars, failures, restarts>>

\* refreshTreasuryIndex: the height to scan up to.
ReadLatest ==
  /\ pc = "refresh"
  /\ latest' \in Views
  /\ Goto(IF nextFactoryBlock > latest' THEN "batch" ELSE "scan")
  /\ UNCHANGED <<chain, index, batch, mandates, failures, restarts>>

ChunkEnd == IF latest < nextFactoryBlock + LogChunk - 1
            THEN latest ELSE nextFactoryBlock + LogChunk - 1

\* The members of a set of positions in ascending order.
Ascending(S) ==
  CHOOSE s \in [1..Cardinality(S) -> S] : \A i, j \in DOMAIN s : i < j => s[i] < s[j]

TreasuriesOf(positions) ==
  LET found == Ascending(positions) IN [i \in DOMAIN found |-> events[found[i]].treasury]

\* The events of the chunk that a node at height view returns.
InChunk(view) ==
  {k \in DOMAIN events : /\ events[k].block \in nextFactoryBlock..ChunkEnd
                         /\ events[k].block <= view}

\* Variant for the sensitivity runs: the events already indexed are not skipped.
DiscoveredAgain(view) == TreasuriesOf(InChunk(view))

\* What queryFilter and isFactoryTreasury leave to index of the chunk.
Discovered(view) ==
  TreasuriesOf({k \in InChunk(view) : events[k].treasury \notin Indexed})

NextChunk == ChunkEnd + 1

\* One chunk of the scan.
ScanChunk ==
  /\ pc = "scan"
  /\ \E view \in Views : treasuryIndex' = treasuryIndex \o Discovered(view)
  /\ nextFactoryBlock' = NextChunk
  /\ Goto(IF ChunkEnd = latest THEN "batch" ELSE "scan")
  /\ UNCHANGED <<chain, tenantCursor, cycleVars, failures, restarts>>

\* The call for one of the chunk's events fails: those before it are indexed
\* and the chunk counts as not scanned.
ScanFails ==
  /\ pc = "scan" /\ failures < MaxFailures
  /\ \E view \in Views, n \in 0..Cardinality(Treasuries) :
       /\ n <= Len(Discovered(view))
       /\ treasuryIndex' = treasuryIndex \o SubSeq(Discovered(view), 1, n)
  /\ failures' = failures + 1
  /\ Goto("sleep")
  /\ UNCHANGED <<chain, nextFactoryBlock, tenantCursor, cycleVars, restarts>>

BatchSize == IF Len(treasuryIndex) < MaxTenants THEN Len(treasuryIndex) ELSE MaxTenants

\* Variant for the sensitivity runs: the newest treasuries, whatever the cursor.
AtCursorNewest(i) == treasuryIndex[Len(treasuryIndex) - i + 1]

AtCursor(i) == treasuryIndex[((tenantCursor + i - 1) % Len(treasuryIndex)) + 1]

\* Variant for the sensitivity runs: the cursor moves on by one treasury.
AdvancedByOne == (tenantCursor + 1) % Len(treasuryIndex)

Advanced == (tenantCursor + BatchSize) % Len(treasuryIndex)

\* discoverTreasuryBatch after the refresh.
TakeBatch ==
  /\ pc = "batch"
  /\ IF treasuryIndex = <<>>
     THEN batch' = <<>> /\ UNCHANGED tenantCursor
     ELSE batch' = [i \in 1..BatchSize |-> AtCursor(i)] /\ tenantCursor' = Advanced
  /\ Goto("read")
  /\ UNCHANGED <<chain, nextFactoryBlock, treasuryIndex, latest, mandates,
                 failures, restarts>>

\* readMandate for every treasury of the batch; a read that fails counts as no
\* mandate. Without a mandate the cycle is over.
ReadMandates ==
  /\ pc = "read"
  /\ \E failed \in SUBSET {batch[i] : i \in DOMAIN batch} :
       /\ failures + Cardinality(failed) <= MaxFailures
       /\ failures' = failures + Cardinality(failed)
       /\ mandates' = SelectSeq(batch, LAMBDA t : t \in autonomous \ failed)
  /\ Goto(IF mandates' = <<>> THEN "sleep" ELSE "observe")
  /\ batch' = <<>>
  /\ UNCHANGED <<chain, index, latest, restarts>>

\* Both observations are published and proved.
Observe ==
  /\ pc = "observe" /\ Goto("queue")
  /\ UNCHANGED <<chain, index, cycleVars, failures, restarts>>

\* runMarketQueue: one treasury, whether its run returns or throws.
RunTenant ==
  /\ pc = "queue"
  /\ mandates' = Tail(mandates)
  /\ Goto(IF mandates' = <<>> THEN "sleep" ELSE "queue")
  /\ UNCHANGED <<chain, index, latest, batch, failures, restarts>>

\* A call fails outside the scan and outside a treasury's run: main catches it
\* and tries again after its pause.
CycleFails ==
  /\ pc \in {"refresh", "observe"} /\ failures < MaxFailures
  /\ failures' = failures + 1 /\ mandates' = <<>>
  /\ Goto("sleep")
  /\ UNCHANGED <<chain, index, latest, batch, restarts>>

\* The process ends and is started again: it keeps nothing.
Restart ==
  /\ restarts < MaxRestarts /\ restarts' = restarts + 1
  /\ nextFactoryBlock' = FactoryFrom /\ treasuryIndex' = <<>> /\ tenantCursor' = 0
  /\ latest' = 0 /\ batch' = <<>> /\ mandates' = <<>>
  /\ Goto("sleep")
  /\ UNCHANGED <<chain, failures>>

Loop == StartCycle \/ ReadLatest \/ ScanChunk \/ TakeBatch \/ ReadMandates
        \/ Observe \/ RunTenant

Next ==
  \/ Mine
  \/ \E new \in SUBSET Treasuries : Cardinality(new) \in 1..2 /\ CreateTreasuries(new)
  \/ \E t \in Treasuries : SetMode(t)
  \/ Loop \/ ScanFails \/ CycleFails \/ Restart

Spec == Init /\ [][Next]_vars

\* main never stops: whatever its loop can do next, it does.
FairSpec == Spec /\ WF_vars(Loop)

--------------------------------------------------------------------------------
(* Properties *)

TypeOK ==
  /\ head \in Nat /\ events \in Seq(Event) /\ autonomous \subseteq Treasuries
  /\ nextFactoryBlock \in Nat /\ treasuryIndex \in Seq(Treasuries)
  /\ tenantCursor \in 0..Len(treasuryIndex) /\ pc \in Stages /\ latest \in Nat
  /\ batch \in Seq(Treasuries) /\ mandates \in Seq(Treasuries)
  /\ failures \in 0..MaxFailures /\ restarts \in 0..MaxRestarts

\* The scan leaves nothing behind: what was created in a block before the next
\* one to scan is indexed, through failures in the middle of a chunk and
\* restarts (when calls are answered from one view of the chain). And it is
\* indexed once, although a failed chunk is scanned again: twice in the index
\* would be two runs per turn.
IndexComplete ==
  /\ \A i \in DOMAIN events :
       events[i].block < nextFactoryBlock => events[i].treasury \in Indexed
  /\ \A i, j \in DOMAIN treasuryIndex : treasuryIndex[i] = treasuryIndex[j] => i = j

\* A treasury that stays AUTONOMOUS is run again and again, whatever joins or
\* leaves, when calls fail only finitely often ("rotates fairly through large
\* treasury sets instead of permanently serving only the newest accounts").
Serving(t) == pc = "queue" /\ mandates # <<>> /\ mandates[1] = t

EveryTreasuryServed ==
  \A t \in Treasuries : <>[](t \in autonomous) => []<>Serving(t)

\* The turns are those of a rotating queue: its front is the cursor, and new
\* treasuries join where the index ends.
Rotated ==
  SubSeq(treasuryIndex, tenantCursor + 1, Len(treasuryIndex))
  \o SubSeq(treasuryIndex, 1, tenantCursor)

Rotation == INSTANCE RotationQueue WITH
  Clients <- Treasuries, Batch <- MaxTenants, queue <- Rotated, taken <- batch

ImplementsRotation == Rotation!RSpec
================================================================================
