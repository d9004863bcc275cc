----------------------------- MODULE AuditProjection -----------------------------
(***************************************************************************)
(* The audit projection of one treasury: rows of attempts copied from the  *)
(* destination chain while it reorganises, the reconciliation of blocks,   *)
(* the decisions the attempts commit to, and the replay of both. Indexer,  *)
(* reconciler and the writers of decisions are processes of their own. An  *)
(* indexer works through the chain once and ends; nothing makes anybody    *)
(* run it, or the reconciliation, again.                                   *)
(*                                                                         *)
(* Two repositories implement the projection: the one in the database that *)
(* the programs write to, whose table adds constraints of its own, and one *)
(* in memory. A chain does not return to a fork it has left.               *)
(***************************************************************************)
EXTENDS Integers, Sequences, FiniteSets

CONSTANTS
  Nothing,      \* no row, record or transaction
  Settings,     \* the deployments to look at
  MaxHeight,    \* bound on the chain
  MaxReorgs,    \* bound on its reorganisations
  MaxFailures   \* bound on runs of the indexer that are cut short

ASSUME AuditAssumption ==
  /\ \A s \in Settings :
       /\ s.inDatabase \in BOOLEAN
       /\ IsFiniteSet(s.txs) /\ IsFiniteSet(s.writers)
  /\ MaxHeight \in Nat /\ MaxReorgs \in Nat /\ MaxFailures \in Nat

VARIABLES
  setting,   \* the deployment: its repository, transactions and writers
  chain,     \* blocks by height: their hash, and the attempt they resolve or none
  nextHash,  \* hashes are never used twice
  attempts,  \* rows, by attempt id
  latest,    \* the height auditIndexer works up to
  logs,      \* what is left of the logs it read, the current one first
  record,    \* the record of the current log
  pc,        \* where it is; "done" after a run that ended without an error
  undisturbed, \* whether the chain has not reorganised since the run began
  checking,  \* the row reconcileBlock looks at, and its verdict
  decisions, \* stored envelopes, by decision hash
  putting,   \* per writer: what it is about to store
  reorgs, failures

projection == <<attempts, decisions>>
indexer == <<latest, logs, record, pc, undisturbed>>
auditVars == <<setting, chain, nextHash, projection, indexer, checking, putting, reorgs, failures>>

InDatabase == setting.inDatabase \* SupabaseAuditRepository, or MemoryAuditRepository
Txs == setting.txs               \* transactions that submit an attempt; each has its decision
Writers == setting.writers       \* processes that store decisions

Hashes == 1..(MaxHeight * (MaxReorgs + 1))
\* A height's attempt id is the number of attempts up to it; 0 is the id of the
\* empty record that getAttempt returns for an attempt that does not exist.
Ids == 0..MaxHeight
Blocks == [hash : Hashes, tx : Txs \union {Nothing}]
\* content is the transaction that the record tells of.
RowsOf(txs) ==
  [tx : txs, block : 1..MaxHeight, hash : Hashes, content : txs \union {Nothing},
   status : {"CANONICAL", "ORPHANED"}]
AttemptRows == RowsOf(Txs)
Logs == [tx : Txs, block : 1..MaxHeight, hash : Hashes, id : Ids]
Envelopes == {"genuine", "edited"}

ASSUME NothingAssumption == \A s \in Settings : Nothing \notin s.txs \union RowsOf(s.txs)

AuditInit ==
  /\ setting \in Settings
  /\ chain = <<>> /\ nextHash = 1
  /\ attempts = [i \in Ids |-> Nothing]
  /\ latest = 0 /\ logs = <<>> /\ record = Nothing /\ pc = "idle"
  /\ undisturbed = FALSE
  /\ checking = Nothing
  /\ decisions = [t \in Txs |-> Nothing] /\ putting = [w \in Writers |-> Nothing]
  /\ reorgs = 0 /\ failures = 0

AttemptIds(c, h) == Cardinality({i \in 1..h : c[i].tx # Nothing})
\* Where the chain has the attempt of an id.
HeightOf(id) == CHOOSE h \in DOMAIN chain : chain[h].tx # Nothing /\ AttemptIds(chain, h) = id

--------------------------------------------------------------------------------
(* The destination chain *)

Mined(c) == {c[i].tx : i \in DOMAIN c} \ {Nothing}

MineBlock ==
  /\ Len(chain) < MaxHeight
  /\ \E tx \in (Txs \ Mined(chain)) \union {Nothing} :
       chain' = Append(chain, [hash |-> nextHash, tx |-> tx])
  /\ nextHash' = nextHash + 1
  /\ UNCHANGED <<setting, projection, indexer, checking, putting, reorgs, failures>>

\* The blocks above height are replaced by as many others; a transaction of
\* theirs may be mined again, at the same place, at another one, or never.
Reorganise(height) ==
  /\ reorgs < MaxReorgs /\ reorgs' = reorgs + 1
  /\ LET kept == SubSeq(chain, 1, height)
         n == Len(chain) - height
     IN
     /\ \E txs \in [1..n -> Txs \union {Nothing}] :
          /\ \A i, j \in 1..n : txs[i] = txs[j] /\ txs[i] # Nothing => i = j
          /\ \A i \in 1..n : txs[i] \notin Mined(kept)
          /\ chain' = kept \o [i \in 1..n |-> [hash |-> nextHash + i - 1, tx |-> txs[i]]]
     /\ nextHash' = nextHash + n
  /\ undisturbed' = FALSE
  /\ UNCHANGED <<setting, projection, latest, logs, record, pc, checking, putting, failures>>

--------------------------------------------------------------------------------
(* auditIndexer: one run from the first block to the latest *)

ReadLatest ==
  /\ pc \in {"idle", "done"} /\ latest' = Len(chain) /\ pc' = "logs" /\ undisturbed' = TRUE
  /\ UNCHANGED <<setting, chain, nextHash, projection, logs, record, checking, putting,
                 reorgs, failures>>

\* What getLogs answers for the blocks up to a height.
LogsUpTo(height) ==
  [id \in 1..AttemptIds(chain, height) |->
     LET h == HeightOf(id)
     IN [tx |-> chain[h].tx, block |-> h, hash |-> chain[h].hash, id |-> id]]

\* ingest reads the logs once; with none left the run is over.
ReadLogs ==
  /\ pc = "logs" /\ logs' = LogsUpTo(latest)
  /\ pc' = IF logs' = <<>> THEN "done" ELSE "record"
  /\ UNCHANGED <<setting, chain, nextHash, projection, latest, record, undisturbed, checking, putting,
                 reorgs, failures>>

\* getAttempt at the log's height, of whatever chain is canonical by now.
ReadRecord ==
  /\ pc = "record"
  /\ LET log == Head(logs) IN
     record' = IF log.id > AttemptIds(chain, log.block) THEN [id |-> 0, content |-> Nothing]
               ELSE [id |-> log.id, content |-> chain[HeightOf(log.id)].tx]
  /\ pc' = "upsert"
  /\ UNCHANGED <<setting, chain, nextHash, projection, latest, logs, undisturbed, checking, putting,
                 reorgs, failures>>

\* normalizeAttempt: place and hash are the log's, id and content the record's.
Normalized ==
  [tx |-> Head(logs).tx, block |-> Head(logs).block, hash |-> Head(logs).hash,
   content |-> record.content, status |-> "CANONICAL"]

\* What the repository refuses: in memory another log for an attempt that is not
\* orphaned; in the database the empty record, and a log that another row has.
Conflicts(id, row) ==
  IF InDatabase
  THEN id = 0 \/ \E other \in Ids \ {id} : attempts[other] # Nothing /\ attempts[other].tx = row.tx
  ELSE /\ attempts[id] # Nothing /\ attempts[id].status # "ORPHANED"
       /\ attempts[id].tx # row.tx

NextLog == logs' = Tail(logs) /\ pc' = IF logs' = <<>> THEN "done" ELSE "record"

\* Variant for the sensitivity runs: a log that is refused is passed over.
RefusalSkipped == NextLog

\* What is refused is thrown and ends the run.
Refusal == logs' = <<>> /\ pc' = "idle"

UpsertAttempt ==
  /\ pc = "upsert"
  /\ IF Conflicts(record.id, Normalized)
     THEN Refusal /\ UNCHANGED attempts
     ELSE attempts' = [attempts EXCEPT ![record.id] = Normalized] /\ NextLog
  /\ record' = Nothing
  /\ UNCHANGED <<setting, chain, nextHash, latest, undisturbed, checking, decisions, putting, reorgs,
                 failures>>

\* A call fails or the process ends: the run is over.
RunEnds ==
  /\ pc \in {"logs", "record", "upsert"} /\ failures < MaxFailures /\ failures' = failures + 1
  /\ logs' = <<>> /\ record' = Nothing /\ pc' = "idle"
  /\ UNCHANGED <<setting, chain, nextHash, projection, latest, undisturbed, checking, putting,
                 reorgs>>

--------------------------------------------------------------------------------
(* reconcileBlock, for the block of a row *)

IsCanonical(row) == row.block <= Len(chain) /\ chain[row.block].hash = row.hash

CheckBlock(hash) ==
  /\ checking = Nothing
  /\ \E i \in Ids :
       /\ attempts[i] # Nothing /\ attempts[i].hash = hash /\ attempts[i].status = "CANONICAL"
       /\ checking' = [block |-> attempts[i].block, hash |-> hash,
                        canonical |-> IsCanonical(attempts[i])]
  /\ UNCHANGED <<setting, chain, nextHash, projection, indexer, putting, reorgs, failures>>

\* Variant for the sensitivity runs: the rows of the height, whatever their hash.
OrphanedHeight(row) ==
  IF row # Nothing /\ row.block = checking.block THEN [row EXCEPT !.status = "ORPHANED"] ELSE row

Orphaned(row) ==
  IF row # Nothing /\ row.hash = checking.hash THEN [row EXCEPT !.status = "ORPHANED"] ELSE row

\* markBlockOrphaned: every row of the block.
MarkBlockOrphaned ==
  /\ checking # Nothing
  /\ attempts' = IF checking.canonical THEN attempts
                 ELSE [i \in Ids |-> Orphaned(attempts[i])]
  /\ checking' = Nothing
  /\ UNCHANGED <<setting, chain, nextHash, indexer, decisions, putting, reorgs, failures>>

--------------------------------------------------------------------------------
(* Decisions *)

\* putDecision up to its question whether the hash is known: other content for
\* it is refused, in the database the same content is no work.
LookUpDecision(w, tx, envelope) ==
  /\ putting[w] = Nothing
  /\ decisions[tx] = Nothing \/ (decisions[tx] = envelope /\ ~InDatabase)
  /\ putting' = [putting EXCEPT ![w] = [tx |-> tx, envelope |-> envelope]]
  /\ UNCHANGED <<setting, chain, nextHash, projection, indexer, checking, reorgs, failures>>

\* Variant for the sensitivity runs: the later of two writers wins.
StoredLater(w) == putting[w].envelope

\* "ignore-duplicates": the first of two writers wins.
Stored(w) ==
  IF decisions[putting[w].tx] = Nothing THEN putting[w].envelope ELSE decisions[putting[w].tx]

\* In memory nothing comes between the two steps.
StoreDecision(w) ==
  /\ putting[w] # Nothing
  /\ decisions' = [decisions EXCEPT ![putting[w].tx] = Stored(w)]
  /\ putting' = [putting EXCEPT ![w] = Nothing]
  /\ UNCHANGED <<setting, chain, nextHash, attempts, indexer, checking, reorgs, failures>>

\* reconstructReplay: the hash of what is stored is computed again.
Integrity(id) ==
  IF attempts[id] = Nothing \/ attempts[id].content = Nothing THEN "MISSING_ARTIFACT"
  ELSE IF decisions[attempts[id].content] = Nothing THEN "MISSING_ARTIFACT"
  ELSE IF decisions[attempts[id].content] = "genuine" THEN "MATCH" ELSE "MISMATCH"

--------------------------------------------------------------------------------
Indexer == ReadLatest \/ ReadLogs \/ ReadRecord \/ UpsertAttempt

AuditNext ==
  \/ MineBlock \/ \E h \in 0..(Len(chain) - 1) : Reorganise(h)
  \/ Indexer \/ RunEnds
  \/ \E hash \in Hashes : CheckBlock(hash)
  \/ MarkBlockOrphaned
  \/ \E w \in Writers : \/ StoreDecision(w)
                        \/ /\ InDatabase \/ \A v \in Writers : putting[v] = Nothing
                           /\ \E tx \in Txs, e \in Envelopes : LookUpDecision(w, tx, e)

AuditSpec == AuditInit /\ [][AuditNext]_auditVars

--------------------------------------------------------------------------------
(* Properties *)

AuditTypeOK ==
  /\ chain \in Seq(Blocks) /\ nextHash \in Nat
  /\ attempts \in [Ids -> AttemptRows \union {Nothing}]
  /\ latest \in 0..MaxHeight /\ logs \in Seq(Logs)
  /\ pc \in {"idle", "logs", "record", "upsert", "done"} /\ undisturbed \in BOOLEAN
  /\ decisions \in [Txs -> Envelopes \union {Nothing}]
  \* Only the empty record, under the id of none, tells of no transaction.
  /\ \A id \in Ids : attempts[id] # Nothing => (attempts[id].content = Nothing <=> id = 0)

\* The row that the chain has for an attempt.
ChainRow(id) ==
  LET h == HeightOf(id)
  IN [tx |-> chain[h].tx, block |-> h, hash |-> chain[h].hash, content |-> chain[h].tx,
      status |-> "CANONICAL"]

\* "Reconciled through block": a run of the indexer that ended without an error
\* has left the chain's own row for every attempt up to its height, whatever
\* reorganisations, runs cut short and reconciliations had made of the table
\* before or do meanwhile, unless the chain has reorganised since it began.
RunsFaithful ==
  pc = "done" /\ undisturbed =>
    \A id \in 1..AttemptIds(chain, latest) : attempts[id] = ChainRow(id)

\* Only what is no longer on the chain is marked as orphaned: a reconciliation
\* whose verdict has aged, the rows having been ingested again in between, does
\* not touch the rows of the new block.
OrphanedIsGone ==
  \A id \in Ids :
    attempts[id] # Nothing /\ IsCanonical(attempts[id]) => attempts[id].status = "CANONICAL"

\* "Do not silently rewrite audit history": the row of an attempt is not replaced
\* by another transaction's unless it was marked as orphaned first. In memory
\* that is refused; the database merges into the row whatever it is given.
NotRewritten ==
  [][\A id \in Ids :
       attempts[id] # Nothing /\ attempts[id].status = "CANONICAL" =>
         attempts'[id] # Nothing /\ attempts'[id].tx = attempts[id].tx]_auditVars

\* What a replay has vouched for stays so: no later writer of a decision turns
\* the verdict on a row.
VerdictKept ==
  [][\A id \in Ids :
       Integrity(id) \in {"MATCH", "MISMATCH"} /\ attempts'[id] = attempts[id] =>
         Integrity(id)' = Integrity(id)]_auditVars
================================================================================
