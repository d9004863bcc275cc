------------------------------- MODULE GasSponsor -------------------------------
(***************************************************************************)
(* The gas sponsor: requests that one process serves one after the other,  *)
(* the durable ledger of reservations behind a lock file, and the top-ups  *)
(* broadcast from it. Processes share the ledger's path; they crash between*)
(* two file operations, the host loses power, writes and calls fail, and   *)
(* the host's clock is also set back.                                      *)
(***************************************************************************)
EXTENDS Integers, Sequences, FiniteSets, FiniteSetsExt

CONSTANTS
  Servers,      \* processes that share ledger and wallet
  Wallets,      \* addresses that ask for gas
  Target,       \* TARGET_WEI
  MinBalance,   \* MIN_BALANCE_WEI
  MaxTopUp,     \* MAX_TOPUP_WEI
  DailyBudget,  \* DAILY_BUDGET_WEI
  Cooldown,     \* ADDRESS_COOLDOWN_MS
  Retention,    \* the 30 days after which an entry of the ledger is dropped
  DayLength,    \* 86_400_000
  MaxClock,     \* bound on the host's clock
  MaxRollback,  \* bound on how often it is set back
  MaxRequests,  \* bound on the requests
  MaxFaults     \* bound on crashes, failed writes and failed calls

ASSUME SponsorAssumption ==
  /\ Target \in Nat /\ MinBalance \in 0..Target /\ MaxTopUp \in Nat
  /\ DailyBudget \in Nat /\ DayLength \in Nat \ {0} /\ MaxClock \in Nat
  /\ Retention \in Nat /\ Cooldown \in 0..Retention
  /\ MaxRollback \in Nat /\ MaxRequests \in Nat /\ MaxFaults \in Nat

VARIABLES
  clock,    \* Date.now()
  ledger,   \* the ledger file, as a process reads it
  durable,  \* the ledger file that is certain to survive a loss of power
  lock,     \* whether the lock file exists
  pc,       \* per process: where topUpUnlocked and reserve are
  queue,    \* per process: requests behind sponsorSerial, the served one first
  draft,    \* per process: the ledger that reserve is about to write
  amount,   \* per process: the amount of the request that is served
  balance,  \* balances of the wallets
  inFlight, \* broadcast top-ups that are not mined
  sent,     \* every top-up that was broadcast
  charged,  \* per day of the ledger: what was reserved to be sent
  rollbacks, requests, faults

files == <<ledger, durable, lock>>
server == <<pc, queue, draft, amount>>
chain == <<balance, inFlight, sent>>
bounds == <<rollbacks, requests, faults>>
vars == <<clock, files, server, chain, charged, bounds>>

Days == 0..(MaxClock \div DayLength)
Never == -1
Ledgers == [day : Days, spent : Nat, lastReservedAt : [Wallets -> 0..MaxClock \union {Never}]]
Requests == [id : Nat, to : Wallets]
TopUps == [id : Nat, to : Wallets, amount : Nat, day : Days, at : 0..MaxClock]
\* The steps of reserve between creating the lock file and removing it.
Critical == {"check", "rename", "sync", "unlock"}
Steps == {"idle", "lock", "send", "wait"} \union Critical

Today == clock \div DayLength
NewLedger == [day |-> 0, spent |-> 0, lastReservedAt |-> [w \in Wallets |-> Never]]

\* A ledger that does not exist yet reads as one that has spent nothing: on the
\* first day nothing tells them apart.
Init ==
  /\ clock = 0 /\ ledger = NewLedger /\ durable = NewLedger /\ lock = FALSE
  /\ pc = [s \in Servers |-> "idle"] /\ queue = [s \in Servers |-> <<>>]
  /\ draft = [s \in Servers |-> NewLedger] /\ amount = [s \in Servers |-> 0]
  /\ balance = [w \in Wallets |-> 0] /\ inFlight = {} /\ sent = {}
  /\ charged = [d \in Days |-> 0]
  /\ rollbacks = 0 /\ requests = 0 /\ faults = 0

--------------------------------------------------------------------------------
(* The ledger *)

\* Variant for the sensitivity runs: a new day starts a new ledger.
ReadLedgerAnew == IF Today > ledger.day THEN [NewLedger EXCEPT !.day = Today] ELSE ledger

\* SponsorBudget.read: a new day starts a new budget, an earlier one does not.
ReadLedger ==
  IF Today > ledger.day THEN [ledger EXCEPT !.day = Today, !.spent = 0] ELSE ledger

\* Entries older than any allowed cooldown are dropped.
Kept(state) ==
  [w \in Wallets |->
     IF state.lastReservedAt[w] # Never /\ clock - state.lastReservedAt[w] >= Retention
     THEN Never ELSE state.lastReservedAt[w]]

CoolingDown(state, w) ==
  state.lastReservedAt[w] # Never /\ clock - state.lastReservedAt[w] < Cooldown

OverBudget(state, a) == state.spent + a > DailyBudget

Reservation(state, w, a) ==
  [state EXCEPT !.spent = @ + a, !.lastReservedAt = [Kept(state) EXCEPT ![w] = clock]]

--------------------------------------------------------------------------------
(* The surroundings *)

Tick ==
  /\ clock < MaxClock /\ clock' = clock + 1
  /\ UNCHANGED <<files, server, chain, charged, bounds>>

SetClockBack ==
  /\ clock > 0 /\ rollbacks < MaxRollback
  /\ clock' = clock - 1 /\ rollbacks' = rollbacks + 1
  /\ UNCHANGED <<files, server, chain, charged, requests, faults>>

\* A wallet spends some of what it has.
Spend(w) ==
  /\ \E left \in 0..(balance[w] - 1) : balance' = [balance EXCEPT ![w] = left]
  /\ UNCHANGED <<clock, files, server, inFlight, sent, charged, bounds>>

Mine(x) ==
  /\ x \in inFlight /\ inFlight' = inFlight \ {x}
  /\ balance' = [balance EXCEPT ![x.to] = @ + x.amount]
  /\ UNCHANGED <<clock, files, server, sent, charged, bounds>>

--------------------------------------------------------------------------------
(* A process *)

\* POST /sponsor-gas with an authorisation that was consumed.
Request(s, w) ==
  /\ requests < MaxRequests /\ requests' = requests + 1
  /\ queue' = [queue EXCEPT ![s] = Append(@, [id |-> requests, to |-> w])]
  /\ UNCHANGED <<clock, files, pc, draft, amount, chain, charged, rollbacks, faults>>

Served(s) == Head(queue[s])
At(s, step) == pc[s] = step
Goto(s, step) == pc' = [pc EXCEPT ![s] = step]

\* Variant for the sensitivity runs: a request that fails does not release the
\* next one.
RefusedUnreleased(s) == Goto(s, "wait") /\ UNCHANGED queue

\* The request is answered, and the next one is released.
Answered(s) == Goto(s, "idle") /\ queue' = [queue EXCEPT ![s] = Tail(@)]

Refused(s) == Answered(s)

\* topUpUnlocked up to the reservation.
ReadBalance(s) ==
  /\ At(s, "idle") /\ queue[s] # <<>>
  /\ LET needed == Target - balance[Served(s).to] IN
     IF balance[Served(s).to] >= MinBalance
     THEN Answered(s) /\ UNCHANGED amount
     ELSE IF needed > MaxTopUp
     THEN Refused(s) /\ UNCHANGED amount
     ELSE Goto(s, "lock") /\ amount' = [amount EXCEPT ![s] = needed] /\ UNCHANGED queue
  /\ UNCHANGED <<clock, files, draft, chain, charged, bounds>>

\* Variant for the sensitivity runs: a lock file that exists is no obstacle.
LockFreeAlways == TRUE

LockFree == ~lock

\* The lock file is created, or exists.
TakeLock(s) ==
  /\ At(s, "lock")
  /\ IF LockFree
     THEN lock' = TRUE /\ Goto(s, "check") /\ UNCHANGED queue
     ELSE Refused(s) /\ UNCHANGED lock
  /\ UNCHANGED <<clock, ledger, durable, draft, amount, chain, charged, bounds>>

\* The ledger is read and checked; a refusal has modified nothing and removes
\* the lock file. Otherwise the new ledger is written to the temporary file.
CheckLedger(s) ==
  /\ At(s, "check")
  /\ LET state == ReadLedger IN
     IF CoolingDown(state, Served(s).to) \/ OverBudget(state, amount[s])
     THEN lock' = FALSE /\ Refused(s) /\ UNCHANGED draft
     ELSE /\ draft' = [draft EXCEPT ![s] = Reservation(state, Served(s).to, amount[s])]
          /\ Goto(s, "rename") /\ UNCHANGED <<queue, lock>>
  /\ UNCHANGED <<clock, ledger, durable, amount, chain, charged, bounds>>

Rename(s) ==
  /\ At(s, "rename") /\ ledger' = draft[s] /\ Goto(s, "sync")
  /\ UNCHANGED <<clock, durable, lock, queue, draft, amount, chain, charged, bounds>>

\* Variant for the sensitivity runs: the directory is not synchronised.
SynchronisedNot == durable

Synchronised == ledger

\* The directory is synchronised: from here on the amount is reserved.
SyncDirectory(s) ==
  /\ At(s, "sync") /\ durable' = Synchronised /\ Goto(s, "unlock")
  /\ charged' = [charged EXCEPT ![draft[s].day] = @ + amount[s]]
  /\ UNCHANGED <<clock, ledger, lock, queue, draft, amount, chain, bounds>>

RemoveLock(s) ==
  /\ At(s, "unlock") /\ lock' = FALSE /\ Goto(s, "send")
  /\ UNCHANGED <<clock, ledger, durable, queue, draft, amount, chain, charged, bounds>>

\* An error while writing keeps the lock file.
WriteFails(s) ==
  /\ pc[s] \in {"rename", "sync"}
  /\ faults < MaxFaults /\ faults' = faults + 1
  /\ Refused(s)
  /\ UNCHANGED <<clock, files, draft, amount, chain, charged, rollbacks, requests>>

TopUp(s) ==
  [id |-> Served(s).id, to |-> Served(s).to, amount |-> amount[s], day |-> draft[s].day,
   at |-> draft[s].lastReservedAt[Served(s).to]]

Broadcast(s) ==
  inFlight' = inFlight \union {TopUp(s)} /\ sent' = sent \union {TopUp(s)}

\* sendTransaction; when it fails the transaction may be out nevertheless.
Send(s) ==
  /\ At(s, "send")
  /\ \/ Broadcast(s) /\ Goto(s, "wait") /\ UNCHANGED <<queue, faults>>
     \/ /\ faults < MaxFaults /\ faults' = faults + 1 /\ Refused(s)
        /\ Broadcast(s) \/ UNCHANGED <<inFlight, sent>>
  /\ UNCHANGED <<clock, files, draft, amount, balance, charged, rollbacks, requests>>

\* tx.wait
AwaitReceipt(s) ==
  /\ At(s, "wait") /\ TopUp(s) \in sent \ inFlight /\ Answered(s)
  /\ UNCHANGED <<clock, files, draft, amount, chain, charged, bounds>>

AwaitFails(s) ==
  /\ At(s, "wait") /\ faults < MaxFaults /\ faults' = faults + 1 /\ Refused(s)
  /\ UNCHANGED <<clock, files, draft, amount, chain, charged, rollbacks, requests>>

--------------------------------------------------------------------------------
(* Crashes and repair *)

\* A process ends between two steps and is started again. It leaves its files.
Crash(s) ==
  /\ faults < MaxFaults /\ faults' = faults + 1
  /\ Goto(s, "idle") /\ queue' = [queue EXCEPT ![s] = <<>>]
  /\ UNCHANGED <<clock, files, draft, amount, chain, charged, rollbacks, requests>>

\* The host loses power: every process ends, and of what was not synchronised
\* (a rename, the creation or removal of the lock file) anything may be left.
PowerLoss ==
  /\ faults < MaxFaults /\ faults' = faults + 1
  /\ ledger' \in {ledger, durable} /\ durable' = ledger' /\ lock' \in BOOLEAN
  /\ pc' = [s \in Servers |-> "idle"] /\ queue' = [s \in Servers |-> <<>>]
  /\ UNCHANGED <<clock, draft, amount, chain, charged, rollbacks, requests>>

\* The operator stops every process and removes a stale lock file.
RemoveStaleLock ==
  /\ lock /\ \A s \in Servers : pc[s] = "idle"
  /\ lock' = FALSE
  /\ UNCHANGED <<clock, ledger, durable, server, chain, charged, bounds>>

Serve(s) ==
  \/ ReadBalance(s) \/ TakeLock(s) \/ CheckLedger(s) \/ Rename(s) \/ SyncDirectory(s)
  \/ RemoveLock(s) \/ Send(s) \/ AwaitReceipt(s)

Next ==
  \/ Tick \/ SetClockBack
  \/ \E w \in Wallets : Spend(w)
  \/ \E x \in inFlight : Mine(x)
  \/ \E s \in Servers : \/ \E w \in Wallets : Request(s, w)
                        \/ Serve(s) \/ WriteFails(s) \/ AwaitFails(s) \/ Crash(s)
  \/ PowerLoss \/ RemoveStaleLock

Spec == Init /\ [][Next]_vars

\* A process goes on while it can, and the chain mines what is sent to it.
FairSpec ==
  /\ Spec /\ \A s \in Servers : WF_vars(Serve(s))
  /\ WF_vars(\E x \in inFlight : Mine(x))

--------------------------------------------------------------------------------
(* Properties *)

TypeOK ==
  /\ clock \in 0..MaxClock /\ ledger \in Ledgers /\ durable \in Ledgers /\ lock \in BOOLEAN
  /\ pc \in [Servers -> Steps] /\ queue \in [Servers -> Seq(Requests)]
  /\ draft \in [Servers -> Ledgers] /\ amount \in [Servers -> 0..Target]
  /\ balance \in [Wallets -> Nat] /\ inFlight \subseteq sent /\ sent \subseteq TopUps
  /\ charged \in [Days -> Nat]
  /\ \A s \in Servers : pc[s] # "idle" => queue[s] # <<>>

\* What is reserved to be broadcast on one day of the ledger stays within the
\* budget of that day, with several processes, through crashes, lost writes and
\* a clock that is set back ("Moving the host clock backwards must not create a
\* new spending budget").
ChargedWithinBudget == \A d \in Days : charged[d] <= DailyBudget

\* "Persist before broadcast": whatever power loss leaves of the ledger accounts
\* for everything that was broadcast.
SentIsAccounted ==
  \A kept \in {ledger, durable} :
    /\ \A x \in sent : x.day <= kept.day
    /\ MapThenSumSet(LAMBDA x : x.amount, {x \in sent : x.day = kept.day}) <= kept.spent

\* Two top-ups of one wallet are a cooldown apart, although old entries are
\* dropped (as long as the clock is not set back by more than Retention exceeds
\* Cooldown).
CooldownKept ==
  \A x, y \in sent :
    x.to = y.to /\ x.id # y.id => x.at - y.at >= Cooldown \/ y.at - x.at >= Cooldown

\* A process that serves requests answers each of them or crashes: errors
\* release the next one.
RequestsAnswered ==
  \A s \in Servers, i \in 0..(MaxRequests - 1) :
    (\E n \in DOMAIN queue[s] : queue[s][n].id = i)
      ~> ~(\E n \in DOMAIN queue[s] : queue[s][n].id = i)
================================================================================
