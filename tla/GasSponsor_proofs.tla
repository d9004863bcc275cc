--------------------------- MODULE GasSponsor_proofs ---------------------------
(***************************************************************************)
(* The money of the gas sponsor, with any number of processes, of crashes, *)
(* of losses of power and of clock changes: what is reserved for one day   *)
(* of the ledger stays within the budget, top-ups of one wallet are a      *)
(* cooldown apart, and the ledger accounts for whatever was sent.          *)
(***************************************************************************)
EXTENDS GasSponsor, Totals, SequenceTheorems

-----------------------------------------------------------------------------
(* The invariant                                                           *)

Typed ==
  /\ clock \in 0..MaxClock /\ ledger \in Ledgers /\ durable \in Ledgers
  /\ pc \in [Servers -> Steps] /\ queue \in [Servers -> Seq(Requests)]
  /\ draft \in [Servers -> Ledgers] /\ amount \in [Servers -> Nat]
  /\ balance \in [Wallets -> Nat] /\ \A x \in inFlight : x.amount \in Nat
  /\ charged \in [Days -> Nat] /\ requests \in Nat
  /\ \A s \in Servers : pc[s] # "idle" => queue[s] # << >>

(* One process at most is between taking and removing the lock.            *)
Exclusive ==
  \A s \in Servers : pc[s] \in Critical =>
    lock /\ \A r \in Servers : r # s => pc[r] \notin Critical

(* A ledger accounts for what was reserved on its day, and nothing was     *)
(* reserved on a later one.                                                *)
Accounts(kept, more) ==
  /\ kept.spent <= DailyBudget
  /\ charged[kept.day] + more <= kept.spent
  /\ \A d \in Days : d > kept.day => charged[d] = 0

(* So do the file, what is durable of it, and the ledger being written,    *)
(* which includes the reservation it is written for.                       *)
Covered == Accounts(ledger, 0) /\ Accounts(durable, 0)
Drafted ==
  \A s \in Servers :
    /\ pc[s] \in {"rename", "sync"} => Accounts(draft[s], amount[s])
    /\ pc[s] = "sync" => ledger = draft[s]

SponsorInv == Typed /\ Exclusive /\ Covered /\ Drafted /\ ChargedWithinBudget

-----------------------------------------------------------------------------
(* Types                                                                   *)

LEMMA TodayType ==
  ASSUME clock \in 0..MaxClock
  PROVE  Today \in Days /\ 0 \in Days
<1>1. ASSUME NEW t \in 0..MaxClock, NEW length \in Nat \ {0}
      PROVE  t \div length \in 0..(MaxClock \div length) /\ 0 \in 0..(MaxClock \div length)
  BY SponsorAssumption
<1>2. DayLength \in Nat \ {0}
  BY SponsorAssumption
<1>3. QED
  BY <1>1, <1>2 DEF Today, Days

LEMMA ReadLedgerType ==
  ASSUME Typed
  PROVE  ReadLedger \in Ledgers
BY TodayType DEF Typed, ReadLedger, Ledgers

LEMMA ReservationType ==
  ASSUME Typed, NEW state \in Ledgers, NEW w, NEW a \in Nat
  PROVE  /\ Reservation(state, w, a) \in Ledgers
         /\ Reservation(state, w, a).day = state.day
         /\ Reservation(state, w, a).spent = state.spent + a
<1>1. Kept(state) \in [Wallets -> 0..MaxClock \union {Never}]
  BY DEF Kept, Ledgers
<1>2. [Kept(state) EXCEPT ![w] = clock] \in [Wallets -> 0..MaxClock \union {Never}]
  BY <1>1 DEF Typed
<1> DEFINE entries == [Kept(state) EXCEPT ![w] = clock]
<1>3. Reservation(state, w, a) = [state EXCEPT !.spent = state.spent + a, !.lastReservedAt = entries]
  BY DEF Reservation
<1>4. entries \in [Wallets -> 0..MaxClock \union {Never}]
  BY <1>2
<1> HIDE DEF entries
<1>5. state.spent + a \in Nat
  BY DEF Ledgers
<1>6. QED
  BY <1>3, <1>4, <1>5 DEF Ledgers

(* Appending to a sequence leaves a sequence that is not empty.            *)
LEMMA Appended ==
  ASSUME NEW S, NEW q \in Seq(S), NEW e \in S
  PROVE  Append(q, e) \in Seq(S) /\ Append(q, e) # << >>
<1>1. Append(q, e) \in Seq(S) /\ Len(Append(q, e)) = Len(q) + 1 /\ Len(q) \in Nat
  OBVIOUS
<1>2. QED
  BY <1>1

LEMMA AnsweredType ==
  ASSUME Typed, NEW s \in Servers, Answered(s), queue[s] # << >>
  PROVE  /\ pc' \in [Servers -> Steps] /\ queue' \in [Servers -> Seq(Requests)]
         /\ pc' = [pc EXCEPT ![s] = "idle"]
         /\ \A r \in Servers : pc'[r] # "idle" => queue'[r] # << >>
<1>1. queue[s] \in Seq(Requests) /\ Tail(queue[s]) \in Seq(Requests)
  BY DEF Typed
<1>2. QED
  BY <1>1 DEF Typed, Answered, Goto, Steps

LEMMA ServedType ==
  ASSUME Typed, NEW s \in Servers, queue[s] # << >>
  PROVE  Served(s) \in Requests /\ Served(s).to \in Wallets
<1>1. queue[s] \in Seq(Requests)
  BY DEF Typed
<1>2. Head(queue[s]) \in Requests
  BY <1>1
<1>3. QED
  BY <1>2 DEF Served, Requests

(* A step to another stage of the same request.                            *)
LEMMA GotoType ==
  ASSUME Typed, NEW s \in Servers, NEW step \in Steps, Goto(s, step), UNCHANGED queue,
         queue[s] # << >>
  PROVE  /\ pc' \in [Servers -> Steps] /\ queue' \in [Servers -> Seq(Requests)]
         /\ \A r \in Servers : pc'[r] # "idle" => queue'[r] # << >>
BY DEF Typed, Goto

LEMMA TypedStep == Typed /\ [Next]_vars => Typed'
<1> SUFFICES ASSUME Typed, [Next]_vars
             PROVE  Typed'
  OBVIOUS
<1> USE DEF files, server, chain, bounds
<1>1. CASE UNCHANGED vars
  BY <1>1 DEF vars, Typed
<1>2. CASE Tick
  BY <1>2, SponsorAssumption DEF Tick, Typed
<1>3. CASE SetClockBack
  BY <1>3, SponsorAssumption DEF SetClockBack, Typed
<1>4. ASSUME NEW w \in Wallets, Spend(w)
      PROVE  Typed'
  <2>1. balance' \in [Wallets -> Nat]
    BY <1>4 DEF Spend, Typed
  <2>2. QED
    BY <1>4, <2>1 DEF Spend, Typed
<1>5. ASSUME NEW x \in inFlight, Mine(x)
      PROVE  Typed'
  <2>1. balance' \in [Wallets -> Nat]
    <3> DEFINE more == balance[x.to] + x.amount
    <3>1. balance' = [balance EXCEPT ![x.to] = more] /\ balance \in [Wallets -> Nat]
      BY <1>5 DEF Mine, Typed
    <3>2. x.to \in Wallets => more \in Nat
      BY DEF Typed
    <3> HIDE DEF more
    <3>3. ASSUME NEW w \in Wallets
          PROVE  balance'[w] \in Nat
      BY <3>1, <3>2
    <3>4. QED
      BY <3>1, <3>3
  <2>2. QED
    BY <1>5, <2>1 DEF Mine, Typed
<1>6. ASSUME NEW s \in Servers, NEW w \in Wallets, Request(s, w)
      PROVE  Typed'
  <2> DEFINE r == [id |-> requests, to |-> w]
  <2>1. r \in Requests /\ queue[s] \in Seq(Requests)
    BY DEF Requests, Typed
  <2>2. queue' = [queue EXCEPT ![s] = Append(@, r)]
    BY <1>6 DEF Request
  <2> HIDE DEF r
  <2>3. /\ queue' \in [Servers -> Seq(Requests)]
        /\ \A q \in Servers : pc[q] # "idle" => queue'[q] # << >>
    <3>1. Append(queue[s], r) \in Seq(Requests) /\ Append(queue[s], r) # << >>
      BY <2>1, Appended
    <3>2. QED
      BY <2>2, <3>1 DEF Typed
  <2>4. QED
    BY <1>6, <2>3 DEF Request, Typed
<1>7. ASSUME NEW s \in Servers, ReadBalance(s)
      PROVE  Typed'
  <2>1. queue[s] # << >>
    BY <1>7 DEF ReadBalance
  <2>2. CASE Answered(s) /\ UNCHANGED amount
    BY <1>7, <2>1, <2>2, AnsweredType DEF ReadBalance, Typed
  <2>3. CASE /\ ~(balance[Served(s).to] >= MinBalance) /\ Goto(s, "lock") /\ UNCHANGED queue
             /\ amount' = [amount EXCEPT ![s] = Target - balance[Served(s).to]]
    <3>1. balance[Served(s).to] \in Nat
      BY <2>1, ServedType DEF Typed
    <3>2. Target - balance[Served(s).to] \in Nat
      BY <2>3, <3>1, SponsorAssumption
    <3>3. amount' \in [Servers -> Nat]
      BY <2>3, <3>2 DEF Typed
    <3>4. /\ pc' \in [Servers -> Steps] /\ queue' \in [Servers -> Seq(Requests)]
          /\ \A r \in Servers : pc'[r] # "idle" => queue'[r] # << >>
      BY <2>1, <2>3, GotoType DEF Steps
    <3>5. QED
      BY <1>7, <3>3, <3>4 DEF ReadBalance, Typed
  <2>4. QED
    BY <1>7, <2>2, <2>3 DEF ReadBalance, Refused
<1>8. ASSUME NEW s \in Servers, pc[s] # "idle"
      PROVE  queue[s] # << >>
  BY <1>8 DEF Typed
<1>9. ASSUME NEW s \in Servers, TakeLock(s)
      PROVE  Typed'
  <2>1. queue[s] # << >>
    BY <1>8, <1>9 DEF TakeLock, At
  <2>2. CASE Answered(s)
    BY <1>9, <2>1, <2>2, AnsweredType DEF TakeLock, Typed
  <2>3. CASE Goto(s, "check") /\ UNCHANGED queue
    BY <1>9, <2>1, <2>3, GotoType DEF TakeLock, Typed, Steps, Critical
  <2>4. QED
    BY <1>9, <2>2, <2>3 DEF TakeLock, Refused
<1>10. ASSUME NEW s \in Servers, CheckLedger(s)
       PROVE  Typed'
  <2>1. queue[s] # << >>
    BY <1>8, <1>10 DEF CheckLedger, At
  <2>2. CASE Answered(s) /\ UNCHANGED draft
    BY <1>10, <2>1, <2>2, AnsweredType DEF CheckLedger, Typed
  <2>3. CASE /\ Goto(s, "rename") /\ UNCHANGED queue
             /\ draft' = [draft EXCEPT ![s] = Reservation(ReadLedger, Served(s).to, amount[s])]
    <3>1. Reservation(ReadLedger, Served(s).to, amount[s]) \in Ledgers
      BY ReadLedgerType, ReservationType DEF Typed
    <3>2. draft' \in [Servers -> Ledgers]
      BY <2>3, <3>1 DEF Typed
    <3>3. QED
      BY <1>10, <2>1, <2>3, <3>2, GotoType DEF CheckLedger, Typed, Steps, Critical
  <2>4. QED
    BY <1>10, <2>2, <2>3 DEF CheckLedger, Refused
<1>11. ASSUME NEW s \in Servers, Rename(s)
       PROVE  Typed'
  <2>1. queue[s] # << >>
    BY <1>8, <1>11 DEF Rename, At
  <2>2. QED
    BY <1>11, <2>1, GotoType DEF Rename, Typed, Steps, Critical
<1>12. ASSUME NEW s \in Servers, SyncDirectory(s)
       PROVE  Typed'
  <2>1. queue[s] # << >>
    BY <1>8, <1>12 DEF SyncDirectory, At
  <2>2. charged' \in [Days -> Nat] /\ durable' \in Ledgers
    <3> DEFINE d == draft[s].day
               more == charged[d] + amount[s]
    <3>1. /\ charged' = [charged EXCEPT ![d] = more] /\ charged \in [Days -> Nat]
          /\ durable' = ledger /\ ledger \in Ledgers
      BY <1>12 DEF SyncDirectory, Synchronised, Typed
    <3>2. d \in Days
      BY DEF Typed, Ledgers
    <3>3. more \in Nat
      BY <3>2 DEF Typed
    <3> HIDE DEF d, more
    <3>4. QED
      BY <3>1, <3>2, <3>3
  <2>3. QED
    BY <1>12, <2>1, <2>2, GotoType DEF SyncDirectory, Typed, Steps, Critical
<1>13. ASSUME NEW s \in Servers, RemoveLock(s)
       PROVE  Typed'
  <2>1. queue[s] # << >>
    BY <1>8, <1>13 DEF RemoveLock, At
  <2>2. QED
    BY <1>13, <2>1, GotoType DEF RemoveLock, Typed, Steps
<1>14. ASSUME NEW s \in Servers, Send(s)
       PROVE  Typed'
  <2>1. queue[s] # << >>
    BY <1>8, <1>14 DEF Send, At
  <2>2. TopUp(s).amount \in Nat
    BY DEF TopUp, Typed
  <2>3. \A x \in inFlight' : x.amount \in Nat
    BY <1>14, <2>2 DEF Send, Broadcast, Typed
  <2>4. CASE Answered(s)
    BY <1>14, <2>1, <2>3, <2>4, AnsweredType DEF Send, Typed
  <2>5. CASE Goto(s, "wait") /\ UNCHANGED queue
    BY <1>14, <2>1, <2>3, <2>5, GotoType DEF Send, Typed, Steps
  <2>6. QED
    BY <1>14, <2>4, <2>5 DEF Send, Refused
<1>15. ASSUME NEW s \in Servers, AwaitReceipt(s) \/ AwaitFails(s) \/ WriteFails(s)
       PROVE  Typed'
  <2>1. queue[s] # << >>
    BY <1>8, <1>15 DEF AwaitReceipt, AwaitFails, WriteFails, At
  <2>2. QED
    BY <1>15, <2>1, AnsweredType DEF AwaitReceipt, AwaitFails, WriteFails, Refused, Typed
<1>16. ASSUME NEW s \in Servers, Crash(s)
       PROVE  Typed'
  BY <1>16 DEF Crash, Goto, Typed, Steps
<1>17. CASE PowerLoss
  BY <1>17 DEF PowerLoss, Typed, Steps
<1>18. CASE RemoveStaleLock
  BY <1>18 DEF RemoveStaleLock, Typed
<1>19. QED
  BY <1>1, <1>2, <1>3, <1>4, <1>5, <1>6, <1>7, <1>9, <1>10, <1>11, <1>12, <1>13, <1>14, <1>15,
     <1>16, <1>17, <1>18 DEF Next, Serve

-----------------------------------------------------------------------------
(* The lock                                                                *)

LEMMA ExclusiveStep == Typed /\ Exclusive /\ [Next]_vars => Exclusive'
<1> SUFFICES ASSUME Typed, Exclusive, [Next]_vars
             PROVE  Exclusive'
  OBVIOUS
<1> USE DEF files, server, chain, bounds
<1>1. pc \in [Servers -> Steps]
  BY DEF Typed
(* A step that leaves the lock and takes nobody into the critical section. *)
<1>2. CASE UNCHANGED lock /\ \A s \in Servers : pc'[s] \in Critical => pc[s] \in Critical
  BY <1>2 DEF Exclusive
<1>3. ASSUME NEW s \in Servers, TakeLock(s)
      PROVE  Exclusive'
  <2>1. CASE LockFree
    <3>1. lock' = TRUE /\ pc' = [pc EXCEPT ![s] = "check"] /\ ~lock
      BY <1>3, <2>1 DEF TakeLock, Goto, LockFree
    <3>2. \A r \in Servers : pc[r] \notin Critical
      BY <3>1 DEF Exclusive
    <3>3. QED
      BY <1>1, <3>1, <3>2 DEF Exclusive
  <2>2. CASE ~LockFree
    BY <1>1, <1>2, <1>3, <2>2 DEF TakeLock, Refused, Answered, Goto, Critical
  <2>3. QED
    BY <2>1, <2>2
<1>4. ASSUME NEW s \in Servers, CheckLedger(s) \/ RemoveLock(s)
      PROVE  Exclusive'
  <2>1. pc[s] \in Critical
    BY <1>4 DEF CheckLedger, RemoveLock, At, Critical
  <2>2. \A r \in Servers : r # s => pc'[r] \notin Critical
    BY <1>1, <1>4, <2>1 DEF Exclusive, CheckLedger, RemoveLock, Refused, Answered, Goto
  <2>3. UNCHANGED lock \/ pc'[s] \notin Critical
    BY <1>1, <1>4 DEF CheckLedger, RemoveLock, Refused, Answered, Goto, Critical
  <2>4. lock
    BY <2>1 DEF Exclusive
  <2>5. QED
    BY <2>2, <2>3, <2>4 DEF Exclusive
<1>5. ASSUME NEW s \in Servers, Rename(s) \/ SyncDirectory(s)
      PROVE  Exclusive'
  BY <1>1, <1>2, <1>5 DEF Rename, SyncDirectory, At, Goto, Critical
<1>6. ASSUME NEW s \in Servers,
             ReadBalance(s) \/ Send(s) \/ AwaitReceipt(s) \/ AwaitFails(s) \/ WriteFails(s) \/ Crash(s)
      PROVE  Exclusive'
  BY <1>1, <1>2, <1>6
  DEF ReadBalance, Send, AwaitReceipt, AwaitFails, WriteFails, Crash, Refused, Answered, Goto, Critical
<1>7. CASE PowerLoss
  BY <1>7 DEF PowerLoss, Exclusive, Critical
<1>8. CASE RemoveStaleLock
  BY <1>8 DEF RemoveStaleLock, Exclusive, Critical
<1>9. CASE \/ UNCHANGED vars \/ Tick \/ SetClockBack
           \/ \E w \in Wallets : Spend(w) \/ \E s \in Servers : Request(s, w)
           \/ \E x \in inFlight : Mine(x)
  BY <1>2, <1>9 DEF vars, Tick, SetClockBack, Spend, Request, Mine
<1>10. QED
  BY <1>3, <1>4, <1>5, <1>6, <1>7, <1>8, <1>9 DEF Next, Serve

-----------------------------------------------------------------------------
(* The budget                                                              *)

Budgeted == Covered /\ Drafted /\ ChargedWithinBudget

(* The ledger of a new day starts with nothing spent, and nothing has been *)
(* reserved on that day.                                                   *)
LEMMA ReadLedgerAccounts ==
  ASSUME Typed, Accounts(ledger, 0)
  PROVE  Accounts(ReadLedger, 0)
<1>1. CASE Today > ledger.day
  <2>1. ReadLedger.day = Today /\ ReadLedger.spent = 0
    BY <1>1 DEF ReadLedger, Typed, Ledgers
  <2>2. Today \in Days /\ ledger.day \in Days
    BY TodayType DEF Typed, Ledgers
  <2>3. charged[Today] = 0
    BY <1>1, <2>2 DEF Accounts
  <2>4. \A d \in Days : d > Today => charged[d] = 0
    <3>1. \A d \in Days : d \in Int
      BY DEF Days
    <3>2. QED
      BY <1>1, <2>2, <3>1 DEF Accounts
  <2> HIDE DEF Accounts
  <2>5. QED
    BY <2>1, <2>3, <2>4, SponsorAssumption DEF Accounts
<1>2. CASE ~(Today > ledger.day)
  BY <1>2 DEF ReadLedger
<1>3. QED
  BY <1>1, <1>2

(* A step that leaves ledgers, drafts, amounts and reservations alone, and *)
(* starts no write.                                                        *)
LEMMA BudgetedUnchanged ==
  ASSUME Typed, Budgeted, UNCHANGED <<ledger, durable, draft, charged>>,
         \A s \in Servers :
           /\ pc'[s] \in {"rename", "sync"} => pc'[s] = pc[s] /\ amount'[s] = amount[s]
  PROVE  Budgeted'
BY DEF Budgeted, Covered, Drafted, ChargedWithinBudget, Accounts

LEMMA BudgetedStep == Typed /\ Exclusive /\ Budgeted /\ [Next]_vars => Budgeted'
<1> SUFFICES ASSUME Typed, Exclusive, Budgeted, [Next]_vars
             PROVE  Budgeted'
  OBVIOUS
<1> USE DEF files, server, chain, bounds
<1>1. pc \in [Servers -> Steps] /\ amount \in [Servers -> Nat] /\ draft \in [Servers -> Ledgers]
  BY DEF Typed
<1>2. CASE UNCHANGED vars
  BY <1>2, BudgetedUnchanged DEF vars
<1>3. CASE \/ Tick \/ SetClockBack \/ RemoveStaleLock
           \/ \E w \in Wallets : Spend(w) \/ \E s \in Servers : Request(s, w)
           \/ \E x \in inFlight : Mine(x)
  BY <1>3, BudgetedUnchanged DEF Tick, SetClockBack, RemoveStaleLock, Spend, Request, Mine
<1>4. ASSUME NEW s \in Servers, ReadBalance(s)
      PROVE  Budgeted'
  <2>1. UNCHANGED <<ledger, durable, draft, charged>>
    BY <1>4 DEF ReadBalance
  <2>2. \A r \in Servers : r # s => pc'[r] = pc[r] /\ amount'[r] = amount[r]
    BY <1>1, <1>4 DEF ReadBalance, Refused, Answered, Goto
  <2>3. pc'[s] \in {"idle", "lock"}
    BY <1>1, <1>4 DEF ReadBalance, Refused, Answered, Goto
  <2>4. QED
    BY <2>1, <2>2, <2>3, BudgetedUnchanged
<1>5. ASSUME NEW s \in Servers, TakeLock(s) \/ RemoveLock(s) \/ Send(s) \/ AwaitReceipt(s)
                                \/ AwaitFails(s) \/ WriteFails(s) \/ Crash(s)
      PROVE  Budgeted'
  <2>1. UNCHANGED <<ledger, durable, draft, charged, amount>>
    BY <1>5 DEF TakeLock, RemoveLock, Send, AwaitReceipt, AwaitFails, WriteFails, Crash
  <2>2. \A r \in Servers : r # s => pc'[r] = pc[r]
    BY <1>1, <1>5
    DEF TakeLock, RemoveLock, Send, AwaitReceipt, AwaitFails, WriteFails, Crash, Refused, Answered, Goto
  <2>3. pc'[s] \in {"idle", "check", "send", "wait"}
    BY <1>1, <1>5
    DEF TakeLock, RemoveLock, Send, AwaitReceipt, AwaitFails, WriteFails, Crash, Refused, Answered, Goto
  <2>4. QED
    BY <2>1, <2>2, <2>3, BudgetedUnchanged
<1>6. ASSUME NEW s \in Servers, CheckLedger(s)
      PROVE  Budgeted'
  <2>1. UNCHANGED <<ledger, durable, charged, amount>>
    BY <1>6 DEF CheckLedger
  <2>2. CASE Answered(s) /\ UNCHANGED draft
    BY <1>1, <2>1, <2>2, BudgetedUnchanged DEF Answered, Goto
  <2>3. CASE /\ ~OverBudget(ReadLedger, amount[s])
             /\ Goto(s, "rename")
             /\ draft' = [draft EXCEPT ![s] = Reservation(ReadLedger, Served(s).to, amount[s])]
    <3>1. /\ ReadLedger \in Ledgers
          /\ draft'[s].day = ReadLedger.day /\ draft'[s].spent = ReadLedger.spent + amount[s]
      BY <1>1, <2>3, ReadLedgerType, ReservationType
    <3>2. Accounts(ReadLedger, 0)
      BY ReadLedgerAccounts DEF Budgeted, Covered
    <3>3. /\ ReadLedger.spent \in Nat /\ ReadLedger.day \in Days
          /\ charged[ReadLedger.day] \in Nat /\ amount[s] \in Nat
      BY <1>1, <3>1 DEF Ledgers, Typed
    <3>4. ReadLedger.spent + amount[s] <= DailyBudget
      BY <2>3, <3>3, SponsorAssumption DEF OverBudget
    <3>5. Accounts(draft[s], amount[s])'
      BY <2>1, <3>1, <3>2, <3>3, <3>4 DEF Accounts
    <3>6. \A r \in Servers : r # s => pc'[r] = pc[r] /\ draft'[r] = draft[r]
      BY <1>1, <2>3 DEF Goto
    <3>7. pc'[s] = "rename"
      BY <1>1, <2>3 DEF Goto
    <3>8. Drafted'
      BY <2>1, <3>5, <3>6, <3>7 DEF Budgeted, Drafted, Accounts
    <3>9. QED
      BY <2>1, <3>8 DEF Budgeted, Covered, ChargedWithinBudget, Accounts
  <2>4. QED
    BY <1>6, <2>2, <2>3 DEF CheckLedger, Refused
<1>7. ASSUME NEW s \in Servers, Rename(s)
      PROVE  Budgeted'
  <2>1. /\ pc[s] = "rename" /\ ledger' = draft[s] /\ pc' = [pc EXCEPT ![s] = "sync"]
        /\ UNCHANGED <<durable, draft, amount, charged>>
    BY <1>7 DEF Rename, At, Goto
  <2>2. Accounts(draft[s], amount[s])
    BY <2>1 DEF Budgeted, Drafted
  <2>3. draft[s] \in Ledgers /\ amount[s] \in Nat /\ charged[draft[s].day] \in Nat
    BY <1>1 DEF Typed, Ledgers
  <2>4. Accounts(ledger, 0)' /\ Accounts(draft[s], amount[s])'
    <3>1. draft[s].spent \in Nat
      BY <2>3 DEF Ledgers
    <3>2. QED
      BY <2>1, <2>2, <2>3, <3>1 DEF Accounts
  <2>5. \A r \in Servers : r # s => pc[r] \notin Critical /\ pc'[r] = pc[r]
    BY <1>1, <2>1 DEF Exclusive, Critical
  <2>6. Drafted'
    BY <1>1, <2>1, <2>4, <2>5 DEF Drafted, Critical
  <2>7. QED
    BY <2>1, <2>4, <2>6 DEF Budgeted, Covered, ChargedWithinBudget, Accounts
<1>8. ASSUME NEW s \in Servers, SyncDirectory(s)
      PROVE  Budgeted'
  <2>1. /\ pc[s] = "sync" /\ durable' = ledger /\ pc' = [pc EXCEPT ![s] = "unlock"]
        /\ charged' = [charged EXCEPT ![draft[s].day] = @ + amount[s]]
        /\ UNCHANGED <<ledger, draft, amount>>
    BY <1>8 DEF SyncDirectory, Synchronised, At, Goto
  <2>2. Accounts(ledger, amount[s]) /\ ledger = draft[s]
    BY <2>1 DEF Budgeted, Drafted
  <2>3. /\ ledger.day \in Days /\ ledger.spent \in Nat /\ charged \in [Days -> Nat]
        /\ amount[s] \in Nat
    BY <1>1 DEF Typed, Ledgers
  <2>4. /\ charged'[ledger.day] = charged[ledger.day] + amount[s]
        /\ \A d \in Days : d # ledger.day => charged'[d] = charged[d]
    BY <2>1, <2>2, <2>3
  <2>5. Accounts(ledger, 0)' /\ Accounts(durable, 0)'
    <3>1. \A d \in Days : d \in Int
      BY DEF Days
    <3>2. QED
      BY <2>1, <2>2, <2>3, <2>4, <3>1 DEF Accounts
  <2>6. ChargedWithinBudget'
    BY <2>2, <2>3, <2>4, SponsorAssumption DEF Budgeted, ChargedWithinBudget, Accounts
  <2>7. Drafted'
    <3>1. \A r \in Servers : r # s => pc'[r] \notin Critical
      BY <1>1, <2>1 DEF Exclusive, Critical
    <3>2. pc'[s] = "unlock"
      BY <1>1, <2>1
    <3>3. QED
      BY <3>1, <3>2 DEF Drafted, Critical
  <2>8. QED
    BY <2>5, <2>6, <2>7 DEF Budgeted, Covered
<1>9. CASE PowerLoss
  <2>1. /\ ledger' \in {ledger, durable} /\ durable' = ledger'
        /\ pc' = [s \in Servers |-> "idle"] /\ UNCHANGED charged
    BY <1>9 DEF PowerLoss
  <2>2. QED
    BY <2>1 DEF Budgeted, Covered, Drafted, ChargedWithinBudget, Accounts
<1>10. QED
  BY <1>2, <1>3, <1>4, <1>5, <1>6, <1>7, <1>8, <1>9 DEF Next, Serve

LEMMA InitSponsor == Init => SponsorInv
<1> SUFFICES ASSUME Init
             PROVE  SponsorInv
  OBVIOUS
<1>1. 0 \in Days /\ clock \in 0..MaxClock
  BY TodayType, SponsorAssumption DEF Init
<1>2. NewLedger \in Ledgers /\ NewLedger.day = 0 /\ NewLedger.spent = 0
  BY <1>1 DEF NewLedger, Ledgers
<1>3. Typed
  BY <1>1, <1>2 DEF Init, Typed, Steps
<1>4. Exclusive /\ Drafted
  BY DEF Init, Exclusive, Drafted, Critical
<1>5. Covered /\ ChargedWithinBudget
  BY <1>1, <1>2, SponsorAssumption DEF Init, Covered, Accounts, ChargedWithinBudget
<1>6. QED
  BY <1>3, <1>4, <1>5 DEF SponsorInv

(* What is reserved to be broadcast on one day of the ledger never exceeds *)
(* the daily budget, whatever crashes, loses power or happens to the clock *)
(* and however many processes share the ledger.                            *)
THEOREM BudgetKept == Spec => []ChargedWithinBudget
<1>1. SponsorInv /\ [Next]_vars => SponsorInv'
  BY TypedStep, ExclusiveStep, BudgetedStep DEF SponsorInv, Budgeted
<1>2. SponsorInv => ChargedWithinBudget
  BY DEF SponsorInv
<1>3. QED
  BY <1>1, <1>2, InitSponsor, PTL DEF Spec

-----------------------------------------------------------------------------
(* The cooldown                                                            *)

(* Top-ups that were broadcast or may be: their reservation is durable.    *)
Reserved(s) == pc[s] \in {"unlock", "send", "wait"}
Issued == sent \union {TopUp(s) : s \in {r \in Servers : Reserved(r)}}

(* A ledger prevents a top-up that would follow x too soon: it has an entry *)
(* for the wallet, or x is so long ago that no change of the clock that is *)
(* still to come brings it back into the cooldown.                         *)
Remembers(kept, x) ==
  \/ kept.lastReservedAt[x.to] # Never /\ x.at <= kept.lastReservedAt[x.to]
  \/ clock - x.at >= Cooldown + (MaxRollback - rollbacks)

Apart(x, y) ==
  x.to = y.to /\ x.id # y.id => x.at - y.at >= Cooldown \/ y.at - x.at >= Cooldown

(* Between the check and the synchronisation: the top-up to come.          *)
Prepared(s) ==
  /\ draft[s].lastReservedAt[Served(s).to] # Never
  /\ \A x \in Issued : /\ Remembers(draft[s], x)
                       /\ x.to = Served(s).to => TopUp(s).at - x.at >= Cooldown

CooldownInv ==
  /\ rollbacks \in 0..MaxRollback
  /\ \A x \in Issued : /\ x.to \in Wallets /\ x.at \in Int
                       /\ Remembers(ledger, x) /\ Remembers(durable, x)
  /\ \A x, y \in Issued : Apart(x, y)
  /\ \A s \in Servers : pc[s] \in {"rename", "sync"} => Prepared(s)
  /\ \A s \in Servers : pc[s] = "sync" => ledger = draft[s]

LEMMA DraftType ==
  ASSUME Typed, NEW s \in Servers, pc[s] # "idle"
  PROVE  /\ Served(s) \in Requests /\ Served(s).to \in Wallets
         /\ TopUp(s).to = Served(s).to /\ TopUp(s).id = Served(s).id
         /\ TopUp(s).at = draft[s].lastReservedAt[Served(s).to] /\ TopUp(s).at \in Int
<1>1. queue[s] # << >> /\ draft[s] \in Ledgers
  BY DEF Typed
<1>2. Served(s) \in Requests /\ Served(s).to \in Wallets
  BY <1>1, ServedType
<1>3. draft[s].lastReservedAt[Served(s).to] \in 0..MaxClock \union {Never}
  BY <1>1, <1>2 DEF Ledgers
<1>4. draft[s].lastReservedAt[Served(s).to] \in Int
  BY <1>3, SponsorAssumption DEF Never
<1>5. QED
  BY <1>2, <1>4 DEF TopUp

(* Time passing, or the clock set back, forgets nothing.                   *)
LEMMA Remembered ==
  ASSUME Typed, CooldownInv, NEW kept, NEW x, x.at \in Int, Remembers(kept, x),
         \/ clock' = clock /\ rollbacks' = rollbacks
         \/ clock' = clock + 1 /\ rollbacks' = rollbacks
         \/ clock' = clock - 1 /\ rollbacks' = rollbacks + 1
  PROVE  Remembers(kept, x)'
<1>1. clock \in Int /\ rollbacks \in Int /\ Cooldown \in Int /\ MaxRollback \in Int
  BY SponsorAssumption DEF Typed, CooldownInv
<1>2. QED
  BY <1>1 DEF Remembers

(* A step that issues nothing and changes no ledger.                       *)
LEMMA NothingIssued ==
  ASSUME Typed, CooldownInv, UNCHANGED <<ledger, durable>>, rollbacks' \in 0..MaxRollback,
         \/ clock' = clock /\ rollbacks' = rollbacks
         \/ clock' = clock + 1 /\ rollbacks' = rollbacks
         \/ clock' = clock - 1 /\ rollbacks' = rollbacks + 1,
         Issued' \subseteq Issued,
         \A s \in Servers : pc'[s] \in {"rename", "sync"} =>
           pc'[s] = pc[s] /\ draft'[s] = draft[s] /\ Served(s)' = Served(s) /\ TopUp(s)' = TopUp(s)
  PROVE  CooldownInv'
<1>1. ASSUME NEW x \in Issued'
      PROVE  x.to \in Wallets /\ x.at \in Int /\ Remembers(ledger, x)' /\ Remembers(durable, x)'
  <2>1. x.to \in Wallets /\ x.at \in Int /\ Remembers(ledger, x) /\ Remembers(durable, x)
    BY DEF CooldownInv
  <2>2. PICK l, d : l = ledger /\ d = durable
    OBVIOUS
  <2>3. Remembers(l, x)' /\ Remembers(d, x)'
    BY <2>1, <2>2, Remembered
  <2>4. QED
    BY <2>1, <2>2, <2>3
<1>2. ASSUME NEW s \in Servers, pc'[s] \in {"rename", "sync"}
      PROVE  Prepared(s)' /\ (pc'[s] = "sync" => ledger' = draft'[s])
  <2>1. /\ pc[s] = pc'[s] /\ draft'[s] = draft[s] /\ Served(s)' = Served(s) /\ TopUp(s)' = TopUp(s)
        /\ Prepared(s) /\ (pc[s] = "sync" => ledger = draft[s])
    BY <1>2 DEF CooldownInv
  <2>2. PICK d : d = draft[s]
    OBVIOUS
  <2>3. ASSUME NEW x \in Issued'
        PROVE  Remembers(d, x)'
    <3>1. x.at \in Int /\ Remembers(d, x)
      BY <2>1, <2>2 DEF Prepared, CooldownInv
    <3>2. QED
      BY <3>1, Remembered
  <2>4. QED
    BY <2>1, <2>2, <2>3 DEF Prepared
<1>3. \A x, y \in Issued' : Apart(x, y)
  BY DEF CooldownInv
<1>4. QED
  BY <1>1, <1>2, <1>3 DEF CooldownInv, Apart

(* A process of whose request nothing changes keeps its top-up.            *)
LEMMA SameTopUp ==
  ASSUME NEW s, Head(queue[s])' = Head(queue[s]), draft'[s] = draft[s], amount'[s] = amount[s]
  PROVE  Served(s)' = Served(s) /\ TopUp(s)' = TopUp(s)
BY DEF Served, TopUp

(* A process goes from one place to another, and the others stay.          *)
LEMMA OneMoves ==
  ASSUME Typed, CooldownInv, NEW s \in Servers, pc'[s] \notin {"rename", "sync"},
         UNCHANGED <<ledger, durable, clock, rollbacks, draft>>,
         \A r \in Servers : r # s =>
           pc'[r] = pc[r] /\ (pc[r] # "idle" => Served(r)' = Served(r) /\ TopUp(r)' = TopUp(r)),
         \/ ~Reserved(s)' /\ sent' = sent
         \/ ~Reserved(s)' /\ Reserved(s) /\ sent' \subseteq sent \union {TopUp(s)}
         \/ Reserved(s) /\ TopUp(s)' = TopUp(s) /\ sent' \subseteq sent \union {TopUp(s)}
  PROVE  CooldownInv'
<1>1. \A r \in Servers : r # s /\ Reserved(r)' => Reserved(r) /\ TopUp(r)' = TopUp(r)
  BY DEF Reserved
<1>2. Issued' \subseteq Issued
  <2>1. \A r \in Servers : Reserved(r) => TopUp(r) \in Issued
    BY DEF Issued
  <2>2. sent' \subseteq Issued
    BY <2>1 DEF Issued
  <2>3. ASSUME NEW r \in Servers, Reserved(r)'
        PROVE  TopUp(r)' \in Issued
    BY <1>1, <2>1, <2>3
  <2>4. QED
    BY <2>2, <2>3 DEF Issued
<1>3. rollbacks' \in 0..MaxRollback
  BY DEF CooldownInv
<1>4. QED
  BY <1>2, <1>3, NothingIssued

LEMMA HeadStays ==
  ASSUME NEW S, NEW q \in Seq(S), q # << >>, NEW e \in S
  PROVE  Head(Append(q, e)) = Head(q)
OBVIOUS

(* Requests join the queue behind the one that is served.                  *)
LEMMA HeadKept ==
  ASSUME Typed,
         \/ UNCHANGED vars \/ Tick \/ SetClockBack \/ RemoveStaleLock
         \/ \E w \in Wallets : Spend(w) \/ \E s \in Servers : Request(s, w)
         \/ \E x \in inFlight : Mine(x),
         NEW r \in Servers, pc[r] # "idle"
  PROVE  Head(queue[r])' = Head(queue[r])
<1> USE DEF files, server, chain, bounds
<1>1. queue[r] \in Seq(Requests) /\ queue[r] # << >>
  BY DEF Typed
<1>2. CASE UNCHANGED queue
  BY <1>2
<1>3. ASSUME NEW s \in Servers, NEW w \in Wallets, Request(s, w)
      PROVE  Head(queue[r])' = Head(queue[r])
  <2>1. PICK e : e = [id |-> requests, to |-> w]
    OBVIOUS
  <2>2. e \in Requests /\ queue' = [queue EXCEPT ![s] = Append(@, e)]
    BY <1>3, <2>1 DEF Request, Requests, Typed
  <2>3. queue'[r] = queue[r] \/ queue'[r] = Append(queue[r], e)
    BY <2>2 DEF Typed
  <2>4. QED
    BY <1>1, <2>2, <2>3, HeadStays
<1>4. QED
  BY <1>2, <1>3 DEF vars, Tick, SetClockBack, RemoveStaleLock, Spend, Mine

(* The surroundings, and requests that arrive.                             *)
LEMMA CooldownAround ==
  ASSUME Typed, CooldownInv,
         \/ UNCHANGED vars \/ Tick \/ SetClockBack \/ RemoveStaleLock
         \/ \E w \in Wallets : Spend(w) \/ \E s \in Servers : Request(s, w)
         \/ \E x \in inFlight : Mine(x)
  PROVE  CooldownInv'
<1> USE DEF files, server, chain, bounds
<1>1. /\ UNCHANGED <<ledger, durable, pc, draft, amount, sent>>
      /\ \/ clock' = clock /\ rollbacks' = rollbacks
         \/ clock' = clock + 1 /\ rollbacks' = rollbacks
         \/ clock' = clock - 1 /\ rollbacks' = rollbacks + 1 /\ rollbacks < MaxRollback
  BY DEF vars, Tick, SetClockBack, RemoveStaleLock, Spend, Request, Mine
<1>2. \A r \in Servers : pc[r] # "idle" => Head(queue[r])' = Head(queue[r])
  BY HeadKept
<1>3. \A r \in Servers : pc[r] # "idle" => Served(r)' = Served(r) /\ TopUp(r)' = TopUp(r)
  BY <1>1, <1>2, SameTopUp
<1>4. Issued' \subseteq Issued
  BY <1>1, <1>3 DEF Issued, Reserved
<1>5. rollbacks' \in 0..MaxRollback
  BY <1>1, SponsorAssumption DEF CooldownInv
<1>6. QED
  BY <1>1, <1>3, <1>4, <1>5, NothingIssued

(* The steps before the check and after the reservation.                   *)
LEMMA CooldownElsewhere ==
  ASSUME Typed, CooldownInv, NEW s \in Servers,
         \/ ReadBalance(s) \/ TakeLock(s) \/ RemoveLock(s) \/ Send(s) \/ AwaitReceipt(s)
         \/ AwaitFails(s) \/ WriteFails(s) \/ Crash(s)
         \/ (CheckLedger(s) /\ Answered(s) /\ UNCHANGED draft)
  PROVE  CooldownInv'
<1> USE DEF files, server, chain, bounds
<1>1. pc \in [Servers -> Steps] /\ queue \in [Servers -> Seq(Requests)] /\ amount \in [Servers -> Nat]
  BY DEF Typed
<1>2. UNCHANGED <<ledger, durable, clock, rollbacks, draft>>
  BY DEF ReadBalance, TakeLock, RemoveLock, Send, AwaitReceipt, AwaitFails, WriteFails, Crash, CheckLedger
<1>3. \A r \in Servers : r # s => pc'[r] = pc[r] /\ queue'[r] = queue[r] /\ amount'[r] = amount[r]
  <2>1. CASE ReadBalance(s) \/ TakeLock(s) \/ RemoveLock(s)
    BY <1>1, <2>1 DEF ReadBalance, TakeLock, RemoveLock, Refused, Answered, Goto
  <2>2. CASE Send(s) \/ AwaitReceipt(s) \/ AwaitFails(s) \/ WriteFails(s) \/ Crash(s)
    BY <1>1, <2>2 DEF Send, AwaitReceipt, AwaitFails, WriteFails, Crash, Refused, Answered, Goto
  <2>3. CASE CheckLedger(s) /\ Answered(s)
    <3>1. UNCHANGED amount
      BY <2>3 DEF CheckLedger
    <3>2. QED
      BY <1>1, <2>3, <3>1 DEF Answered, Goto
  <2>4. QED
    BY <2>1, <2>2, <2>3
<1>4. \A r \in Servers : r # s => Served(r)' = Served(r) /\ TopUp(r)' = TopUp(r)
  BY <1>2, <1>3, SameTopUp
<1>5. CASE RemoveLock(s)
  <2>1. pc[s] = "unlock" /\ pc'[s] = "send" /\ UNCHANGED <<queue, amount, sent>>
    BY <1>1, <1>5 DEF RemoveLock, At, Goto
  <2>2. TopUp(s)' = TopUp(s)
    BY <1>2, <2>1, SameTopUp
  <2>3. Reserved(s)
    BY <2>1 DEF Reserved
  <2>4. QED
    BY <1>2, <1>3, <1>4, <2>1, <2>2, <2>3, OneMoves
<1>6. CASE Send(s)
  <2>1. pc[s] = "send" /\ sent' \subseteq sent \union {TopUp(s)} /\ UNCHANGED amount
    BY <1>6 DEF Send, At, Broadcast
  <2>2. Reserved(s)
    BY <2>1 DEF Reserved
  <2>3. CASE pc'[s] = "idle"
    <3>1. ~Reserved(s)'
      BY <2>3 DEF Reserved
    <3>2. QED
      BY <1>2, <1>3, <1>4, <2>1, <2>2, <2>3, <3>1, OneMoves
  <2>4. CASE pc'[s] = "wait" /\ UNCHANGED queue
    <3>1. TopUp(s)' = TopUp(s)
      BY <1>2, <2>1, <2>4, SameTopUp
    <3>2. QED
      BY <1>2, <1>3, <1>4, <2>1, <2>2, <2>4, <3>1, OneMoves
  <2>5. QED
    BY <1>1, <1>6, <2>3, <2>4 DEF Send, Refused, Answered, Goto
<1>7. CASE \/ ReadBalance(s) \/ TakeLock(s) \/ AwaitReceipt(s) \/ AwaitFails(s) \/ WriteFails(s)
           \/ Crash(s) \/ (CheckLedger(s) /\ Answered(s))
  <2>1. pc'[s] \in {"idle", "lock", "check"} /\ UNCHANGED sent
    BY <1>1, <1>7 DEF ReadBalance, TakeLock, AwaitReceipt, AwaitFails, WriteFails, Crash, CheckLedger,
                      Refused, Answered, Goto
  <2>2. ~Reserved(s)'
    BY <2>1 DEF Reserved
  <2>3. QED
    BY <1>2, <1>3, <1>4, <2>1, <2>2, OneMoves
<1>8. QED
  BY <1>5, <1>6, <1>7

(* What the power loss leaves is one of the two ledgers.                   *)
LEMMA CooldownPowerLoss ==
  ASSUME Typed, CooldownInv, PowerLoss
  PROVE  CooldownInv'
<1> USE DEF files, server, chain, bounds
<1>1. /\ ledger' \in {ledger, durable} /\ durable' = ledger' /\ \A s \in Servers : pc'[s] = "idle"
      /\ UNCHANGED <<sent, clock, rollbacks>>
  BY DEF PowerLoss
<1>2. Issued' \subseteq Issued
  BY <1>1 DEF Issued, Reserved
<1>3. ASSUME NEW x \in Issued'
      PROVE  x.to \in Wallets /\ x.at \in Int /\ Remembers(ledger, x)' /\ Remembers(durable, x)'
  BY <1>1, <1>2 DEF CooldownInv, Remembers
<1>4. \A x, y \in Issued' : Apart(x, y)
  BY <1>2 DEF CooldownInv
<1>5. QED
  BY <1>1, <1>3, <1>4 DEF CooldownInv, Apart

LEMMA ReservationEntries ==
  ASSUME Typed, NEW state \in Ledgers, NEW w \in Wallets, NEW a \in Nat
  PROVE  /\ Reservation(state, w, a).lastReservedAt[w] = clock
         /\ \A u \in Wallets : u # w =>
              Reservation(state, w, a).lastReservedAt[u] =
                IF state.lastReservedAt[u] # Never /\ clock - state.lastReservedAt[u] >= Retention
                THEN Never ELSE state.lastReservedAt[u]
<1>1. PICK entries : entries = [Kept(state) EXCEPT ![w] = clock]
  OBVIOUS
<1>2. PICK n : n = state.spent + a
  OBVIOUS
<1>3. Reservation(state, w, a) = [state EXCEPT !.spent = n, !.lastReservedAt = entries]
  BY <1>1, <1>2 DEF Reservation
<1>4. Reservation(state, w, a).lastReservedAt = entries
  BY <1>3 DEF Ledgers
<1>5. QED
  BY <1>1, <1>4 DEF Kept

(* What a ledger prevents, the one with the new reservation prevents too:  *)
(* an entry is dropped only when it is too old to matter.                  *)
LEMMA StillRemembers ==
  ASSUME Typed, CooldownInv, MaxRollback <= Retention - Cooldown, NEW state \in Ledgers,
         NEW w \in Wallets, NEW a \in Nat, ~CoolingDown(state, w),
         NEW x, x.to \in Wallets, x.at \in Int, Remembers(state, x)
  PROVE  /\ Remembers(Reservation(state, w, a), x)
         /\ x.to = w => clock - x.at >= Cooldown
<1>1. /\ clock \in Nat /\ rollbacks \in 0..MaxRollback /\ Cooldown \in Nat /\ Retention \in Nat
      /\ MaxRollback \in Nat /\ Never = -1
  BY SponsorAssumption DEF Typed, CooldownInv, Never
<1>2. PICK last : last = state.lastReservedAt[x.to]
  OBVIOUS
<1>3. PICK next : next = Reservation(state, w, a).lastReservedAt[x.to]
  OBVIOUS
<1>4. last \in Int
  BY <1>1, <1>2 DEF Ledgers
<1>5. (last # Never /\ x.at <= last) \/ clock - x.at >= Cooldown + (MaxRollback - rollbacks)
  BY <1>2 DEF Remembers
<1>6. CASE x.to = w
  <2>1. next = clock
    BY <1>3, <1>6, ReservationEntries
  <2>2. last = Never \/ clock - last >= Cooldown
    BY <1>1, <1>2, <1>4, <1>6 DEF CoolingDown
  <2>3. clock - x.at >= Cooldown
    BY <1>1, <1>4, <1>5, <2>2
  <2>4. next # Never /\ x.at <= next
    BY <1>1, <2>1, <2>3
  <2>5. QED
    BY <1>3, <2>3, <2>4 DEF Remembers
<1>7. CASE x.to # w
  <2>1. next = IF last # Never /\ clock - last >= Retention THEN Never ELSE last
    BY <1>2, <1>3, <1>7, ReservationEntries
  <2>2. (next # Never /\ x.at <= next) \/ clock - x.at >= Cooldown + (MaxRollback - rollbacks)
    BY <1>1, <1>4, <1>5, <2>1
  <2>3. QED
    BY <1>3, <1>7, <2>2 DEF Remembers
<1>8. QED
  BY <1>6, <1>7

LEMMA CooldownCheck ==
  ASSUME Typed, Exclusive, CooldownInv, MaxRollback <= Retention - Cooldown,
         NEW s \in Servers, CheckLedger(s)
  PROVE  CooldownInv'
<1> USE DEF files, server, chain, bounds
<1>1. PICK w, a : w = Served(s).to /\ a = amount[s]
  OBVIOUS
<1>2. PICK d : d = Reservation(ReadLedger, w, a)
  OBVIOUS
<1>3. pc[s] = "check" /\ pc \in [Servers -> Steps] /\ draft \in [Servers -> Ledgers]
  BY DEF CheckLedger, At, Typed
<1>4. w \in Wallets /\ a \in Nat
  BY <1>1, <1>3, DraftType DEF Typed
<1>5. CASE Answered(s) /\ UNCHANGED draft
  BY <1>5, CooldownElsewhere
<1>6. CASE /\ ~CoolingDown(ReadLedger, w) /\ Goto(s, "rename") /\ UNCHANGED queue
           /\ draft' = [draft EXCEPT ![s] = d]
  <2>1. /\ UNCHANGED <<ledger, durable, queue, amount, sent, clock, rollbacks>>
        /\ pc'[s] = "rename" /\ draft'[s] = d
        /\ \A r \in Servers : r # s => pc'[r] = pc[r] /\ draft'[r] = draft[r]
    BY <1>3, <1>6 DEF CheckLedger, Goto
  <2>2. \A r \in Servers : r # s => pc'[r] \notin {"rename", "sync"}
    BY <1>3, <2>1 DEF Exclusive, Critical
  <2>3. \A r \in Servers : r # s => Served(r)' = Served(r) /\ TopUp(r)' = TopUp(r)
    BY <2>1, SameTopUp
  <2>4. Issued' \subseteq Issued
    BY <2>1, <2>3 DEF Issued, Reserved
  <2>5. ReadLedger \in Ledgers /\ ReadLedger.lastReservedAt = ledger.lastReservedAt
    <3>1. ReadLedger \in Ledgers
      BY ReadLedgerType
    <3>2. ReadLedger.lastReservedAt = ledger.lastReservedAt
      BY DEF ReadLedger, Typed, Ledgers
    <3>3. QED
      BY <3>1, <3>2
  <2>6. d.lastReservedAt[w] = clock /\ clock # Never
    BY <1>2, <1>4, <2>5, ReservationEntries DEF Typed, Never
  <2>7. ASSUME NEW x \in Issued
        PROVE  Remembers(d, x) /\ (x.to = w => clock - x.at >= Cooldown)
    <3>1. x.to \in Wallets /\ x.at \in Int /\ Remembers(ledger, x)
      BY <2>7 DEF CooldownInv
    <3>2. Remembers(ReadLedger, x)
      BY <2>5, <3>1 DEF Remembers
    <3>3. QED
      BY <1>2, <1>4, <1>6, <2>5, <3>1, <3>2, StillRemembers
  <2>8. Prepared(s)'
    <3>1. Served(s)' = Served(s)
      BY <2>1 DEF Served
    <3>2. TopUp(s).at' = clock
      BY <1>1, <2>1, <2>6, <3>1 DEF TopUp
    <3>3. \A x \in Issued' : Remembers(d, x)' /\ (x.to = w => clock - x.at >= Cooldown)
      BY <2>1, <2>4, <2>7 DEF Remembers
    <3>4. QED
      BY <1>1, <2>1, <2>6, <3>1, <3>2, <3>3 DEF Prepared
  <2>9. \A x \in Issued' : /\ x.to \in Wallets /\ x.at \in Int
                           /\ Remembers(ledger, x)' /\ Remembers(durable, x)'
    BY <2>1, <2>4 DEF CooldownInv, Remembers
  <2>10. \A x, y \in Issued' : Apart(x, y)
    BY <2>4 DEF CooldownInv
  <2>11. QED
    BY <2>1, <2>2, <2>8, <2>9, <2>10 DEF CooldownInv, Apart
<1>7. QED
  BY <1>1, <1>2, <1>5, <1>6 DEF CheckLedger, Refused

LEMMA CooldownRename ==
  ASSUME Typed, Exclusive, CooldownInv, NEW s \in Servers, Rename(s)
  PROVE  CooldownInv'
<1> USE DEF files, server, chain, bounds
<1>1. /\ pc[s] = "rename" /\ pc' = [pc EXCEPT ![s] = "sync"] /\ ledger' = draft[s]
      /\ UNCHANGED <<durable, queue, draft, amount, sent, clock, rollbacks>>
      /\ pc \in [Servers -> Steps]
  BY DEF Rename, At, Goto, Typed
<1>2. \A r \in Servers : Served(r)' = Served(r) /\ TopUp(r)' = TopUp(r)
  BY <1>1, SameTopUp
<1>3. Issued' \subseteq Issued
  BY <1>1, <1>2 DEF Issued, Reserved
<1>4. Prepared(s)
  BY <1>1 DEF CooldownInv
<1>5. Prepared(s)'
  BY <1>1, <1>2, <1>3, <1>4 DEF Prepared, Remembers
<1>6. \A r \in Servers : r # s => pc'[r] \notin {"rename", "sync"}
  BY <1>1 DEF Exclusive, Critical
<1>7. \A x \in Issued' : /\ x.to \in Wallets /\ x.at \in Int
                         /\ Remembers(ledger, x)' /\ Remembers(durable, x)'
  BY <1>1, <1>3, <1>4 DEF CooldownInv, Prepared, Remembers
<1>8. \A x, y \in Issued' : Apart(x, y)
  BY <1>3 DEF CooldownInv
<1>9. pc'[s] = "sync" /\ ledger' = draft'[s]
  BY <1>1
<1>10. rollbacks' \in 0..MaxRollback
  BY <1>1 DEF CooldownInv
<1>11. QED
  BY <1>5, <1>6, <1>7, <1>8, <1>9, <1>10 DEF CooldownInv, Apart

(* The reservation is durable: the top-up may be broadcast from now on.    *)
LEMMA CooldownSync ==
  ASSUME Typed, Exclusive, CooldownInv, NEW s \in Servers, SyncDirectory(s)
  PROVE  CooldownInv'
<1> USE DEF files, server, chain, bounds
<1>1. /\ pc[s] = "sync" /\ pc' = [pc EXCEPT ![s] = "unlock"] /\ durable' = ledger
      /\ UNCHANGED <<ledger, queue, draft, amount, sent, clock, rollbacks>>
      /\ pc \in [Servers -> Steps]
  BY DEF SyncDirectory, Synchronised, At, Goto, Typed
<1>2. \A r \in Servers : Served(r)' = Served(r) /\ TopUp(r)' = TopUp(r)
  BY <1>1, SameTopUp
<1>3. PICK t : t = TopUp(s)
  OBVIOUS
<1>4. \A x \in Issued' : x \in Issued \/ x = t
  BY <1>1, <1>2, <1>3 DEF Issued, Reserved
<1>5. Prepared(s) /\ ledger = draft[s]
  BY <1>1 DEF CooldownInv
<1>6. t.to \in Wallets /\ t.at \in Int /\ t.to = Served(s).to /\ t.at = ledger.lastReservedAt[t.to]
  BY <1>1, <1>3, <1>5, DraftType
<1>7. Remembers(ledger, t)
  BY <1>5, <1>6 DEF Prepared, Remembers
<1>8. \A x \in Issued' : /\ x.to \in Wallets /\ x.at \in Int
                         /\ Remembers(ledger, x)' /\ Remembers(durable, x)'
  BY <1>1, <1>4, <1>6, <1>7 DEF CooldownInv, Remembers
<1>9. \A x, y \in Issued' : Apart(x, y)
  <2>1. \A x \in Issued : x.to = t.to => t.at - x.at >= Cooldown
    BY <1>3, <1>5, <1>6 DEF Prepared
  <2>2. \A x \in Issued : Apart(x, t) /\ Apart(t, x)
    BY <2>1 DEF Apart
  <2>3. Apart(t, t)
    BY DEF Apart
  <2>4. QED
    BY <1>4, <2>2, <2>3 DEF CooldownInv
<1>10. \A r \in Servers : pc'[r] \notin {"rename", "sync"}
  BY <1>1 DEF Exclusive, Critical
<1>11. rollbacks' \in 0..MaxRollback
  BY <1>1 DEF CooldownInv
<1>12. QED
  BY <1>8, <1>9, <1>10, <1>11 DEF CooldownInv, Apart

LEMMA CooldownStep ==
  ASSUME MaxRollback <= Retention - Cooldown
  PROVE  SponsorInv /\ CooldownInv /\ [Next]_vars => CooldownInv'
<1> SUFFICES ASSUME Typed, Exclusive, CooldownInv, [Next]_vars
             PROVE  CooldownInv'
  BY DEF SponsorInv
<1>1. ASSUME NEW s \in Servers, Rename(s) \/ SyncDirectory(s) \/ CheckLedger(s)
      PROVE  CooldownInv'
  BY <1>1, CooldownRename, CooldownSync, CooldownCheck
<1>2. ASSUME NEW s \in Servers,
             \/ ReadBalance(s) \/ TakeLock(s) \/ RemoveLock(s) \/ Send(s) \/ AwaitReceipt(s)
             \/ AwaitFails(s) \/ WriteFails(s) \/ Crash(s)
      PROVE  CooldownInv'
  BY <1>2, CooldownElsewhere
<1>3. CASE PowerLoss
  BY <1>3, CooldownPowerLoss
<1>4. CASE \/ UNCHANGED vars \/ Tick \/ SetClockBack \/ RemoveStaleLock
           \/ \E w \in Wallets : Spend(w) \/ \E s \in Servers : Request(s, w)
           \/ \E x \in inFlight : Mine(x)
  BY <1>4, CooldownAround
<1>5. QED
  BY <1>1, <1>2, <1>3, <1>4 DEF Next, Serve

LEMMA AlwaysSponsor == Spec => []SponsorInv
<1>1. SponsorInv /\ [Next]_vars => SponsorInv'
  BY TypedStep, ExclusiveStep, BudgetedStep DEF SponsorInv, Budgeted
<1>2. QED
  BY <1>1, InitSponsor, PTL DEF Spec

(* Two top-ups of one wallet are a cooldown apart, whatever crashes, loses *)
(* power or fails between the reservation and the broadcast, and although  *)
(* old entries of the ledger are dropped: if the clock is not set back by  *)
(* more than an entry is kept beyond the cooldown (sponsorBudget.ts).      *)
THEOREM CooldownHolds ==
  ASSUME MaxRollback <= Retention - Cooldown
  PROVE  Spec => []CooldownKept
<1>1. Init => CooldownInv
  <2> SUFFICES ASSUME Init PROVE CooldownInv
    OBVIOUS
  <2>1. Issued = {} /\ \A s \in Servers : pc[s] = "idle"
    BY DEF Init, Issued, Reserved
  <2>2. rollbacks \in 0..MaxRollback
    BY SponsorAssumption DEF Init
  <2>3. QED
    BY <2>1, <2>2 DEF CooldownInv
<1>2. SponsorInv /\ CooldownInv /\ [Next]_vars => CooldownInv'
  BY CooldownStep
<1>3. CooldownInv => CooldownKept
  BY DEF CooldownInv, CooldownKept, Apart, Issued
<1>4. QED
  BY <1>1, <1>2, <1>3, AlwaysSponsor, PTL DEF Spec

-----------------------------------------------------------------------------
(* What was sent is accounted for                                          *)

Payments == [id : Nat, to : Wallets, amount : Nat, day : Days, at : Int]
Amounts == [x \in Payments |-> x.amount]
IssuedOn(d) == {x \in Issued : x.day = d}

(* What is issued on a day of the ledger is no more than was reserved for  *)
(* it. No top-up is of nothing, so that none is of a day after the         *)
(* ledger's, for which nothing is reserved.                                *)
AccountInv ==
  /\ \A s \in Servers : pc[s] # "idle" => amount[s] > 0
  /\ Issued \subseteq Payments /\ IsFiniteSet(Issued) /\ \A x \in Issued : x.amount > 0
  /\ \A d \in Days : Total(Amounts, IssuedOn(d)) <= charged[d]

LEMMA SumIsTotal ==
  ASSUME NEW S \in SUBSET Payments
  PROVE  MapThenSumSet(LAMBDA x : x.amount, S) = Total(Amounts, S)
<1> DEFINE sums(g) == g = [s \in SUBSET S |->
                             IF s = {} THEN 0
                             ELSE LET x == CHOOSE x \in s : TRUE IN x.amount + g[s \ {x}]]
<1>1. MapThenSumSet(LAMBDA x : x.amount, S) = (CHOOSE g : sums(g))[S]
  BY DEF MapThenSumSet, MapThenFoldSet
<1>2. ASSUME NEW g
      PROVE  sums(g) <=> IsTotal(g, Amounts, S)
  <2>1. ASSUME NEW s \in SUBSET S, s # {}
        PROVE  Amounts[Chosen(s)] = Chosen(s).amount
    BY <2>1, ChosenIsElement DEF Amounts
  <2>2. ASSUME NEW s \in SUBSET S
        PROVE  (IF s = {} THEN 0 ELSE LET x == CHOOSE x \in s : TRUE IN x.amount + g[s \ {x}])
                 = IF s = {} THEN 0 ELSE Amounts[Chosen(s)] + g[s \ {Chosen(s)}]
    BY <2>1 DEF Chosen
  <2>3. QED
    BY <2>2 DEF IsTotal
<1>3. (CHOOSE g : sums(g)) = CHOOSE g : IsTotal(g, Amounts, S)
  <2> HIDE DEF sums
  <2>1. QED
    BY <1>2
<1>4. QED
  BY <1>1, <1>3 DEF Total

(* A process at work keeps its top-up while the others take a step.        *)
LEMMA OthersIssue ==
  ASSUME NEW s \in Servers,
         \A r \in Servers : r # s =>
           pc'[r] = pc[r] /\ queue'[r] = queue[r] /\ amount'[r] = amount[r] /\ draft'[r] = draft[r]
  PROVE  \A r \in Servers : r # s /\ Reserved(r)' => Reserved(r) /\ TopUp(r)' = TopUp(r)
BY SameTopUp DEF Reserved

(* Only the synchronisation of the directory issues a top-up.              *)
LEMMA IssuedStep ==
  ASSUME Typed, [Next]_vars
  PROVE  \/ Issued' \subseteq Issued /\ charged' = charged
         \/ \E s \in Servers : SyncDirectory(s) /\ Issued' \subseteq Issued \union {TopUp(s)}
<1> USE DEF files, server, chain, bounds
<1>1. /\ pc \in [Servers -> Steps] /\ queue \in [Servers -> Seq(Requests)]
      /\ amount \in [Servers -> Nat] /\ draft \in [Servers -> Ledgers]
  BY DEF Typed
<1>2. CASE \/ UNCHANGED vars \/ Tick \/ SetClockBack \/ RemoveStaleLock
           \/ \E w \in Wallets : Spend(w) \/ \E s \in Servers : Request(s, w)
           \/ \E x \in inFlight : Mine(x)
  <2>1. UNCHANGED <<pc, draft, amount, sent, charged>>
    BY <1>2 DEF vars, Tick, SetClockBack, RemoveStaleLock, Spend, Request, Mine
  <2>2. ASSUME NEW r \in Servers, pc[r] # "idle"
        PROVE  Head(queue[r])' = Head(queue[r])
    BY <1>2, <2>2, HeadKept
  <2>3. \A r \in Servers : Reserved(r) => TopUp(r)' = TopUp(r)
    BY <2>1, <2>2, SameTopUp DEF Reserved
  <2>4. QED
    BY <2>1, <2>3 DEF Issued, Reserved
<1>3. CASE PowerLoss
  BY <1>3 DEF PowerLoss, Issued, Reserved
<1>4. ASSUME NEW s \in Servers,
             \/ ReadBalance(s) \/ TakeLock(s) \/ CheckLedger(s) \/ Rename(s) \/ AwaitReceipt(s)
             \/ AwaitFails(s) \/ WriteFails(s) \/ Crash(s)
      PROVE  Issued' \subseteq Issued /\ charged' = charged
  <2>1. /\ pc'[s] \in {"idle", "lock", "check", "rename", "sync"}
        /\ UNCHANGED <<sent, charged>>
        /\ \A r \in Servers : r # s =>
             pc'[r] = pc[r] /\ queue'[r] = queue[r] /\ amount'[r] = amount[r] /\ draft'[r] = draft[r]
    <3>1. CASE ReadBalance(s) \/ TakeLock(s)
      BY <1>1, <3>1 DEF ReadBalance, TakeLock, Refused, Answered, Goto
    <3>2. CASE CheckLedger(s)
      BY <1>1, <3>2 DEF CheckLedger, Refused, Answered, Goto
    <3>3. CASE Rename(s) \/ AwaitReceipt(s) \/ AwaitFails(s) \/ WriteFails(s) \/ Crash(s)
      BY <1>1, <3>3 DEF Rename, AwaitReceipt, AwaitFails, WriteFails, Crash, Refused, Answered, Goto
    <3>4. QED
      BY <1>4, <3>1, <3>2, <3>3
  <2>2. ~Reserved(s)'
    BY <2>1 DEF Reserved
  <2>3. \A r \in Servers : Reserved(r)' => Reserved(r) /\ TopUp(r)' = TopUp(r)
    BY <2>1, <2>2, OthersIssue
  <2>4. QED
    BY <2>1, <2>3 DEF Issued
<1>5. ASSUME NEW s \in Servers, RemoveLock(s) \/ Send(s)
      PROVE  Issued' \subseteq Issued /\ charged' = charged
  <2>1. /\ Reserved(s) /\ sent' \subseteq sent \union {TopUp(s)}
        /\ UNCHANGED <<charged, amount, draft>>
        /\ pc'[s] = "idle" \/ UNCHANGED queue
        /\ \A r \in Servers : r # s => pc'[r] = pc[r] /\ queue'[r] = queue[r]
    BY <1>1, <1>5 DEF RemoveLock, Send, Broadcast, At, Refused, Answered, Goto, Reserved
  <2>2. Reserved(s)' => TopUp(s)' = TopUp(s)
    BY <2>1, SameTopUp DEF Reserved
  <2>3. \A r \in Servers : Reserved(r)' => Reserved(r) /\ TopUp(r)' = TopUp(r)
    BY <2>1, <2>2, OthersIssue
  <2>4. QED
    BY <2>1, <2>3 DEF Issued
<1>6. ASSUME NEW s \in Servers, SyncDirectory(s)
      PROVE  Issued' \subseteq Issued \union {TopUp(s)}
  <2>1. UNCHANGED <<sent, queue, amount, draft>> /\ \A r \in Servers : r # s => pc'[r] = pc[r]
    BY <1>1, <1>6 DEF SyncDirectory, Goto
  <2>2. \A r \in Servers : TopUp(r)' = TopUp(r)
    BY <2>1, SameTopUp
  <2>3. QED
    BY <2>1, <2>2 DEF Issued, Reserved
<1>7. QED
  BY <1>2, <1>3, <1>4, <1>5, <1>6 DEF Next, Serve

(* A request at work asks for something: its wallet had less than the      *)
(* minimum.                                                                *)
LEMMA AmountsStep ==
  ASSUME Typed, AccountInv, [Next]_vars
  PROVE  \A s \in Servers : pc'[s] # "idle" => amount'[s] > 0
<1> USE DEF files, server, chain, bounds
<1>1. /\ pc \in [Servers -> Steps] /\ amount \in [Servers -> Nat]
      /\ \A s \in Servers : pc[s] # "idle" => amount[s] > 0
  BY DEF Typed, AccountInv
<1>2. ASSUME NEW s \in Servers, ReadBalance(s), NEW r \in Servers, pc'[r] # "idle"
      PROVE  amount'[r] > 0
  <2>1. CASE r = s
    <3>1. queue[s] # << >> /\ balance \in [Wallets -> Nat]
      BY <1>2 DEF ReadBalance, Typed
    <3>2. Served(s).to \in Wallets
      BY <3>1, ServedType
    <3>3. PICK b : b = balance[Served(s).to]
      OBVIOUS
    <3>4. b \in Nat /\ ~(b >= MinBalance) /\ amount' = [amount EXCEPT ![s] = Target - b]
      BY <1>1, <1>2, <2>1, <3>1, <3>2, <3>3 DEF ReadBalance, Refused, Answered, Goto
    <3>5. QED
      BY <1>1, <2>1, <3>4, SponsorAssumption
  <2>2. CASE r # s
    BY <1>1, <1>2, <2>2 DEF ReadBalance, Refused, Answered, Goto
  <2>3. QED
    BY <2>1, <2>2
<1>3. ASSUME NEW s \in Servers,
             \/ TakeLock(s) \/ CheckLedger(s) \/ Rename(s) \/ SyncDirectory(s) \/ RemoveLock(s)
             \/ Send(s) \/ AwaitReceipt(s) \/ AwaitFails(s) \/ WriteFails(s) \/ Crash(s)
      PROVE  amount' = amount /\ \A r \in Servers : pc'[r] # "idle" => pc[r] # "idle"
  <2>1. amount' = amount /\ (pc[s] # "idle" \/ pc'[s] = "idle") /\ \A r \in Servers : r # s => pc'[r] = pc[r]
    <3>1. CASE TakeLock(s) \/ CheckLedger(s) \/ Rename(s)
      BY <1>1, <3>1 DEF TakeLock, CheckLedger, Rename, At, Refused, Answered, Goto
    <3>2. CASE SyncDirectory(s) \/ RemoveLock(s) \/ Send(s)
      BY <1>1, <3>2 DEF SyncDirectory, RemoveLock, Send, At, Refused, Answered, Goto
    <3>3. CASE AwaitReceipt(s) \/ AwaitFails(s) \/ WriteFails(s) \/ Crash(s)
      BY <1>1, <3>3 DEF AwaitReceipt, AwaitFails, WriteFails, Crash, At, Refused, Answered, Goto
    <3>4. QED
      BY <1>3, <3>1, <3>2, <3>3
  <2>2. QED
    BY <2>1
<1>4. CASE PowerLoss
  BY <1>4 DEF PowerLoss
<1>5. CASE \/ UNCHANGED vars \/ Tick \/ SetClockBack \/ RemoveStaleLock
           \/ \E w \in Wallets : Spend(w) \/ \E s \in Servers : Request(s, w)
           \/ \E x \in inFlight : Mine(x)
  BY <1>1, <1>5 DEF vars, Tick, SetClockBack, RemoveStaleLock, Spend, Request, Mine
<1>6. QED
  BY <1>1, <1>2, <1>3, <1>4, <1>5 DEF Next, Serve

(* The top-up that a process reserves.                                     *)
LEMMA PaymentType ==
  ASSUME Typed, AccountInv, NEW s \in Servers, pc[s] # "idle"
  PROVE  /\ TopUp(s) \in Payments /\ TopUp(s).amount = amount[s] /\ amount[s] > 0
         /\ TopUp(s).day = draft[s].day /\ draft[s].day \in Days
<1>1. /\ Served(s).id \in Nat /\ Served(s).to \in Wallets
      /\ draft[s].lastReservedAt[Served(s).to] \in Int
  BY DraftType DEF Requests
<1>2. amount[s] \in Nat /\ amount[s] > 0 /\ draft[s].day \in Days
  BY DEF Typed, AccountInv, Ledgers
<1>3. QED
  BY <1>1, <1>2 DEF TopUp, Payments

LEMMA AccountStep == Typed /\ AccountInv /\ [Next]_vars => AccountInv'
<1> SUFFICES ASSUME Typed, AccountInv, [Next]_vars
             PROVE  AccountInv'
  OBVIOUS
<1>1. \A s \in Servers : pc'[s] # "idle" => amount'[s] > 0
  BY AmountsStep
<1>2. /\ Issued \subseteq Payments /\ IsFiniteSet(Issued) /\ \A x \in Issued : x.amount > 0
      /\ \A d \in Days : Total(Amounts, IssuedOn(d)) <= charged[d]
      /\ charged \in [Days -> Nat]
  BY DEF AccountInv, Typed
<1>3. \A x \in Payments : Amounts[x] = x.amount /\ Amounts[x] \in Nat
  BY DEF Amounts, Payments
<1>4. CASE Issued' \subseteq Issued /\ charged' = charged
  <2>1. IsFiniteSet(Issued')
    BY <1>2, <1>4, FS_Subset
  <2>2. ASSUME NEW d \in Days
        PROVE  Total(Amounts, IssuedOn(d)') <= charged'[d]
    <3>1. PICK S, T : S = IssuedOn(d) /\ T = IssuedOn(d)'
      OBVIOUS
    <3>2. T \in SUBSET S /\ S \subseteq Issued /\ \A x \in S : Amounts[x] \in Nat
      BY <1>2, <1>3, <1>4, <3>1 DEF IssuedOn
    <3>3. IsFiniteSet(S) /\ IsFiniteSet(T) /\ \A x \in T : Amounts[x] \in Nat
      BY <1>2, <3>2, FS_Subset
    <3>4. Total(Amounts, T) <= Total(Amounts, S)
      BY <3>2, <3>3, TotalSubset
    <3>5. Total(Amounts, T) \in Nat /\ Total(Amounts, S) \in Nat
      BY <3>2, <3>3, TotalNat
    <3>6. Total(Amounts, S) <= charged[d] /\ charged[d] \in Nat
      BY <1>2, <3>1
    <3>7. QED
      BY <1>4, <3>1, <3>4, <3>5, <3>6
  <2>3. QED
    BY <1>1, <1>2, <1>4, <2>1, <2>2 DEF AccountInv
<1>5. ASSUME NEW s \in Servers, SyncDirectory(s), Issued' \subseteq Issued \union {TopUp(s)}
      PROVE  AccountInv'
  <2>1. PICK t : t = TopUp(s)
    OBVIOUS
  <2>2. pc[s] # "idle" /\ charged' = [charged EXCEPT ![draft[s].day] = @ + amount[s]]
    BY <1>5 DEF SyncDirectory, At
  <2>3. /\ t \in Payments /\ t.amount = amount[s] /\ t.amount > 0
        /\ t.day = draft[s].day /\ t.day \in Days /\ t.amount \in Nat
    BY <2>1, <2>2, PaymentType DEF Payments
  <2>4. Issued' \subseteq Issued \union {t}
    BY <1>5, <2>1
  <2>5. IsFiniteSet(Issued \union {t}) /\ IsFiniteSet(Issued')
    <3>1. IsFiniteSet(Issued \union {t})
      BY <1>2, FS_AddElement
    <3>2. QED
      BY <2>4, <3>1, FS_Subset
  <2>6. ASSUME NEW d \in Days
        PROVE  Total(Amounts, IssuedOn(d)') <= charged'[d]
    <3>1. PICK S, T : S = IssuedOn(d) /\ T = IssuedOn(d)'
      OBVIOUS
    <3>2. S \subseteq Issued /\ T \subseteq S \union {t} /\ (t.day # d => T \subseteq S)
      BY <2>4, <3>1 DEF IssuedOn
    <3>3. IsFiniteSet(S) /\ \A x \in S \union {t} : Amounts[x] \in Nat
      BY <1>2, <1>3, <2>3, <3>2, FS_Subset
    <3>4. Total(Amounts, S) <= charged[d] /\ charged[d] \in Nat /\ Total(Amounts, S) \in Nat
      <4>1. Total(Amounts, S) \in Nat
        BY <3>3, TotalNat
      <4>2. QED
        BY <1>2, <3>1, <4>1
    <3>5. charged'[d] = IF d = t.day THEN charged[d] + t.amount ELSE charged[d]
      BY <1>2, <2>2, <2>3
    <3>6. IsFiniteSet(T) /\ \A x \in T : Amounts[x] \in Nat
      <4>1. IsFiniteSet(S \union {t})
        BY <3>3, FS_AddElement
      <4>2. IsFiniteSet(T)
        BY <3>2, <4>1, FS_Subset
      <4>3. QED
        BY <3>2, <3>3, <4>2
    <3>7. Total(Amounts, T) \in Nat
      BY <3>6, TotalNat
    <3>8. CASE T \subseteq S
      <4>1. Total(Amounts, T) <= Total(Amounts, S)
        BY <3>3, <3>8, TotalSubset
      <4>2. QED
        BY <2>3, <3>1, <3>4, <3>5, <3>7, <4>1
    <3>9. CASE ~(T \subseteq S)
      <4>1. t.day = d /\ t \notin S
        BY <3>2, <3>9
      <4>2. IsFiniteSet(S \union {t}) /\ T \in SUBSET (S \union {t})
        BY <3>2, <3>3, FS_AddElement
      <4>3. Total(Amounts, T) <= Total(Amounts, S \union {t})
        BY <3>3, <4>2, TotalSubset
      <4>4. Total(Amounts, S \union {t}) = Amounts[t] + Total(Amounts, S)
        BY <3>3, <4>1, TotalAdd
      <4>5. Amounts[t] = t.amount
        BY <1>3, <2>3
      <4>6. QED
        BY <2>3, <3>1, <3>4, <3>5, <3>7, <4>1, <4>3, <4>4, <4>5
    <3>10. QED
      BY <3>8, <3>9
  <2>7. Issued' \subseteq Payments /\ \A x \in Issued' : x.amount > 0
    BY <1>2, <2>3, <2>4
  <2>8. QED
    BY <1>1, <2>5, <2>6, <2>7 DEF AccountInv
<1>6. QED
  BY <1>4, <1>5, IssuedStep

LEMMA IssuedIsAccounted ==
  ASSUME Typed, AccountInv, NEW kept \in Ledgers, Accounts(kept, 0)
  PROVE  /\ \A x \in sent : x.day <= kept.day
         /\ MapThenSumSet(LAMBDA x : x.amount, {x \in sent : x.day = kept.day}) <= kept.spent
<1>1. /\ Issued \subseteq Payments /\ IsFiniteSet(Issued) /\ \A x \in Issued : x.amount > 0
      /\ \A d \in Days : Total(Amounts, IssuedOn(d)) <= charged[d]
      /\ charged \in [Days -> Nat] /\ sent \subseteq Issued
  BY DEF AccountInv, Typed, Issued
<1>2. \A x \in Payments : Amounts[x] = x.amount /\ Amounts[x] \in Nat /\ x.day \in Days
  BY DEF Amounts, Payments
<1>3. ASSUME NEW d
      PROVE  /\ IsFiniteSet(IssuedOn(d)) /\ \A x \in IssuedOn(d) : Amounts[x] \in Nat
             /\ Total(Amounts, IssuedOn(d)) \in Nat
             /\ \A x \in IssuedOn(d) : Amounts[x] <= Total(Amounts, IssuedOn(d))
  <2>1. PICK S : S = IssuedOn(d)
    OBVIOUS
  <2>2. S \subseteq Issued /\ \A x \in S : Amounts[x] \in Nat
    BY <1>1, <1>2, <2>1 DEF IssuedOn
  <2>3. IsFiniteSet(S)
    BY <1>1, <2>2, FS_Subset
  <2>4. Total(Amounts, S) \in Nat /\ \A x \in S : Amounts[x] <= Total(Amounts, S)
    BY <2>2, <2>3, TotalNat
  <2>5. QED
    BY <2>1, <2>2, <2>3, <2>4
<1>4. /\ kept.day \in Days /\ kept.spent \in Nat /\ charged[kept.day] <= kept.spent
      /\ \A d \in Days : d > kept.day => charged[d] = 0
  <2>1. kept.day \in Days /\ kept.spent \in Nat
    BY DEF Ledgers
  <2>2. charged[kept.day] \in Nat
    BY <1>1, <2>1
  <2>3. QED
    BY <2>1, <2>2 DEF Accounts
<1>5. \A d \in Days : d \in Int
  BY DEF Days
<1>6. ASSUME NEW x \in sent, ~(x.day <= kept.day)
      PROVE  FALSE
  <2>1. x \in Issued /\ x \in Payments /\ x.amount > 0 /\ x.day \in Days /\ x \in IssuedOn(x.day)
    BY <1>1, <1>2 DEF IssuedOn
  <2>2. charged[x.day] = 0
    BY <1>4, <1>5, <1>6, <2>1
  <2>3. Total(Amounts, IssuedOn(x.day)) <= 0
    BY <1>1, <2>1, <2>2
  <2>4. x.amount <= Total(Amounts, IssuedOn(x.day)) /\ x.amount \in Nat
    BY <1>2, <1>3, <2>1
  <2>5. Total(Amounts, IssuedOn(x.day)) \in Nat
    BY <1>3
  <2>6. QED
    BY <2>1, <2>3, <2>4, <2>5
<1>7. MapThenSumSet(LAMBDA x : x.amount, {x \in sent : x.day = kept.day}) <= kept.spent
  <2>1. PICK T, S : T = {x \in sent : x.day = kept.day} /\ S = IssuedOn(kept.day)
    OBVIOUS
  <2>2. T \in SUBSET S /\ T \in SUBSET Payments
    BY <1>1, <2>1 DEF IssuedOn
  <2>3. MapThenSumSet(LAMBDA x : x.amount, T) = Total(Amounts, T)
    BY <2>2, SumIsTotal
  <2>4. IsFiniteSet(S) /\ \A x \in S : Amounts[x] \in Nat
    BY <1>3, <2>1
  <2>5. Total(Amounts, T) <= Total(Amounts, S) /\ Total(Amounts, S) \in Nat
    BY <2>2, <2>4, TotalSubset, TotalNat
  <2>6. IsFiniteSet(T) /\ \A x \in T : Amounts[x] \in Nat
    BY <2>2, <2>4, FS_Subset
  <2>7. Total(Amounts, T) \in Nat
    BY <2>6, TotalNat
  <2>8. Total(Amounts, S) <= charged[kept.day] /\ charged[kept.day] \in Nat
    BY <1>1, <1>4, <2>1
  <2>9. Total(Amounts, T) <= kept.spent
    BY <1>4, <2>5, <2>7, <2>8
  <2>10. QED
    BY <2>1, <2>3, <2>9
<1>8. QED
  BY <1>6, <1>7

(* "Persist before broadcast": whichever of the two ledgers a loss of      *)
(* power leaves, it accounts for everything that was sent, so that no      *)
(* restart makes the same budget available again (sponsorBudget.ts).       *)
THEOREM SentAccounted == Spec => []SentIsAccounted
<1>1. Init => AccountInv
  <2> SUFFICES ASSUME Init PROVE AccountInv
    OBVIOUS
  <2>1. Issued = {} /\ \A s \in Servers : pc[s] = "idle"
    BY DEF Init, Issued, Reserved
  <2>2. IsFiniteSet(Issued) /\ \A d \in Days : IssuedOn(d) = {}
    BY <2>1, FS_EmptySet DEF IssuedOn
  <2>3. ASSUME NEW d \in Days
        PROVE  Total(Amounts, IssuedOn(d)) <= charged[d]
    <3>1. Total(Amounts, {}) = 0
      BY TotalEmpty
    <3>2. charged[d] = 0 /\ IssuedOn(d) = {}
      BY <2>2 DEF Init
    <3>3. QED
      BY <3>1, <3>2
  <2>4. QED
    BY <2>1, <2>2, <2>3 DEF AccountInv
<1>2. SponsorInv /\ AccountInv /\ [Next]_vars => AccountInv'
  BY AccountStep DEF SponsorInv
<1>3. SponsorInv /\ AccountInv => SentIsAccounted
  <2> SUFFICES ASSUME Typed, AccountInv, Covered, NEW kept \in {ledger, durable}
               PROVE  /\ \A x \in sent : x.day <= kept.day
                      /\ MapThenSumSet(LAMBDA x : x.amount, {x \in sent : x.day = kept.day})
                           <= kept.spent
    BY DEF SponsorInv, SentIsAccounted
  <2>1. kept \in Ledgers /\ Accounts(kept, 0)
    BY DEF Typed, Covered
  <2>2. QED
    BY <2>1, IssuedIsAccounted
<1>4. QED
  BY <1>1, <1>2, <1>3, AlwaysSponsor, PTL DEF Spec

-----------------------------------------------------------------------------
(* The type of the sponsor                                                 *)

(* From the check on, a process's draft dates the top-up that it prepares. *)
Drawn == {"rename", "sync", "unlock", "send", "wait"}
Entered(s) == draft[s].lastReservedAt[Served(s).to] # Never

SponsorTypes ==
  /\ lock \in BOOLEAN /\ amount \in [Servers -> 0..Target]
  /\ inFlight \subseteq sent /\ sent \subseteq TopUps
  /\ \A s \in Servers : pc[s] \in Drawn => Entered(s)

LEMMA DrawnTopUp ==
  ASSUME Typed, NEW s \in Servers, pc[s] \in Drawn, Entered(s)
  PROVE  TopUp(s) \in TopUps
<1>1. pc[s] # "idle" /\ queue[s] # << >>
  BY DEF Drawn, Typed
<1>2. Served(s).id \in Nat /\ Served(s).to \in Wallets
  BY <1>1, ServedType DEF Requests
<1>3. draft[s] \in Ledgers /\ amount[s] \in Nat
  BY DEF Typed
<1>4. draft[s].day \in Days /\ draft[s].lastReservedAt[Served(s).to] \in 0..MaxClock
  BY <1>2, <1>3 DEF Ledgers, Entered
<1>5. QED
  BY <1>2, <1>3, <1>4 DEF TopUp, TopUps

LEMMA EnteredStep ==
  ASSUME Typed, SponsorTypes, [Next]_vars
  PROVE  \A s \in Servers : pc'[s] \in Drawn => Entered(s)'
<1> USE DEF files, server, chain, bounds
<1>1. /\ pc \in [Servers -> Steps] /\ queue \in [Servers -> Seq(Requests)]
      /\ draft \in [Servers -> Ledgers] /\ amount \in [Servers -> Nat]
      /\ \A s \in Servers : pc[s] \in Drawn => Entered(s)
  BY DEF Typed, SponsorTypes
<1>2. ASSUME NEW r \in Servers, Head(queue[r])' = Head(queue[r]), draft'[r] = draft[r], Entered(r)
      PROVE  Entered(r)'
  BY <1>2 DEF Entered, Served
<1>3. CASE \/ UNCHANGED vars \/ Tick \/ SetClockBack \/ RemoveStaleLock
           \/ \E w \in Wallets : Spend(w) \/ \E s \in Servers : Request(s, w)
           \/ \E x \in inFlight : Mine(x)
  <2>1. UNCHANGED <<pc, draft>>
    BY <1>3 DEF vars, Tick, SetClockBack, RemoveStaleLock, Spend, Request, Mine
  <2>2. \A r \in Servers : pc[r] # "idle" => Head(queue[r])' = Head(queue[r])
    BY <1>3, HeadKept
  <2>3. QED
    BY <1>1, <1>2, <2>1, <2>2 DEF Drawn
<1>4. CASE PowerLoss
  BY <1>4 DEF PowerLoss, Drawn
<1>5. ASSUME NEW s \in Servers, Serve(s) \/ WriteFails(s) \/ AwaitFails(s) \/ Crash(s)
      PROVE  \A r \in Servers : pc'[r] \in Drawn => Entered(r)'
  <2>1. ASSUME NEW r \in Servers, r # s
        PROVE  pc'[r] = pc[r] /\ queue'[r] = queue[r] /\ draft'[r] = draft[r]
    <3>1. CASE ReadBalance(s) \/ TakeLock(s)
      BY <1>1, <2>1, <3>1 DEF ReadBalance, TakeLock, Refused, Answered, Goto
    <3>2. CASE CheckLedger(s)
      BY <1>1, <2>1, <3>2 DEF CheckLedger, Refused, Answered, Goto
    <3>3. CASE Rename(s) \/ SyncDirectory(s) \/ RemoveLock(s) \/ Send(s)
      BY <1>1, <2>1, <3>3 DEF Rename, SyncDirectory, RemoveLock, Send, Refused, Answered, Goto
    <3>4. CASE AwaitReceipt(s) \/ WriteFails(s) \/ AwaitFails(s) \/ Crash(s)
      BY <1>1, <2>1, <3>4 DEF AwaitReceipt, WriteFails, AwaitFails, Crash, Refused, Answered, Goto
    <3>5. QED
      BY <1>5, <3>1, <3>2, <3>3, <3>4 DEF Serve
  <2>2. ASSUME pc'[s] \in Drawn
        PROVE  Entered(s)'
    <3>1. CASE ReadBalance(s) \/ TakeLock(s)
      BY <1>1, <2>2, <3>1 DEF ReadBalance, TakeLock, Refused, Answered, Goto, Drawn
    <3>2. CASE CheckLedger(s)
      <4>1. PICK w, state, a : w = Served(s).to /\ state = ReadLedger /\ a = amount[s]
        OBVIOUS
      <4>2. queue'[s] = queue[s] /\ draft'[s] = Reservation(state, w, a)
        BY <1>1, <2>2, <3>2, <4>1 DEF CheckLedger, Refused, Answered, Goto, Drawn
      <4>3. queue[s] # << >>
        BY <3>2 DEF CheckLedger, At, Typed
      <4>4. w \in Wallets /\ state \in Ledgers /\ a \in Nat
        BY <1>1, <4>1, <4>3, ServedType, ReadLedgerType
      <4>5. draft'[s].lastReservedAt[w] = clock
        BY <4>2, <4>4, ReservationEntries
      <4>6. clock # Never
        BY DEF Typed, Never
      <4>7. Served(s)' = Served(s)
        BY <4>2 DEF Served
      <4>8. QED
        BY <4>1, <4>5, <4>6, <4>7 DEF Entered
    <3>3. CASE Rename(s) \/ SyncDirectory(s) \/ RemoveLock(s) \/ Send(s)
      <4>1. pc[s] \in Drawn /\ queue'[s] = queue[s] /\ draft'[s] = draft[s]
        BY <1>1, <2>2, <3>3 DEF Rename, SyncDirectory, RemoveLock, Send, At, Refused, Answered,
                                Goto, Drawn
      <4>2. QED
        BY <1>1, <1>2, <4>1
    <3>4. CASE AwaitReceipt(s) \/ WriteFails(s) \/ AwaitFails(s) \/ Crash(s)
      BY <1>1, <2>2, <3>4 DEF AwaitReceipt, WriteFails, AwaitFails, Crash, Refused, Answered,
                              Goto, Drawn
    <3>5. QED
      BY <1>5, <3>1, <3>2, <3>3, <3>4 DEF Serve
  <2>3. QED
    BY <1>1, <1>2, <2>1, <2>2
<1>6. QED
  BY <1>3, <1>4, <1>5 DEF Next

LEMMA SponsorTypesStep ==
  ASSUME Typed, SponsorTypes, [Next]_vars
  PROVE  SponsorTypes'
<1> USE DEF files, server, chain, bounds
<1>1. /\ lock \in BOOLEAN /\ amount \in [Servers -> 0..Target]
      /\ inFlight \subseteq sent /\ sent \subseteq TopUps
      /\ \A s \in Servers : pc[s] \in Drawn => Entered(s)
  BY DEF SponsorTypes
<1>2. SUFFICES /\ lock' \in BOOLEAN /\ amount' \in [Servers -> 0..Target]
               /\ inFlight' \subseteq sent' /\ sent' \subseteq TopUps
  BY EnteredStep DEF SponsorTypes
<1>3. CASE \/ UNCHANGED vars \/ Tick \/ SetClockBack \/ RemoveStaleLock \/ PowerLoss
           \/ \E w \in Wallets : Spend(w) \/ \E s \in Servers : Request(s, w)
           \/ \E x \in inFlight : Mine(x)
  BY <1>1, <1>3 DEF vars, Tick, SetClockBack, RemoveStaleLock, PowerLoss, Spend, Request, Mine
<1>4. ASSUME NEW s \in Servers, ReadBalance(s)
      PROVE  amount' \in [Servers -> 0..Target]
  <2>1. queue[s] # << >>
    BY <1>4 DEF ReadBalance
  <2>2. Served(s).to \in Wallets /\ balance \in [Wallets -> Nat]
    BY <2>1, ServedType DEF Typed
  <2>3. PICK b : b = balance[Served(s).to]
    OBVIOUS
  <2>4. b \in Nat /\ (amount' = amount \/ (~(b >= MinBalance) /\ amount' = [amount EXCEPT ![s] = Target - b]))
    BY <1>4, <2>2, <2>3 DEF ReadBalance
  <2>5. QED
    BY <1>1, <2>4, SponsorAssumption
<1>5. ASSUME NEW s \in Servers, Send(s)
      PROVE  inFlight' \subseteq sent' /\ sent' \subseteq TopUps
  <2>1. pc[s] \in Drawn
    BY <1>5 DEF Send, At, Drawn
  <2>2. TopUp(s) \in TopUps
    BY <1>1, <2>1, DrawnTopUp
  <2>3. Broadcast(s) \/ UNCHANGED <<inFlight, sent>>
    BY <1>5 DEF Send
  <2>4. QED
    BY <1>1, <2>2, <2>3 DEF Broadcast
<1>6. ASSUME NEW s \in Servers,
             \/ Serve(s) /\ ~ReadBalance(s) /\ ~Send(s)
             \/ WriteFails(s) \/ AwaitFails(s) \/ Crash(s)
      PROVE  lock' \in BOOLEAN /\ UNCHANGED <<amount, inFlight, sent>>
  BY <1>1, <1>6 DEF Serve, TakeLock, CheckLedger, Rename, SyncDirectory, RemoveLock, AwaitReceipt,
                    WriteFails, AwaitFails, Crash
<1>7. ASSUME NEW s \in Servers
      PROVE  /\ ReadBalance(s) => UNCHANGED <<lock, inFlight, sent>>
             /\ Send(s) => UNCHANGED <<lock, amount>>
  BY DEF ReadBalance, Send
<1>8. QED
  BY <1>1, <1>3, <1>4, <1>5, <1>6, <1>7 DEF Next

(* The type of the sponsor; among it, that a top-up is never more than the *)
(* target and carries the time at which it was reserved, and that nothing  *)
(* is served that nobody asked for (sponsorServer.ts).                     *)
THEOREM SponsorTyped == Spec => []TypeOK
<1>1. Init => SponsorTypes
  <2> SUFFICES ASSUME Init PROVE SponsorTypes
    OBVIOUS
  <2>1. lock \in BOOLEAN /\ inFlight = {} /\ sent = {} /\ \A s \in Servers : pc[s] \notin Drawn
    BY DEF Init, Drawn
  <2>2. amount = [s \in Servers |-> 0] /\ 0 \in 0..Target
    BY SponsorAssumption DEF Init
  <2>3. QED
    BY <2>1, <2>2 DEF SponsorTypes
<1>2. SponsorInv /\ SponsorTypes => TypeOK
  BY DEF SponsorInv, Typed, SponsorTypes, TypeOK
<1>3. SponsorInv /\ SponsorTypes /\ [Next]_vars => SponsorTypes'
  BY SponsorTypesStep DEF SponsorInv
<1>4. QED
  BY <1>1, <1>2, <1>3, AlwaysSponsor, PTL DEF Spec
============================================================================
