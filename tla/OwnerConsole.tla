------------------------------ MODULE OwnerConsole ------------------------------
(***************************************************************************)
(* The owner's browser: signing in, the mandate that becomes a treasury,   *)
(* the launch in three transactions, the dashboard that discovers the      *)
(* treasuries of the session's account, and its owner actions. Every       *)
(* action first asks the sponsor for gas (SponsorAuthorization).           *)
(* Pages are left while their calls are under way; calls fail; the page is *)
(* loaded again; transactions stay behind; ownership changes elsewhere.    *)
(*                                                                         *)
(* What a view shows of a treasury besides its address is left out: before *)
(* it acts, the console reads the chain again. ownerExit, which moves      *)
(* assets only, is left to DemoLifecycle.                                  *)
(***************************************************************************)
EXTENDS FiniteSets, MandateForm

CONSTANTS
  Accounts,   \* wallets of owners
  Treasuries, \* treasuries that exist or may be created
  Legacy,     \* those of an earlier factory
  Creator,    \* who created the treasuries that exist at first
  InitialRows, \* what the table of instances holds at first
  Drafts,     \* what the mandate form may hold
  Flows,      \* the owner actions that may be under way at once
  MaxStarts,      \* bound on the owner actions
  MaxDiscoveries, \* bound on discoveries under way at once
  MaxMoves,       \* bound on the pages left, loaded again, and on logging out
  MaxTransfers    \* bound on the changes of ownership

ASSUME ConsoleAssumption ==
  /\ Legacy \subseteq Treasuries
  /\ Creator \in [Treasuries -> Accounts \union {None}] /\ \A t \in Legacy : Creator[t] # None
  /\ InitialRows \in [Treasuries -> Accounts \union {None}]
  /\ Drafts \subseteq MandateDraft
  /\ MaxStarts \in Nat /\ MaxDiscoveries \in Nat /\ MaxMoves \in Nat /\ MaxTransfers \in Nat

VARIABLES
  creator, owner, claimed, registered, active, closed, \* the treasuries
  pending,     \* transactions broadcast by this browser
  mined,       \* their receipts
  account,     \* account of the session
  page, opened, \* the page, the treasury in its address
  signin,      \* a sign-in whose search for a treasury is under way
  rows,        \* user_instances: a wallet per treasury
  listed,      \* cache of the module: the treasuries last found for an account
  shown,       \* treasuries on the dashboard
  discoveries, \* discoveries under way
  flows,       \* owner actions under way
  busy,        \* the treasury whose buttons the dashboard has disabled
  starts,      \* their number so far
  moves, transferred, transfers

treasuries == <<creator, owner, claimed, registered, active, closed>>
session == <<account, page, opened, signin, moves>>
actions == <<flows, starts, busy>>
dashboard == <<listed, shown, discoveries>>
transfer == <<transferred, transfers>>
consoleVars ==
  <<treasuries, pending, mined, session, rows, dashboard, actions, transfer>>

Pages == {"home", "signup", "mandate", "done", "dashboard"}
Steps == <<"fund", "authorize", "enable">>
FlowKinds == {"deploy", "launch", "enable", "pause", "close"}

\* Every launch page has the address of its treasury.
Addresses(p) == IF p = "done" THEN Treasuries ELSE {None}

\* The console opens at any page, its wallet connected again or not.
ConsoleInit ==
  /\ creator = Creator /\ owner = Creator
  /\ claimed = {} /\ registered = {} /\ active = {} /\ closed = {}
  /\ pending = {} /\ mined = {}
  /\ account \in Accounts \union {None} /\ page \in Pages /\ opened \in Addresses(page)
  /\ page = "signup" => account = None
  /\ signin = None /\ moves = 0
  /\ rows = InitialRows
  /\ listed = [w \in Accounts |-> None] /\ shown = {} /\ discoveries = {}
  /\ flows = [i \in Flows |-> None] /\ starts = 0 /\ busy = None
  /\ transferred = {} /\ transfers = 0

--------------------------------------------------------------------------------
(* The chain *)

Current(t) == t \notin Legacy /\ creator[t] # None
CreatedBy(w) == {t \in Treasuries : Current(t) /\ creator[t] = w}

\* What a step of the launch finds done on the chain.
Done(t) ==
  {s \in {"fund", "authorize", "enable"} :
     CASE s = "fund" -> t \in claimed [] s = "authorize" -> t \in registered
       [] s = "enable" -> t \in active}

\* Would the transaction go through? setAutomationMode of the mode there is
\* returns, registering once more as well.
Accepts(tx) ==
  CASE tx.kind = "deploy" -> tx.fits
    [] tx.kind = "fund" -> Current(tx.treasury) /\ tx.treasury \notin claimed
    [] OTHER -> owner[tx.treasury] = tx.by /\ tx.treasury \notin closed

\* Calls under way that have read a treasury which has changed since.
Outdated(f, t) == IF f.treasury = t THEN [f EXCEPT !.stale = TRUE] ELSE f

Receipt(tx, treasury, ok) ==
  mined' = mined \union {[tx |-> tx, treasury |-> treasury, ok |-> ok,
                          repeated |-> tx.kind \in Done(treasury)]}

MineDeploy(tx) ==
  /\ tx \in pending /\ tx.kind = "deploy" /\ pending' = pending \ {tx}
  /\ \E t \in {u \in Treasuries : creator[u] = None} :
       /\ creator' = [creator EXCEPT ![t] = tx.by] /\ owner' = [owner EXCEPT ![t] = tx.by]
       /\ Receipt(tx, t, TRUE)
  /\ UNCHANGED <<claimed, registered, active, closed, session, rows, dashboard,
                 actions, transfer>>

Mine(tx) ==
  /\ tx \in pending /\ tx.kind # "deploy"
  /\ LET t == tx.treasury
         Applied(kind) == Accepts(tx) /\ tx.kind = kind
     IN /\ claimed' = IF Applied("fund") THEN claimed \union {t} ELSE claimed
        /\ registered' = IF Applied("authorize") THEN registered \union {t} ELSE registered
        /\ active' = IF Applied("enable") THEN active \union {t}
                     ELSE IF Applied("pause") \/ Applied("close") THEN active \ {t} ELSE active
        /\ closed' = IF Applied("close") THEN closed \union {t} ELSE closed
        /\ Receipt(tx, t, Accepts(tx))
        /\ flows' = [i \in Flows |-> IF flows[i] = None THEN None ELSE Outdated(flows[i], t)]
        /\ pending' = {Outdated(x, t) : x \in pending \ {tx}}
  /\ UNCHANGED <<creator, owner, session, rows, dashboard, transfer, starts, busy>>

TransferOwnership(t, w) ==
  /\ transfers < MaxTransfers /\ transfers' = transfers + 1
  /\ owner[t] \notin {None, w} /\ t \notin Legacy
  /\ owner' = [owner EXCEPT ![t] = w] /\ transferred' = transferred \union {t}
  /\ UNCHANGED <<creator, claimed, registered, active, closed, pending, mined,
                 session, rows, dashboard, actions>>

--------------------------------------------------------------------------------
(* Pages and the session *)

\* Variant for the sensitivity runs: the cache is of the factory, not the owner.
CachedAnyOwner(w) == UNION {listed[v] : v \in {x \in Accounts : listed[x] # None}}

\* The cache's key is the factory with the owner.
Cached(w) == IF listed[w] = None THEN {} ELSE listed[w]

\* Another page: what runs on the old one goes on without it. A dashboard that
\* stays keeps what it shows unless something is cached.
Left(f) == IF f = None THEN None ELSE [f EXCEPT !.mounted = FALSE]
Go(p, t, who) ==
  /\ page' = p /\ opened' = t
  /\ shown' = IF p # "dashboard" \/ who = None THEN {}
              ELSE IF p = page /\ listed[who] = None THEN shown ELSE Cached(who)
  /\ discoveries' = {[d EXCEPT !.mounted = @ /\ p = page] : d \in discoveries}
LeaveFlows(p) ==
  /\ flows' = IF p = page THEN flows ELSE [i \in Flows |-> Left(flows[i])]
  /\ busy' = IF p = page THEN busy ELSE None
Moves == moves < MaxMoves /\ moves' = moves + 1

\* Signing in is for those who are not.
Navigate(p, t) ==
  /\ Moves /\ (p = "signup" => account = None) /\ t \in Addresses(p)
  /\ Go(p, t, account) /\ LeaveFlows(p)
  /\ UNCHANGED <<treasuries, pending, mined, account, signin, rows, listed, transfer, starts>>

\* completeAuthentication starts; the page has moved on as soon as there is an
\* account. With intent=new the mandate comes at once.
SignIn(w, forceNew) ==
  /\ page = "signup" /\ account = None /\ account' = w
  /\ Go(IF forceNew THEN "mandate" ELSE "dashboard", None, w)
  /\ signin' = IF forceNew THEN signin ELSE w
  /\ LeaveFlows("mandate")
  /\ UNCHANGED <<treasuries, pending, mined, moves, rows, listed, transfer, starts>>

\* findExistingTreasury: the events of every chunk, or an error.
CompleteSignIn ==
  /\ signin # None /\ signin' = None
  /\ LET p == IF CreatedBy(signin) # {} THEN "dashboard" ELSE "mandate"
     IN Go(p, None, account) /\ LeaveFlows(p)
  /\ UNCHANGED <<treasuries, pending, mined, account, moves, rows, listed, transfer, starts>>

SignInFails ==
  /\ signin # None /\ signin' = None
  /\ UNCHANGED <<treasuries, pending, mined, account, page, opened, moves, rows,
                 dashboard, actions, transfer>>

Logout ==
  /\ Moves /\ account # None /\ account' = None
  /\ Go("home", None, None) /\ LeaveFlows("home")
  /\ UNCHANGED <<treasuries, pending, mined, signin, rows, listed, transfer, starts>>

\* The page is loaded again: nothing goes on, the wallet connects again or not.
Reload ==
  /\ Moves /\ account' \in {account, None}
  /\ signin' = None /\ listed' = [w \in Accounts |-> None]
  /\ shown' = {} /\ discoveries' = {} /\ flows' = [i \in Flows |-> None] /\ busy' = None
  /\ UNCHANGED <<treasuries, pending, mined, page, opened, rows, transfer, starts>>

--------------------------------------------------------------------------------
(* useOwnerTreasuries *)

\* What is known of an owner: the events, and the rows of the table as far as
\* the factory knows them.
Known(w) == CreatedBy(w) \union {t \in Treasuries : Current(t) /\ rows[t] = w}

\* The address may name a treasury, which the factory has to know.
StartDiscovery(requested) ==
  /\ page = "dashboard" /\ account # None /\ Cardinality(discoveries) < MaxDiscoveries
  /\ discoveries' = discoveries \union
       {[owner |-> account, mounted |-> TRUE,
         requested |-> {t \in {requested} \ {None} : Current(t)}]}
  /\ UNCHANGED <<treasuries, pending, mined, session, rows, listed, shown, actions,
                 transfer>>

\* Only the account's own treasuries are kept.
OwnViews(read, w) == {t \in read : owner[t] = w}

\* A chunk of the events, or what is read of a treasury, may be missing.
FinishDiscovery(d) ==
  /\ d \in discoveries /\ discoveries' = discoveries \ {d}
  /\ \E read \in SUBSET (Known(d.owner) \union d.requested) :
       /\ listed' = [listed EXCEPT ![d.owner] = OwnViews(read, d.owner)]
       /\ shown' = IF d.mounted THEN OwnViews(read, d.owner) ELSE shown
  /\ UNCHANGED <<treasuries, pending, mined, session, rows, actions, transfer>>

DiscoveryFails(d) ==
  /\ d \in discoveries /\ discoveries' = discoveries \ {d}
  /\ UNCHANGED <<treasuries, pending, mined, session, rows, listed, shown, actions, transfer>>

--------------------------------------------------------------------------------
(* Owner actions *)

\* One at a time on the form and on the launch page; what was left behind on
\* another page does not count.
Idle == \A i \in Flows : flows[i] # None => ~flows[i].mounted

Start(i, kind, t, fits) ==
  /\ flows[i] = None /\ account # None /\ starts < MaxStarts /\ starts' = starts + 1
  /\ flows' = [flows EXCEPT ![i] =
       [kind |-> kind, by |-> account, treasury |-> t, step |-> "sponsor",
        id |-> starts, seen |-> {}, at |-> 1, stale |-> FALSE,
        mounted |-> TRUE, fits |-> fits]]
  /\ UNCHANGED <<treasuries, pending, mined, session, rows, dashboard, transfer>>

\* What the constructor says of the mandates that the form lets through.
Verdicts == {ValidPolicy(ToContractPolicies(d)) : d \in {e \in Drafts : ValidateMandate(e)}}

\* deploy
StartDeploy(i) ==
  /\ page = "mandate" /\ Idle /\ UNCHANGED busy
  /\ \E fits \in Verdicts : Start(i, "deploy", None, fits)

StartLaunch(i) ==
  /\ page = "done" /\ Idle /\ UNCHANGED busy
  /\ Start(i, "launch", opened, TRUE)

\* busy holds one address: another treasury's buttons stay enabled, and its
\* action enables those of the first again. The owner is read from the chain first.
StartOwnerAction(i, kind, t) ==
  /\ page = "dashboard" /\ t \in shown /\ busy # t /\ busy' = t
  /\ owner[t] = account /\ Start(i, kind, t, TRUE)

\* An action that is over on the page it was started on enables every button.
Advance(i, f) ==
  /\ flows' = [flows EXCEPT ![i] = f]
  /\ busy' = IF f = None /\ flows[i].mounted THEN None ELSE busy
Waits(i, step) == flows[i] # None /\ flows[i].step = step
rest == <<treasuries, pending, mined, session, rows, dashboard, starts, transfer>>

\* ensureSponsoredGas
ObtainGas(i) ==
  /\ Waits(i, "sponsor")
  /\ Advance(i, [flows[i] EXCEPT !.step = IF flows[i].kind = "deploy" THEN "send" ELSE "read"])
  /\ UNCHANGED rest

UnderWay(t) == \E x \in pending : x.treasury = t

\* The state of the treasury before anything is sent. An owner action that
\* finds nothing to do is over.
ReadState(i) ==
  /\ Waits(i, "read")
  /\ LET f == flows[i]
         t == f.treasury
         nothing == \/ f.kind # "launch" /\ t \in closed
                    \/ f.kind = "enable" /\ t \in active
                    \/ f.kind = "pause" /\ t \notin active
                    \/ f.kind = "launch" /\ owner[t] # f.by
     IN Advance(i, IF nothing THEN None
                 ELSE [f EXCEPT !.step = "send", !.seen = Done(t), !.stale = UnderWay(t)])
  /\ UNCHANGED rest

\* Variant for the sensitivity runs: the retry goes through all steps again.
NotDoneAll(f) == f.at..3

\* The steps of the launch that are still to be made.
NotDone(f) == {k \in f.at..3 : Steps[k] \notin f.seen}

SendTransaction(i, f, kind) ==
  LET tx == [kind |-> kind, treasury |-> f.treasury, by |-> f.by, id |-> f.id,
             stale |-> f.stale, fits |-> f.fits]
  IN /\ pending' = pending \union {tx}
     /\ Advance(i, [f EXCEPT !.step = "receipt"])

SendLaunch(i) ==
  /\ Waits(i, "send") /\ flows[i].kind = "launch"
  /\ LET f == flows[i] IN
     IF NotDone(f) = {} THEN Advance(i, None) /\ UNCHANGED pending
     ELSE LET k == CHOOSE n \in NotDone(f) : \A m \in NotDone(f) : n <= m
          IN SendTransaction(i, [f EXCEPT !.at = k], Steps[k])
  /\ UNCHANGED <<treasuries, mined, session, rows, dashboard, starts, transfer>>

\* The static call before the other transactions.
SendOther(i) ==
  /\ Waits(i, "send") /\ flows[i].kind # "launch"
  /\ Accepts(flows[i])
  /\ SendTransaction(i, flows[i], flows[i].kind)
  /\ UNCHANGED <<treasuries, mined, session, rows, dashboard, starts, transfer>>

SentAs(f) == IF f.kind = "launch" THEN Steps[f.at] ELSE f.kind
Receipts(f) == {x \in mined : x.tx.id = f.id /\ x.tx.kind = SentAs(f)}

\* The receipt, and the read that has to confirm it.
ConfirmTransaction(i) ==
  /\ Waits(i, "receipt") /\ flows[i].kind # "deploy"
  /\ \E x \in Receipts(flows[i]) :
       LET f == flows[i] IN
       IF x.ok /\ f.kind = "launch" /\ SentAs(f) \in Done(f.treasury)
       THEN Advance(i, [f EXCEPT !.step = "send", !.at = @ + 1, !.seen = Done(f.treasury),
                               !.stale = UnderWay(f.treasury)])
       ELSE Advance(i, None)
  /\ UNCHANGED rest

\* The treasury is created: its row is saved, or not, and its launch opens,
\* wherever the user is by now.
ConfirmDeploy(i) ==
  /\ Waits(i, "receipt") /\ flows[i].kind = "deploy"
  /\ \E x \in Receipts(flows[i]) :
       /\ rows' \in {rows, [rows EXCEPT ![x.treasury] = flows[i].by]}
       /\ Go("done", x.treasury, account)
       /\ flows' = [j \in Flows |-> IF j = i THEN None ELSE IF page = "done" THEN flows[j]
                                    ELSE Left(flows[j])]
  /\ busy' = None
  /\ UNCHANGED <<treasuries, pending, mined, account, signin, moves, listed, transfer, starts>>

\* Any call of an action fails, waiting for a receipt as well.
FlowFails(i) ==
  /\ flows[i] # None /\ Advance(i, None)
  /\ UNCHANGED rest

--------------------------------------------------------------------------------

ConsoleNext ==
  \/ \E tx \in pending : MineDeploy(tx) \/ Mine(tx)
  \/ \E t \in Treasuries, w \in Accounts : TransferOwnership(t, w)
  \/ \E p \in Pages, t \in Treasuries \union {None} : Navigate(p, t)
  \/ \E w \in Accounts, new \in BOOLEAN : SignIn(w, new)
  \/ CompleteSignIn \/ SignInFails \/ Logout \/ Reload
  \/ \E t \in Treasuries \union {None} : StartDiscovery(t)
  \/ \E d \in discoveries : FinishDiscovery(d) \/ DiscoveryFails(d)
  \/ \E i \in Flows :
       \/ StartDeploy(i) \/ StartLaunch(i)
       \/ \E k \in {"enable", "pause", "close"}, t \in Treasuries : StartOwnerAction(i, k, t)
       \/ ObtainGas(i) \/ ReadState(i)
       \/ SendLaunch(i) \/ SendOther(i) \/ ConfirmTransaction(i) \/ ConfirmDeploy(i)
       \/ FlowFails(i)

ConsoleSpec == ConsoleInit /\ [][ConsoleNext]_consoleVars

--------------------------------------------------------------------------------
(* Properties *)

\* The ranges of the state.
ConsoleTypeOK ==
  /\ owner \in [Treasuries -> Accounts \union {None}] /\ page \in Pages
  /\ account \in Accounts \union {None}
  /\ shown \subseteq Treasuries /\ busy \in Treasuries \union {None}
  /\ \A i \in Flows : flows[i] # None => flows[i].kind \in FlowKinds /\ flows[i].at \in 1..4

\* "Safe steps that already confirmed will not be repeated on retry": a launch
\* transaction that finds its step done was sent while another one of that
\* treasury was on its way or overtook it, not because a retry, after a failed
\* call, a page left or a reload, started over.
RepeatedOnlyIfOvertaken ==
  \A x \in mined : x.repeated /\ x.tx.kind \in {"fund", "authorize", "enable"} => x.tx.stale

\* The dashboard holds no treasury of another account or of an earlier factory,
\* whatever the table of instances says and whoever used the browser before: it
\* lists the session's own, unless a treasury has been given away since.
ShownIsOwned ==
  \A t \in shown : t \notin Legacy /\ (owner[t] = account \/ t \in transferred)

\* A mandate the form lets through is one the treasury's constructor accepts:
\* no deployment is under way that the chain would refuse.
ValidatedIsAccepted == \A i \in Flows : flows[i] # None => flows[i].fits
================================================================================
