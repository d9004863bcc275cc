----------------------------- MODULE InstanceViewer -----------------------------
(***************************************************************************)
(* The page that shows one instance of the first product: its identity and *)
(* guardrails, its balance and whether the agent is registered, each read  *)
(* by an effect of its own whenever the selected address changes. Answers  *)
(* arrive in any order, fail, or belong to an address left long ago. The   *)
(* instances to choose from come from a file that a script makes of the    *)
(* factory's events and that is put beside the page by hand.               *)
(*                                                                         *)
(* A value on the page is the address it was read from, with what of it    *)
(* may differ from the chain: the journal's length, the registration.      *)
(***************************************************************************)
EXTENDS Integers, FiniteSets

CONSTANTS
  Instances,  \* treasuries of the factory
  Mocks,      \* instances named in the page itself
  Account,    \* an address that is no treasury
  Text,       \* what may be pasted and is no address
  Unset,      \* the empty address of a page without configuration
  Configured, \* config.treasuryAddress
  MaxChanges, \* bound on what happens on the chain and to the file
  MaxSwitches \* bound on the addresses selected

ASSUME ViewerAssumption ==
  /\ Mocks \subseteq Instances
  /\ Unset \notin Instances \union {Account, Text}
  /\ Configured \in Instances \union {Account, Text, Unset}
  /\ MaxChanges \in Nat /\ MaxSwitches \in Nat

VARIABLES
  deployed, allowlisted, entries, changes, \* instances, those with the agent, journals
  served,          \* the rows of tenants.json
  address,         \* the selected address
  treasury, loading, error, balance, balanceLoading, agentRegistered, \* state of the page
  discovered,
  reads,           \* calls under way
  switches

instances == <<deployed, allowlisted, entries, changes>>
shownValues == <<treasury, loading, error, balance, balanceLoading, agentRegistered>>
viewerVars == <<instances, served, address, shownValues, discovered, reads, switches>>

Selectable == Instances \union {Account, Text}
Malformed == [malformed |-> TRUE]
Rows(rows) == [tenants |-> rows]
BadRow == "bad row"
Empty == [of |-> Unset]
Unavailable(a) == [of |-> a, unavailable |-> TRUE]

\* The effects of an address; without one the page only says so.
Effects(a) ==
  IF a = Unset THEN {}
  ELSE {[kind |-> k, of |-> a, cancelled |-> FALSE] : k \in {"treasury", "balance", "agent"}}

Discovery == [kind |-> "tenants", of |-> Unset, cancelled |-> FALSE]

\* The page is opened.
ViewerInit ==
  /\ deployed = Mocks /\ allowlisted = {} /\ entries = [i \in Instances |-> 0]
  /\ changes = 0
  /\ served = Malformed
  /\ address = Configured /\ reads = {Discovery} \union Effects(Configured)
  /\ treasury = Empty /\ loading = (Configured # Unset) /\ error = (Configured = Unset)
  /\ balance = Empty /\ balanceLoading = (Configured # Unset) /\ agentRegistered = Empty
  /\ discovered = {} /\ switches = 0

--------------------------------------------------------------------------------
(* The chain and the file *)

Change ==
  /\ changes < MaxChanges /\ changes' = changes + 1
  /\ UNCHANGED <<address, shownValues, discovered, reads, switches>>

CreateTreasury(i) ==
  /\ i \notin deployed /\ deployed' = deployed \union {i}
  /\ Change /\ UNCHANGED <<served, allowlisted, entries>>

\* registerAgent and deregisterAgent.
SetSubmitter(i) ==
  /\ i \in deployed
  /\ allowlisted' = IF i \in allowlisted THEN allowlisted \ {i} ELSE allowlisted \union {i}
  /\ Change /\ UNCHANGED <<served, deployed, entries>>

Journal(i) ==
  /\ i \in deployed /\ entries' = [entries EXCEPT ![i] = @ + 1]
  /\ Change /\ UNCHANGED <<served, deployed, allowlisted>>

\* What index-tenants makes of all TreasuryDeployed events up to now is put in
\* place, perhaps with a row that somebody has edited, or as a write that ended
\* early has left it.
IndexTenants ==
  /\ served' \in {Malformed, Rows(deployed), Rows(deployed \union {BadRow})} /\ served' # served
  /\ Change /\ UNCHANGED <<deployed, allowlisted, entries>>

--------------------------------------------------------------------------------
(* Reading *)

\* fetchTreasuryInfo succeeds only on a treasury. The journal is probed until a
\* call fails, for whatever reason.
FetchTreasuryInfo(a) ==
  IF a \in deployed THEN {[of |-> a, journalLength |-> n] : n \in 0..entries[a]} ELSE {}

\* Any address has a balance.
FetchNativeBalance(a) == IF a = Text THEN {} ELSE {[of |-> a]}

FetchAgentRegistered(a) ==
  IF a \in deployed THEN {[of |-> a, registered |-> a \in allowlisted]} ELSE {}

IsDiscoveredTenant(row) == row # BadRow

\* fetchTenantList: no list rather than an error.
FetchTenantList ==
  {{}} \union (IF served = Malformed THEN {}
               ELSE {{row \in served.tenants : IsDiscoveredTenant(row)}})

\* Variant for the sensitivity runs: an answer counts whenever it arrives.
InForceAlways(r) == TRUE

\* The cleanup of an effect cancels what it has started.
InForce(r) == ~r.cancelled

Over(r) == reads' = reads \ {r}

--------------------------------------------------------------------------------
(* The page *)

TreasuryArrives(r) ==
  /\ r \in reads /\ r.kind = "treasury" /\ Over(r)
  /\ IF InForce(r)
     THEN /\ \/ treasury' \in FetchTreasuryInfo(r.of) /\ UNCHANGED error
             \/ treasury' = Empty /\ error' = TRUE
          /\ loading' = FALSE
     ELSE UNCHANGED <<treasury, error, loading>>
  /\ UNCHANGED <<instances, served, address, balance, balanceLoading, agentRegistered,
                 discovered, switches>>

BalanceArrives(r) ==
  /\ r \in reads /\ r.kind = "balance" /\ Over(r)
  /\ IF InForce(r)
     THEN balance' \in FetchNativeBalance(r.of) \union {Unavailable(r.of)} /\ balanceLoading' = FALSE
     ELSE UNCHANGED <<balance, balanceLoading>>
  /\ UNCHANGED <<instances, served, address, treasury, loading, error, agentRegistered,
                 discovered, switches>>

\* A failure is caught by nobody and leaves what is there.
RegistrationArrives(r) ==
  /\ r \in reads /\ r.kind = "agent" /\ Over(r)
  /\ IF InForce(r) THEN agentRegistered' \in FetchAgentRegistered(r.of) \union {agentRegistered}
     ELSE UNCHANGED agentRegistered
  /\ UNCHANGED <<instances, served, address, treasury, loading, error, balance, balanceLoading,
                 discovered, switches>>

TenantsArrive(r) ==
  /\ r \in reads /\ r.kind = "tenants" /\ Over(r)
  /\ discovered' \in FetchTenantList
  /\ UNCHANGED <<instances, served, address, shownValues, switches>>

\* The buttons of the instances, and the form, which is closed while loading.
Chips == IF discovered = {} THEN Mocks ELSE discovered
Offered == Chips \union (IF loading THEN {} ELSE Selectable)

\* onSwitch: the same address again changes nothing; another one cancels the
\* reads of the last and starts its own. What is shown stays meanwhile.
Switch(a) ==
  /\ a \in Offered /\ a # address /\ switches < MaxSwitches /\ switches' = switches + 1
  /\ address' = a /\ loading' = TRUE /\ error' = FALSE /\ balanceLoading' = TRUE
  /\ reads' = {[r EXCEPT !.cancelled = (r.kind # "tenants")] : r \in reads} \union Effects(a)
  /\ UNCHANGED <<instances, served, treasury, balance, agentRegistered, discovered>>

ViewerNext ==
  \/ \E i \in Instances : CreateTreasury(i) \/ SetSubmitter(i) \/ Journal(i)
  \/ IndexTenants
  \/ \E r \in reads : TreasuryArrives(r) \/ BalanceArrives(r) \/ RegistrationArrives(r)
                        \/ TenantsArrive(r)
  \/ \E a \in Selectable : Switch(a)

ViewerSpec == ViewerInit /\ [][ViewerNext]_viewerVars

--------------------------------------------------------------------------------
(* Properties *)

Settled == \A r \in reads : r.cancelled \/ r.kind = "tenants"

\* However answers overtake each other, and whatever is selected while others
\* are under way: once the last address's own reads have ended, the page shows
\* the guardrails and the balance of that address, or says that it cannot; no
\* spinner is left; the journal is never longer than on the chain, and the
\* registration, if it is the one of this address, was the chain's.
ViewSettles ==
  Settled =>
    /\ ~loading /\ ~balanceLoading /\ (error <=> treasury = Empty)
    /\ treasury # Empty => /\ treasury.of = address
                           /\ treasury.journalLength <= entries[address]
    /\ address # Unset => balance.of = address
    /\ discovered \subseteq deployed

\* "Everything here is read live from the selected instance": beside the
\* guardrails of an instance stands its own registration, or none.
RegistrationIsItsOwn ==
  Settled /\ treasury # Empty => agentRegistered = Empty \/ agentRegistered.of = treasury.of
================================================================================
