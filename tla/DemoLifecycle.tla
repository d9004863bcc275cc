----------------------------- MODULE DemoLifecycle -----------------------------
(***************************************************************************)
(* The life of treasuries around the controlled demo: two factories (one   *)
(* embeds the faucet as its demo reserve, one makes production             *)
(* treasuries), direct deployments, the faucet that funds the first kind,  *)
(* owners' wallets and the market.  What a treasury does between funding   *)
(* and closure is reduced to trades at par; FairWitnessTreasury models it. *)
(***************************************************************************)
EXTENDS Naturals, FiniteSetsExt

CONSTANTS
  Treasuries,       (* addresses of treasuries                             *)
  Grant,            (* WCTC_AMOUNT and STABLE_AMOUNT of the faucet         *)
  InitialReserve,   (* what the faucet is funded with                      *)
  InitialWallet,    (* what the owners hold                                *)
  InitialMarket     (* what the market holds                               *)

Assets == {"WCTC", "STABLE"}

ASSUME DemoAssumption ==
  /\ IsFiniteSet(Treasuries)
  /\ {Grant, InitialReserve, InitialWallet, InitialMarket} \subseteq [Assets -> Nat]

VARIABLES
  creator,            (* who made a treasury, "nobody" before it exists    *)
  configured,         (* lifecycleConfigured of each treasury              *)
  demoReserve,        (* demoReserve of each treasury: the faucet or none  *)
  closed,
  held,               (* balances of the treasuries                        *)
  factoryConfigured,  (* the faucet knows its factory                      *)
  claimed,
  reserve,            (* balances of the faucet                            *)
  wallet,             (* balances of the owners together                   *)
  market              (* balances of the market                            *)

lifecycle == <<creator, configured, demoReserve>>
faucet == <<factoryConfigured, claimed, reserve>>
vars == <<lifecycle, closed, held, faucet, wallet, market>>

Nothing == [a \in Assets |-> 0]
Plus(f, g) == [a \in Assets |-> f[a] + g[a]]
Minus(f, g) == [a \in Assets |-> f[a] - g[a]]
Unit(asset) == [a \in Assets |-> IF a = asset THEN 1 ELSE 0]

Exists(t) == creator[t] # "nobody"
DemoMode(t) == configured[t] /\ demoReserve[t] = "faucet"

(* The registry of the factory the faucet was configured with.             *)
IsFactoryTreasury(t) == creator[t] = "demoFactory"

Init ==
  /\ creator = [t \in Treasuries |-> "nobody"]
  /\ configured = [t \in Treasuries |-> FALSE]
  /\ demoReserve = [t \in Treasuries |-> "none"]
  /\ closed = [t \in Treasuries |-> FALSE]
  /\ held = [t \in Treasuries |-> Nothing]
  /\ factoryConfigured = FALSE /\ claimed = {}
  /\ reserve = InitialReserve /\ wallet = InitialWallet /\ market = InitialMarket

-----------------------------------------------------------------------------
(* createTreasury: deployment, lifecycle and registration in one           *)
(* transaction.                                                            *)
CreateTreasury(factory, t) ==
  /\ ~Exists(t)
  /\ creator' = [creator EXCEPT ![t] = factory]
  /\ configured' = [configured EXCEPT ![t] = TRUE]
  /\ demoReserve' = [demoReserve EXCEPT ![t] = IF factory = "demoFactory" THEN "faucet" ELSE "none"]
  /\ UNCHANGED <<closed, held, faucet, wallet, market>>

(* Anyone may deploy a treasury without a factory; the deployer is then    *)
(* its lifecycle configurator.                                             *)
DeployTreasury(t) ==
  /\ ~Exists(t)
  /\ creator' = [creator EXCEPT ![t] = "deployer"]
  /\ UNCHANGED <<configured, demoReserve, closed, held, faucet, wallet, market>>

ConfigureLifecycle(t, to) ==
  /\ creator[t] = "deployer" /\ ~configured[t]
  /\ configured' = [configured EXCEPT ![t] = TRUE]
  /\ demoReserve' = [demoReserve EXCEPT ![t] = to]
  /\ UNCHANGED <<creator, closed, held, faucet, wallet, market>>

ConfigureFactory ==
  /\ ~factoryConfigured
  /\ factoryConfigured' = TRUE
  /\ UNCHANGED <<lifecycle, closed, held, claimed, reserve, wallet, market>>

-----------------------------------------------------------------------------
(* Variants for the sensitivity runs: any treasury may claim; the faucet   *)
(* checks its WCTC only.                                                   *)
ClaimByAnyone(t) ==
  /\ factoryConfigured /\ Exists(t) /\ t \notin claimed
  /\ \A a \in Assets : reserve[a] >= Grant[a]
  /\ claimed' = claimed \cup {t}
  /\ reserve' = Minus(reserve, Grant)
  /\ held' = [held EXCEPT ![t] = Plus(@, Grant)]
  /\ UNCHANGED <<lifecycle, closed, factoryConfigured, wallet, market>>
ClaimRepeatedly(t) ==
  /\ factoryConfigured /\ IsFactoryTreasury(t)
  /\ \A a \in Assets : reserve[a] >= Grant[a]
  /\ claimed' = claimed \cup {t}
  /\ reserve' = Minus(reserve, Grant)
  /\ held' = [held EXCEPT ![t] = Plus(@, Grant)]
  /\ UNCHANGED <<lifecycle, closed, factoryConfigured, wallet, market>>

(* claim: by anyone, for a treasury of the faucet's factory, once.         *)
Claim(t) ==
  /\ factoryConfigured
  /\ IsFactoryTreasury(t)
  /\ t \notin claimed
  /\ \A a \in Assets : reserve[a] >= Grant[a]
  /\ claimed' = claimed \cup {t}
  /\ reserve' = Minus(reserve, Grant)
  /\ held' = [held EXCEPT ![t] = Plus(@, Grant)]
  /\ UNCHANGED <<lifecycle, closed, factoryConfigured, wallet, market>>

(* A token transfer, which no contract can refuse.                         *)
Deposit(t, asset) ==
  /\ Exists(t) /\ wallet[asset] > 0
  /\ wallet' = Minus(wallet, Unit(asset))
  /\ held' = [held EXCEPT ![t] = Plus(@, Unit(asset))]
  /\ UNCHANGED <<lifecycle, closed, faucet, market>>

(* An execution: the treasury gives one asset and takes the other.         *)
Trade(t, give, take) ==
  /\ Exists(t) /\ ~closed[t]
  /\ give # take /\ held[t][give] > 0 /\ market[take] > 0
  /\ held' = [held EXCEPT ![t] = Plus(Minus(@, Unit(give)), Unit(take))]
  /\ market' = Plus(Minus(market, Unit(take)), Unit(give))
  /\ UNCHANGED <<lifecycle, closed, faucet, wallet>>

OwnerExit(t, asset) ==
  /\ Exists(t) /\ ~DemoMode(t) /\ held[t][asset] > 0
  /\ held' = [held EXCEPT ![t] = Minus(@, Unit(asset))]
  /\ wallet' = Plus(wallet, Unit(asset))
  /\ UNCHANGED <<lifecycle, closed, faucet, market>>

CloseTreasury(t) ==
  /\ Exists(t) /\ ~closed[t]
  /\ closed' = [closed EXCEPT ![t] = TRUE]
  /\ held' = [held EXCEPT ![t] = Nothing]
  /\ IF DemoMode(t)
     THEN reserve' = Plus(reserve, held[t]) /\ UNCHANGED wallet
     ELSE wallet' = Plus(wallet, held[t]) /\ UNCHANGED reserve
  /\ UNCHANGED <<lifecycle, factoryConfigured, claimed, market>>

Next ==
  \/ ConfigureFactory
  \/ \E t \in Treasuries :
       \/ \E factory \in {"demoFactory", "productionFactory"} : CreateTreasury(factory, t)
       \/ DeployTreasury(t)
       \/ \E to \in {"faucet", "none"} : ConfigureLifecycle(t, to)
       \/ Claim(t) \/ CloseTreasury(t)
       \/ \E asset \in Assets : Deposit(t, asset) \/ OwnerExit(t, asset)
       \/ \E give, take \in Assets : Trade(t, give, take)

Spec == Init /\ [][Next]_vars

-----------------------------------------------------------------------------
(* Properties                                                              *)

Worth(f) == f["WCTC"] + f["STABLE"]
WorthOf(S) == MapThenSumSet(LAMBDA t : Worth(held[t]), S)

(* Funds of the faucet never become the owners': across factories, direct  *)
(* deployments, claims, trades, withdrawals and closures, what the owners  *)
(* hold, in their wallets and in treasuries that pay them, is never worth  *)
(* more than what they started with.                                       *)
OwnersGainNothing ==
  Worth(wallet) + WorthOf({t \in Treasuries : ~DemoMode(t)}) <= Worth(InitialWallet)

(* The faucet is never drained faster than it hands out grants: what it    *)
(* has, and one grant for every treasury that claimed, cover its funding.  *)
OneGrantEach ==
  \A a \in Assets : reserve[a] + Cardinality(claimed) * Grant[a] >= InitialReserve[a]

(* What the comment of ControlledDemoFaucet says of closed demo            *)
(* treasuries: their assets are back with the faucet.                      *)
ClosedAssetsReturned ==
  \A t \in Treasuries : closed[t] /\ DemoMode(t) => held[t] = Nothing
=============================================================================
