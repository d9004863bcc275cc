-------------------------- MODULE SponsorAuthorization --------------------------
(***************************************************************************)
(* The challenges of the gas sponsor: issued to anyone for an address,     *)
(* signed by the wallet, consumed once. A process keeps a secret and the   *)
(* challenges it consumed in memory; it restarts, and the host's clock is  *)
(* also set back. The client is ensureSponsoredGas in the browser: it asks *)
(* for a challenge, signs it and posts it; the answer may get lost and the *)
(* request may be sent again.                                              *)
(***************************************************************************)
EXTENDS Integers, FiniteSets

CONSTANTS
  Wallets,     \* addresses
  Ttl,         \* TTL_MS
  MaxClock,    \* bound on the clock
  MaxRollback, \* bound on how often it is set back
  MaxIssued,   \* bound on the challenges
  MaxRestarts  \* bound on restarts

ASSUME AuthorizationAssumption ==
  /\ Ttl \in Nat \ {0} /\ MaxClock \in Nat /\ MaxRollback \in Nat
  /\ MaxIssued \in Nat /\ MaxRestarts \in Nat

VARIABLES
  clock,    \* Date.now()
  secret,   \* the process's secret
  used,     \* nonces consumed, with their expiry
  issued,   \* challenges handed out
  signed,   \* challenges a wallet has signed, with the wallet
  accepted, \* nonces accepted, with the wallet and the time, in a bag
  rollbacks

vars == <<clock, secret, used, issued, signed, accepted, rollbacks>>

\* A nonce is random.expiry.mac: the mac ties all of it to address and secret.
Nonces == [random : Nat, expiresAt : Nat, address : Wallets, secret : Nat]

Init ==
  /\ clock = 0 /\ secret = 0 /\ used = {} /\ issued = {} /\ signed = {}
  /\ accepted = {} /\ rollbacks = 0

Tick ==
  /\ clock < MaxClock /\ clock' = clock + 1
  /\ UNCHANGED <<secret, used, issued, signed, accepted, rollbacks>>

SetClockBack ==
  /\ clock > 0 /\ rollbacks < MaxRollback
  /\ clock' = clock - 1 /\ rollbacks' = rollbacks + 1
  /\ UNCHANGED <<secret, used, issued, signed, accepted>>

\* GET /sponsor-challenge
Issue(w) ==
  /\ Cardinality(issued) < MaxIssued
  /\ issued' = issued \union {[random |-> Cardinality(issued), expiresAt |-> clock + Ttl,
                               address |-> w, secret |-> secret]}
  /\ UNCHANGED <<clock, secret, used, signed, accepted, rollbacks>>

\* signer.signMessage: the message names address, nonce and expiry.
Sign(w, n) ==
  /\ n \in issued
  /\ signed' = signed \union {[nonce |-> n, address |-> w]}
  /\ UNCHANGED <<clock, secret, used, issued, accepted, rollbacks>>

\* The mac is this process's for the claimed address, and the wallet signed.
Genuine(x, w) == x.nonce.secret = secret /\ x.nonce.address = w /\ x.address = w

Fresh(n) == n.expiresAt > clock /\ n.expiresAt <= clock + Ttl

\* Variant for the sensitivity runs: consumed nonces are dropped on the next use.
StillUsedNone == {}

\* Consumed nonces whose expiry has passed are dropped.
StillUsed == {n \in used : n.expiresAt > clock}

\* POST /sponsor-gas, any number of times: consume. A refusal changes nothing.
Consume(x, w) ==
  /\ x \in signed
  /\ Fresh(x.nonce) /\ x.nonce \notin used /\ Genuine(x, w)
  /\ used' = StillUsed \union {x.nonce}
  /\ accepted' = accepted \union {[nonce |-> x.nonce, signer |-> x.address, recipient |-> w,
                                   at |-> clock, n |-> Cardinality(accepted)]}
  /\ UNCHANGED <<clock, secret, issued, signed, rollbacks>>

NextSecret == secret + 1

Restart ==
  /\ secret < MaxRestarts
  /\ secret' = NextSecret /\ used' = {}
  /\ UNCHANGED <<clock, issued, signed, accepted, rollbacks>>

Next ==
  \/ Tick \/ SetClockBack \/ Restart
  \/ \E w \in Wallets : \/ Issue(w)
                        \/ \E n \in issued : Sign(w, n)
                        \/ \E x \in signed : Consume(x, w)

Spec == Init /\ [][Next]_vars

--------------------------------------------------------------------------------
(* Properties *)

TypeOK ==
  /\ clock \in 0..MaxClock /\ secret \in 0..MaxRestarts
  /\ issued \subseteq Nonces
  /\ used \subseteq {n \in issued : n.secret = secret}
  /\ \A x \in signed : x.nonce \in issued /\ x.address \in Wallets
  /\ \A a \in accepted : a.nonce \in issued
  /\ rollbacks \in 0..MaxRollback

\* "a fresh, single-use signature": no challenge is accepted twice, through the
\* purge of old nonces and restarts that forget them, unless the clock was set
\* back (past the expiry of a nonce that was purged).
AcceptedOnce ==
  rollbacks = 0 => \A a, b \in accepted : a.nonce = b.nonce => a = b
================================================================================
