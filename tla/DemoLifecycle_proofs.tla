------------------------- MODULE DemoLifecycle_proofs -------------------------
(***************************************************************************)
(* The faucet hands out no more than one grant per treasury and none of it *)
(* becomes the owners', whatever the grant, the funding and the number of  *)
(* treasuries; what the operator's scripts leave open and record.          *)
(***************************************************************************)
EXTENDS DemoLifecycle, DemoOperations, Totals, SequenceTheorems

Amount == [Assets -> Nat]

(* The ledger: balances are amounts, so that what a closure returns never  *)
(* lowers the reserve.                                                     *)
LedgerOK ==
  /\ claimed \subseteq Treasuries
  /\ reserve \in Amount /\ wallet \in Amount /\ market \in Amount
  /\ held \in [Treasuries -> Amount]

FaucetInv == LedgerOK /\ OneGrantEach

-----------------------------------------------------------------------------
(* Amounts under addition and subtraction.                                 *)
LEMMA PlusAmount ==
  ASSUME NEW f \in Amount, NEW g \in Amount
  PROVE  Plus(f, g) \in Amount /\ \A a \in Assets : Plus(f, g)[a] = f[a] + g[a]
BY DEF Plus, Amount

LEMMA MinusAmount ==
  ASSUME NEW f \in Amount, NEW g \in Amount, \A a \in Assets : f[a] >= g[a]
  PROVE  Minus(f, g) \in Amount /\ \A a \in Assets : Minus(f, g)[a] = f[a] - g[a]
BY DEF Minus, Amount

LEMMA UnitAmount ==
  ASSUME NEW asset \in Assets
  PROVE  Unit(asset) \in Amount
BY DEF Unit, Amount

(* What is left after one unit of an asset that is there.                  *)
LEMMA MinusUnit ==
  ASSUME NEW f \in Amount, NEW asset \in Assets, f[asset] > 0
  PROVE  Minus(f, Unit(asset)) \in Amount
<1>1. \A a \in Assets : f[a] >= Unit(asset)[a]
  BY DEF Unit, Amount
<1>2. QED
  BY <1>1, UnitAmount, MinusAmount

LEMMA ConstantAmounts ==
  /\ Grant \in Amount /\ InitialReserve \in Amount /\ InitialWallet \in Amount
  /\ InitialMarket \in Amount /\ Nothing \in Amount
BY DemoAssumption DEF DemoAssumption, Amount, Nothing

-----------------------------------------------------------------------------
(* A treasury that claims adds one to the number of grants.                *)
LEMMA ClaimCounts ==
  ASSUME claimed \subseteq Treasuries, NEW t \in Treasuries, t \notin claimed
  PROVE  /\ Cardinality(claimed) \in Nat
         /\ Cardinality(claimed \cup {t}) = Cardinality(claimed) + 1
<1>1. IsFiniteSet(claimed)
  BY FS_Subset, DemoAssumption DEF DemoAssumption
<1>2. QED
  BY <1>1, FS_AddElement, FS_CardinalityType

LEMMA GrantArithmetic ==
  ASSUME NEW r \in Nat, NEW n \in Nat, NEW g \in Nat, NEW start \in Nat,
         r + n * g >= start
  PROVE  (r - g) + (n + 1) * g >= start
BY SMT

LEMMA InitFaucet == Init => FaucetInv
<1>1. SUFFICES ASSUME Init PROVE FaucetInv
  OBVIOUS
<1>2. LedgerOK
  BY <1>1, ConstantAmounts DEF Init, LedgerOK
<1>3. Cardinality(claimed) = 0
  BY <1>1, FS_EmptySet DEF Init
<1>4. OneGrantEach
  BY <1>1, <1>3, ConstantAmounts DEF Init, OneGrantEach, Amount
<1>5. QED
  BY <1>2, <1>4 DEF FaucetInv

(* A claim: one grant less in the reserve, one treasury more.              *)
LEMMA ClaimFaucet ==
  ASSUME FaucetInv, NEW t \in Treasuries, Claim(t)
  PROVE  FaucetInv'
<1>1. /\ claimed \subseteq Treasuries /\ reserve \in Amount /\ held \in [Treasuries -> Amount]
      /\ Grant \in Amount /\ \A a \in Assets : reserve[a] >= Grant[a]
  BY ConstantAmounts DEF FaucetInv, LedgerOK, Claim
<1>2. /\ reserve' \in Amount
      /\ \A a \in Assets : reserve'[a] = reserve[a] - Grant[a]
  BY <1>1, MinusAmount DEF Claim
<1>3. LedgerOK'
  <2>1. Plus(held[t], Grant) \in Amount
    BY <1>1, PlusAmount
  <2>2. QED
    BY <1>1, <1>2, <2>1 DEF Claim, FaucetInv, LedgerOK
<1>4. ASSUME NEW a \in Assets
      PROVE  reserve'[a] + Cardinality(claimed') * Grant[a] >= InitialReserve[a]
  <2> DEFINE n == Cardinality(claimed)
  <2>1. n \in Nat /\ Cardinality(claimed') = n + 1
    BY <1>1, ClaimCounts DEF Claim
  <2>2. reserve[a] \in Nat /\ Grant[a] \in Nat /\ InitialReserve[a] \in Nat
    BY <1>1, ConstantAmounts DEF Amount
  <2>3. reserve[a] + n * Grant[a] >= InitialReserve[a]
    BY DEF FaucetInv, OneGrantEach
  <2> HIDE DEF n
  <2>4. (reserve[a] - Grant[a]) + (n + 1) * Grant[a] >= InitialReserve[a]
    BY <2>1, <2>2, <2>3, GrantArithmetic
  <2>5. QED
    BY <1>2, <2>1, <2>4
<1>5. OneGrantEach'
  BY <1>4 DEF OneGrantEach
<1>6. QED
  BY <1>3, <1>5 DEF FaucetInv

(* Every other step leaves the claims alone and the reserve no lower.      *)
LEMMA ReserveKept ==
  ASSUME FaucetInv, LedgerOK', claimed' = claimed,
         \A a \in Assets : reserve'[a] >= reserve[a]
  PROVE  FaucetInv'
<1>1. ASSUME NEW a \in Assets
      PROVE  reserve'[a] + Cardinality(claimed') * Grant[a] >= InitialReserve[a]
  <2> DEFINE granted == Cardinality(claimed) * Grant[a]
  <2>1. reserve[a] \in Nat /\ reserve'[a] \in Nat /\ InitialReserve[a] \in Nat
    BY ConstantAmounts DEF FaucetInv, LedgerOK, Amount
  <2>2. granted \in Nat
    <3>1. IsFiniteSet(claimed)
      BY FS_Subset, DemoAssumption DEF DemoAssumption, FaucetInv, LedgerOK
    <3>2. Cardinality(claimed) \in Nat /\ Grant[a] \in Nat
      BY <3>1, FS_CardinalityType, ConstantAmounts DEF Amount
    <3>3. QED
      BY <3>2
  <2>3. reserve[a] + granted >= InitialReserve[a]
    BY DEF FaucetInv, OneGrantEach
  <2> HIDE DEF granted
  <2>4. reserve'[a] + granted >= InitialReserve[a]
    BY <2>1, <2>2, <2>3
  <2>5. QED
    BY <2>4 DEF granted
<1>2. QED
  BY <1>1 DEF FaucetInv, OneGrantEach

LEMMA StepFaucet == FaucetInv /\ [Next]_vars => FaucetInv'
<1> SUFFICES ASSUME FaucetInv, [Next]_vars PROVE FaucetInv'
  OBVIOUS
<1> USE DEF lifecycle, faucet
<1>a. /\ claimed \subseteq Treasuries /\ reserve \in Amount /\ wallet \in Amount
      /\ market \in Amount /\ held \in [Treasuries -> Amount]
  BY DEF FaucetInv, LedgerOK
<1>b. \A a \in Assets : reserve[a] \in Nat
  BY <1>a DEF Amount
<1>1. CASE UNCHANGED vars
  <2>1. LedgerOK'
    BY <1>1, <1>a DEF vars, LedgerOK
  <2>2. QED
    BY <1>1, <1>b, <2>1, ReserveKept DEF vars
<1>2. CASE ConfigureFactory
  <2>1. LedgerOK'
    BY <1>2, <1>a DEF ConfigureFactory, LedgerOK
  <2>2. QED
    BY <1>2, <1>b, <2>1, ReserveKept DEF ConfigureFactory
<1>3. ASSUME NEW t \in Treasuries, NEW factory, CreateTreasury(factory, t)
      PROVE  FaucetInv'
  <2>1. LedgerOK'
    BY <1>3, <1>a DEF CreateTreasury, LedgerOK
  <2>2. QED
    BY <1>3, <1>b, <2>1, ReserveKept DEF CreateTreasury
<1>4. ASSUME NEW t \in Treasuries, NEW to, DeployTreasury(t) \/ ConfigureLifecycle(t, to)
      PROVE  FaucetInv'
  <2>1. LedgerOK'
    BY <1>4, <1>a DEF DeployTreasury, ConfigureLifecycle, LedgerOK
  <2>2. QED
    BY <1>4, <1>b, <2>1, ReserveKept DEF DeployTreasury, ConfigureLifecycle
<1>5. ASSUME NEW t \in Treasuries, Claim(t) PROVE FaucetInv'
  BY <1>5, ClaimFaucet
<1>6. ASSUME NEW t \in Treasuries, CloseTreasury(t) PROVE FaucetInv'
  <2>1. /\ held[t] \in Amount /\ held' = [held EXCEPT ![t] = Nothing]
        /\ claimed' = claimed /\ market' = market
    BY <1>6, <1>a DEF CloseTreasury
  <2>2. /\ Plus(reserve, held[t]) \in Amount /\ Plus(wallet, held[t]) \in Amount
        /\ \A a \in Assets : Plus(reserve, held[t])[a] = reserve[a] + held[t][a]
    BY <1>a, <2>1, PlusAmount
  <2>3. \A a \in Assets : held[t][a] \in Nat
    BY <2>1 DEF Amount
  <2>4. \/ reserve' = Plus(reserve, held[t]) /\ wallet' = wallet
        \/ reserve' = reserve /\ wallet' = Plus(wallet, held[t])
    BY <1>6 DEF CloseTreasury
  <2>5. LedgerOK'
    BY <1>a, <2>1, <2>2, <2>4, ConstantAmounts DEF LedgerOK
  <2>6. \A a \in Assets : reserve'[a] >= reserve[a]
    BY <1>b, <2>2, <2>3, <2>4
  <2>7. QED
    BY <2>1, <2>5, <2>6, ReserveKept
<1>7. ASSUME NEW t \in Treasuries, NEW asset \in Assets, Deposit(t, asset) \/ OwnerExit(t, asset)
      PROVE  FaucetInv'
  <2>1. Unit(asset) \in Amount /\ held[t] \in Amount
    BY <1>a, UnitAmount
  <2>2. claimed' = claimed /\ reserve' = reserve /\ market' = market
    BY <1>7 DEF Deposit, OwnerExit
  <2>3. wallet' \in Amount
    BY <1>7, <1>a, <2>1, PlusAmount, MinusUnit DEF Deposit, OwnerExit
  <2>4. held' \in [Treasuries -> Amount]
    <3>1. Plus(held[t], Unit(asset)) \in Amount
      BY <2>1, PlusAmount
    <3>2. OwnerExit(t, asset) => Minus(held[t], Unit(asset)) \in Amount
      BY <2>1, MinusUnit DEF OwnerExit
    <3>3. QED
      BY <1>7, <1>a, <3>1, <3>2 DEF Deposit, OwnerExit
  <2>5. LedgerOK'
    BY <1>a, <2>2, <2>3, <2>4 DEF LedgerOK
  <2>6. QED
    BY <1>b, <2>2, <2>5, ReserveKept
<1>8. ASSUME NEW t \in Treasuries, NEW give \in Assets, NEW take \in Assets, Trade(t, give, take)
      PROVE  FaucetInv'
  <2>1. held[t] \in Amount /\ Minus(held[t], Unit(give)) \in Amount
    BY <1>8, <1>a, MinusUnit DEF Trade
  <2>2. Plus(Minus(held[t], Unit(give)), Unit(take)) \in Amount
    BY <2>1, UnitAmount, PlusAmount
  <2>3. held' \in [Treasuries -> Amount]
    BY <1>8, <1>a, <2>2 DEF Trade
  <2>4. market' \in Amount
    <3>1. Minus(market, Unit(take)) \in Amount
      BY <1>8, <1>a, MinusUnit DEF Trade
    <3>2. QED
      BY <1>8, <3>1, UnitAmount, PlusAmount DEF Trade
  <2>5. claimed' = claimed /\ reserve' = reserve /\ wallet' = wallet
    BY <1>8 DEF Trade
  <2>6. LedgerOK'
    BY <1>a, <2>3, <2>4, <2>5 DEF LedgerOK
  <2>7. QED
    BY <1>b, <2>5, <2>6, ReserveKept
<1>9. QED
  BY <1>1, <1>2, <1>3, <1>4, <1>5, <1>6, <1>7, <1>8 DEF Next

(* The faucet's reserve and one grant for every treasury that claimed      *)
(* cover its funding (ControlledDemoFaucet.claim, closeTreasury).          *)
THEOREM GrantsCovered == Spec => []OneGrantEach
<1>1. FaucetInv => OneGrantEach
  BY DEF FaucetInv
<1>2. QED
  BY InitFaucet, StepFaucet, <1>1, PTL DEF Spec

-----------------------------------------------------------------------------
(* What the owners hold                                                    *)

Owned == {t \in Treasuries : ~DemoMode(t)}
Worths == [t \in Treasuries |-> Worth(held[t])]

(* A treasury is configured by who made it; the demo factory's are demos.  *)
LifecycleOK ==
  /\ creator \in [Treasuries -> {"nobody", "deployer", "demoFactory", "productionFactory"}]
  /\ configured \in [Treasuries -> BOOLEAN]
  /\ demoReserve \in [Treasuries -> {"faucet", "none"}]
  /\ \A t \in Treasuries : creator[t] = "nobody" => ~configured[t]
  /\ \A t \in Treasuries : creator[t] = "demoFactory" => configured[t] /\ demoReserve[t] = "faucet"

OwnersInv ==
  /\ FaucetInv /\ LifecycleOK
  /\ Worth(wallet) + Total(Worths, Owned) <= Worth(InitialWallet)

(* The sum over a set of treasuries that the property takes is the total   *)
(* of their worths.                                                        *)
LEMMA WorthIsTotal == WorthOf(Owned) = Total(Worths, Owned)
<1> DEFINE sums(g) == g = [s \in SUBSET Owned |->
                             IF s = {} THEN 0
                             ELSE LET t == CHOOSE t \in s : TRUE
                                  IN  Worth(held[t]) + g[s \ {t}]]
<1>1. WorthOf(Owned) = (CHOOSE g : sums(g))[Owned]
  BY DEF WorthOf, MapThenSumSet, MapThenFoldSet
<1>2. ASSUME NEW g
      PROVE  sums(g) <=> IsTotal(g, Worths, Owned)
  <2>1. ASSUME NEW s \in SUBSET Owned, s # {}
        PROVE  Worths[Chosen(s)] = Worth(held[Chosen(s)])
    BY <2>1, ChosenIsElement DEF Worths, Owned
  <2>2. ASSUME NEW s \in SUBSET Owned
        PROVE  (IF s = {} THEN 0 ELSE LET t == CHOOSE t \in s : TRUE
                                      IN  Worth(held[t]) + g[s \ {t}])
                 = IF s = {} THEN 0 ELSE Worths[Chosen(s)] + g[s \ {Chosen(s)}]
    BY <2>1 DEF Chosen
  <2>3. QED
    BY <2>2 DEF IsTotal
<1>3. (CHOOSE g : sums(g)) = CHOOSE g : IsTotal(g, Worths, Owned)
  <2> HIDE DEF sums
  <2>1. QED
    BY <1>2
<1>4. QED
  BY <1>1, <1>3 DEF Total

LEMMA WorthTyped ==
  ASSUME NEW f \in Amount
  PROVE  Worth(f) \in Nat
BY DEF Worth, Amount, Assets

LEMMA WorthPlus ==
  ASSUME NEW f \in Amount, NEW g \in Amount
  PROVE  Worth(Plus(f, g)) = Worth(f) + Worth(g)
BY DEF Worth, Plus, Amount, Assets

LEMMA WorthMinus ==
  ASSUME NEW f \in Amount, NEW g \in Amount
  PROVE  Worth(Minus(f, g)) = Worth(f) - Worth(g)
BY DEF Worth, Minus, Amount, Assets

LEMMA WorthUnit ==
  ASSUME NEW asset \in Assets
  PROVE  Worth(Unit(asset)) = 1
BY DEF Worth, Unit, Assets

LEMMA WorthsTyped ==
  ASSUME held \in [Treasuries -> Amount]
  PROVE  /\ \A t \in Owned : Worths[t] = Worth(held[t]) /\ Worths[t] \in Nat
         /\ \A t \in Treasuries : held[t] \in Amount /\ Worth(held[t]) \in Nat
         /\ IsFiniteSet(Owned)
<1>1. \A t \in Treasuries : held[t] \in Amount /\ Worth(held[t]) \in Nat
  BY WorthTyped
<1>2. IsFiniteSet(Owned)
  BY FS_Subset, DemoAssumption DEF DemoAssumption, Owned
<1>3. QED
  BY <1>1, <1>2 DEF Worths, Owned

(* A step that takes treasuries from the owners, or nothing, and leaves    *)
(* theirs and their wallets worth no more.                                 *)
LEMMA OwnersKept ==
  ASSUME OwnersInv, FaucetInv', LifecycleOK', Worth(wallet') <= Worth(wallet),
         \A t \in Owned' : t \in Owned /\ Worth(held'[t]) = Worth(held[t])
  PROVE  OwnersInv'
<1>1. /\ held \in [Treasuries -> Amount] /\ held' \in [Treasuries -> Amount]
      /\ wallet \in Amount /\ wallet' \in Amount /\ InitialWallet \in Amount
  BY ConstantAmounts DEF OwnersInv, FaucetInv, LedgerOK
<1>2. /\ IsFiniteSet(Owned) /\ IsFiniteSet(Owned')
      /\ \A t \in Owned : Worths[t] \in Nat
      /\ \A t \in Owned' : Worths'[t] = Worths[t]
  <2>1. IsFiniteSet(Owned')
    BY FS_Subset, DemoAssumption DEF DemoAssumption, Owned
  <2>2. \A t \in Owned' : Worths'[t] = Worth(held'[t])
    BY DEF Owned, Worths
  <2>3. QED
    BY <1>1, <2>1, <2>2, WorthsTyped
<1> DEFINE before == Total(Worths, Owned)
           after == Total(Worths', Owned')
<1>3. PICK T, w : T = Owned' /\ w = Worths'
  OBVIOUS
<1>4. Total(w, T) = Total(Worths, T)
  BY <1>2, <1>3, TotalSame
<1>5. Total(Worths, T) <= Total(Worths, Owned)
  <2>1. T \in SUBSET Owned
    BY <1>3
  <2>2. QED
    BY <1>2, <2>1, TotalSubset
<1>6. after <= before
  BY <1>3, <1>4, <1>5
<1>7. before \in Nat /\ after \in Nat
  <2>1. before \in Nat
    BY <1>2, TotalNat
  <2>2. IsFiniteSet(T) /\ \A t \in T : w[t] \in Nat
    BY <1>2, <1>3
  <2>3. Total(w, T) \in Nat
    BY <2>2, TotalNat
  <2>4. QED
    BY <1>3, <2>1, <2>3
<1>8. Worth(wallet) \in Nat /\ Worth(wallet') \in Nat /\ Worth(InitialWallet) \in Nat
  BY <1>1, WorthTyped
<1>9. Worth(wallet) + before <= Worth(InitialWallet)
  BY DEF OwnersInv
<1> HIDE DEF before, after
<1>10. Worth(wallet') + after <= Worth(InitialWallet)
  BY <1>6, <1>7, <1>8, <1>9
<1>11. QED
  BY <1>10 DEF OwnersInv, after

(* A step between the wallets and one treasury of the owners.              *)
LEMMA OwnersMove ==
  ASSUME OwnersInv, FaucetInv', LifecycleOK', Owned' = Owned, NEW t \in Owned,
         Worth(wallet') + Worth(held'[t]) = Worth(wallet) + Worth(held[t]),
         \A u \in Owned \ {t} : held'[u] = held[u]
  PROVE  OwnersInv'
<1>1. /\ held \in [Treasuries -> Amount] /\ held' \in [Treasuries -> Amount]
      /\ wallet \in Amount /\ wallet' \in Amount /\ InitialWallet \in Amount
  BY ConstantAmounts DEF OwnersInv, FaucetInv, LedgerOK
<1>2. /\ IsFiniteSet(Owned) /\ \A u \in Owned : Worths[u] = Worth(held[u]) /\ Worths[u] \in Nat
  BY <1>1, WorthsTyped
<1>3. PICK w : w = Worths'
  OBVIOUS
<1>4. \A u \in Owned : w[u] = Worth(held'[u]) /\ w[u] \in Nat
  <2>1. \A u \in Treasuries : held'[u] \in Amount
    BY <1>1
  <2>2. \A u \in Treasuries : Worth(held'[u]) \in Nat
    BY <2>1, WorthTyped
  <2>3. QED
    BY <1>3, <2>2 DEF Worths, Owned
<1> DEFINE others == Total(Worths, Owned \ {t})
<1>5. Total(Worths, Owned) = Worths[t] + others
  BY <1>2, TotalRemove
<1>6. Total(w, Owned) = w[t] + Total(w, Owned \ {t})
  BY <1>2, <1>4, TotalRemove
<1>7. IsFiniteSet(Owned \ {t}) /\ \A u \in Owned \ {t} : w[u] = Worths[u]
  <2>1. IsFiniteSet(Owned \ {t})
    BY <1>2, FS_Subset
  <2>2. QED
    BY <1>2, <1>4, <2>1
<1>8. Total(w, Owned \ {t}) = others
  BY <1>7, TotalSame
<1>9. others \in Nat
  <2>1. \A u \in Owned \ {t} : Worths[u] \in Nat
    BY <1>2
  <2>2. QED
    BY <1>7, <2>1, TotalNat
<1>10. Worth(wallet) \in Nat /\ Worth(wallet') \in Nat /\ Worth(InitialWallet) \in Nat
  BY <1>1, WorthTyped
<1>11. Worth(wallet) + Total(Worths, Owned) <= Worth(InitialWallet)
  BY DEF OwnersInv
<1>12. /\ Worths[t] = Worth(held[t]) /\ Worths[t] \in Nat
       /\ w[t] = Worth(held'[t]) /\ w[t] \in Nat
  BY <1>2, <1>4
<1> HIDE DEF others
<1>13. Worth(wallet') + Total(w, Owned) <= Worth(InitialWallet)
  <2>1. Total(w, Owned) = w[t] + others
    BY <1>6, <1>8
  <2>2. QED
    BY <1>5, <1>9, <1>10, <1>11, <1>12, <2>1
<1>14. QED
  BY <1>3, <1>13 DEF OwnersInv

LEMMA InitOwners == Init => OwnersInv
<1>1. SUFFICES ASSUME Init PROVE OwnersInv
  OBVIOUS
<1>2. FaucetInv /\ LifecycleOK
  <2>1. FaucetInv
    BY <1>1, InitFaucet
  <2>2. LifecycleOK
    BY <1>1 DEF Init, LifecycleOK
  <2>3. QED
    BY <2>1, <2>2
<1>3. \A t \in Owned : Worths[t] = 0
  BY <1>1 DEF Init, Worths, Worth, Nothing, Owned, Assets
<1>4. Total(Worths, Owned) = 0
  <2> DEFINE none == [t \in Owned |-> 0]
  <2>1. IsFiniteSet(Owned)
    BY FS_Subset, DemoAssumption DEF DemoAssumption, Owned
  <2>2. CASE Owned = {}
    BY <2>2, TotalEmpty
  <2>3. CASE Owned # {}
    <3> DEFINE D == {s \in SUBSET Owned : Total(Worths, s) # 0}
    <3>1. CASE D = {}
      <4>1. ASSUME NEW s, s = Owned, Total(Worths, s) # 0
            PROVE  FALSE
        <5>1. s \in D
          BY <4>1
        <5>2. QED
          BY <3>1, <5>1
      <4>2. QED
        BY <4>1
    <3>2. CASE D # {}
      <4>1. PICK s \in D : \A t \in s : s \ {t} \notin D
        <5>1. D \in SUBSET SUBSET Owned
          OBVIOUS
        <5> HIDE DEF D
        <5>2. QED
          BY <2>1, <3>2, <5>1, SmallestSubset
      <4>2. s \in SUBSET Owned /\ Total(Worths, s) # 0
        OBVIOUS
      <4>3. s # {} /\ IsFiniteSet(s)
        BY <2>1, <4>2, TotalEmpty, FS_Subset
      <4>4. Chosen(s) \in s /\ Total(Worths, s) = Worths[Chosen(s)] + Total(Worths, s \ {Chosen(s)})
        BY <4>3, ChosenIsElement, TotalUnfold
      <4>5. Total(Worths, s \ {Chosen(s)}) = 0
        BY <4>1, <4>2, <4>4
      <4>6. QED
        BY <1>3, <4>2, <4>4, <4>5
    <3>3. QED
      BY <3>1, <3>2
  <2>4. QED
    BY <2>2, <2>3
<1>5. Worth(wallet) = Worth(InitialWallet) /\ Worth(InitialWallet) \in Nat
  BY <1>1, WorthTyped, ConstantAmounts DEF Init
<1>6. QED
  BY <1>2, <1>4, <1>5 DEF OwnersInv

LEMMA StepLifecycle == LifecycleOK /\ [Next]_vars => LifecycleOK'
<1> SUFFICES ASSUME LifecycleOK, [Next]_vars PROVE LifecycleOK'
  OBVIOUS
<1> USE DEF lifecycle
<1>1. CASE UNCHANGED lifecycle
  BY <1>1 DEF LifecycleOK
<1>2. ASSUME NEW t \in Treasuries, NEW factory \in {"demoFactory", "productionFactory"},
             CreateTreasury(factory, t)
      PROVE  LifecycleOK'
  BY <1>2 DEF CreateTreasury, LifecycleOK, Exists
<1>3. ASSUME NEW t \in Treasuries, DeployTreasury(t)
      PROVE  LifecycleOK'
  BY <1>3 DEF DeployTreasury, LifecycleOK, Exists
<1>4. ASSUME NEW t \in Treasuries, NEW to \in {"faucet", "none"}, ConfigureLifecycle(t, to)
      PROVE  LifecycleOK'
  BY <1>4 DEF ConfigureLifecycle, LifecycleOK
<1>5. QED
  BY <1>1, <1>2, <1>3, <1>4
     DEF Next, vars, ConfigureFactory, Claim, CloseTreasury, Deposit, OwnerExit, Trade

LEMMA StepOwners == OwnersInv /\ [Next]_vars => OwnersInv'
<1> SUFFICES ASSUME OwnersInv, [Next]_vars PROVE OwnersInv'
  OBVIOUS
<1> USE DEF lifecycle, faucet
<1>a. FaucetInv' /\ LifecycleOK'
  BY StepFaucet, StepLifecycle DEF OwnersInv
<1>b. /\ held \in [Treasuries -> Amount] /\ wallet \in Amount
      /\ \A u \in Treasuries : held[u] \in Amount /\ Worth(held[u]) \in Nat
      /\ Worth(wallet) \in Nat
  BY WorthsTyped, WorthTyped DEF OwnersInv, FaucetInv, LedgerOK
<1>1. CASE UNCHANGED vars
  BY <1>1, <1>a, <1>b, OwnersKept DEF vars, Owned, DemoMode
<1>2. CASE ConfigureFactory
  BY <1>2, <1>a, <1>b, OwnersKept DEF ConfigureFactory, Owned, DemoMode
<1>3. ASSUME NEW t \in Treasuries,
             NEW factory \in {"demoFactory", "productionFactory"}, NEW to \in {"faucet", "none"},
             CreateTreasury(factory, t) \/ DeployTreasury(t) \/ ConfigureLifecycle(t, to)
      PROVE  OwnersInv'
  <2>1. held' = held /\ wallet' = wallet
    BY <1>3 DEF CreateTreasury, DeployTreasury, ConfigureLifecycle
  <2>2. \A u \in Owned' : u \in Owned
    BY <1>3 DEF CreateTreasury, DeployTreasury, ConfigureLifecycle, Exists, OwnersInv, LifecycleOK,
                Owned, DemoMode
  <2>3. QED
    BY <2>1, <2>2, <1>a, <1>b, OwnersKept
<1>4. ASSUME NEW t \in Treasuries, Claim(t) PROVE OwnersInv'
  <2>1. t \notin Owned /\ Owned' = Owned /\ wallet' = wallet
    BY <1>4 DEF Claim, IsFactoryTreasury, OwnersInv, LifecycleOK, Owned, DemoMode
  <2>2. \A u \in Owned : held'[u] = held[u]
    BY <1>4, <1>b, <2>1 DEF Claim, Owned
  <2>3. QED
    BY <2>1, <2>2, <1>a, <1>b, OwnersKept
<1>5. ASSUME NEW t \in Treasuries, NEW asset \in Assets, Deposit(t, asset)
      PROVE  OwnersInv'
  <2>1. Owned' = Owned /\ \A u \in Treasuries \ {t} : held'[u] = held[u]
    BY <1>5, <1>b DEF Deposit, Owned, DemoMode
  <2>2. Worth(wallet') = Worth(wallet) - 1 /\ Worth(held'[t]) = Worth(held[t]) + 1
    BY <1>5, <1>b, UnitAmount, WorthUnit, WorthPlus, WorthMinus DEF Deposit
  <2>3. CASE t \in Owned
    BY <2>1, <2>2, <2>3, <1>a, <1>b, OwnersMove DEF Owned
  <2>4. CASE t \notin Owned
    <3>1. \A u \in Owned : held'[u] = held[u]
      BY <2>1, <2>4 DEF Owned
    <3>2. QED
      BY <2>1, <2>2, <3>1, <1>a, <1>b, OwnersKept
  <2>5. QED
    BY <2>3, <2>4
<1>6. ASSUME NEW t \in Treasuries, NEW asset \in Assets, OwnerExit(t, asset)
      PROVE  OwnersInv'
  <2>1. t \in Owned /\ Owned' = Owned /\ \A u \in Treasuries \ {t} : held'[u] = held[u]
    BY <1>6, <1>b DEF OwnerExit, Owned, DemoMode
  <2>2. Worth(wallet') = Worth(wallet) + 1 /\ Worth(held'[t]) = Worth(held[t]) - 1
    BY <1>6, <1>b, UnitAmount, WorthUnit, WorthPlus, WorthMinus DEF OwnerExit
  <2>3. QED
    BY <2>1, <2>2, <1>a, <1>b, OwnersMove DEF Owned
<1>7. ASSUME NEW t \in Treasuries, CloseTreasury(t) PROVE OwnersInv'
  <2>1. /\ Owned' = Owned /\ held'[t] = Nothing
        /\ \A u \in Treasuries \ {t} : held'[u] = held[u]
    BY <1>7, <1>b DEF CloseTreasury, Owned, DemoMode
  <2>2. CASE t \in Owned
    <3>1. wallet' = Plus(wallet, held[t])
      BY <1>7, <2>2 DEF CloseTreasury, Owned
    <3>2. Worth(wallet') = Worth(wallet) + Worth(held[t]) /\ Worth(held'[t]) = 0
      BY <1>b, <2>1, <3>1, WorthPlus DEF Worth, Nothing, Assets
    <3>3. QED
      BY <2>1, <2>2, <3>2, <1>a, <1>b, OwnersMove DEF Owned
  <2>3. CASE t \notin Owned
    <3>1. wallet' = wallet
      BY <1>7, <2>3 DEF CloseTreasury, Owned
    <3>2. \A u \in Owned : held'[u] = held[u]
      BY <2>1, <2>3 DEF Owned
    <3>3. QED
      BY <2>1, <3>1, <3>2, <1>a, <1>b, OwnersKept
  <2>4. QED
    BY <2>2, <2>3
<1>8. ASSUME NEW t \in Treasuries, NEW give \in Assets, NEW take \in Assets, Trade(t, give, take)
      PROVE  OwnersInv'
  <2>1. Owned' = Owned /\ wallet' = wallet /\ \A u \in Treasuries \ {t} : held'[u] = held[u]
    BY <1>8, <1>b DEF Trade, Owned, DemoMode
  <2>2. Worth(held'[t]) = Worth(held[t])
    <3> DEFINE left == Minus(held[t], Unit(give))
    <3>1. left \in Amount /\ Worth(left) = Worth(held[t]) - 1
      BY <1>8, <1>b, MinusUnit, UnitAmount, WorthUnit, WorthMinus DEF Trade
    <3>2. held'[t] = Plus(left, Unit(take))
      BY <1>8, <1>b DEF Trade
    <3> HIDE DEF left
    <3>3. QED
      BY <1>b, <3>1, <3>2, UnitAmount, WorthUnit, WorthPlus
  <2>3. \A u \in Owned : Worth(held'[u]) = Worth(held[u])
    BY <2>1, <2>2 DEF Owned
  <2>4. QED
    BY <2>1, <2>3, <1>a, <1>b, OwnersKept
<1>9. QED
  BY <1>1, <1>2, <1>3, <1>4, <1>5, <1>6, <1>7, <1>8 DEF Next

(* Funds of the faucet never become the owners': across factories, direct  *)
(* deployments, claims, trades, withdrawals and closures, their wallets    *)
(* and the treasuries that pay them are never worth more than the wallets  *)
(* were at the start (FairWitnessTreasury.configureLifecycle, ownerExit    *)
(* and closeTreasury, ControlledDemoFaucet.claim).                         *)
THEOREM OwnersGetNoGrant == Spec => []OwnersGainNothing
<1>1. OwnersInv => OwnersGainNothing
  BY WorthIsTotal DEF OwnersInv, OwnersGainNothing, Owned
<1>2. QED
  BY InitOwners, StepOwners, <1>1, PTL DEF Spec

-----------------------------------------------------------------------------
(* The operator's scripts                                                  *)

ScriptFields ==
  {"kind", "id", "open", "step", "epoch", "nonce", "plan", "loaded", "seen", "attempt", "pc"}
SeenFields == {"attempts", "executions", "holdings"}
TxFields == {"run", "what", "kind", "step", "nonce", "epoch"}
Results ==
  {"PolicyPaused", "PolicyHashMismatch", "NonceAlreadyUsed", "Oversized", "Refused", "Executed"}

(* What a smoke script's evidence says of the journal.                     *)
EvidenceOf(kind, run, attempt, executions) ==
  /\ attempt \in 1..Len(attempts) /\ attempts[attempt].result = Expected(kind)
  /\ kind = "paused" => attempts[attempt].run = run
  /\ kind \in {"paused", "oversized"} => ExecutionsUpTo(attempt) = executions

EvidenceOK(c) == EvidenceOf(c.kind, c.run, c.attempt, c.executions)

(* Step k of a run is on the chain, a token where it was planned.          *)
BuiltStep(run, kind, plan, k) ==
  \E b \in built : /\ b.run = run /\ b.step = k
                   /\ StepsOf(kind)[k] = "token" => b.address = plan + k - 1

DeploymentOK(d) == \A k \in 1..Len(StepsOf(d.kind)) : BuiltStep(d.run, d.kind, d.first, k)

Transactions == sent \union receipts

(* Where a script is when a transaction of its own may be outstanding.     *)
AwaitedAt(what) ==
  CASE what = "enable" -> {"enabling"} [] what = "pause" -> {"pausing"} [] what = "step" -> {"waiting"}
    [] what = "submit" -> {"submitting", "read", "record", "finally", "pausing"}

(* A transaction of a running script is one that it waits for, or has given *)
(* up; a step is the one it is at.                                         *)
OwnOK(s, x) ==
  /\ x.kind = s.kind /\ s.pc \in AwaitedAt(x.what)
  /\ x.what = "step" => x.step = s.step /\ x.nonce = s.nonce

(* The script's own attempt is among those made since it looked.           *)
Attempted(s) == \E n \in (s.seen.attempts + 1)..Len(attempts) : attempts[n].run = s.id

ScriptTyped(s) ==
  /\ DOMAIN s = ScriptFields /\ DOMAIN s.seen = SeenFields /\ s.open \in BOOLEAN
  /\ s.kind \in Smokes \union Stepwise /\ s.id \in Int /\ s.id <= started
  /\ s.seen.attempts \in Nat /\ s.seen.attempts <= Len(attempts)

(* Which scripts are where.                                                *)
PlaceOK(s) ==
  /\ s.open => /\ s.kind \in Smokes
               /\ s.pc \in {"preview", "submit", "submitting", "read", "record", "finally", "pausing"}
  /\ s.kind \in Stepwise => s.pc \in {"plan", "steps", "waiting", "record"}
  /\ s.kind \in Smokes => s.pc \notin {"plan", "steps", "waiting"}

(* A deployment has built the steps before the one it is at.               *)
ProgressOK(s) ==
  s.kind \in Stepwise =>
    /\ s.step \in 1..Len(StepsOf(s.kind))
    /\ \A k \in 1..Len(StepsOf(s.kind)) :
         k < s.step \/ s.pc = "record" => BuiltStep(s.id, s.kind, s.plan, k)

(* What a receipt says is in the journal or on the chain.                  *)
ReceiptOK(s, r) ==
  /\ r.what = "submit" => Attempted(s)
  /\ r.what = "step" => \E b \in built : b.run = s.id /\ b.step = s.step /\ b.address = s.nonce[2]

(* So is what a script has read.                                           *)
KnowledgeOK(s) ==
  /\ s.pc = "read" => Attempted(s)
  /\ s.kind \in Smokes /\ s.pc = "record" => EvidenceOf(s.kind, s.id, s.attempt, s.seen.executions)
  /\ \A c \in s.loaded : EvidenceOK(c)
  /\ \A r \in receipts : r.run = s.id => ReceiptOK(s, r)

ScriptOK(s) ==
  /\ ScriptTyped(s) /\ PlaceOK(s) /\ ProgressOK(s) /\ KnowledgeOK(s)
  /\ \A x \in Transactions : x.run = s.id => OwnOK(s, x)

TxOK(x) ==
  /\ DOMAIN x = TxFields /\ x.run \in Int /\ x.run <= started
  /\ x.what \in {"enable", "pause", "step", "submit"}

(* Besides submissions, a run has one transaction of a kind under way or   *)
(* its receipt.                                                            *)
OneEach ==
  /\ \A x, y \in sent : x.run = y.run /\ x.what = y.what => x.what = "submit" \/ x = y
  /\ \A x \in sent, r \in receipts : x.run = r.run /\ x.what = r.what => x.what = "submit"
  /\ \A q, r \in receipts : q.run = r.run /\ q.what = r.what => q.what = "submit" \/ q = r

(* A script that will pause the treasury again: it has not got its receipt *)
(* for that.                                                               *)
WillPause(s) ==
  /\ s.open \/ s.pc = "enabling"
  /\ ~\E r \in receipts : r.run = s.id /\ r.what = "pause"

(* A market controller that will clear the allowance: that step is not     *)
(* mined yet.                                                              *)
WillClear(s) ==
  /\ s.kind = "market" /\ s.pc \in {"steps", "waiting"} /\ (s.step > 1 \/ s.pc = "waiting")
  /\ ~\E r \in receipts : r.run = s.id /\ r.what = "step" /\ s.step = 3

(* A transaction that opens what has to be closed again.                   *)
Opens(x) == x.what = "enable" \/ (x.what = "step" /\ x.kind = "market")

Running(run) == \E i \in Terminals : scripts[i] # Idle /\ scripts[i].id = run

(* Unless a script was abandoned: what is open has a script that closes    *)
(* it, and so has what a transaction under way will open.                  *)
ClosersOK ==
  /\ mode = "active" => \E i \in Terminals : scripts[i] # Idle /\ WillPause(scripts[i])
  /\ allowance => \E i \in Terminals : scripts[i] # Idle /\ WillClear(scripts[i])
  /\ \A x \in sent : Opens(x) => Running(x.run)

OperationsInv ==
  /\ DOMAIN scripts = Terminals /\ started \in Nat
  /\ attempts \in Seq([run : Int, result : Results])
  /\ \A i \in Terminals : scripts[i] # Idle => ScriptOK(scripts[i])
  /\ \A i, j \in Terminals :
       scripts[i] # Idle /\ scripts[j] # Idle /\ scripts[i].id = scripts[j].id => i = j
  /\ \A x \in Transactions : TxOK(x)
  /\ OneEach
  /\ abandoned \/ ClosersOK
  /\ \A c \in smokeTests : EvidenceOK(c)
  /\ \A d \in deployments : DeploymentOK(d)

-----------------------------------------------------------------------------
(* What steps leave as it is                                               *)

LEMMA NotIdle ==
  ASSUME NEW s, DOMAIN s = ScriptFields
  PROVE  s # Idle
<1>1. DOMAIN Idle = {"kind"} /\ "pc" \in DOMAIN s
  BY DEF Idle, ScriptFields
<1>2. QED
  BY <1>1

(* The journal only grows.                                                 *)
Extends ==
  /\ Len(attempts) \in Nat /\ Len(attempts)' \in Nat /\ Len(attempts) <= Len(attempts)'
  /\ \A n \in 1..Len(attempts) : attempts'[n] = attempts[n]

LEMMA SameJournal ==
  ASSUME OperationsInv, attempts' = attempts
  PROVE  Extends
BY DEF Extends, OperationsInv

LEMMA KeptEvidence ==
  ASSUME Extends, NEW kind, NEW run, NEW a, NEW e, EvidenceOf(kind, run, a, e)
  PROVE  EvidenceOf(kind, run, a, e)'
<1>1. a \in 1..Len(attempts) /\ a \in 1..Len(attempts)' /\ attempts'[a] = attempts[a]
  BY DEF Extends, EvidenceOf
<1>2. \A m \in 1..a : attempts'[m] = attempts[m]
  BY <1>1 DEF Extends
<1>3. {m \in 1..a : attempts'[m].result = "Executed"} = {m \in 1..a : attempts[m].result = "Executed"}
  BY <1>2
<1>4. ExecutionsUpTo(a)' = ExecutionsUpTo(a)
  BY <1>3 DEF ExecutionsUpTo
<1>5. QED
  BY <1>1, <1>4 DEF EvidenceOf, Expected

LEMMA KeptAttempt ==
  ASSUME Extends, NEW s, ScriptTyped(s), Attempted(s)
  PROVE  Attempted(s)'
<1>1. PICK n \in (s.seen.attempts + 1)..Len(attempts) : attempts[n].run = s.id
  BY DEF Attempted
<1>2. n \in 1..Len(attempts) /\ n \in (s.seen.attempts + 1)..Len(attempts)'
  BY <1>1 DEF ScriptTyped, Extends
<1>3. attempts'[n].run = s.id
  BY <1>1, <1>2 DEF Extends
<1>4. QED
  BY <1>2, <1>3 DEF Attempted

(* A script that does not move, while the journal and the chain grow.      *)
LEMMA KeptScript ==
  ASSUME NEW s, ScriptOK(s), Extends, built \subseteq built',
         started \in Nat, started' \in Nat, started <= started',
         \A x \in Transactions' : x.run = s.id => x \in Transactions \/ OwnOK(s, x),
         \A r \in receipts' : r.run = s.id => r \in receipts \/ ReceiptOK(s, r)'
  PROVE  ScriptOK(s)'
<1>1. ScriptTyped(s) /\ PlaceOK(s) /\ ProgressOK(s) /\ KnowledgeOK(s)
  BY DEF ScriptOK
<1>2. ScriptTyped(s)'
  BY <1>1 DEF ScriptTyped, Extends
<1>3. PlaceOK(s)'
  BY <1>1 DEF PlaceOK
<1>4. ProgressOK(s)'
  BY <1>1 DEF ProgressOK, BuiltStep
<1>5. KnowledgeOK(s)'
  <2>1. s.pc = "read" => Attempted(s)'
    BY <1>1, KeptAttempt DEF KnowledgeOK
  <2>2. s.kind \in Smokes /\ s.pc = "record" => EvidenceOf(s.kind, s.id, s.attempt, s.seen.executions)'
    BY <1>1, KeptEvidence DEF KnowledgeOK
  <2>3. \A c \in s.loaded : EvidenceOK(c)'
    BY <1>1, KeptEvidence DEF KnowledgeOK, EvidenceOK
  <2>4. ASSUME NEW r \in receipts, r.run = s.id
        PROVE  ReceiptOK(s, r)'
    <3>1. ReceiptOK(s, r)
      BY <1>1, <2>4 DEF KnowledgeOK
    <3>2. Attempted(s) => Attempted(s)'
      BY <1>1, KeptAttempt
    <3>3. QED
      BY <3>1, <3>2 DEF ReceiptOK
  <2>5. QED
    BY <2>1, <2>2, <2>3, <2>4 DEF KnowledgeOK
<1>6. \A x \in Transactions' : x.run = s.id => OwnOK(s, x)
  BY DEF ScriptOK
<1>7. QED
  BY <1>2, <1>3, <1>4, <1>5, <1>6 DEF ScriptOK, OwnOK

(* What a step of one script may change: its own entry, to g; transactions *)
(* and receipts of its own run; the files, by what is true.                *)
Replaces(i, g) ==
  /\ scripts' = [scripts EXCEPT ![i] = g]
  /\ UNCHANGED <<mode, attempts, built, allowance, started>>
FilesKept ==
  (\A c \in smokeTests' : EvidenceOK(c)) /\ \A d \in deployments' : DeploymentOK(d)
OwnOnly(s) ==
  /\ \A x \in sent' : x \in sent \/ (x.run = s.id /\ TxOK(x))
  /\ \A r \in receipts' : r \in receipts
  /\ OneEach'

(* What it has to close it still has, or it is abandoned.                  *)
StillCloses(s, g) ==
  /\ mode = "active" /\ WillPause(s) => g # Idle /\ WillPause(g)'
  /\ allowance /\ WillClear(s) => g # Idle /\ WillClear(g)'
  /\ \A x \in sent' : x.run = s.id /\ Opens(x) => g # Idle
Abandoning(s, g) == (abandoned => abandoned') /\ (abandoned' \/ StillCloses(s, g))

LEMMA Moves ==
  ASSUME OperationsInv, NEW i \in Terminals, NEW s, s = scripts[i], s # Idle, NEW g, Replaces(i, g),
         FilesKept, OwnOnly(s), Abandoning(s, g), g # Idle => g.id = s.id /\ ScriptOK(g)'
  PROVE  OperationsInv'
<1> USE DEF Replaces, FilesKept, OwnOnly, Abandoning, StillCloses
<1>1. /\ DOMAIN scripts' = Terminals /\ scripts'[i] = g
      /\ \A j \in Terminals : j # i => scripts'[j] = scripts[j]
  BY DEF OperationsInv
<1>2. Extends /\ started \in Nat /\ started' \in Nat /\ started <= started'
  BY SameJournal DEF OperationsInv
<1>3. ASSUME NEW j \in Terminals, j # i, scripts[j] # Idle
      PROVE  scripts[j].id # s.id
  BY <1>3 DEF OperationsInv
<1>4. ASSUME NEW j \in Terminals, scripts'[j] # Idle
      PROVE  ScriptOK(scripts[j])'
  <2>1. CASE j = i
    BY <1>1, <1>4, <2>1
  <2>2. CASE j # i
    <3>1. PICK t : t = scripts[j]
      OBVIOUS
    <3>2. t # Idle /\ t = scripts'[j] /\ ScriptOK(t) /\ t.id # s.id
      BY <1>1, <1>3, <1>4, <2>2, <3>1 DEF OperationsInv
    <3>3. \A x \in Transactions' : x.run = t.id => x \in Transactions
      BY <3>2 DEF Transactions
    <3>4. ScriptOK(t)'
      BY <1>2, <3>2, <3>3, KeptScript
    <3>5. QED
      BY <3>2, <3>4
  <2>3. QED
    BY <2>1, <2>2
<1>5. ASSUME NEW j \in Terminals, NEW k \in Terminals,
             scripts'[j] # Idle, scripts'[k] # Idle, scripts'[j].id = scripts'[k].id
      PROVE  j = k
  <2>1. /\ scripts[j] # Idle /\ scripts'[j].id = scripts[j].id
        /\ scripts[k] # Idle /\ scripts'[k].id = scripts[k].id
    BY <1>1, <1>5
  <2>2. QED
    BY <1>5, <2>1 DEF OperationsInv
<1>6. ASSUME NEW x \in Transactions'
      PROVE  TxOK(x)'
  <2>1. TxOK(x)
    BY <1>6 DEF OperationsInv, Transactions
  <2>2. QED
    BY <2>1 DEF TxOK
<1>7. ASSUME ~abandoned'
      PROVE  ClosersOK'
  <2>1. ClosersOK
    BY <1>7 DEF OperationsInv
  <2>2. ASSUME mode' = "active"
        PROVE  \E j \in Terminals : scripts'[j] # Idle /\ WillPause(scripts[j])'
    <3>1. PICK j \in Terminals : scripts[j] # Idle /\ WillPause(scripts[j])
      BY <2>1, <2>2 DEF ClosersOK
    <3>2. CASE j = i
      BY <1>1, <1>7, <2>2, <3>1, <3>2
    <3>3. CASE j # i
      BY <1>1, <3>1, <3>3 DEF WillPause
    <3>4. QED
      BY <3>2, <3>3
  <2>3. ASSUME allowance'
        PROVE  \E j \in Terminals : scripts'[j] # Idle /\ WillClear(scripts[j])'
    <3>1. PICK j \in Terminals : scripts[j] # Idle /\ WillClear(scripts[j])
      BY <2>1, <2>3 DEF ClosersOK
    <3>2. CASE j = i
      BY <1>1, <1>7, <2>3, <3>1, <3>2
    <3>3. CASE j # i
      BY <1>1, <3>1, <3>3 DEF WillClear
    <3>4. QED
      BY <3>2, <3>3
  <2>4. ASSUME NEW x \in sent', Opens(x)
        PROVE  Running(x.run)'
    <3>1. CASE x.run = s.id
      BY <1>1, <1>7, <2>4, <3>1 DEF Running
    <3>2. CASE x.run # s.id
      <4>1. PICK j \in Terminals : scripts[j] # Idle /\ scripts[j].id = x.run
        BY <2>1, <2>4, <3>2 DEF ClosersOK, Running
      <4>2. j # i
        BY <3>2, <4>1
      <4>3. QED
        BY <1>1, <4>1, <4>2 DEF Running
    <3>3. QED
      BY <3>1, <3>2
  <2>5. QED
    BY <2>2, <2>3, <2>4 DEF ClosersOK, Opens
<1>8. \A c \in smokeTests' : EvidenceOK(c)'
  BY <1>2, KeptEvidence DEF EvidenceOK
<1>9. \A d \in deployments' : DeploymentOK(d)'
  BY DEF DeploymentOK, BuiltStep
<1>10. attempts' \in Seq([run : Int, result : Results])
  BY DEF OperationsInv
<1>11. QED
  BY <1>1, <1>2, <1>4, <1>5, <1>6, <1>7, <1>8, <1>9, <1>10 DEF OperationsInv

LEMMA FewerTransactions ==
  ASSUME OneEach, sent' \subseteq sent, receipts' \subseteq receipts
  PROVE  OneEach'
BY DEF OneEach

(* A script ends.                                                          *)
LEMMA Ends ==
  ASSUME OperationsInv, NEW i \in Terminals, NEW s, s = scripts[i], s # Idle, Replaces(i, Idle),
         FilesKept, sent' \subseteq sent, receipts' \subseteq receipts, abandoned => abandoned',
         abandoned' \/
           /\ mode = "active" => ~WillPause(s)
           /\ allowance => ~WillClear(s)
           /\ \A x \in sent' : x.run = s.id => ~Opens(x)
  PROVE  OperationsInv'
<1>1. OneEach'
  BY FewerTransactions DEF OperationsInv
<1>2. PICK g : g = Idle
  OBVIOUS
<1>3. Replaces(i, g)
  BY <1>2
<1>4. OwnOnly(s)
  BY <1>1 DEF OwnOnly
<1>5. Abandoning(s, g)
  BY DEF Abandoning, StillCloses
<1>6. QED
  BY <1>2, <1>3, <1>4, <1>5, Moves

(* Where a script has no transaction of its own outstanding.               *)
Early ==
  {"check", "fund", "observe", "prove", "decide", "enable", "look", "preview", "submit", "plan", "steps"}

LEMMA EarlyAlone ==
  ASSUME NEW s, ScriptOK(s), s.pc \in Early, NEW x \in Transactions, TxOK(x)
  PROVE  x.run # s.id
<1>1. s.pc \notin AwaitedAt(x.what)
  BY DEF AwaitedAt, Early, TxOK
<1>2. QED
  BY <1>1 DEF ScriptOK, OwnOK

(* A script that waits for nothing looks around and goes on, or ends.      *)
LEMMA Quiet ==
  ASSUME OperationsInv, NEW i \in Terminals, NEW s, s = scripts[i], s # Idle, NEW g, Replaces(i, g),
         UNCHANGED <<abandoned, sent, receipts, smokeTests, deployments>>,
         s.pc \in Early, s.pc # "steps",
         \/ g = Idle /\ ~s.open
         \/ /\ DOMAIN g = ScriptFields /\ DOMAIN g.seen = SeenFields
            /\ g.kind = s.kind /\ g.id = s.id /\ g.open = s.open /\ g.step = s.step
            /\ g.plan = s.plan /\ g.loaded = s.loaded
            /\ g.seen.attempts \in {s.seen.attempts, Len(attempts)}
            /\ g.pc \in Early \union {"finally"} /\ PlaceOK(g)
  PROVE  OperationsInv'
<1>1. ScriptOK(s) /\ \A x \in Transactions : TxOK(x)
  BY DEF OperationsInv
<1>2. \A x \in Transactions : x.run # s.id
  BY <1>1, EarlyAlone
<1>3. \A x \in sent : x.run = s.id => ~Opens(x)
  BY <1>2 DEF Transactions
<1>4. FilesKept
  BY DEF OperationsInv, FilesKept
<1>5. ~WillClear(s) /\ (WillPause(s) => s.open)
  BY DEF WillClear, WillPause, Early
<1>6. CASE g = Idle /\ ~s.open
  <2>1. Replaces(i, Idle) /\ ~WillPause(s)
    BY <1>5, <1>6
  <2>2. abandoned' \/ /\ mode = "active" => ~WillPause(s)
                      /\ allowance => ~WillClear(s)
                      /\ \A x \in sent' : x.run = s.id => ~Opens(x)
    BY <1>3, <1>5, <2>1
  <2>3. QED
    BY <1>4, <2>1, <2>2, Ends
<1>7. CASE /\ DOMAIN g = ScriptFields /\ DOMAIN g.seen = SeenFields
           /\ g.kind = s.kind /\ g.id = s.id /\ g.open = s.open /\ g.step = s.step
           /\ g.plan = s.plan /\ g.loaded = s.loaded
           /\ g.seen.attempts \in {s.seen.attempts, Len(attempts)}
           /\ g.pc \in Early \union {"finally"} /\ PlaceOK(g)
  <2>1. ScriptTyped(g)
    BY <1>1, <1>7 DEF ScriptOK, ScriptTyped, OperationsInv
  <2>2. ProgressOK(g)
    BY <1>1, <1>7 DEF ScriptOK, ProgressOK, Early
  <2>3. KnowledgeOK(g)
    BY <1>1, <1>2, <1>7 DEF ScriptOK, KnowledgeOK, Early, Transactions
  <2>4. ScriptOK(g)
    BY <1>2, <1>7, <2>1, <2>2, <2>3 DEF ScriptOK
  <2>5. /\ Extends /\ started \in Nat /\ started' \in Nat /\ started <= started'
        /\ built \subseteq built'
    BY SameJournal DEF OperationsInv, Replaces
  <2>6. ScriptOK(g)'
    <3>1. \A x \in Transactions' : x.run = g.id => x \in Transactions
      BY DEF Transactions
    <3>2. \A r \in receipts' : r.run = g.id => r \in receipts
      OBVIOUS
    <3>3. QED
      BY <2>4, <2>5, <3>1, <3>2, KeptScript
  <2>7. g # Idle
    BY <1>7, NotIdle
  <2>8. mode = "active" /\ WillPause(s) => WillPause(g)'
    BY <1>2, <1>5, <1>7 DEF WillPause, Transactions, Replaces
  <2>9. OneEach'
    BY FewerTransactions DEF OperationsInv
  <2>10. OwnOnly(s) /\ Abandoning(s, g)
    BY <1>5, <2>7, <2>8, <2>9 DEF OwnOnly, Abandoning, StillCloses
  <2>11. QED
    BY <1>4, <1>7, <2>6, <2>10, Moves
<1>8. QED
  BY <1>6, <1>7

(* Nothing but the place of a script changes.                              *)
LEMMA PlaceSet ==
  ASSUME NEW s, ScriptTyped(s), NEW p, NEW g, g = [s EXCEPT !.pc = p]
  PROVE  /\ DOMAIN g = ScriptFields /\ g.pc = p /\ g.kind = s.kind /\ g.id = s.id /\ g.open = s.open
         /\ g.step = s.step /\ g.plan = s.plan /\ g.loaded = s.loaded /\ g.seen = s.seen
         /\ g.nonce = s.nonce /\ g.attempt = s.attempt /\ g.epoch = s.epoch
BY DEF ScriptTyped, ScriptFields

LEMMA QuietPlace ==
  ASSUME OperationsInv, NEW i \in Terminals, NEW s, s = scripts[i], s # Idle,
         NEW p \in Early \union {"finally"}, NEW g, g = [s EXCEPT !.pc = p], Replaces(i, g),
         UNCHANGED <<abandoned, sent, receipts, smokeTests, deployments>>,
         s.pc \in Early, s.pc # "steps", PlaceOK(g)
  PROVE  OperationsInv'
<1>1. ScriptTyped(s)
  BY DEF OperationsInv, ScriptOK
<1>2. /\ DOMAIN g = ScriptFields /\ g.pc = p /\ g.kind = s.kind /\ g.id = s.id /\ g.open = s.open
      /\ g.step = s.step /\ g.plan = s.plan /\ g.loaded = s.loaded /\ g.seen = s.seen
  BY <1>1, PlaceSet
<1>3. DOMAIN g.seen = SeenFields /\ g.seen.attempts \in {s.seen.attempts, Len(attempts)}
  BY <1>1, <1>2 DEF ScriptTyped
<1>4. QED
  BY <1>2, <1>3, Quiet

(* Only what a smoke script has changed is open.                           *)
LEMMA QuietEnd ==
  ASSUME OperationsInv, NEW i \in Terminals, NEW s, s = scripts[i], s # Idle, Replaces(i, Idle),
         UNCHANGED <<abandoned, sent, receipts, smokeTests, deployments>>,
         s.pc \in Early, s.pc # "steps", ~s.open
  PROVE  OperationsInv'
<1>1. PICK g : g = Idle
  OBVIOUS
<1>2. Replaces(i, g)
  BY <1>1
<1>3. QED
  BY <1>1, <1>2, Quiet

LEMMA CheckStep ==
  ASSUME OperationsInv, NEW i \in Terminals, CheckTreasury(i)
  PROVE  OperationsInv'
<1>1. PICK s : s = scripts[i]
  OBVIOUS
<1>2. PICK p : p = CASE s.kind \in Risk -> "fund" [] s.kind \in Strategic -> "observe"
                     [] s.kind = "paused" -> "look"
  OBVIOUS
<1>3. /\ s # Idle /\ s.pc = "check"
      /\ scripts' = [scripts EXCEPT ![i] = IF mode # "paused" THEN Idle ELSE [s EXCEPT !.pc = p]]
      /\ UNCHANGED <<mode, attempts, built, allowance, started, abandoned, sent, receipts, smokeTests,
                     deployments>>
  BY <1>1, <1>2 DEF CheckTreasury, At, Go, still, rest, operated, deployed, files
<1>4. ScriptTyped(s) /\ PlaceOK(s)
  BY <1>1, <1>3 DEF OperationsInv, ScriptOK
<1>5. s.kind \in Smokes /\ ~s.open /\ p \in {"fund", "observe", "look"}
  BY <1>2, <1>3, <1>4 DEF ScriptTyped, PlaceOK, Smokes, Risk, Strategic
<1>6. CASE mode # "paused"
  <2>1. Replaces(i, Idle)
    BY <1>3, <1>6 DEF Replaces
  <2>2. QED
    BY <1>1, <1>3, <1>5, <2>1, QuietEnd DEF Early
<1>7. CASE mode = "paused"
  <2>1. PICK g : g = [s EXCEPT !.pc = p]
    OBVIOUS
  <2>2. Replaces(i, g)
    BY <1>3, <1>7, <2>1 DEF Replaces
  <2>3. PlaceOK(g)
    BY <1>4, <1>5, <2>1, PlaceSet DEF PlaceOK, Smokes, Risk, Strategic, Stepwise
  <2>4. p \in Early \union {"finally"} /\ s.pc \in Early /\ s.pc # "steps"
    BY <1>3, <1>5 DEF Early
  <2>5. QED
    BY <1>1, <1>3, <2>1, <2>2, <2>3, <2>4, QuietPlace
<1>8. QED
  BY <1>6, <1>7

(* Looking around, a script goes on to place p or ends.                    *)
LEMMA Looks ==
  ASSUME OperationsInv, NEW i \in Terminals, NEW s, s = scripts[i], s # Idle,
         NEW p \in Early \union {"finally"}, NEW g, g = [s EXCEPT !.pc = p],
         UNCHANGED <<abandoned, sent, receipts, smokeTests, deployments>>,
         s.pc \in Early, s.pc # "steps", PlaceOK(s) => PlaceOK(g),
         Replaces(i, g) \/ (Replaces(i, Idle) /\ ~s.open)
  PROVE  OperationsInv'
<1>1. PlaceOK(g)
  BY DEF OperationsInv, ScriptOK
<1>2. CASE Replaces(i, g)
  BY <1>1, <1>2, QuietPlace
<1>3. CASE Replaces(i, Idle) /\ ~s.open
  BY <1>3, QuietEnd
<1>4. QED
  BY <1>2, <1>3

(* While it prepares, a script has nothing open.                           *)
LEMMA NothingOpenYet ==
  ASSUME OperationsInv, NEW i \in Terminals, NEW s, s = scripts[i], s # Idle,
         s.pc \in {"check", "fund", "observe", "prove", "decide", "look", "plan"}
  PROVE  ~s.open /\ s.pc \in Early /\ s.pc # "steps" /\ ScriptTyped(s) /\ PlaceOK(s)
<1>1. ScriptTyped(s) /\ PlaceOK(s)
  BY DEF OperationsInv, ScriptOK
<1>2. QED
  BY <1>1 DEF PlaceOK, Early

LEMMA PrepareStep ==
  ASSUME OperationsInv, NEW i \in Terminals,
         Fund(i) \/ PublishObservations(i) \/ Decide(i) \/ PlanPool(i) \/ PlanLifecycle(i) \/ PlanMarket(i)
  PROVE  OperationsInv'
<1>1. PICK s : s = scripts[i]
  OBVIOUS
<1>2. /\ s # Idle /\ s.pc \in {"fund", "observe", "decide", "plan"}
      /\ UNCHANGED <<mode, attempts, built, allowance, started, abandoned, sent, receipts, smokeTests,
                     deployments>>
  BY <1>1 DEF Fund, PublishObservations, Decide, PlanPool, PlanLifecycle, PlanMarket, At, still, rest,
              operated, deployed, files
<1>3. ~s.open /\ s.pc \in Early /\ s.pc # "steps" /\ ScriptTyped(s) /\ PlaceOK(s)
  BY <1>1, <1>2, NothingOpenYet
<1>4. \E p \in {"observe", "prove", "fund", "enable", "steps"} :
        /\ p = "steps" <=> s.pc = "plan"
        /\ \/ scripts' = [scripts EXCEPT ![i] = [s EXCEPT !.pc = p]]
           \/ scripts' = [scripts EXCEPT ![i] = Idle]
  <2>1. CASE Fund(i)
    BY <1>1, <2>1 DEF Fund, At, Go
  <2>2. CASE PublishObservations(i)
    BY <1>1, <2>2 DEF PublishObservations, At, Go
  <2>3. CASE Decide(i)
    BY <1>1, <2>3 DEF Decide, At, Go
  <2>4. CASE PlanPool(i) \/ PlanLifecycle(i) \/ PlanMarket(i)
    BY <1>1, <2>4 DEF PlanPool, PlanLifecycle, PlanMarket, At, Go
  <2>5. QED
    BY <2>1, <2>2, <2>3, <2>4
<1>5. PICK p \in {"observe", "prove", "fund", "enable", "steps"} :
        /\ p = "steps" <=> s.pc = "plan"
        /\ \/ scripts' = [scripts EXCEPT ![i] = [s EXCEPT !.pc = p]]
           \/ scripts' = [scripts EXCEPT ![i] = Idle]
  BY <1>4
<1>6. PICK g : g = [s EXCEPT !.pc = p]
  OBVIOUS
<1>7. Replaces(i, g) \/ (Replaces(i, Idle) /\ ~s.open)
  BY <1>2, <1>3, <1>5, <1>6 DEF Replaces
<1>8. PlaceOK(g)
  <2>1. g.pc = p /\ g.kind = s.kind /\ g.open = s.open
    BY <1>3, <1>6, PlaceSet
  <2>2. QED
    BY <1>3, <1>5, <2>1 DEF PlaceOK, Early
<1>9. p \in Early \union {"finally"}
  BY DEF Early
<1>10. QED
  BY <1>1, <1>2, <1>3, <1>6, <1>7, <1>8, <1>9, Looks

(* The balances, or the state before: the script remembers what it saw.    *)
LEMMA NoticeStep ==
  ASSUME OperationsInv, NEW i \in Terminals, ReadBalances(i) \/ LookAtPaused(i)
  PROVE  OperationsInv'
<1>1. PICK s : s = scripts[i]
  OBVIOUS
<1>2. /\ s # Idle /\ s.pc \in {"prove", "look"}
      /\ UNCHANGED <<mode, attempts, built, allowance, started, abandoned, sent, receipts, smokeTests,
                     deployments>>
  BY <1>1 DEF ReadBalances, LookAtPaused, At, still, rest, operated, deployed, files
<1>3. ~s.open /\ s.pc \in Early /\ s.pc # "steps" /\ ScriptTyped(s) /\ PlaceOK(s)
  BY <1>1, <1>2, NothingOpenYet
<1>4. CASE ReadBalances(i)
  <2>1. PICK p \in {"enable", "decide"} : p = IF s.kind \in Risk THEN "enable" ELSE "decide"
    OBVIOUS
  <2>2. PICK g : g = [s EXCEPT !.seen.holdings = holdings, !.pc = p]
    OBVIOUS
  <2>3. Replaces(i, g)
    BY <1>1, <1>2, <1>4, <2>1, <2>2 DEF ReadBalances, Go, Replaces
  <2>4. /\ DOMAIN g = ScriptFields /\ DOMAIN g.seen = SeenFields
        /\ g.kind = s.kind /\ g.id = s.id /\ g.open = s.open /\ g.step = s.step
        /\ g.plan = s.plan /\ g.loaded = s.loaded
        /\ g.seen.attempts = s.seen.attempts /\ g.pc = p
    BY <1>3, <2>2 DEF ScriptTyped, ScriptFields, SeenFields
  <2>5. PlaceOK(g)
    BY <1>2, <1>3, <2>4 DEF PlaceOK
  <2>6. g.pc \in Early \union {"finally"} /\ g.seen.attempts \in {s.seen.attempts, Len(attempts)}
    BY <2>4 DEF Early
  <2>7. QED
    BY <1>1, <1>2, <1>3, <2>3, <2>4, <2>5, <2>6, Quiet
<1>5. CASE LookAtPaused(i)
  <2>1. PICK g : g = [s EXCEPT !.pc = "preview", !.epoch = policyEpoch, !.nonce = <<"paused", 0>>,
                        !.seen = [attempts |-> Len(attempts), executions |-> Executions,
                                  holdings |-> holdings]]
    OBVIOUS
  <2>2. Replaces(i, g)
    BY <1>1, <1>2, <1>5, <2>1 DEF LookAtPaused, Go, Replaces
  <2>3. /\ DOMAIN g = ScriptFields /\ DOMAIN g.seen = SeenFields
        /\ g.kind = s.kind /\ g.id = s.id /\ g.open = s.open /\ g.step = s.step
        /\ g.plan = s.plan /\ g.loaded = s.loaded
        /\ g.seen.attempts = Len(attempts) /\ g.pc = "preview"
    BY <1>3, <2>1 DEF ScriptTyped, ScriptFields, SeenFields
  <2>4. s.pc = "look"
    BY <1>1, <1>5 DEF LookAtPaused, At
  <2>5. PlaceOK(g)
    BY <1>3, <2>3, <2>4 DEF PlaceOK
  <2>6. g.pc \in Early \union {"finally"} /\ g.seen.attempts \in {s.seen.attempts, Len(attempts)}
    BY <2>3 DEF Early
  <2>7. QED
    BY <1>1, <1>2, <1>3, <2>2, <2>3, <2>5, <2>6, Quiet
<1>6. QED
  BY <1>4, <1>5

(* Another verdict than the expected one is an error: a script that has    *)
(* something open passes by its finally block.                             *)
LEMMA PreviewStep ==
  ASSUME OperationsInv, NEW i \in Terminals, PreviewProposal(i)
  PROVE  OperationsInv'
<1>1. PICK s : s = scripts[i]
  OBVIOUS
<1>2. /\ s # Idle /\ s.pc = "preview"
      /\ UNCHANGED <<mode, attempts, built, allowance, started, abandoned, sent, receipts, smokeTests,
                     deployments>>
      /\ \/ scripts' = [scripts EXCEPT ![i] = [s EXCEPT !.pc = "submit"]]
         \/ scripts' = [scripts EXCEPT ![i] = Thrown(s)]
  BY <1>1 DEF PreviewProposal, At, Go, still, rest, operated, deployed, files
<1>3. ScriptTyped(s)
  BY <1>1, <1>2 DEF OperationsInv, ScriptOK
<1>4. Thrown(s) = IF s.open THEN [s EXCEPT !.pc = "finally"] ELSE Idle
  BY <1>2 DEF Thrown
<1>5. PICK p \in {"submit", "finally"} :
        \/ scripts' = [scripts EXCEPT ![i] = [s EXCEPT !.pc = p]]
        \/ scripts' = [scripts EXCEPT ![i] = Idle] /\ ~s.open
  BY <1>2, <1>4
<1>6. PICK g : g = [s EXCEPT !.pc = p]
  OBVIOUS
<1>7. Replaces(i, g) \/ (Replaces(i, Idle) /\ ~s.open)
  BY <1>2, <1>5, <1>6 DEF Replaces
<1>8. PlaceOK(s) => PlaceOK(g)
  <2>1. g.pc = p /\ g.kind = s.kind /\ g.open = s.open
    BY <1>3, <1>6, PlaceSet
  <2>2. QED
    BY <1>2, <2>1 DEF PlaceOK
<1>9. p \in Early \union {"finally"} /\ s.pc \in Early /\ s.pc # "steps"
  BY <1>2 DEF Early
<1>10. QED
  BY <1>1, <1>2, <1>6, <1>7, <1>8, <1>9, Looks

(* A script sends a transaction and waits for it.                          *)
LEMMA Sends ==
  ASSUME OperationsInv, NEW i \in Terminals, NEW s, s = scripts[i], s # Idle, NEW g, Replaces(i, g),
         NEW x, sent' = sent \union {x}, UNCHANGED <<abandoned, receipts, smokeTests, deployments>>,
         TxOK(x), x.run = s.id, OwnOK(g, x),
         \A y \in Transactions : y.run = s.id => y.what = "submit" /\ x.what # "submit" /\ OwnOK(g, y),
         DOMAIN g = ScriptFields, DOMAIN g.seen = SeenFields,
         g.kind = s.kind, g.id = s.id, g.open = s.open, g.step = s.step, g.plan = s.plan,
         g.loaded = s.loaded, g.seen.attempts = s.seen.attempts, s.pc \in {"enable", "submit", "steps", "finally"},
         g.pc \in {"enabling", "submitting", "waiting", "pausing"}, PlaceOK(g),
         WillClear(s) => g.pc = "waiting"
  PROVE  OperationsInv'
<1>1. ScriptOK(s) /\ OneEach
  BY DEF OperationsInv
<1>2. ScriptTyped(g)
  BY <1>1 DEF ScriptOK, ScriptTyped
<1>3. ProgressOK(g)
  BY <1>1 DEF ScriptOK, ProgressOK
<1>4. KnowledgeOK(g)
  <2>1. ASSUME NEW r \in receipts, r.run = g.id
        PROVE  ReceiptOK(g, r)
    <3>1. r.what = "submit" /\ ReceiptOK(s, r)
      BY <1>1, <2>1 DEF Transactions, ScriptOK, KnowledgeOK
    <3>2. QED
      BY <3>1 DEF ReceiptOK, Attempted
  <2>2. \A c \in g.loaded : EvidenceOK(c)
    BY <1>1 DEF ScriptOK, KnowledgeOK
  <2>3. QED
    BY <2>1, <2>2 DEF KnowledgeOK
<1>5. ScriptOK(g)
  BY <1>2, <1>3, <1>4 DEF ScriptOK
<1>6. /\ Extends /\ started \in Nat /\ started' \in Nat /\ started <= started'
      /\ built \subseteq built'
  BY SameJournal DEF OperationsInv, Replaces
<1>7. ScriptOK(g)'
  <2>1. \A y \in Transactions' : y.run = g.id => y \in Transactions \/ OwnOK(g, y)
    BY DEF Transactions
  <2>2. \A r \in receipts' : r.run = g.id => r \in receipts \/ ReceiptOK(g, r)'
    OBVIOUS
  <2>3. QED
    BY <1>5, <1>6, <2>1, <2>2, KeptScript
<1>8. OneEach'
  <2>1. \A y \in sent \union receipts : y.run = x.run /\ y.what = x.what => x.what = "submit"
    BY DEF Transactions
  <2>2. QED
    BY <1>1, <2>1 DEF OneEach
<1>9. g # Idle
  BY NotIdle
<1>10. WillPause(s) => WillPause(g)'
  BY DEF WillPause
<1>11. WillClear(s) => WillClear(g)'
  BY DEF WillClear, Transactions
<1>12. FilesKept
  BY DEF OperationsInv, FilesKept
<1>13. OwnOnly(s) /\ Abandoning(s, g)
  BY <1>8, <1>9, <1>10, <1>11 DEF OwnOnly, Abandoning, StillCloses
<1>14. QED
  BY <1>7, <1>12, <1>13, Moves

(* The script that sends from a place where it has nothing outstanding.    *)
LEMMA EnableStep ==
  ASSUME OperationsInv, NEW i \in Terminals, Enable(i)
  PROVE  OperationsInv'
<1>1. PICK s : s = scripts[i]
  OBVIOUS
<1>2. PICK g : g = [s EXCEPT !.pc = "enabling"]
  OBVIOUS
<1>3. PICK x : x = Transaction(s, "enable")
  OBVIOUS
<1>4. /\ s # Idle /\ s.pc = "enable" /\ sent' = sent \union {x}
      /\ UNCHANGED <<abandoned, receipts, smokeTests, deployments>> /\ Replaces(i, g)
  BY <1>1, <1>2, <1>3 DEF Enable, At, Go, rest, operated, deployed, files, Replaces
<1>5. ScriptOK(s) /\ ScriptTyped(s) /\ PlaceOK(s)
  BY <1>1, <1>4 DEF OperationsInv, ScriptOK
<1>6. \A y \in Transactions : y.run # s.id
  BY <1>4, <1>5, EarlyAlone DEF OperationsInv, Early
<1>7. /\ DOMAIN g = ScriptFields /\ g.pc = "enabling" /\ g.kind = s.kind /\ g.id = s.id
      /\ g.open = s.open /\ g.step = s.step /\ g.plan = s.plan /\ g.loaded = s.loaded
      /\ g.seen = s.seen
  BY <1>2, <1>5, PlaceSet
<1>8. DOMAIN g.seen = SeenFields /\ g.seen.attempts = s.seen.attempts
  BY <1>5, <1>7 DEF ScriptTyped
<1>9. PlaceOK(g)
  BY <1>4, <1>5, <1>7 DEF PlaceOK
<1>10. TxOK(x) /\ x.run = s.id /\ x.what = "enable" /\ x.kind = s.kind
  BY <1>3, <1>5 DEF Transaction, TxOK, TxFields, ScriptTyped
<1>11. OwnOK(g, x)
  BY <1>7, <1>10 DEF OwnOK, AwaitedAt
<1>12. ~WillClear(s)
  BY <1>4 DEF WillClear
<1>13. QED
  BY <1>1, <1>4, <1>6, <1>7, <1>8, <1>9, <1>10, <1>11, <1>12, Sends

LEMMA SubmitStep ==
  ASSUME OperationsInv, NEW i \in Terminals, SubmitProposal(i)
  PROVE  OperationsInv'
<1>1. PICK s : s = scripts[i]
  OBVIOUS
<1>2. PICK e : e = IF s.kind \in Risk THEN Executions ELSE s.seen.executions
  OBVIOUS
<1>3. PICK g : g = [s EXCEPT !.pc = "submitting", !.seen.executions = e]
  OBVIOUS
<1>4. PICK x : x = Transaction(s, "submit")
  OBVIOUS
<1>5. /\ s # Idle /\ s.pc = "submit" /\ sent' = sent \union {x}
      /\ UNCHANGED <<abandoned, receipts, smokeTests, deployments>> /\ Replaces(i, g)
  BY <1>1, <1>2, <1>3, <1>4 DEF SubmitProposal, At, Go, rest, operated, deployed, files, Replaces
<1>6. ScriptOK(s) /\ ScriptTyped(s) /\ PlaceOK(s)
  BY <1>1, <1>5 DEF OperationsInv, ScriptOK
<1>7. \A y \in Transactions : y.run # s.id
  BY <1>5, <1>6, EarlyAlone DEF OperationsInv, Early
<1>8. /\ DOMAIN g = ScriptFields /\ g.pc = "submitting" /\ g.kind = s.kind /\ g.id = s.id
      /\ g.open = s.open /\ g.step = s.step /\ g.plan = s.plan /\ g.loaded = s.loaded
      /\ DOMAIN g.seen = SeenFields /\ g.seen.attempts = s.seen.attempts
  BY <1>3, <1>6 DEF ScriptTyped, ScriptFields, SeenFields
<1>9. PlaceOK(g)
  BY <1>5, <1>6, <1>8 DEF PlaceOK
<1>10. TxOK(x) /\ x.run = s.id /\ x.what = "submit" /\ x.kind = s.kind
  BY <1>4, <1>6 DEF Transaction, TxOK, TxFields, ScriptTyped
<1>11. OwnOK(g, x)
  BY <1>8, <1>10 DEF OwnOK, AwaitedAt
<1>12. ~WillClear(s)
  BY <1>5 DEF WillClear
<1>13. QED
  BY <1>1, <1>5, <1>7, <1>8, <1>9, <1>10, <1>11, <1>12, Sends

LEMMA SendStepStep ==
  ASSUME OperationsInv, NEW i \in Terminals, SendStep(i)
  PROVE  OperationsInv'
<1>1. PICK s : s = scripts[i]
  OBVIOUS
<1>2. PICK g : g = [s EXCEPT !.nonce = <<"step", nonce>>, !.pc = "waiting"]
  OBVIOUS
<1>3. PICK x : x = Transaction(g, "step")
  OBVIOUS
<1>4. /\ s # Idle /\ s.pc = "steps" /\ sent' = sent \union {x}
      /\ UNCHANGED <<abandoned, receipts, smokeTests, deployments>> /\ Replaces(i, g)
  BY <1>1, <1>2, <1>3 DEF SendStep, At, Go, rest, operated, deployed, files, Replaces
<1>5. ScriptOK(s) /\ ScriptTyped(s) /\ PlaceOK(s)
  BY <1>1, <1>4 DEF OperationsInv, ScriptOK
<1>6. \A y \in Transactions : y.run # s.id
  BY <1>4, <1>5, EarlyAlone DEF OperationsInv, Early
<1>7. /\ DOMAIN g = ScriptFields /\ g.pc = "waiting" /\ g.kind = s.kind /\ g.id = s.id
      /\ g.open = s.open /\ g.step = s.step /\ g.plan = s.plan /\ g.loaded = s.loaded
      /\ g.seen = s.seen
  BY <1>2, <1>5 DEF ScriptTyped, ScriptFields
<1>8. DOMAIN g.seen = SeenFields /\ g.seen.attempts = s.seen.attempts
  BY <1>5, <1>7 DEF ScriptTyped
<1>9. PlaceOK(g)
  BY <1>4, <1>5, <1>7 DEF PlaceOK
<1>10. /\ TxOK(x) /\ x.run = s.id /\ x.what = "step" /\ x.kind = s.kind
       /\ x.step = g.step /\ x.nonce = g.nonce
  BY <1>3, <1>5, <1>7 DEF Transaction, TxOK, TxFields, ScriptTyped
<1>11. OwnOK(g, x)
  BY <1>7, <1>10 DEF OwnOK, AwaitedAt
<1>12. QED
  BY <1>1, <1>4, <1>6, <1>7, <1>8, <1>9, <1>10, <1>11, Sends

(* The finally block pauses, unless the treasury is paused.                *)
LEMMA FinallyStep ==
  ASSUME OperationsInv, NEW i \in Terminals, Finally(i)
  PROVE  OperationsInv'
<1>1. PICK s : s = scripts[i]
  OBVIOUS
<1>2. /\ s # Idle /\ s.pc = "finally" /\ UNCHANGED <<abandoned, receipts, smokeTests, deployments>>
      /\ UNCHANGED <<mode, attempts, built, allowance, started>>
  BY <1>1 DEF Finally, At, rest, operated, deployed, files
<1>3. ScriptOK(s) /\ ScriptTyped(s) /\ PlaceOK(s)
  BY <1>1, <1>2 DEF OperationsInv, ScriptOK
<1>4. ASSUME NEW y \in Transactions, y.run = s.id
      PROVE  y.what = "submit" /\ y.kind = s.kind
  <2>1. TxOK(y) /\ OwnOK(s, y)
    BY <1>3, <1>4 DEF OperationsInv, ScriptOK
  <2>2. QED
    BY <1>2, <2>1 DEF TxOK, OwnOK, AwaitedAt
<1>5. ~WillClear(s)
  BY <1>2 DEF WillClear
<1>6. CASE mode = "paused"
  <2>1. Replaces(i, Idle) /\ sent' \subseteq sent
    BY <1>2, <1>6 DEF Finally, Go, Replaces
  <2>2. FilesKept
    BY <1>2 DEF OperationsInv, FilesKept
  <2>3. \A y \in sent' : y.run = s.id => ~Opens(y)
    BY <1>4, <2>1 DEF Transactions, Opens
  <2>4. QED
    BY <1>1, <1>2, <1>5, <1>6, <2>1, <2>2, <2>3, Ends
<1>7. CASE mode # "paused"
  <2>1. PICK g : g = [s EXCEPT !.pc = "pausing"]
    OBVIOUS
  <2>2. PICK x : x = Transaction(s, "pause")
    OBVIOUS
  <2>3. Replaces(i, g) /\ sent' = sent \union {x}
    BY <1>1, <1>2, <1>7, <2>1, <2>2 DEF Finally, Go, Replaces
  <2>4. /\ DOMAIN g = ScriptFields /\ g.pc = "pausing" /\ g.kind = s.kind /\ g.id = s.id
        /\ g.open = s.open /\ g.step = s.step /\ g.plan = s.plan /\ g.loaded = s.loaded
        /\ g.seen = s.seen
    BY <1>3, <2>1, PlaceSet
  <2>5. DOMAIN g.seen = SeenFields /\ g.seen.attempts = s.seen.attempts
    BY <1>3, <2>4 DEF ScriptTyped
  <2>6. PlaceOK(g)
    BY <1>2, <1>3, <2>4 DEF PlaceOK
  <2>7. TxOK(x) /\ x.run = s.id /\ x.what = "pause" /\ x.kind = s.kind
    BY <1>3, <2>2 DEF Transaction, TxOK, TxFields, ScriptTyped
  <2>8. OwnOK(g, x)
    BY <2>4, <2>7 DEF OwnOK, AwaitedAt
  <2>9. \A y \in Transactions : y.run = s.id => y.what = "submit" /\ x.what # "submit" /\ OwnOK(g, y)
    BY <1>4, <2>4, <2>7 DEF OwnOK, AwaitedAt
  <2>10. QED
    BY <1>1, <1>2, <1>5, <2>3, <2>4, <2>5, <2>6, <2>7, <2>8, <2>9, Sends
<1>8. QED
  BY <1>6, <1>7

(* The script has read the receipt of its pause.                           *)
LEMMA ReturnedStep ==
  ASSUME OperationsInv, NEW i \in Terminals, ReturnedToPaused(i)
  PROVE  OperationsInv'
<1>1. PICK s : s = scripts[i]
  OBVIOUS
<1>2. /\ s # Idle /\ s.pc = "pausing" /\ UNCHANGED <<abandoned, sent, smokeTests, deployments>>
      /\ Replaces(i, Idle) /\ receipts' \subseteq receipts
      /\ \E r \in receipts : r.run = s.id /\ r.what = "pause"
  BY <1>1 DEF ReturnedToPaused, At, Go, Receipt, rest, operated, deployed, files, Replaces
<1>3. ~WillPause(s) /\ ~WillClear(s)
  BY <1>2 DEF WillPause, WillClear
<1>4. ASSUME NEW y \in sent, y.run = s.id
      PROVE  ~Opens(y)
  <2>1. TxOK(y) /\ OwnOK(s, y)
    BY <1>1, <1>2, <1>4 DEF OperationsInv, ScriptOK, Transactions
  <2>2. QED
    BY <1>2, <2>1 DEF TxOK, OwnOK, AwaitedAt, Opens
<1>5. FilesKept
  BY <1>2 DEF OperationsInv, FilesKept
<1>6. QED
  BY <1>1, <1>2, <1>3, <1>4, <1>5, Ends

(* A script goes on without sending anything.                              *)
LEMMA Continues ==
  ASSUME OperationsInv, NEW i \in Terminals, NEW s, s = scripts[i], s # Idle, NEW g, Replaces(i, g),
         sent' \subseteq sent, receipts' \subseteq receipts, abandoned => abandoned', FilesKept,
         ScriptTyped(g), PlaceOK(g), ProgressOK(g), g.id = s.id, g.loaded = s.loaded,
         g.pc = "read" => Attempted(g),
         g.kind \in Smokes /\ g.pc = "record" =>
           EvidenceOf(g.kind, g.id, g.attempt, g.seen.executions),
         \A r \in receipts' : r.run = g.id => ReceiptOK(g, r),
         \A x \in Transactions' : x.run = g.id => OwnOK(g, x),
         mode = "active" /\ WillPause(s) => WillPause(g)',
         allowance /\ WillClear(s) => WillClear(g)'
  PROVE  OperationsInv'
<1>1. Extends /\ started' = started /\ built' = built /\ attempts' = attempts
  BY SameJournal DEF Replaces
<1>2. ScriptTyped(g)' /\ PlaceOK(g)' /\ ProgressOK(g)'
  BY <1>1 DEF ScriptTyped, PlaceOK, ProgressOK, BuiltStep
<1>3. KnowledgeOK(g)'
  <2>1. \A c \in g.loaded : EvidenceOK(c)
    BY DEF OperationsInv, ScriptOK, KnowledgeOK
  <2>2. \A c \in g.loaded : EvidenceOK(c)'
    BY <1>1, <2>1, KeptEvidence DEF EvidenceOK
  <2>3. \A r \in receipts' : r.run = g.id => ReceiptOK(g, r)'
    BY <1>1 DEF ReceiptOK, Attempted
  <2>4. g.pc = "read" => Attempted(g)'
    BY <1>1 DEF Attempted
  <2>5. g.kind \in Smokes /\ g.pc = "record" =>
          EvidenceOf(g.kind, g.id, g.attempt, g.seen.executions)'
    BY <1>1, KeptEvidence
  <2>6. QED
    BY <2>2, <2>3, <2>4, <2>5 DEF KnowledgeOK
<1>4. ScriptOK(g)'
  BY <1>2, <1>3 DEF ScriptOK, OwnOK
<1>5. g # Idle
  BY NotIdle DEF ScriptTyped
<1>6. OneEach'
  BY FewerTransactions DEF OperationsInv
<1>7. \A x \in sent' : x.run = s.id /\ Opens(x) => g # Idle
  BY <1>5
<1>8. OwnOnly(s) /\ Abandoning(s, g)
  BY <1>5, <1>6, <1>7 DEF OwnOnly, Abandoning, StillCloses
<1>9. QED
  BY <1>4, <1>8, Moves

(* What a script waits for.                                                *)
LEMMA Awaits ==
  ASSUME OperationsInv, NEW i \in Terminals, NEW s, s = scripts[i], s # Idle,
         NEW x \in Transactions, x.run = s.id
  PROVE  /\ s.pc = "enabling" => x.what = "enable"
         /\ s.pc = "waiting" => x.what = "step"
         /\ s.pc \in {"submitting", "read", "record", "finally"} => x.what = "submit"
         /\ s.pc = "pausing" => x.what \in {"submit", "pause"}
         /\ x.what \in {"enable", "pause", "step", "submit"} /\ OwnOK(s, x)
<1>1. OwnOK(s, x) /\ TxOK(x)
  BY DEF OperationsInv, ScriptOK
<1>2. QED
  BY <1>1 DEF OwnOK, TxOK, AwaitedAt

(* The receipt a script waits for is the only one of its kind, and when it *)
(* is read nothing of that kind is outstanding.                            *)
LEMMA OnlyReceipt ==
  ASSUME OperationsInv, NEW i \in Terminals, NEW s, s = scripts[i], s # Idle,
         NEW r \in receipts, r.run = s.id, r.what # "submit", UNCHANGED sent, receipts' = receipts \ {r}
  PROVE  \A x \in Transactions' : x.run = s.id => x.what # r.what
<1>1. OneEach
  BY DEF OperationsInv
<1>2. QED
  BY <1>1 DEF OneEach, Transactions

(* The treasury is active: from here the script has to pause it again.     *)
LEMMA ProposeStep ==
  ASSUME OperationsInv, NEW i \in Terminals, Propose(i)
  PROVE  OperationsInv'
<1>1. PICK s : s = scripts[i]
  OBVIOUS
<1>0. PICK r \in Receipt(i, "enable") :
        /\ receipts' = receipts \ {r}
        /\ Go(i, [scripts[i] EXCEPT !.open = TRUE, !.epoch = r.epoch, !.pc = "preview",
                    !.nonce = <<IF scripts[i].kind \in Risk THEN "risk" ELSE "strategy", Len(attempts)>>])
  BY Zenon DEF Propose
<1>2. r \in receipts /\ r.run = s.id /\ r.what = "enable" /\ receipts' = receipts \ {r}
  BY <1>0, <1>1 DEF Receipt
<1>3. PICK n : n = <<IF s.kind \in Risk THEN "risk" ELSE "strategy", Len(attempts)>>
  OBVIOUS
<1>4. PICK g : g = [s EXCEPT !.open = TRUE, !.epoch = r.epoch, !.pc = "preview", !.nonce = n]
  OBVIOUS
<1>5. /\ s # Idle /\ s.pc = "enabling" /\ UNCHANGED <<abandoned, sent, smokeTests, deployments>>
      /\ Replaces(i, g)
  BY <1>0, <1>1, <1>3, <1>4 DEF Propose, At, Go, rest, operated, deployed, files, Replaces
<1>6. ScriptOK(s) /\ ScriptTyped(s) /\ PlaceOK(s) /\ ProgressOK(s)
  BY <1>1, <1>5 DEF OperationsInv, ScriptOK
<1>7. s.kind \in Smokes /\ s.kind \notin Stepwise
  BY <1>5, <1>6 DEF ScriptTyped, PlaceOK, Smokes, Stepwise, Strategic, Risk
<1>8. /\ DOMAIN g = ScriptFields /\ g.pc = "preview" /\ g.kind = s.kind /\ g.id = s.id
      /\ g.open = TRUE /\ g.loaded = s.loaded /\ g.seen = s.seen
  BY <1>4, <1>6 DEF ScriptTyped, ScriptFields
<1>9. ASSUME NEW x \in Transactions', x.run = s.id
      PROVE  FALSE
  <2>1. x \in Transactions /\ x.what # "enable"
    BY <1>1, <1>2, <1>5, <1>9, OnlyReceipt DEF Transactions
  <2>2. QED
    BY <1>1, <1>5, <1>9, <2>1, Awaits
<1>10. ScriptTyped(g)
  BY <1>6, <1>8 DEF ScriptTyped
<1>11. PlaceOK(g) /\ ProgressOK(g)
  BY <1>7, <1>8 DEF PlaceOK, ProgressOK
<1>12. WillPause(g)'
  BY <1>8, <1>9 DEF WillPause, Transactions
<1>13. ~WillClear(s)
  BY <1>5 DEF WillClear
<1>14. FilesKept
  BY <1>5 DEF OperationsInv, FilesKept
<1>15. \A q \in receipts' : q.run # g.id
  BY <1>8, <1>9 DEF Transactions
<1>16. QED
  BY <1>1, <1>2, <1>5, <1>8, <1>9, <1>10, <1>11, <1>12, <1>13, <1>14, <1>15, Continues

LEMMA AwaitStep ==
  ASSUME OperationsInv, NEW i \in Terminals, AwaitSubmission(i)
  PROVE  OperationsInv'
<1>1. PICK s : s = scripts[i]
  OBVIOUS
<1>2. PICK r \in receipts : r.run = s.id /\ r.what = "submit" /\ receipts' = receipts \ {r}
  BY <1>1 DEF AwaitSubmission, Receipt
<1>3. PICK g : g = [s EXCEPT !.pc = "read"]
  OBVIOUS
<1>4. /\ s # Idle /\ s.pc = "submitting" /\ UNCHANGED <<abandoned, sent, smokeTests, deployments>>
      /\ Replaces(i, g)
  BY <1>1, <1>3 DEF AwaitSubmission, At, Go, rest, operated, deployed, files, Replaces
<1>5. ScriptOK(s) /\ ScriptTyped(s) /\ PlaceOK(s) /\ ProgressOK(s) /\ KnowledgeOK(s)
  BY <1>1, <1>4 DEF OperationsInv, ScriptOK
<1>6. /\ DOMAIN g = ScriptFields /\ g.pc = "read" /\ g.kind = s.kind /\ g.id = s.id
      /\ g.open = s.open /\ g.loaded = s.loaded /\ g.seen = s.seen
  BY <1>3, <1>5, PlaceSet
<1>7. ASSUME NEW x \in Transactions', x.run = s.id
      PROVE  x.what = "submit" /\ OwnOK(g, x) /\ x \in Transactions
  <2>1. x \in Transactions /\ x.what = "submit" /\ OwnOK(s, x)
    <3>1. x \in Transactions
      BY <1>2, <1>4, <1>7 DEF Transactions
    <3>2. QED
      BY <1>1, <1>4, <1>7, <3>1, Awaits
  <2>2. QED
    BY <1>6, <2>1 DEF OwnOK, AwaitedAt
<1>8. Attempted(s)
  BY <1>2, <1>5 DEF KnowledgeOK, ReceiptOK
<1>9. Attempted(g) /\ ScriptTyped(g)
  BY <1>5, <1>6, <1>8 DEF ScriptTyped, Attempted
<1>10. PlaceOK(g) /\ ProgressOK(g)
  BY <1>4, <1>5, <1>6 DEF PlaceOK, ProgressOK
<1>11. \A q \in receipts' : q.run = g.id => ReceiptOK(g, q)
  BY <1>6, <1>7, <1>9 DEF ReceiptOK, Transactions
<1>12. WillPause(s) => WillPause(g)'
  BY <1>2, <1>4, <1>6 DEF WillPause
<1>13. ~WillClear(s)
  BY <1>4 DEF WillClear
<1>14. FilesKept
  BY <1>4 DEF OperationsInv, FilesKept
<1>15. QED
  BY <1>1, <1>2, <1>4, <1>6, <1>7, <1>9, <1>10, <1>11, <1>12, <1>13, <1>14, Continues

(* A script that knows what became of its attempt and waits for nothing    *)
(* goes on to record it, or to its finally block, or ends.                 *)
LEMMA Concludes ==
  ASSUME OperationsInv, NEW i \in Terminals, NEW s, s = scripts[i], s # Idle, NEW g,
         s.pc \in {"read", "record"}, s.kind \in Smokes,
         UNCHANGED <<abandoned, sent, receipts>>, FilesKept,
         \/ Replaces(i, Idle) /\ ~s.open
         \/ /\ Replaces(i, g) /\ DOMAIN g = ScriptFields /\ g.pc \in {"finally", "record"}
            /\ g.kind = s.kind /\ g.id = s.id /\ g.open = s.open /\ g.loaded = s.loaded /\ g.seen = s.seen
            /\ g.pc = "record" => EvidenceOf(g.kind, g.id, g.attempt, g.seen.executions)
  PROVE  OperationsInv'
<1>1. ScriptOK(s) /\ ScriptTyped(s) /\ PlaceOK(s) /\ ProgressOK(s) /\ KnowledgeOK(s)
  BY DEF OperationsInv, ScriptOK
<1>2. ~WillClear(s)
  BY DEF WillClear
<1>3. \A x \in Transactions : x.run = s.id => x.what = "submit" /\ OwnOK(s, x)
  BY Awaits
<1>4. CASE Replaces(i, Idle) /\ ~s.open
  <2>1. ~WillPause(s)
    BY <1>4 DEF WillPause
  <2>2. \A x \in sent' : x.run = s.id => ~Opens(x)
    BY <1>3 DEF Transactions, Opens
  <2>3. QED
    BY <1>2, <1>4, <2>1, <2>2, Ends
<1>5. CASE /\ Replaces(i, g) /\ DOMAIN g = ScriptFields /\ g.pc \in {"finally", "record"}
           /\ g.kind = s.kind /\ g.id = s.id /\ g.open = s.open /\ g.loaded = s.loaded /\ g.seen = s.seen
           /\ g.pc = "record" => EvidenceOf(g.kind, g.id, g.attempt, g.seen.executions)
  <2>1. ScriptTyped(g)
    BY <1>1, <1>5 DEF ScriptTyped
  <2>2. s.kind \notin Stepwise
    BY DEF Smokes, Stepwise, Strategic, Risk
  <2>3. PlaceOK(g) /\ ProgressOK(g)
    BY <1>1, <1>5, <2>2 DEF PlaceOK, ProgressOK
  <2>4. \A x \in Transactions' : x.run = g.id => OwnOK(g, x)
    BY <1>3, <1>5 DEF Transactions, OwnOK, AwaitedAt
  <2>5. ASSUME NEW r \in receipts', r.run = g.id
        PROVE  ReceiptOK(g, r)
    <3>1. r.what = "submit" /\ ReceiptOK(s, r)
      BY <1>1, <1>3, <1>5, <2>5 DEF Transactions, KnowledgeOK
    <3>2. QED
      BY <1>5, <3>1 DEF ReceiptOK, Attempted
  <2>6. WillPause(s) => WillPause(g)'
    BY <1>5 DEF WillPause
  <2>7. g.pc # "read"
    BY <1>5
  <2>8. QED
    BY <1>2, <1>5, <2>1, <2>3, <2>4, <2>5, <2>6, <2>7, Continues
<1>6. QED
  BY <1>4, <1>5

(* The attempt a script shows, the last one, is what its evidence says:    *)
(* the paused script's own, since no other has been made.                  *)
LEMMA ShownAttempt ==
  ASSUME OperationsInv, NEW s, ScriptTyped(s), Attempted(s), Shows(s)
  PROVE  EvidenceOf(s.kind, s.id, Len(attempts), s.seen.executions)
<1>1. Len(attempts) \in 1..Len(attempts) /\ attempts[Len(attempts)].result = Expected(s.kind)
  BY DEF Shows, OperationsInv
<1>2. s.kind = "paused" => attempts[Len(attempts)].run = s.id
  <2>1. PICK n \in (s.seen.attempts + 1)..Len(attempts) : attempts[n].run = s.id
    BY DEF Attempted
  <2>2. s.kind = "paused" => Len(attempts) = s.seen.attempts + 1
    BY DEF Shows
  <2>3. QED
    BY <2>1, <2>2, <1>1 DEF ScriptTyped
<1>3. s.kind \in {"paused", "oversized"} => ExecutionsUpTo(Len(attempts)) = s.seen.executions
  BY DEF Shows, Unchanged, Executions, ExecutionsUpTo
<1>4. QED
  BY <1>1, <1>2, <1>3 DEF EvidenceOf

LEMMA ReadStep ==
  ASSUME OperationsInv, NEW i \in Terminals, ReadAttempt(i)
  PROVE  OperationsInv'
<1>1. PICK s : s = scripts[i]
  OBVIOUS
<1>2. PICK t : t = [s EXCEPT !.attempt = Len(attempts)]
  OBVIOUS
<1>3. PICK p : p = IF Shows(t) /\ t.kind \notin Strategic THEN "record" ELSE "finally"
  OBVIOUS
<1>4. PICK g : g = [t EXCEPT !.pc = p]
  OBVIOUS
<1>5. /\ s # Idle /\ s.pc = "read"
      /\ UNCHANGED <<abandoned, sent, receipts, smokeTests, deployments>>
      /\ UNCHANGED <<mode, attempts, built, allowance, started>>
      /\ scripts' = [scripts EXCEPT ![i] = IF ~Shows(t) THEN Thrown(t)
           ELSE [t EXCEPT !.pc = IF t.kind \in Strategic THEN "finally" ELSE "record"]]
  BY <1>1, <1>2 DEF ReadAttempt, At, Go, still, rest, operated, deployed, files
<1>6. ScriptTyped(s) /\ PlaceOK(s) /\ KnowledgeOK(s)
  BY <1>1, <1>5 DEF OperationsInv, ScriptOK
<1>7. /\ DOMAIN t = ScriptFields /\ t.pc = "read" /\ t.kind = s.kind /\ t.id = s.id
      /\ t.open = s.open /\ t.loaded = s.loaded /\ t.seen = s.seen /\ t.attempt = Len(attempts)
  BY <1>2, <1>5, <1>6 DEF ScriptTyped, ScriptFields
<1>8. /\ DOMAIN g = ScriptFields /\ g.pc = p /\ g.kind = s.kind /\ g.id = s.id
      /\ g.open = s.open /\ g.loaded = s.loaded /\ g.seen = s.seen /\ g.attempt = Len(attempts)
  BY <1>4, <1>7 DEF ScriptFields
<1>9. s.kind \in Smokes /\ s.kind \notin Stepwise
  BY <1>5, <1>6 DEF PlaceOK, ScriptTyped, Stepwise
<1>10. ScriptTyped(t) /\ Attempted(t)
  BY <1>5, <1>6, <1>7 DEF ScriptTyped, KnowledgeOK, Attempted
<1>11. p = "record" => EvidenceOf(g.kind, g.id, g.attempt, g.seen.executions)
  BY <1>3, <1>7, <1>8, <1>10, ShownAttempt
<1>12. Thrown(t) = IF s.open THEN [t EXCEPT !.pc = "finally"] ELSE Idle
  BY <1>7 DEF Thrown
<1>13. (Replaces(i, Idle) /\ ~s.open) \/ Replaces(i, g)
  BY <1>3, <1>4, <1>5, <1>12 DEF Replaces
<1>14. p \in {"record", "finally"}
  BY <1>3
<1>15. FilesKept
  BY <1>5 DEF OperationsInv, FilesKept
<1>16. QED
  BY <1>1, <1>5, <1>8, <1>9, <1>11, <1>13, <1>14, <1>15, Concludes

LEMMA RecordStep ==
  ASSUME OperationsInv, NEW i \in Terminals, RecordEvidence(i)
  PROVE  OperationsInv'
<1>1. PICK s : s = scripts[i]
  OBVIOUS
<1>2. PICK c : c = [kind |-> s.kind, run |-> s.id, attempt |-> s.attempt,
                    executions |-> s.seen.executions]
  OBVIOUS
<1>3. PICK g : g = [s EXCEPT !.pc = "finally"]
  OBVIOUS
<1>4. /\ s # Idle /\ s.pc = "record" /\ s.kind \in Smokes
      /\ UNCHANGED <<abandoned, sent, receipts, deployments>> /\ smokeTests' = s.loaded \union {c}
      /\ (Replaces(i, Idle) /\ ~s.open) \/ Replaces(i, g)
  BY <1>1, <1>2, <1>3 DEF RecordEvidence, At, Go, operated, deployed, Replaces
<1>5. ScriptTyped(s) /\ KnowledgeOK(s)
  BY <1>1, <1>4 DEF OperationsInv, ScriptOK
<1>6. EvidenceOK(c)
  <2>1. EvidenceOf(s.kind, s.id, s.attempt, s.seen.executions)
    BY <1>4, <1>5 DEF KnowledgeOK
  <2>2. QED
    BY <1>2, <2>1 DEF EvidenceOK
<1>7. FilesKept
  BY <1>4, <1>5, <1>6 DEF OperationsInv, FilesKept, KnowledgeOK
<1>8. /\ DOMAIN g = ScriptFields /\ g.pc = "finally" /\ g.kind = s.kind /\ g.id = s.id
      /\ g.open = s.open /\ g.loaded = s.loaded /\ g.seen = s.seen
  BY <1>3, <1>5, PlaceSet
<1>9. QED
  BY <1>1, <1>4, <1>7, <1>8, Concludes

(* The step a deployment waits for is on the chain: it goes on to the next *)
(* one, or to its record after the last, or gives up at a token that is    *)
(* not where it was planned.                                               *)
LEMMA StepDoneStep ==
  ASSUME OperationsInv, NEW i \in Terminals, StepDone(i)
  PROVE  OperationsInv'
<1>1. PICK s : s = scripts[i]
  OBVIOUS
<1>2. PICK r \in receipts : r.run = s.id /\ r.what = "step" /\ receipts' = receipts \ {r}
  BY <1>1 DEF StepDone, Receipt
<1>3. /\ s # Idle /\ s.pc = "waiting" /\ UNCHANGED <<abandoned, sent, smokeTests, deployments>>
      /\ UNCHANGED <<mode, attempts, built, allowance, started>>
      /\ scripts' = [scripts EXCEPT ![i] =
           IF ~AsPlanned(s) THEN Idle
           ELSE IF s.step = Len(StepsOf(s.kind)) THEN [s EXCEPT !.pc = "record"]
           ELSE [s EXCEPT !.step = @ + 1, !.pc = "steps"]]
  BY <1>1 DEF StepDone, At, Go, rest, operated, deployed, files
<1>4. ScriptTyped(s) /\ PlaceOK(s) /\ ProgressOK(s) /\ KnowledgeOK(s)
  BY <1>1, <1>3 DEF OperationsInv, ScriptOK
<1>5. s.kind \in Stepwise /\ s.kind \notin Smokes /\ ~s.open
  BY <1>3, <1>4 DEF ScriptTyped, PlaceOK, Stepwise, Smokes, Strategic, Risk
<1>6. s.step \in 1..Len(StepsOf(s.kind))
  BY <1>4, <1>5 DEF ProgressOK
<1>7. ASSUME NEW x \in Transactions', x.run = s.id
      PROVE  FALSE
  <2>1. x \in Transactions /\ x.what # "step"
    BY <1>1, <1>2, <1>3, <1>7, OnlyReceipt DEF Transactions
  <2>2. QED
    BY <1>1, <1>3, <1>7, <2>1, Awaits
<1>8. ~WillPause(s)
  BY <1>3, <1>5 DEF WillPause
<1>9. FilesKept
  BY <1>3 DEF OperationsInv, FilesKept
<1>10. CASE ~AsPlanned(s)
  <2>1. Replaces(i, Idle)
    BY <1>3, <1>10 DEF Replaces
  <2>2. s.kind # "market"
    BY <1>6, <1>10 DEF AsPlanned, StepsOf, MarketSteps
  <2>3. ~WillClear(s)
    BY <2>2 DEF WillClear
  <2>4. \A x \in sent' : x.run = s.id => ~Opens(x)
    BY <1>7 DEF Transactions
  <2>5. QED
    BY <1>1, <1>2, <1>3, <1>8, <1>9, <2>1, <2>3, <2>4, Ends
<1>11. CASE AsPlanned(s)
  <2>1. PICK b \in built : b.run = s.id /\ b.step = s.step /\ b.address = s.nonce[2]
    BY <1>2, <1>4 DEF KnowledgeOK, ReceiptOK
  <2>2. BuiltStep(s.id, s.kind, s.plan, s.step)
    BY <1>11, <2>1 DEF BuiltStep, AsPlanned
  <2>3. \A k \in 1..Len(StepsOf(s.kind)) : k <= s.step => BuiltStep(s.id, s.kind, s.plan, k)
    <3>1. ASSUME NEW k \in 1..Len(StepsOf(s.kind)), k <= s.step
          PROVE  BuiltStep(s.id, s.kind, s.plan, k)
      <4>1. k < s.step \/ k = s.step
        BY <1>6, <3>1
      <4>2. CASE k < s.step
        BY <1>4, <1>5, <4>2 DEF ProgressOK
      <4>3. QED
        BY <2>2, <4>1, <4>2
    <3>2. QED
      BY <3>1
  <2>4. CASE s.step = Len(StepsOf(s.kind))
    <3>1. PICK g : g = [s EXCEPT !.pc = "record"]
      OBVIOUS
    <3>2. Replaces(i, g)
      BY <1>3, <1>11, <2>4, <3>1 DEF Replaces
    <3>3. /\ DOMAIN g = ScriptFields /\ g.pc = "record" /\ g.kind = s.kind /\ g.id = s.id
          /\ g.open = s.open /\ g.step = s.step /\ g.plan = s.plan /\ g.loaded = s.loaded
          /\ g.seen = s.seen
      BY <1>4, <3>1, PlaceSet
    <3>4. ScriptTyped(g) /\ PlaceOK(g)
      BY <1>4, <1>5, <3>3 DEF ScriptTyped, PlaceOK
    <3>5. ProgressOK(g)
      BY <1>6, <2>3, <2>4, <3>3 DEF ProgressOK
    <3>6. ~WillClear(s)
      <4>1. s.kind = "market" => s.step = 3
        BY <2>4 DEF StepsOf, MarketSteps
      <4>2. QED
        BY <1>2, <4>1 DEF WillClear
    <3>7. \A q \in receipts' : q.run # g.id
      BY <1>7, <3>3 DEF Transactions
    <3>8. g.kind \notin Smokes
      BY <1>5, <3>3
    <3>9. QED
      BY <1>1, <1>2, <1>3, <1>7, <1>8, <1>9, <3>2, <3>3, <3>4, <3>5, <3>6, <3>7, <3>8, Continues
  <2>5. CASE s.step # Len(StepsOf(s.kind))
    <3>1. PICK g : g = [s EXCEPT !.step = s.step + 1, !.pc = "steps"]
      OBVIOUS
    <3>2. Replaces(i, g)
      BY <1>3, <1>11, <2>5, <3>1 DEF Replaces
    <3>3. /\ DOMAIN g = ScriptFields /\ g.pc = "steps" /\ g.kind = s.kind /\ g.id = s.id
          /\ g.open = s.open /\ g.step = s.step + 1 /\ g.plan = s.plan /\ g.loaded = s.loaded
          /\ g.seen = s.seen
      BY <1>4, <3>1 DEF ScriptTyped, ScriptFields
    <3>4. ScriptTyped(g) /\ PlaceOK(g)
      BY <1>4, <1>5, <3>3 DEF ScriptTyped, PlaceOK
    <3>5. ProgressOK(g)
      <4>1. Len(StepsOf(s.kind)) \in Nat
        BY <1>5 DEF StepsOf, Stepwise, LifecycleSteps, PoolSteps, MarketSteps
      <4>2. \A k \in 1..Len(StepsOf(s.kind)) : k < s.step + 1 => k <= s.step
        BY <1>6
      <4>3. s.step + 1 \in 1..Len(StepsOf(s.kind))
        BY <1>6, <2>5, <4>1
      <4>4. QED
        BY <2>3, <3>3, <4>2, <4>3 DEF ProgressOK
    <3>6. WillClear(s) => WillClear(g)'
      BY <1>6, <1>7, <3>3 DEF WillClear, Transactions
    <3>7. \A q \in receipts' : q.run # g.id
      BY <1>7, <3>3 DEF Transactions
    <3>8. g.kind \notin Smokes
      BY <1>5, <3>3
    <3>9. QED
      BY <1>1, <1>2, <1>3, <1>7, <1>8, <1>9, <3>2, <3>3, <3>4, <3>5, <3>6, <3>7, <3>8, Continues
  <2>6. QED
    BY <2>4, <2>5
<1>12. QED
  BY <1>10, <1>11

(* A deployment is recorded when all its steps are built.                  *)
LEMMA RecordDeploymentStep ==
  ASSUME OperationsInv, NEW i \in Terminals, RecordDeployment(i)
  PROVE  OperationsInv'
<1>1. PICK s : s = scripts[i]
  OBVIOUS
<1>2. PICK d : d = [kind |-> s.kind, run |-> s.id, first |-> s.plan]
  OBVIOUS
<1>3. /\ s # Idle /\ s.pc = "record" /\ s.kind \in Stepwise
      /\ UNCHANGED <<abandoned, sent, receipts, smokeTests>> /\ Replaces(i, Idle)
      /\ deployments' = {e \in deployments : e.kind # s.kind} \union {d}
  BY <1>1, <1>2 DEF RecordDeployment, At, Go, operated, deployed, Replaces
<1>4. PlaceOK(s) /\ ProgressOK(s)
  BY <1>1, <1>3 DEF OperationsInv, ScriptOK
<1>5. DeploymentOK(d)
  <2>1. \A k \in 1..Len(StepsOf(s.kind)) : BuiltStep(s.id, s.kind, s.plan, k)
    BY <1>3, <1>4 DEF ProgressOK
  <2>2. QED
    BY <1>2, <2>1 DEF DeploymentOK
<1>6. FilesKept
  BY <1>3, <1>5 DEF OperationsInv, FilesKept
<1>7. ~s.open
  BY <1>3, <1>4 DEF PlaceOK, Stepwise, Smokes, Strategic, Risk
<1>8. ~WillPause(s) /\ ~WillClear(s)
  BY <1>3, <1>7 DEF WillPause, WillClear
<1>9. ASSUME NEW x \in sent', x.run = s.id
      PROVE  ~Opens(x)
  <2>1. x.what = "submit"
    BY <1>1, <1>3, <1>9, Awaits DEF Transactions
  <2>2. QED
    BY <2>1 DEF Opens
<1>10. QED
  BY <1>1, <1>3, <1>6, <1>8, <1>9, Ends

(* With nothing open, nothing is left to close.                            *)
LEMMA NothingToClose ==
  ASSUME OperationsInv, NEW i \in Terminals, NEW s, s = scripts[i], s # Idle, ~Open(s)
  PROVE  /\ ~WillPause(s) /\ ~WillClear(s)
         /\ \A x \in sent : x.run = s.id => ~Opens(x)
<1>1. ~s.open /\ s.pc # "enabling" /\ (s.kind = "market" => ~(s.step > 1) /\ s.pc # "waiting")
  BY DEF Open
<1>2. ~WillPause(s) /\ ~WillClear(s)
  BY <1>1 DEF WillPause, WillClear
<1>3. ASSUME NEW x \in sent, x.run = s.id
      PROVE  ~Opens(x)
  <2>1. OwnOK(s, x)
    BY <1>3, Awaits DEF Transactions
  <2>2. QED
    BY <1>1, <2>1 DEF OwnOK, AwaitedAt, Opens
<1>4. QED
  BY <1>2, <1>3

LEMMA ProcessEndsStep ==
  ASSUME OperationsInv, NEW i \in Terminals, ProcessEnds(i)
  PROVE  OperationsInv'
<1>1. PICK s : s = scripts[i]
  OBVIOUS
<1>2. /\ s # Idle /\ UNCHANGED <<sent, smokeTests, deployments>> /\ receipts' \subseteq receipts
      /\ abandoned' = (abandoned \/ Open(s)) /\ Replaces(i, Idle)
  BY <1>1 DEF ProcessEnds, Go, operated, deployed, files, Replaces
<1>0. (abandoned => abandoned') /\ (Open(s) => abandoned')
  BY <1>2
<1>3. FilesKept
  BY <1>2 DEF OperationsInv, FilesKept
<1>4. CASE Open(s)
  BY <1>0, <1>1, <1>2, <1>3, <1>4, Ends
<1>5. CASE ~Open(s)
  <2>1. ~WillPause(s) /\ ~WillClear(s) /\ \A x \in sent : x.run = s.id => ~Opens(x)
    BY <1>1, <1>2, <1>5, NothingToClose
  <2>2. QED
    BY <1>0, <1>1, <1>2, <1>3, <2>1, Ends
<1>6. QED
  BY <1>4, <1>5

(* A failing call: inside the try block the finally block follows.         *)
LEMMA CallFailsStep ==
  ASSUME OperationsInv, NEW i \in Terminals, CallFails(i)
  PROVE  OperationsInv'
<1>1. PICK s : s = scripts[i]
  OBVIOUS
<1>2. PICK g : g = [s EXCEPT !.pc = "finally"]
  OBVIOUS
<1>3. /\ s # Idle /\ UNCHANGED <<smokeTests, deployments>> /\ sent' \subseteq sent
      /\ receipts' \subseteq receipts /\ \A r \in receipts' : r.run # s.id
      /\ abandoned' = (abandoned \/ Unguarded(s))
      /\ UNCHANGED <<mode, attempts, built, allowance, started>>
      /\ scripts' = [scripts EXCEPT ![i] = Thrown(s)]
  BY <1>1 DEF CallFails, Go, operated, deployed, files
<1>0. (abandoned => abandoned') /\ (Unguarded(s) => abandoned')
  BY <1>3
<1>4. FilesKept
  BY <1>3 DEF OperationsInv, FilesKept
<1>5. ScriptTyped(s) /\ PlaceOK(s) /\ ProgressOK(s)
  BY <1>1, <1>3 DEF OperationsInv, ScriptOK
<1>6. CASE ~(s.open /\ s.pc \notin {"finally", "pausing"})
  <2>1. Replaces(i, Idle)
    BY <1>3, <1>6 DEF Thrown, Replaces
  <2>2. CASE Unguarded(s)
    BY <1>0, <1>1, <1>3, <1>4, <2>1, <2>2, Ends
  <2>3. CASE ~Unguarded(s)
    <3>1. ~Open(s)
      BY <1>6, <2>3 DEF Unguarded, Open
    <3>2. ~WillPause(s) /\ ~WillClear(s) /\ \A x \in sent : x.run = s.id => ~Opens(x)
      BY <1>1, <1>3, <3>1, NothingToClose
    <3>3. QED
      BY <1>0, <1>1, <1>3, <1>4, <2>1, <3>2, Ends
  <2>4. QED
    BY <2>2, <2>3
<1>7. CASE s.open /\ s.pc \notin {"finally", "pausing"}
  <2>1. Replaces(i, g)
    BY <1>2, <1>3, <1>7 DEF Thrown, Replaces
  <2>2. /\ DOMAIN g = ScriptFields /\ g.pc = "finally" /\ g.kind = s.kind /\ g.id = s.id
        /\ g.open = s.open /\ g.loaded = s.loaded /\ g.seen = s.seen
    BY <1>2, <1>5, PlaceSet
  <2>3. s.kind \in Smokes /\ s.kind \notin Stepwise
    BY <1>5, <1>7 DEF PlaceOK, Smokes, Stepwise, Strategic, Risk
  <2>4. s.pc \in {"preview", "submit", "submitting", "read", "record"}
    BY <1>5, <1>7 DEF PlaceOK
  <2>6. ScriptTyped(g) /\ PlaceOK(g) /\ ProgressOK(g)
    BY <1>5, <2>2, <2>3 DEF ScriptTyped, PlaceOK, ProgressOK
  <2>7. \A x \in Transactions' : x.run = g.id => OwnOK(g, x)
    <3>1. ASSUME NEW x \in Transactions', x.run = s.id
          PROVE  OwnOK(g, x)
      <4>1. x \in Transactions
        BY <1>3, <3>1 DEF Transactions
      <4>2. OwnOK(s, x) /\ x.what \in {"enable", "pause", "step", "submit"}
        BY <1>1, <1>3, <3>1, <4>1, Awaits
      <4>3. x.what = "submit"
        BY <2>4, <4>2 DEF OwnOK, AwaitedAt
      <4>4. QED
        BY <2>2, <4>2, <4>3 DEF OwnOK, AwaitedAt
    <3>2. QED
      BY <2>2, <3>1
  <2>8. WillPause(g)'
    BY <1>3, <1>7, <2>2 DEF WillPause
  <2>9. ~WillClear(s)
    BY <2>3 DEF WillClear, Stepwise
  <2>10. \A r \in receipts' : r.run # g.id
    BY <1>3, <2>2
  <2>11. QED
    BY <1>0, <1>1, <1>3, <1>4, <2>1, <2>2, <2>6, <2>7, <2>8, <2>9, <2>10, Continues
<1>8. QED
  BY <1>6, <1>7

(* A new run has a number of its own and has done nothing.                 *)
LEMMA StartStep ==
  ASSUME OperationsInv, NEW i \in Terminals, NEW kind \in Smokes \union Stepwise, StartScript(i, kind)
  PROVE  OperationsInv'
<1>1. PICK n : n = IF kind = "pool" THEN nonce ELSE 0
  OBVIOUS
<1>2. PICK p : p = IF kind \in Smokes THEN "check" ELSE "plan"
  OBVIOUS
<1>3. PICK g : g = [kind |-> kind, id |-> started', open |-> FALSE, step |-> 1, epoch |-> 0,
                    nonce |-> <<"step", 0>>, plan |-> n, loaded |-> smokeTests,
                    seen |-> [attempts |-> 0, executions |-> 0, holdings |-> 0], attempt |-> 0, pc |-> p]
  OBVIOUS
<1>4. /\ scripts[i] = Idle /\ started' = started + 1 /\ scripts' = [scripts EXCEPT ![i] = g]
      /\ UNCHANGED <<mode, attempts, sent, receipts, built, allowance, smokeTests, deployments, abandoned>>
  BY <1>1, <1>2, <1>3 DEF StartScript, Go, operated, deployed, files
<1>5. /\ DOMAIN g = ScriptFields /\ DOMAIN g.seen = SeenFields /\ g.kind = kind /\ g.id = started + 1
      /\ g.open = FALSE /\ g.step = 1 /\ g.loaded = smokeTests /\ g.seen.attempts = 0 /\ g.pc = p
  BY <1>3, <1>4 DEF ScriptFields, SeenFields
<1>6. /\ DOMAIN scripts' = Terminals /\ scripts'[i] = g
      /\ \A j \in Terminals : j # i => scripts'[j] = scripts[j]
  BY <1>4 DEF OperationsInv
<1>7. Extends /\ started \in Nat /\ started' \in Nat /\ started <= started'
  BY <1>4, SameJournal DEF OperationsInv
<1>8. \A x \in Transactions' : x \in Transactions /\ x.run \in Int /\ x.run <= started
  BY <1>4 DEF OperationsInv, Transactions, TxOK
<1>9. ScriptOK(g)'
  <2>1. ScriptTyped(g)'
    <3>1. g.open \in BOOLEAN
      BY <1>3
    <3>2. /\ g.id \in Int /\ g.id <= started' /\ g.seen.attempts \in Nat
          /\ g.seen.attempts <= Len(attempts)'
      BY <1>4, <1>5, <1>7 DEF Extends
    <3>3. QED
      BY <1>5, <3>1, <3>2 DEF ScriptTyped
  <2>0. \/ kind \in Smokes /\ p = "check" /\ kind \notin Stepwise
        \/ kind \in Stepwise /\ p = "plan" /\ kind \notin Smokes
    BY <1>2 DEF Smokes, Stepwise, Strategic, Risk
  <2>2. PlaceOK(g)' /\ ProgressOK(g)'
    <3>1. PlaceOK(g)'
      BY <1>5, <2>0 DEF PlaceOK
    <3>2. kind \in Stepwise => Len(StepsOf(kind)) \in Nat /\ 1 <= Len(StepsOf(kind))
      BY DEF StepsOf, LifecycleSteps, PoolSteps, MarketSteps, Stepwise
    <3>3. kind \in Stepwise =>
            1 \in 1..Len(StepsOf(kind)) /\ \A k \in 1..Len(StepsOf(kind)) : ~(k < 1)
      BY <3>2
    <3>4. ProgressOK(g)'
      BY <1>5, <2>0, <3>3 DEF ProgressOK
    <3>5. QED
      BY <3>1, <3>4
  <2>3. \A x \in Transactions' : x.run # g.id
    BY <1>5, <1>7, <1>8
  <2>4. KnowledgeOK(g)'
    <3>1. \A c \in g.loaded : EvidenceOK(c)'
      BY <1>5, <1>7, KeptEvidence DEF OperationsInv, EvidenceOK
    <3>2. \A r \in receipts' : r.run # g.id
      BY <2>3 DEF Transactions
    <3>3. g.pc # "read" /\ g.pc # "record"
      BY <1>2, <1>5
    <3>4. QED
      BY <3>1, <3>2, <3>3 DEF KnowledgeOK
  <2>5. QED
    BY <2>1, <2>2, <2>3, <2>4 DEF ScriptOK
<1>10. ASSUME NEW j \in Terminals, j # i, scripts[j] # Idle
       PROVE  ScriptOK(scripts[j])' /\ scripts[j].id \in Int /\ scripts[j].id <= started
  <2>1. PICK t : t = scripts[j]
    OBVIOUS
  <2>2. t = scripts'[j] /\ ScriptOK(t) /\ t.id \in Int /\ t.id <= started
    BY <1>6, <1>10, <2>1 DEF OperationsInv, ScriptOK, ScriptTyped
  <2>3. \A x \in Transactions' : x \in Transactions
    BY <1>8
  <2>4. ScriptOK(t)'
    BY <1>4, <1>7, <2>2, <2>3, KeptScript
  <2>5. QED
    BY <2>1, <2>2, <2>4
<1>11. ASSUME NEW j \in Terminals, scripts'[j] # Idle
       PROVE  ScriptOK(scripts[j])'
  BY <1>6, <1>9, <1>10, <1>11
<1>12. ASSUME NEW j \in Terminals, NEW k \in Terminals,
              scripts'[j] # Idle, scripts'[k] # Idle, scripts'[j].id = scripts'[k].id
       PROVE  j = k
  <2>1. CASE j # i /\ k # i
    BY <1>6, <1>12, <2>1 DEF OperationsInv
  <2>2. CASE j # i /\ k = i
    BY <1>5, <1>6, <1>7, <1>10, <1>12, <2>2
  <2>3. CASE j = i /\ k # i
    BY <1>5, <1>6, <1>7, <1>10, <1>12, <2>3
  <2>4. QED
    BY <2>1, <2>2, <2>3
<1>13. \A x \in Transactions' : TxOK(x)'
  <2>1. \A x \in Transactions' : TxOK(x)
    BY <1>8 DEF OperationsInv
  <2>2. QED
    BY <1>7, <1>8, <2>1 DEF TxOK
<1>14. OneEach'
  BY <1>4, FewerTransactions DEF OperationsInv
<1>15. ASSUME ~abandoned'
       PROVE  ClosersOK'
  <2>1. ClosersOK
    BY <1>4, <1>15 DEF OperationsInv
  <2>2. mode' = "active" => \E j \in Terminals : scripts'[j] # Idle /\ WillPause(scripts[j])'
    <3>1. ASSUME mode' = "active"
          PROVE  \E j \in Terminals : scripts'[j] # Idle /\ WillPause(scripts[j])'
      <4>1. PICK j \in Terminals : scripts[j] # Idle /\ WillPause(scripts[j])
        BY <1>4, <2>1, <3>1 DEF ClosersOK
      <4>2. j # i
        BY <1>4, <4>1
      <4>3. QED
        BY <1>4, <1>6, <4>1, <4>2 DEF WillPause
    <3>2. QED
      BY <3>1
  <2>3. allowance' => \E j \in Terminals : scripts'[j] # Idle /\ WillClear(scripts[j])'
    <3>1. ASSUME allowance'
          PROVE  \E j \in Terminals : scripts'[j] # Idle /\ WillClear(scripts[j])'
      <4>1. PICK j \in Terminals : scripts[j] # Idle /\ WillClear(scripts[j])
        BY <1>4, <2>1, <3>1 DEF ClosersOK
      <4>2. j # i
        BY <1>4, <4>1
      <4>3. QED
        BY <1>4, <1>6, <4>1, <4>2 DEF WillClear
    <3>2. QED
      BY <3>1
  <2>4. ASSUME NEW x \in sent', Opens(x)
        PROVE  Running(x.run)'
    <3>1. PICK j \in Terminals : scripts[j] # Idle /\ scripts[j].id = x.run
      BY <1>4, <2>1, <2>4 DEF ClosersOK, Running
    <3>2. j # i
      BY <1>4, <3>1
    <3>3. QED
      BY <1>6, <3>1, <3>2 DEF Running
  <2>5. QED
    BY <2>2, <2>3, <2>4 DEF ClosersOK, Opens
<1>16. \A c \in smokeTests' : EvidenceOK(c)'
  BY <1>4, <1>7, KeptEvidence DEF OperationsInv, EvidenceOK
<1>17. \A d \in deployments' : DeploymentOK(d)'
  BY <1>4 DEF OperationsInv, DeploymentOK, BuiltStep
<1>18. attempts' \in Seq([run : Int, result : Results])
  BY <1>4 DEF OperationsInv
<1>19. QED
  BY <1>6, <1>7, <1>11, <1>12, <1>13, <1>14, <1>15, <1>16, <1>17, <1>18 DEF OperationsInv

(* The chain includes a transaction: its run, if it still runs, has the    *)
(* receipt r, which says what is so.                                       *)
ReceiptFor(tx, r) ==
  /\ r.run = tx.run /\ r.what = tx.what /\ r.kind = tx.kind /\ r.step = tx.step /\ r.nonce = tx.nonce
  /\ DOMAIN r = TxFields
Mines(tx, r) ==
  /\ sent' = sent \ {tx}
  /\ receipts' = IF Running(tx.run) THEN receipts \union {r} ELSE receipts
  /\ UNCHANGED <<smokeTests, deployments, scripts, started, abandoned>>

LEMMA ReceiptIncluded ==
  ASSUME NEW tx, TxOK(tx), NEW e, NEW r, r = [tx EXCEPT !.epoch = e], Included(tx, e)
  PROVE  /\ ReceiptFor(tx, r)
         /\ receipts' = IF Running(tx.run) THEN receipts \union {r} ELSE receipts
BY DEF Included, Running, ReceiptFor, TxOK, TxFields

LEMMA ReceiptArrives ==
  ASSUME OperationsInv, NEW tx \in sent, NEW r, ReceiptFor(tx, r), Mines(tx, r),
         Extends, attempts' \in Seq([run : Int, result : Results]), built \subseteq built',
         \A i \in Terminals : scripts[i] # Idle /\ scripts[i].id = tx.run => ReceiptOK(scripts[i], r)',
         abandoned \/ (mode' = "active" => \E i \in Terminals : scripts[i] # Idle /\ WillPause(scripts[i])'),
         abandoned \/ (allowance' => \E i \in Terminals : scripts[i] # Idle /\ WillClear(scripts[i])')
  PROVE  OperationsInv'
<1>1. /\ sent' \subseteq sent /\ tx \notin sent' /\ \A q \in receipts' : q \in receipts \/ q = r
      /\ UNCHANGED <<smokeTests, deployments, scripts, started, abandoned>> /\ started \in Nat
  BY DEF Mines, OperationsInv
<1>2. TxOK(tx) /\ TxOK(r)
  BY DEF OperationsInv, Transactions, TxOK, ReceiptFor
<1>3. ASSUME NEW i \in Terminals, scripts[i] # Idle
      PROVE  ScriptOK(scripts[i])'
  <2>1. PICK s : s = scripts[i]
    OBVIOUS
  <2>2. ScriptOK(s) /\ s = scripts'[i]
    BY <1>1, <1>3, <2>1 DEF OperationsInv
  <2>3. \A x \in Transactions' : x.run = s.id => x \in Transactions \/ OwnOK(s, x)
    <3>1. s.id = tx.run => OwnOK(s, tx)
      BY <2>2 DEF ScriptOK, Transactions
    <3>2. s.id = tx.run => OwnOK(s, r)
      BY <3>1 DEF OwnOK, ReceiptFor
    <3>3. QED
      BY <1>1, <3>2 DEF Transactions, ReceiptFor
  <2>4. \A q \in receipts' : q.run = s.id => q \in receipts \/ ReceiptOK(s, q)'
    <3>1. s.id = tx.run => ReceiptOK(s, r)'
      BY <1>1, <1>3, <2>1, <2>2
    <3>2. r.run = tx.run
      BY DEF ReceiptFor
    <3>3. QED
      BY <1>1, <3>1, <3>2
  <2>5. ScriptOK(s)'
    BY <1>1, <2>2, <2>3, <2>4, KeptScript
  <2>6. QED
    BY <2>2, <2>5
<1>4. \A x \in Transactions' : TxOK(x)'
  <2>1. \A x \in Transactions' : TxOK(x)
    BY <1>1, <1>2 DEF OperationsInv, Transactions
  <2>2. QED
    BY <1>1, <2>1 DEF TxOK
<1>5. OneEach'
  <2>1. OneEach
    BY DEF OperationsInv
  <2>2. \A x \in sent' : x.run = r.run /\ x.what = r.what => x.what = "submit"
    BY <1>1, <2>1 DEF OneEach, ReceiptFor
  <2>3. \A q \in receipts : q.run = r.run /\ q.what = r.what => q.what = "submit"
    BY <2>1 DEF OneEach, ReceiptFor
  <2>4. QED
    BY <1>1, <2>1, <2>2, <2>3 DEF OneEach
<1>6. ASSUME ~abandoned'
      PROVE  ClosersOK'
  <2>1. ClosersOK /\ ~abandoned
    BY <1>1, <1>6 DEF OperationsInv
  <2>2. ASSUME NEW x \in sent', Opens(x)
        PROVE  Running(x.run)'
    BY <1>1, <2>1, <2>2 DEF ClosersOK, Running
  <2>3. mode' = "active" => \E i \in Terminals : scripts'[i] # Idle /\ WillPause(scripts[i])'
    BY <1>1, <2>1
  <2>4. allowance' => \E i \in Terminals : scripts'[i] # Idle /\ WillClear(scripts[i])'
    BY <1>1, <2>1
  <2>5. QED
    BY <2>2, <2>3, <2>4 DEF ClosersOK, Opens
<1>7. \A c \in smokeTests' : EvidenceOK(c)'
  BY <1>1, KeptEvidence DEF OperationsInv, EvidenceOK
<1>8. \A d \in deployments' : DeploymentOK(d)'
  BY <1>1 DEF OperationsInv, DeploymentOK, BuiltStep
<1>9. \A i \in Terminals : scripts'[i] # Idle => ScriptOK(scripts[i])'
  BY <1>1, <1>3
<1>10. /\ DOMAIN scripts' = Terminals /\ started' \in Nat
       /\ \A i, j \in Terminals :
            scripts'[i] # Idle /\ scripts'[j] # Idle /\ scripts'[i].id = scripts'[j].id => i = j
  BY <1>1 DEF OperationsInv
<1>11. QED
  BY <1>4, <1>5, <1>6, <1>7, <1>8, <1>9, <1>10 DEF OperationsInv

(* Who will close what is open still will, unless the receipt is that of   *)
(* the closing transaction.                                                *)
LEMMA StillPauses ==
  ASSUME OperationsInv, NEW tx \in sent, tx.what # "pause", NEW r, ReceiptFor(tx, r), Mines(tx, r),
         NEW i \in Terminals, WillPause(scripts[i])
  PROVE  WillPause(scripts[i])'
BY DEF WillPause, Mines, ReceiptFor

LEMMA StillClears ==
  ASSUME OperationsInv, NEW tx \in sent, NEW r, ReceiptFor(tx, r), Mines(tx, r),
         NEW i \in Terminals, scripts[i] # Idle, WillClear(scripts[i]),
         tx.what = "step" /\ tx.kind = "market" => tx.step # 3
  PROVE  WillClear(scripts[i])'
<1>1. PICK s : s = scripts[i]
  OBVIOUS
<1>2. s.kind = "market" /\ s # Idle
  BY <1>1 DEF WillClear
<1>3. tx.run = s.id /\ tx.what = "step" => tx.kind = "market" /\ tx.step = s.step
  BY <1>1, <1>2, Awaits DEF Transactions, OwnOK
<1>4. QED
  BY <1>1, <1>2, <1>3 DEF WillClear, Mines, ReceiptFor

(* The treasury's mode changes. Enabling, the script waits in "enabling".  *)
LEMMA MineModeStep ==
  ASSUME OperationsInv, NEW tx \in sent, MineMode(tx)
  PROVE  OperationsInv'
<1>1. PICK e : e = IF (IF tx.what = "enable" THEN "active" ELSE "paused") = mode THEN policyEpoch
                   ELSE policyEpoch + 1
  OBVIOUS
<1>2. PICK r : r = [tx EXCEPT !.epoch = e]
  OBVIOUS
<1>3. /\ tx.what \in {"enable", "pause"} /\ mode' = (IF tx.what = "enable" THEN "active" ELSE "paused")
      /\ Included(tx, e) /\ sent' = sent \ {tx}
      /\ UNCHANGED <<attempts, built, allowance, smokeTests, deployments, scripts, started, abandoned>>
  BY <1>1 DEF MineMode, deployed, files
<1>4. TxOK(tx)
  BY DEF OperationsInv, Transactions
<1>5. ReceiptFor(tx, r) /\ Mines(tx, r)
  <2>1. ReceiptFor(tx, r) /\ receipts' = IF Running(tx.run) THEN receipts \union {r} ELSE receipts
    BY <1>2, <1>3, <1>4, ReceiptIncluded
  <2>2. QED
    BY <1>3, <2>1 DEF Mines
<1>6. Extends /\ built \subseteq built' /\ attempts' \in Seq([run : Int, result : Results])
  BY <1>3, SameJournal DEF OperationsInv
<1>7. \A i \in Terminals : scripts[i] # Idle /\ scripts[i].id = tx.run => ReceiptOK(scripts[i], r)'
  BY <1>3, <1>5 DEF ReceiptOK, ReceiptFor
<1>8. ASSUME ~abandoned, mode' = "active"
      PROVE  \E i \in Terminals : scripts[i] # Idle /\ WillPause(scripts[i])'
  <2>1. tx.what = "enable"
    BY <1>3, <1>8
  <2>2. PICK i \in Terminals : scripts[i] # Idle /\ scripts[i].id = tx.run
    BY <1>8, <2>1 DEF OperationsInv, ClosersOK, Opens, Running
  <2>3. PICK s : s = scripts[i]
    OBVIOUS
  <2>4. s # Idle /\ s.id = tx.run /\ s = scripts'[i]
    BY <1>3, <2>2, <2>3
  <2>5. OwnOK(s, tx)
    BY <2>3, <2>4, Awaits DEF Transactions
  <2>6. s.pc = "enabling"
    BY <2>1, <2>5 DEF OwnOK, AwaitedAt
  <2>7. \A q \in receipts : q.run = s.id => q.what = "enable"
    BY <2>3, <2>4, <2>6, Awaits DEF Transactions
  <2>8. \A q \in receipts' : q.run = s.id => q.what = "enable"
    BY <1>5, <2>1, <2>7 DEF Mines, ReceiptFor
  <2>9. WillPause(s)'
    BY <2>6, <2>8 DEF WillPause
  <2>10. QED
    BY <2>2, <2>4, <2>9
<1>9. ASSUME ~abandoned, allowance'
      PROVE  \E i \in Terminals : scripts[i] # Idle /\ WillClear(scripts[i])'
  <2>1. PICK i \in Terminals : scripts[i] # Idle /\ WillClear(scripts[i])
    BY <1>3, <1>9 DEF OperationsInv, ClosersOK
  <2>2. tx.what # "step"
    BY <1>3
  <2>3. QED
    BY <1>5, <2>1, <2>2, StillClears
<1>10. QED
  BY <1>5, <1>6, <1>7, <1>8, <1>9, ReceiptArrives

(* An attempt is appended to the journal.                                  *)
LEMMA MineProposalStep ==
  ASSUME OperationsInv, NEW tx \in sent, MineProposal(tx)
  PROVE  OperationsInv'
<1>1. PICK r : r = [tx EXCEPT !.epoch = tx.epoch]
  OBVIOUS
<1>2. PICK v \in Verdicts(tx) : attempts' = Append(attempts, [run |-> tx.run, result |-> v])
  BY DEF MineProposal
<1>3. /\ tx.what = "submit" /\ Included(tx, tx.epoch) /\ sent' = sent \ {tx}
      /\ UNCHANGED <<mode, built, allowance, smokeTests, deployments, scripts, started, abandoned>>
  BY DEF MineProposal, deployed, files
<1>4. TxOK(tx)
  BY DEF OperationsInv, Transactions
<1>5. ReceiptFor(tx, r) /\ Mines(tx, r)
  <2>1. ReceiptFor(tx, r) /\ receipts' = IF Running(tx.run) THEN receipts \union {r} ELSE receipts
    BY <1>1, <1>3, <1>4, ReceiptIncluded
  <2>2. QED
    BY <1>3, <2>1 DEF Mines
<1>6. PICK a : a = [run |-> tx.run, result |-> v]
  OBVIOUS
<1>7. a \in [run : Int, result : Results] /\ a.run = tx.run
  BY <1>2, <1>4, <1>6 DEF Verdicts, Results, TxOK
<1>8. /\ attempts \in Seq([run : Int, result : Results]) /\ attempts' = Append(attempts, a)
      /\ Len(attempts)' = Len(attempts) + 1 /\ attempts'[Len(attempts) + 1] = a
      /\ \A n \in 1..Len(attempts) : attempts'[n] = attempts[n]
      /\ attempts' \in Seq([run : Int, result : Results]) /\ Len(attempts) \in Nat
  BY <1>2, <1>6, <1>7 DEF OperationsInv
<1>9. Extends
  BY <1>8 DEF Extends
<1>10. ASSUME NEW i \in Terminals, scripts[i] # Idle, scripts[i].id = tx.run
       PROVE  ReceiptOK(scripts[i], r)'
  <2>1. PICK s : s = scripts[i]
    OBVIOUS
  <2>2. s = scripts'[i] /\ s.id = tx.run /\ ScriptTyped(s)
    BY <1>3, <1>10, <2>1 DEF OperationsInv, ScriptOK
  <2>3. /\ Len(attempts) + 1 \in (s.seen.attempts + 1)..(Len(attempts)')
        /\ attempts'[Len(attempts) + 1].run = s.id
    BY <1>7, <1>8, <2>2 DEF ScriptTyped
  <2>4. Attempted(s)'
    BY <2>3 DEF Attempted
  <2>5. QED
    BY <1>3, <1>5, <2>2, <2>4 DEF ReceiptOK, ReceiptFor
<1>11. ASSUME ~abandoned, mode' = "active"
       PROVE  \E i \in Terminals : scripts[i] # Idle /\ WillPause(scripts[i])'
  <2>1. PICK i \in Terminals : scripts[i] # Idle /\ WillPause(scripts[i])
    BY <1>3, <1>11 DEF OperationsInv, ClosersOK
  <2>2. tx.what # "pause"
    BY <1>3
  <2>3. QED
    BY <1>5, <2>1, <2>2, StillPauses
<1>12. ASSUME ~abandoned, allowance'
       PROVE  \E i \in Terminals : scripts[i] # Idle /\ WillClear(scripts[i])'
  <2>1. PICK i \in Terminals : scripts[i] # Idle /\ WillClear(scripts[i])
    BY <1>3, <1>12 DEF OperationsInv, ClosersOK
  <2>2. tx.what # "step"
    BY <1>3
  <2>3. QED
    BY <1>5, <2>1, <2>2, StillClears
<1>13. built \subseteq built'
  BY <1>3
<1>14. QED
  BY <1>5, <1>8, <1>9, <1>10, <1>11, <1>12, <1>13, ReceiptArrives

(* A step of a deployment or of the market controller, whose first gives   *)
(* the allowance and whose last takes it back.                             *)
LEMMA MineStepStep ==
  ASSUME OperationsInv, NEW tx \in sent, MineStep(tx)
  PROVE  OperationsInv'
<1>1. PICK r : r = [tx EXCEPT !.epoch = tx.epoch]
  OBVIOUS
<1>2. PICK b : b = [run |-> tx.run, step |-> tx.step, address |-> tx.nonce[2]]
  OBVIOUS
<1>3. /\ tx.what = "step" /\ Included(tx, tx.epoch) /\ sent' = sent \ {tx} /\ built' = built \union {b}
      /\ allowance' = IF tx.kind = "market" /\ MarketSteps[tx.step] # "swap"
                      THEN MarketSteps[tx.step] = "approve" ELSE allowance
      /\ UNCHANGED <<mode, attempts, smokeTests, deployments, scripts, started, abandoned>>
  BY <1>2 DEF MineStep, operated, files
<1>4. TxOK(tx)
  BY DEF OperationsInv, Transactions
<1>5. ReceiptFor(tx, r) /\ Mines(tx, r)
  <2>1. ReceiptFor(tx, r) /\ receipts' = IF Running(tx.run) THEN receipts \union {r} ELSE receipts
    BY <1>1, <1>3, <1>4, ReceiptIncluded
  <2>2. QED
    BY <1>3, <2>1 DEF Mines
<1>6. Extends /\ built \subseteq built' /\ attempts' \in Seq([run : Int, result : Results])
  BY <1>3, SameJournal DEF OperationsInv
<1>7. ASSUME NEW i \in Terminals, scripts[i] # Idle, scripts[i].id = tx.run
      PROVE  ReceiptOK(scripts[i], r)'
  <2>1. PICK s : s = scripts[i]
    OBVIOUS
  <2>2. s = scripts'[i] /\ s # Idle /\ s.id = tx.run
    BY <1>3, <1>7, <2>1
  <2>3. tx.step = s.step /\ tx.nonce = s.nonce
    BY <1>3, <2>1, <2>2, Awaits DEF Transactions, OwnOK
  <2>4. b \in built' /\ b.run = s.id /\ b.step = s.step /\ b.address = s.nonce[2]
    BY <1>2, <1>3, <2>2, <2>3
  <2>5. QED
    BY <1>3, <1>5, <2>2, <2>4 DEF ReceiptOK, ReceiptFor
<1>8. ASSUME ~abandoned, mode' = "active"
      PROVE  \E i \in Terminals : scripts[i] # Idle /\ WillPause(scripts[i])'
  <2>1. PICK i \in Terminals : scripts[i] # Idle /\ WillPause(scripts[i])
    BY <1>3, <1>8 DEF OperationsInv, ClosersOK
  <2>2. tx.what # "pause"
    BY <1>3
  <2>3. QED
    BY <1>5, <2>1, <2>2, StillPauses
<1>9. ASSUME ~abandoned, allowance'
      PROVE  \E i \in Terminals : scripts[i] # Idle /\ WillClear(scripts[i])'
  <2>1. CASE tx.kind # "market"
    <3>1. PICK i \in Terminals : scripts[i] # Idle /\ WillClear(scripts[i])
      BY <1>3, <1>9, <2>1 DEF OperationsInv, ClosersOK
    <3>2. QED
      BY <1>5, <2>1, <3>1, StillClears
  <2>2. CASE tx.kind = "market"
    <3>1. PICK j \in Terminals : scripts[j] # Idle /\ scripts[j].id = tx.run
      BY <1>3, <1>9, <2>2 DEF OperationsInv, ClosersOK, Opens, Running
    <3>2. PICK s : s = scripts[j]
      OBVIOUS
    <3>3. OwnOK(s, tx) /\ s # Idle /\ s.id = tx.run /\ ProgressOK(s)
      BY <3>1, <3>2, Awaits DEF Transactions, OperationsInv, ScriptOK
    <3>4. s.kind = "market" /\ s.pc = "waiting" /\ s.step = tx.step
      BY <1>3, <2>2, <3>3 DEF OwnOK, AwaitedAt
    <3>5. s.step \in 1..3
      BY <3>3, <3>4 DEF ProgressOK, Stepwise, StepsOf, MarketSteps
    <3>6. CASE s.step = 1
      <4>1. WillClear(s)'
        BY <3>4, <3>6 DEF WillClear
      <4>2. QED
        BY <1>3, <3>1, <3>2, <4>1
    <3>7. CASE s.step = 2
      <4>1. allowance
        BY <1>3, <1>9, <3>4, <3>7 DEF MarketSteps
      <4>2. PICK i \in Terminals : scripts[i] # Idle /\ WillClear(scripts[i])
        BY <1>9, <4>1 DEF OperationsInv, ClosersOK
      <4>3. tx.step # 3
        BY <3>4, <3>7
      <4>4. WillClear(scripts[i])'
        BY <1>5, <4>2, <4>3, StillClears
      <4>5. QED
        BY <4>2, <4>4
    <3>8. CASE s.step = 3
      <4>1. MarketSteps[tx.step] = "clear"
        BY <3>4, <3>8 DEF MarketSteps
      <4>2. ~allowance'
        BY <1>3, <2>2, <4>1
      <4>3. QED
        BY <1>9, <4>2
    <3>9. QED
      BY <3>5, <3>6, <3>7, <3>8
  <2>3. QED
    BY <2>1, <2>2
<1>10. QED
  BY <1>5, <1>6, <1>7, <1>8, <1>9, ReceiptArrives

LEMMA InitOperations == OperationsInit => OperationsInv
<1> SUFFICES ASSUME OperationsInit PROVE OperationsInv
  OBVIOUS
<1>1. DOMAIN scripts = Terminals /\ started \in Nat /\ \A i \in Terminals : scripts[i] = Idle
  BY DEF OperationsInit
<1>2. attempts \in Seq([run : Int, result : Results])
  BY DEF OperationsInit
<1>3. sent = {} /\ receipts = {} /\ smokeTests = {} /\ deployments = {} /\ mode = "paused" /\ ~allowance
  BY DEF OperationsInit
<1>4. OneEach /\ ClosersOK
  BY <1>3 DEF OneEach, ClosersOK
<1>5. QED
  BY <1>1, <1>2, <1>3, <1>4 DEF OperationsInv, Transactions

LEMMA StepOperations == OperationsInv /\ [OperationsNext]_operationsVars => OperationsInv'
<1> SUFFICES ASSUME OperationsInv, [OperationsNext]_operationsVars PROVE OperationsInv'
  OBVIOUS
<1>1. ASSUME NEW tx \in sent, MineMode(tx) \/ MineProposal(tx) \/ MineStep(tx)
      PROVE  OperationsInv'
  BY <1>1, MineModeStep, MineProposalStep, MineStepStep
<1>2. ASSUME NEW i \in Terminals, NEW kind \in Smokes \union Stepwise, StartScript(i, kind)
      PROVE  OperationsInv'
  BY <1>2, StartStep
<1>3. ASSUME NEW i \in Terminals, ProcessEnds(i) \/ CallFails(i)
      PROVE  OperationsInv'
  BY <1>3, ProcessEndsStep, CallFailsStep
<1>4. ASSUME NEW i \in Terminals,
             \/ Fund(i) \/ PublishObservations(i) \/ Decide(i)
             \/ PlanPool(i) \/ PlanLifecycle(i) \/ PlanMarket(i)
      PROVE  OperationsInv'
  BY <1>4, PrepareStep
<1>5. ASSUME NEW i \in Terminals,
             \/ CheckTreasury(i) \/ ReadBalances(i) \/ LookAtPaused(i) \/ PreviewProposal(i)
             \/ Enable(i) \/ SubmitProposal(i) \/ SendStep(i)
      PROVE  OperationsInv'
  BY <1>5, CheckStep, NoticeStep, PreviewStep, EnableStep, SubmitStep, SendStepStep
<1>6. ASSUME NEW i \in Terminals,
             \/ Propose(i) \/ AwaitSubmission(i) \/ ReadAttempt(i) \/ RecordEvidence(i)
             \/ Finally(i) \/ ReturnedToPaused(i) \/ StepDone(i) \/ RecordDeployment(i)
      PROVE  OperationsInv'
  BY <1>6, ProposeStep, AwaitStep, ReadStep, RecordStep, FinallyStep, ReturnedStep, StepDoneStep,
     RecordDeploymentStep
<1>7. CASE UNCHANGED operationsVars
  <2>1. /\ UNCHANGED <<mode, attempts, built, allowance, started, scripts, sent, receipts>>
        /\ UNCHANGED <<smokeTests, deployments, abandoned>>
    BY <1>7 DEF operationsVars, operated, deployed, files
  <2>2. /\ Extends /\ started \in Nat /\ started' \in Nat /\ started <= started'
        /\ built \subseteq built'
    BY <2>1, SameJournal DEF OperationsInv
  <2>3. ASSUME NEW i \in Terminals, scripts[i] # Idle
        PROVE  ScriptOK(scripts[i])'
    <3>1. PICK s : s = scripts[i]
      OBVIOUS
    <3>2. ScriptOK(s) /\ s = scripts'[i]
      BY <2>1, <2>3, <3>1 DEF OperationsInv
    <3>3. \A x \in Transactions' : x \in Transactions
      BY <2>1 DEF Transactions
    <3>4. ScriptOK(s)'
      BY <2>1, <2>2, <3>2, <3>3, KeptScript
    <3>5. QED
      BY <3>2, <3>4
  <2>4. \A x \in Transactions' : TxOK(x)'
    BY <2>1 DEF OperationsInv, Transactions, TxOK
  <2>5. OneEach'
    BY <2>1, FewerTransactions DEF OperationsInv
  <2>6. ClosersOK => ClosersOK'
    BY <2>1 DEF ClosersOK, WillPause, WillClear, Running, Opens
  <2>7. \A c \in smokeTests' : EvidenceOK(c)'
    BY <2>1, <2>2, KeptEvidence DEF OperationsInv, EvidenceOK
  <2>8. \A d \in deployments' : DeploymentOK(d)'
    BY <2>1 DEF OperationsInv, DeploymentOK, BuiltStep
  <2>9. QED
    BY <2>1, <2>2, <2>3, <2>4, <2>5, <2>6, <2>7, <2>8 DEF OperationsInv
<1>8. QED
  BY <1>1, <1>2, <1>3, <1>4, <1>5, <1>6, <1>7 DEF OperationsNext

LEMMA AlwaysOperations == OperationsSpec => []OperationsInv
BY InitOperations, StepOperations, PTL DEF OperationsSpec

-----------------------------------------------------------------------------

(* However many smoke scripts and market controllers overlap, and whatever *)
(* fails in them: while the treasury is active or the router of the market *)
(* controller has an allowance, a script that has to close it is running,  *)
(* unless one ended in the very call that opens or closes it, or was       *)
(* killed (agent/src/controlledDemoStrategySmoke.ts,                       *)
(* agent/src/controlledDemoValidSmoke.ts,                                  *)
(* contracts/script/control-demo-market.js).                               *)
THEOREM NothingStaysOpen == OperationsSpec => []NothingLeftOpen
<1>1. OperationsInv => NothingLeftOpen
  <2> SUFFICES ASSUME OperationsInv, ~abandoned, mode = "active" \/ allowance
               PROVE  \E i \in Terminals : Open(scripts[i])
    BY DEF NothingLeftOpen
  <2>1. ClosersOK
    BY DEF OperationsInv
  <2>2. PICK i \in Terminals : scripts[i] # Idle /\ (WillPause(scripts[i]) \/ WillClear(scripts[i]))
    BY <2>1 DEF ClosersOK
  <2>3. QED
    BY <2>2 DEF WillPause, WillClear, Open
<1>2. QED
  BY AlwaysOperations, <1>1, PTL

(* The evidence in the manifest is true of the treasury's journal, though  *)
(* a script reads the attempt with the highest number, which need not be   *)
(* its own (agent/src/controlledDemoValidSmoke.ts and                      *)
(* contracts/script/smoke-paused-rejection.js).                            *)
THEOREM EvidenceIsTrue == OperationsSpec => []EvidenceHolds
<1>1. OperationsInv => EvidenceHolds
  BY DEF OperationsInv, EvidenceHolds, EvidenceOK, EvidenceOf
<1>2. QED
  BY AlwaysOperations, <1>1, PTL

(* A deployment that has a file is on the chain as a whole, its tokens     *)
(* where they were predicted, whatever other scripts send with the same    *)
(* key (contracts/script/redeploy-schema-v1-lifecycle.js and               *)
(* deploy-controlled-demo.js).                                             *)
THEOREM DeploymentsAreBuilt == OperationsSpec => []RecordedIsBuilt
<1>1. OperationsInv => RecordedIsBuilt
  BY DEF OperationsInv, RecordedIsBuilt, DeploymentOK, BuiltStep
<1>2. QED
  BY AlwaysOperations, <1>1, PTL

-----------------------------------------------------------------------------
(* The ranges of the state of the scripts                                  *)

RangesOK ==
  /\ mode \in {"paused", "active"} /\ nonce \in 0..MaxNonce /\ started \in 0..MaxRuns
  /\ mishaps \in 0..MaxMishaps /\ allowance \in BOOLEAN

LEMMA StepRanges == RangesOK /\ [OperationsNext]_operationsVars => RangesOK'
<1> SUFFICES ASSUME RangesOK, [OperationsNext]_operationsVars PROVE RangesOK'
  OBVIOUS
<1>0. MaxRuns \in Nat /\ MaxMishaps \in Nat /\ MaxNonce \in Nat
  BY OperationsAssumption
<1> USE <1>0 DEF RangesOK
<1>1. ASSUME NEW tx \in sent, MineMode(tx) \/ MineProposal(tx) \/ MineStep(tx)
      PROVE  RangesOK'
  <2>1. UNCHANGED <<nonce, started, mishaps>>
    BY <1>1 DEF MineMode, MineProposal, MineStep
  <2>2. mode' \in {"paused", "active"}
    BY <1>1 DEF MineMode, MineProposal, MineStep, operated
  <2>3. allowance' \in BOOLEAN
    BY <1>1 DEF MineMode, MineProposal, MineStep, deployed
  <2>4. QED
    BY <2>1, <2>2, <2>3
<1>2. ASSUME NEW i \in Terminals, NEW kind \in Smokes \union Stepwise, StartScript(i, kind)
      PROVE  RangesOK'
  BY <1>2 DEF StartScript, operated, deployed
<1>3. ASSUME NEW i \in Terminals, ProcessEnds(i) \/ CallFails(i)
      PROVE  RangesOK'
  BY <1>3 DEF ProcessEnds, CallFails, operated, deployed
<1>4. ASSUME NEW i \in Terminals, Fund(i)
      PROVE  RangesOK'
  BY <1>4 DEF Fund, deployed
<1>5. ASSUME NEW i \in Terminals, SubmitProposal(i) \/ SendStep(i)
      PROVE  RangesOK'
  BY <1>5 DEF SubmitProposal, SendStep, rest, operated, deployed
<1>6. ASSUME NEW i \in Terminals,
             \/ PublishObservations(i) \/ Decide(i) \/ PlanPool(i) \/ PlanLifecycle(i)
             \/ PlanMarket(i) \/ CheckTreasury(i) \/ ReadBalances(i) \/ LookAtPaused(i)
             \/ PreviewProposal(i) \/ ReadAttempt(i)
      PROVE  RangesOK'
  <2>1. UNCHANGED still
    BY <1>6 DEF PublishObservations, Decide, PlanPool, PlanLifecycle, PlanMarket, CheckTreasury,
                ReadBalances, LookAtPaused, PreviewProposal, ReadAttempt
  <2>2. QED
    BY <2>1 DEF still, rest, operated, deployed
<1>7. ASSUME NEW i \in Terminals,
             \/ Enable(i) \/ Propose(i) \/ AwaitSubmission(i) \/ Finally(i)
             \/ ReturnedToPaused(i) \/ StepDone(i)
      PROVE  RangesOK'
  <2>1. UNCHANGED <<rest, nonce>>
    <3>1. CASE Enable(i) \/ Propose(i)
      BY <3>1, Zenon DEF Enable, Propose
    <3>2. CASE AwaitSubmission(i) \/ StepDone(i)
      BY <3>2, Zenon DEF AwaitSubmission, StepDone
    <3>3. CASE Finally(i) \/ ReturnedToPaused(i)
      BY <3>3, Zenon DEF Finally, ReturnedToPaused
    <3>4. QED
      BY <1>7, <3>1, <3>2, <3>3
  <2>2. QED
    BY <2>1 DEF rest, operated, deployed
<1>8. ASSUME NEW i \in Terminals, RecordEvidence(i) \/ RecordDeployment(i)
      PROVE  RangesOK'
  BY <1>8 DEF RecordEvidence, RecordDeployment, operated, deployed
<1>9. CASE UNCHANGED operationsVars
  BY <1>9 DEF operationsVars, operated, deployed
<1>10. QED
  BY <1>1, <1>2, <1>3, <1>4, <1>5, <1>6, <1>7, <1>8, <1>9 DEF OperationsNext

(* The type invariant of the scripts: modes, counters and kinds have their *)
(* ranges, however many scripts overlap, fail or are ended                 *)
(* (agent/src/controlledDemoValidSmoke.ts and the scripts beside it,       *)
(* contracts/script).                                                      *)
THEOREM OperationsTyped == OperationsSpec => []OperationsTypeOK
<1>1. OperationsInit => RangesOK
  <2>1. MaxRuns \in Nat /\ MaxMishaps \in Nat /\ MaxNonce \in Nat
    BY OperationsAssumption
  <2>2. OperationsInit => /\ mode = "paused" /\ nonce = 0 /\ started = 0 /\ mishaps = 0
                          /\ allowance \in BOOLEAN
    BY DEF OperationsInit
  <2>3. QED
    BY <2>1, <2>2 DEF RangesOK
<1>2. OperationsInv /\ RangesOK => OperationsTypeOK
  <2> SUFFICES ASSUME OperationsInv, RangesOK, NEW i \in Terminals
               PROVE  scripts[i].kind \in Smokes \union Stepwise \union {"none"}
    BY DEF OperationsTypeOK, RangesOK
  <2>1. CASE scripts[i] = Idle
    BY <2>1 DEF Idle
  <2>2. CASE scripts[i] # Idle
    BY <2>2 DEF OperationsInv, ScriptOK, ScriptTyped
  <2>3. QED
    BY <2>1, <2>2
<1>3. QED
  BY <1>1, <1>2, StepRanges, AlwaysOperations, PTL DEF OperationsSpec
============================================================================
