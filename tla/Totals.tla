--------------------------------- MODULE Totals ---------------------------------
(***************************************************************************)
(* Sums over finite sets. MapThenSumSet is defined by a recursive function *)
(* on the subsets of a set, which takes out one chosen element after the   *)
(* other. That such a function exists, and that the order does not matter, *)
(* is what the proofs about budgets and shares need of it.                 *)
(***************************************************************************)
EXTENDS Integers, FiniteSetTheorems, WellFoundedInduction, TLAPS

Chosen(s) == CHOOSE x \in s : TRUE

(* The function that sums the weights w over the subsets of S.             *)
IsTotal(g, w, S) ==
  g = [s \in SUBSET S |-> IF s = {} THEN 0 ELSE w[Chosen(s)] + g[s \ {Chosen(s)}]]

Total(w, S) == (CHOOSE g : IsTotal(g, w, S))[S]

LEMMA ChosenIsElement ==
  ASSUME NEW s, s # {}
  PROVE  Chosen(s) \in s
BY DEF Chosen

(* A property of subsets that fails somewhere fails at a smallest one.     *)
LEMMA SmallestSubset ==
  ASSUME NEW S, IsFiniteSet(S), NEW D \in SUBSET SUBSET S, D # {}
  PROVE  \E s \in D : \A x \in s : s \ {x} \notin D
<1>1. IsWellFoundedOn(StrictSubsetOrdering(S), SUBSET S)
  <2>1. FiniteSubsetsOf(S) = SUBSET S
    BY FS_FiniteSubsetsOfFinite
  <2>2. IsWellFoundedOn(StrictSubsetOrdering(S), FiniteSubsetsOf(S))
    BY FS_StrictSubsetOrderingWellFounded
  <2>3. QED
    BY <2>1, <2>2
<1>2. PICK s \in D : \A t \in D : ~(<<t, s>> \in StrictSubsetOrdering(S))
  BY <1>1, WFMin
<1>3. ASSUME NEW x \in s, s \ {x} \in D
      PROVE  FALSE
  <2>1. s \ {x} \in SUBSET S /\ s \in SUBSET S /\ s \ {x} \subseteq s /\ s \ {x} # s
    BY <1>3
  <2>2. <<s \ {x}, s>> \in StrictSubsetOrdering(S)
    BY <2>1 DEF StrictSubsetOrdering
  <2>3. QED
    BY <1>2, <1>3, <2>2
<1>4. QED
  BY <1>3

(* Two such functions agree where their weights do.                        *)
LEMMA TotalsAgree ==
  ASSUME NEW S, NEW T, NEW v, NEW w, NEW g, IsTotal(g, v, S), NEW h, IsTotal(h, w, T)
  PROVE  \A U \in SUBSET S : U \in SUBSET T /\ IsFiniteSet(U) /\ (\A x \in U : v[x] = w[x])
                              => g[U] = h[U]
<1> SUFFICES ASSUME NEW U \in SUBSET S, U \in SUBSET T, IsFiniteSet(U),
                    \A x \in U : v[x] = w[x]
             PROVE  g[U] = h[U]
  OBVIOUS
<1> DEFINE D == {s \in SUBSET U : g[s] # h[s]}
<1>1. CASE D = {}
  BY <1>1
<1>2. CASE D # {}
  <2>1. PICK s \in D : \A x \in s : s \ {x} \notin D
    BY <1>2, SmallestSubset
  <2>2. s \in SUBSET U /\ g[s] # h[s] /\ s \in SUBSET S /\ s \in SUBSET T
    OBVIOUS
  <2>3. /\ g[s] = IF s = {} THEN 0 ELSE v[Chosen(s)] + g[s \ {Chosen(s)}]
        /\ h[s] = IF s = {} THEN 0 ELSE w[Chosen(s)] + h[s \ {Chosen(s)}]
    BY <2>2 DEF IsTotal
  <2>4. s # {}
    BY <2>2, <2>3
  <2>5. Chosen(s) \in s
    BY <2>4, ChosenIsElement
  <2>6. g[s \ {Chosen(s)}] = h[s \ {Chosen(s)}] /\ v[Chosen(s)] = w[Chosen(s)]
    BY <2>1, <2>2, <2>5
  <2>7. QED
    BY <2>2, <2>3, <2>4, <2>6
<1>3. QED
  BY <1>1, <1>2

LEMMA TotalExists ==
  ASSUME NEW S, IsFiniteSet(S), NEW w
  PROVE  IsTotal(CHOOSE g : IsTotal(g, w, S), w, S)
<1> DEFINE D == {s \in SUBSET S : ~\E g : IsTotal(g, w, s)}
<1>1. SUFFICES D = {}
  <2>1. S \in SUBSET S
    OBVIOUS
  <2>2. ASSUME D = {}
        PROVE  \E g : IsTotal(g, w, S)
    BY <2>1, <2>2
  <2>3. QED
    BY <2>2
<1>2. SUFFICES ASSUME D # {}
               PROVE  FALSE
  OBVIOUS
<1>3. PICK T \in D : \A x \in T : T \ {x} \notin D
  BY <1>2, SmallestSubset
<1>4. T \in SUBSET S /\ ~\E g : IsTotal(g, w, T)
  OBVIOUS
<1> HIDE DEF D
<1>5. CASE T = {}
  <2> DEFINE z == [s \in SUBSET T |-> 0]
  <2>1. ASSUME NEW s \in SUBSET T
        PROVE  z[s] = IF s = {} THEN 0 ELSE w[Chosen(s)] + z[s \ {Chosen(s)}]
    BY <1>5, <2>1
  <2>2. IsTotal(z, w, T)
    BY <2>1 DEF IsTotal
  <2>3. QED
    BY <1>4, <2>2
<1>6. CASE T # {}
  <2>1. PICK c : c = Chosen(T)
    OBVIOUS
  <2>2. c \in T
    BY <1>6, <2>1, ChosenIsElement
  <2>3. ASSUME NEW x \in T
        PROVE  \E g : IsTotal(g, w, T \ {x})
    <3>1. T \ {x} \in SUBSET S
      BY <1>4
    <3>2. QED
      BY <1>3, <3>1 DEF D
  <2> DEFINE part(t) == CHOOSE g : IsTotal(g, w, t)
  <2>4. ASSUME NEW x \in T
        PROVE  IsTotal(part(T \ {x}), w, T \ {x})
    BY <2>3
  \* A proper subset is summed by the function of any set with one element less.
  <2> DEFINE left(t) == CHOOSE x \in T : x \notin t
             f == [t \in SUBSET T |->
                     IF t = T THEN w[c] + part(T \ {c})[T \ {c}] ELSE part(T \ {left(t)})[t]]
  <2>5. ASSUME NEW t \in SUBSET T, t # T, NEW x \in T, x \notin t
        PROVE  f[t] = part(T \ {x})[t]
    <3>1. left(t) \in T /\ left(t) \notin t
      BY <2>5
    <3>2. IsFiniteSet(t)
      BY <1>4, FS_Subset
    <3>3. PICK y : y = left(t)
      OBVIOUS
    <3>4. y \in T /\ t \subseteq T \ {y} /\ t \subseteq T \ {x}
      BY <2>5, <3>1, <3>3
    <3>5. IsTotal(part(T \ {x}), w, T \ {x}) /\ IsTotal(part(T \ {y}), w, T \ {y})
      BY <2>4, <2>5, <3>4
    <3>6. part(T \ {y})[t] = part(T \ {x})[t]
      <4> HIDE DEF part
      <4>1. QED
        BY <3>2, <3>4, <3>5, TotalsAgree
    <3>7. QED
      BY <2>5, <3>3, <3>6
  <2>6. ASSUME NEW t \in SUBSET T
        PROVE  f[t] = IF t = {} THEN 0 ELSE w[Chosen(t)] + f[t \ {Chosen(t)}]
    <3>1. CASE t = T
      <4>1. T \ {c} \in SUBSET T /\ T \ {c} # T /\ c \notin T \ {c}
        BY <2>2
      <4>2. f[T \ {c}] = part(T \ {c})[T \ {c}]
        BY <2>2, <2>5, <4>1
      <4>3. QED
        BY <1>6, <2>1, <3>1, <4>2
    <3>2. CASE t # T
      <4>1. PICK x \in T : x \notin t
        BY <3>2, <2>6
      <4>2. PICK g : g = part(T \ {x})
        OBVIOUS
      <4>3. f[t] = g[t] /\ IsTotal(g, w, T \ {x})
        BY <2>4, <2>5, <2>6, <3>2, <4>1, <4>2
      <4>4. t \in SUBSET (T \ {x})
        BY <2>6, <4>1
      <4>5. g[t] = IF t = {} THEN 0 ELSE w[Chosen(t)] + g[t \ {Chosen(t)}]
        BY <4>3, <4>4 DEF IsTotal
      <4>6. CASE t # {}
        <5>1. PICK u : u = t \ {Chosen(t)}
          OBVIOUS
        <5>2. u \in SUBSET T /\ u # T /\ x \notin u
          BY <2>6, <3>2, <4>1, <5>1
        <5>3. f[u] = g[u]
          BY <2>5, <4>1, <4>2, <5>2
        <5>4. QED
          BY <4>3, <4>5, <4>6, <5>1, <5>3
      <4>7. QED
        BY <4>3, <4>5, <4>6
    <3>3. QED
      BY <3>1, <3>2
  <2>7. IsTotal(f, w, T)
    <3>1. PICK h : h = f
      OBVIOUS
    <3>2. h = [t \in SUBSET T |-> h[t]]
      <4> HIDE DEF part, left
      <4>1. QED
        BY <3>1, Zenon
    <3>3. \A t \in SUBSET T : h[t] = IF t = {} THEN 0 ELSE w[Chosen(t)] + h[t \ {Chosen(t)}]
      <4> HIDE DEF f
      <4>1. QED
        BY <2>6, <3>1
    <3>4. IsTotal(h, w, T)
      <4> HIDE DEF f
      <4>1. QED
        BY <3>2, <3>3 DEF IsTotal
    <3>5. QED
      BY <3>1, <3>4
  <2>8. QED
    BY <1>4, <2>7
<1>7. QED
  BY <1>5, <1>6

-----------------------------------------------------------------------------
(* What the proofs use of totals                                           *)

LEMMA TotalEmpty ==
  ASSUME NEW w
  PROVE  Total(w, {}) = 0
<1>1. PICK g : g = CHOOSE h : IsTotal(h, w, {})
  OBVIOUS
<1>2. IsTotal(g, w, {})
  BY <1>1, TotalExists, FS_EmptySet
<1>3. g[{}] = 0
  BY <1>2 DEF IsTotal
<1>4. QED
  BY <1>1, <1>3 DEF Total

(* Equal weights have equal totals.                                        *)
LEMMA TotalSame ==
  ASSUME NEW S, IsFiniteSet(S), NEW v, NEW w, \A x \in S : v[x] = w[x]
  PROVE  Total(v, S) = Total(w, S)
<1>1. PICK g : g = CHOOSE i : IsTotal(i, v, S)
  OBVIOUS
<1>2. PICK h : h = CHOOSE i : IsTotal(i, w, S)
  OBVIOUS
<1>3. IsTotal(g, v, S) /\ IsTotal(h, w, S)
  BY <1>1, <1>2, TotalExists
<1>4. g[S] = h[S]
  <2>1. PICK T : T = S
    OBVIOUS
  <2>2. IsTotal(g, v, S) /\ IsTotal(h, w, T)
    BY <1>3, <2>1
  <2>3. \A U \in SUBSET S : U \in SUBSET T /\ IsFiniteSet(U) /\ (\A x \in U : v[x] = w[x])
                              => g[U] = h[U]
    BY <2>2, TotalsAgree
  <2>4. QED
    BY <2>1, <2>3
<1>5. QED
  BY <1>1, <1>2, <1>4 DEF Total

LEMMA TotalUnfold ==
  ASSUME NEW S, IsFiniteSet(S), S # {}, NEW w
  PROVE  Total(w, S) = w[Chosen(S)] + Total(w, S \ {Chosen(S)})
<1>1. PICK T : T = S \ {Chosen(S)}
  OBVIOUS
<1>2. T \subseteq S /\ IsFiniteSet(T)
  BY <1>1, FS_Subset
<1>3. PICK g : g = CHOOSE i : IsTotal(i, w, S)
  OBVIOUS
<1>4. PICK h : h = CHOOSE i : IsTotal(i, w, T)
  OBVIOUS
<1>5. IsTotal(g, w, S) /\ IsTotal(h, w, T)
  BY <1>2, <1>3, <1>4, TotalExists
<1>6. g[T] = h[T]
  <2>1. \A U \in SUBSET S : U \in SUBSET T /\ IsFiniteSet(U) /\ (\A x \in U : w[x] = w[x])
                              => g[U] = h[U]
    BY <1>5, TotalsAgree
  <2>2. QED
    BY <1>2, <2>1
<1>7. g[S] = w[Chosen(S)] + g[T]
  BY <1>1, <1>5 DEF IsTotal
<1>8. QED
  BY <1>1, <1>3, <1>4, <1>6, <1>7 DEF Total

LEMMA TotalType ==
  ASSUME NEW S, IsFiniteSet(S), NEW w, \A x \in S : w[x] \in Int
  PROVE  Total(w, S) \in Int
<1> DEFINE D == {s \in SUBSET S : Total(w, s) \notin Int}
<1>1. CASE D = {}
  BY <1>1
<1>2. CASE D # {}
  <2>1. PICK s \in D : \A x \in s : s \ {x} \notin D
    BY <1>2, SmallestSubset
  <2>2. s \in SUBSET S /\ Total(w, s) \notin Int
    OBVIOUS
  <2>3. s # {} /\ IsFiniteSet(s)
    <3>1. IsFiniteSet(s)
      BY <2>2, FS_Subset
    <3>2. s # {}
      BY <2>2, TotalEmpty
    <3>3. QED
      BY <3>1, <3>2
  <2>4. Chosen(s) \in s /\ Total(w, s) = w[Chosen(s)] + Total(w, s \ {Chosen(s)})
    BY <2>3, ChosenIsElement, TotalUnfold
  <2>5. Total(w, s \ {Chosen(s)}) \in Int
    BY <2>1, <2>2, <2>4
  <2>6. QED
    BY <2>2, <2>4, <2>5
<1>3. QED
  BY <1>1, <1>2

(* The order does not matter: any element may be taken out first.          *)
LEMMA TotalRemove ==
  ASSUME NEW S, IsFiniteSet(S), NEW w, \A x \in S : w[x] \in Int, NEW y \in S
  PROVE  Total(w, S) = w[y] + Total(w, S \ {y})
<1> DEFINE D == {s \in SUBSET S : \E x \in s : Total(w, s) # w[x] + Total(w, s \ {x})}
<1>1. CASE D = {}
  BY <1>1
<1>2. CASE D # {}
  <2>1. PICK s \in D : \A x \in s : s \ {x} \notin D
    BY <1>2, SmallestSubset
  <2>2. PICK x \in s : Total(w, s) # w[x] + Total(w, s \ {x})
    OBVIOUS
  <2>3. s \in SUBSET S /\ s # {} /\ IsFiniteSet(s)
    BY <2>2, FS_Subset
  <2>4. PICK c : c = Chosen(s)
    OBVIOUS
  <2>5. c \in s /\ Total(w, s) = w[c] + Total(w, s \ {c})
    BY <2>3, <2>4, ChosenIsElement, TotalUnfold
  <2>6. x # c
    BY <2>2, <2>5
  <2>7. PICK u : u = (s \ {c}) \ {x}
    OBVIOUS
  <2>8. u = (s \ {x}) \ {c} /\ u \in SUBSET S /\ IsFiniteSet(u)
    BY <2>3, <2>7, FS_Subset
  <2>9. Total(w, s \ {c}) = w[x] + Total(w, u)
    BY <2>1, <2>2, <2>3, <2>5, <2>6, <2>7
  <2>10. Total(w, s \ {x}) = w[c] + Total(w, u)
    BY <2>1, <2>2, <2>3, <2>5, <2>6, <2>8
  <2>11. w[x] \in Int /\ w[c] \in Int /\ Total(w, u) \in Int
    <3>1. \A z \in u : w[z] \in Int
      BY <2>8
    <3>2. Total(w, u) \in Int
      BY <2>8, <3>1, TotalType
    <3>3. QED
      BY <2>2, <2>3, <2>5, <3>2
  <2>12. QED
    BY <2>2, <2>5, <2>9, <2>10, <2>11
<1>3. QED
  BY <1>1, <1>2

LEMMA TotalAdd ==
  ASSUME NEW S, IsFiniteSet(S), NEW w, NEW y, y \notin S, \A x \in S \union {y} : w[x] \in Int
  PROVE  Total(w, S \union {y}) = w[y] + Total(w, S)
<1>1. IsFiniteSet(S \union {y}) /\ y \in S \union {y} /\ (S \union {y}) \ {y} = S
  BY FS_AddElement
<1>2. QED
  BY <1>1, TotalRemove

(* A total of natural numbers is one, and none of them exceeds it.         *)
LEMMA TotalNat ==
  ASSUME NEW S, IsFiniteSet(S), NEW w, \A x \in S : w[x] \in Nat
  PROVE  Total(w, S) \in Nat /\ \A x \in S : w[x] <= Total(w, S)
<1> DEFINE D == {s \in SUBSET S : Total(w, s) \notin Nat}
<1>1. CASE D = {}
  <2>1. ASSUME NEW x \in S
        PROVE  w[x] <= Total(w, S)
    <3>1. Total(w, S) = w[x] + Total(w, S \ {x})
      BY TotalRemove
    <3>2. Total(w, S \ {x}) \in Nat
      BY <1>1
    <3>3. QED
      BY <3>1, <3>2
  <2>2. QED
    BY <1>1, <2>1
<1>2. CASE D # {}
  <2>1. PICK s \in D : \A x \in s : s \ {x} \notin D
    BY <1>2, SmallestSubset
  <2>2. s \in SUBSET S /\ Total(w, s) \notin Nat
    OBVIOUS
  <2>3. s # {} /\ IsFiniteSet(s)
    BY <2>2, TotalEmpty, FS_Subset
  <2>4. Chosen(s) \in s /\ Total(w, s) = w[Chosen(s)] + Total(w, s \ {Chosen(s)})
    BY <2>3, ChosenIsElement, TotalUnfold
  <2>5. Total(w, s \ {Chosen(s)}) \in Nat
    BY <2>1, <2>2, <2>4
  <2>6. QED
    BY <2>2, <2>4, <2>5
<1>3. QED
  BY <1>1, <1>2

(* Fewer of them have no larger total.                                     *)
LEMMA TotalSubset ==
  ASSUME NEW S, IsFiniteSet(S), NEW w, \A x \in S : w[x] \in Nat, NEW T \in SUBSET S
  PROVE  Total(w, T) <= Total(w, S)
<1> DEFINE D == {s \in SUBSET S : T \subseteq s /\ ~(Total(w, T) <= Total(w, s))}
<1>1. \A s \in SUBSET S : Total(w, s) \in Nat
  <2>1. ASSUME NEW s \in SUBSET S
        PROVE  Total(w, s) \in Nat
    <3>1. IsFiniteSet(s)
      BY FS_Subset
    <3>2. \A x \in s : w[x] \in Nat
      OBVIOUS
    <3>3. QED
      BY <3>1, <3>2, TotalNat
  <2>2. QED
    BY <2>1
<1>2. CASE D = {}
  <2>1. ASSUME NEW s, s = S, ~(Total(w, T) <= Total(w, s))
        PROVE  FALSE
    <3>1. s \in SUBSET S /\ T \subseteq s
      BY <2>1
    <3>2. s \in D
      BY <2>1, <3>1
    <3>3. QED
      BY <1>2, <3>2
  <2>2. QED
    BY <2>1
<1>3. CASE D # {}
  <2>1. PICK s \in D : \A x \in s : s \ {x} \notin D
    <3>1. D \in SUBSET SUBSET S
      OBVIOUS
    <3> HIDE DEF D
    <3>2. QED
      BY <1>3, <3>1, SmallestSubset
  <2>2. s \in SUBSET S /\ T \subseteq s /\ ~(Total(w, T) <= Total(w, s))
    OBVIOUS
  <2>3. s # T
    BY <1>1, <2>2
  <2>4. PICK x \in s : x \notin T
    BY <2>2, <2>3
  <2>5. s \ {x} \in SUBSET S /\ T \subseteq s \ {x}
    BY <2>2, <2>4
  <2>6. Total(w, T) <= Total(w, s \ {x})
    BY <2>1, <2>4, <2>5
  <2>7. IsFiniteSet(s) /\ \A y \in s : w[y] \in Int
    <3>1. IsFiniteSet(s)
      BY <2>2, FS_Subset
    <3>2. QED
      BY <2>2, <3>1
  <2>8. Total(w, s) = w[x] + Total(w, s \ {x})
    BY <2>4, <2>7, TotalRemove
  <2>9. w[x] \in Nat /\ Total(w, s \ {x}) \in Nat /\ Total(w, T) \in Nat
    BY <1>1, <2>2, <2>4, <2>5
  <2>10. QED
    BY <2>2, <2>6, <2>8, <2>9
<1>4. QED
  BY <1>2, <1>3
=============================================================================
