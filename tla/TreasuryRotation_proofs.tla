------------------------ MODULE TreasuryRotation_proofs ------------------------
(***************************************************************************)
(* The runner's index of treasuries and its rotation, for any number of    *)
(* treasuries, batch and chunk sizes, failures and restarts: the scan      *)
(* leaves no treasury behind and indexes none twice, and the batches are   *)
(* the turns of a rotating queue.                                          *)
(***************************************************************************)
EXTENDS TreasuryRotation, FiniteSetTheorems, SequenceTheorems, TLAPS

-----------------------------------------------------------------------------
(* The invariant                                                           *)

Typed ==
  /\ head \in Nat /\ nextFactoryBlock \in Nat /\ latest \in Nat /\ latest <= head
  /\ events \in Seq(Event) /\ treasuryIndex \in Seq(Treasuries) /\ batch \in Seq(Treasuries)

(* The factory creates a treasury once, in a block of the chain.           *)
CreatedOnce ==
  /\ \A i \in DOMAIN events : FactoryFrom <= events[i].block /\ events[i].block <= head
  /\ \A i, j \in DOMAIN events : events[i].treasury = events[j].treasury => i = j

IndexedOnce ==
  \A i, j \in DOMAIN treasuryIndex : treasuryIndex[i] = treasuryIndex[j] => i = j

CursorInside ==
  tenantCursor \in Nat /\ (tenantCursor = 0 \/ tenantCursor < Len(treasuryIndex))

(* There is a batch only until its mandates are read.                      *)
BatchOfTurn == pc # "read" => batch = << >>

(* The scan is never ahead of the chain.                                   *)
ScanBounded ==
  /\ nextFactoryBlock <= FactoryFrom \/ nextFactoryBlock <= head + 1
  /\ pc = "scan" => nextFactoryBlock <= latest

(* Nothing before the next block to scan is left behind.                   *)
Scanned ==
  \A i \in DOMAIN events : events[i].block < nextFactoryBlock => events[i].treasury \in Indexed

RotationInv ==
  /\ Typed /\ CreatedOnce /\ IndexedOnce /\ CursorInside /\ BatchOfTurn /\ ScanBounded
  /\ Lagging = FALSE => Scanned

-----------------------------------------------------------------------------
(* Positions in ascending order                                            *)

Below == {p \in Nat \X Nat : p[1] < p[2]}

LEMMA LeastNumber ==
  ASSUME NEW S \in SUBSET Nat, S # {}
  PROVE  \E x \in S : \A y \in S : x <= y
<1>1. IsWellFoundedOn(Below, Nat)
  <2>1. Below = OpToRel(<, Nat)
    BY DEF Below, OpToRel
  <2>2. QED
    BY <2>1, NatLessThanWellFounded
<1>2. PICK x \in S : \A y \in S : ~(<<y, x>> \in Below)
  BY <1>1, WFMin
<1>3. \A y \in S : ~(y < x)
  <2> TAKE y \in S
  <2>1. <<y, x>> \in Nat \X Nat /\ <<y, x>>[1] = y /\ <<y, x>>[2] = x
    OBVIOUS
  <2>2. QED
    BY <1>2, <2>1 DEF Below
<1>4. QED
  BY <1>3

LEMMA GreatestNumber ==
  ASSUME NEW n \in Nat, NEW S \in SUBSET (0..n), S # {}
  PROVE  \E x \in S : \A y \in S : y <= x
<1> DEFINE T == {n - x : x \in S}
<1>1. \A x \in S : x \in Nat /\ n - x \in Nat
  OBVIOUS
<1>2. T \in SUBSET Nat /\ T # {}
  BY <1>1
<1>3. PICK d \in T : \A y \in T : d <= y
  BY <1>2, LeastNumber
<1>4. PICK x \in S : d = n - x
  OBVIOUS
<1>5. \A y \in S : x >= y
  BY <1>1, <1>3, <1>4
<1>6. QED
  BY <1>5

Increasing(s) == \A i, j \in DOMAIN s : i < j => s[i] < s[j]

Listed(S) == \E s \in [1..Cardinality(S) -> S] : Increasing(s)

(* One more position, beyond the others.                                   *)
LEMMA ListedAfter ==
  ASSUME NEW n \in Nat, NEW S \in SUBSET (0..n), IsFiniteSet(S), NEW x \in S,
         \A y \in S : y <= x, Listed(S \ {x})
  PROVE  Listed(S)
<1> DEFINE k == Cardinality(S)
           R == S \ {x}
<1>1. k \in Nat \ {0} /\ Cardinality(R) = k - 1
  BY FS_RemoveElement, FS_CardinalityType, FS_EmptySet
<1>2. PICK s \in [1..(k - 1) -> R] : Increasing(s)
  BY <1>1 DEF Listed
<1> HIDE DEF k
<1> DEFINE t == [i \in 1..k |-> IF i = k THEN x ELSE s[i]]
<1>3. \A i \in 1..k : (i # k => i \in 1..(k - 1) /\ s[i] \in S /\ s[i] < x) /\ t[i] \in S
  <2> TAKE i \in 1..k
  <2>1. i # k => i \in 1..(k - 1)
    BY <1>1
  <2>2. i # k => s[i] \in S /\ s[i] # x /\ s[i] \in 0..n /\ x \in 0..n
    BY <1>2, <2>1
  <2>3. QED
    BY <2>1, <2>2
<1>4. t \in [1..k -> S]
  BY <1>3
<1>5. Increasing(t)
  <2>1. SUFFICES ASSUME NEW i \in 1..k, NEW j \in 1..k, i < j
                 PROVE  t[i] < t[j]
    BY DEF Increasing
  <2>2. i # k /\ i \in 1..(k - 1) /\ t[i] = s[i] /\ s[i] < x
    BY <1>1, <1>3, <2>1
  <2>3. j # k => j \in 1..(k - 1) /\ t[j] = s[j]
    BY <1>1
  <2>4. QED
    BY <1>2, <2>1, <2>2, <2>3 DEF Increasing
<1>6. QED
  BY <1>4, <1>5 DEF Listed, k

LEMMA PositionsFinite ==
  ASSUME NEW n \in Nat, NEW S \in SUBSET (0..n)
  PROVE  IsFiniteSet(S)
<1>1. IsFiniteSet(0..n)
  BY FS_Interval
<1>2. QED
  BY <1>1, FS_Subset

LEMMA AllListed ==
  ASSUME NEW n \in Nat, NEW S \in SUBSET (0..n)
  PROVE  Listed(S)
<1> DEFINE Bad == {c \in Nat : \E T \in SUBSET (0..n) : IsFiniteSet(T) /\ Cardinality(T) = c /\ ~Listed(T)}
<1>1. \A T \in SUBSET (0..n) : IsFiniteSet(T)
  BY PositionsFinite
<1>2. SUFFICES ASSUME ~Listed(S)
               PROVE  FALSE
  OBVIOUS
<1>3. Cardinality(S) \in Bad
  BY <1>1, <1>2, FS_CardinalityType
<1>4. PICK c \in Bad : \A d \in Bad : c <= d
  BY <1>3, LeastNumber
<1>5. PICK T \in SUBSET (0..n) : IsFiniteSet(T) /\ Cardinality(T) = c /\ ~Listed(T)
  BY <1>4
<1>6. T # {}
  <2>1. SUFFICES ASSUME T = {}
                 PROVE  FALSE
    OBVIOUS
  <2>2. Cardinality(T) = 0
    BY <2>1, FS_EmptySet
  <2> DEFINE s == [i \in 1..0 |-> 0]
  <2>3. s \in [1..Cardinality(T) -> T] /\ Increasing(s)
    BY <2>2 DEF Increasing
  <2>4. QED
    BY <1>5, <2>3 DEF Listed
<1>7. PICK x \in T : \A y \in T : y <= x
  BY <1>6, GreatestNumber
<1>8. T \ {x} \in SUBSET (0..n) /\ IsFiniteSet(T \ {x}) /\ Cardinality(T \ {x}) = c - 1
  BY <1>5, <1>7, FS_RemoveElement
<1>9. Cardinality(T \ {x}) \in Nat
  BY <1>8, FS_CardinalityType
<1>10. ~Listed(T \ {x})
  BY <1>1, <1>5, <1>7, ListedAfter
<1>11. c - 1 \in Bad
  BY <1>8, <1>9, <1>10
<1>12. QED
  BY <1>4, <1>11

(* Ascending lists every position once.                                    *)
LEMMA AscendingLists ==
  ASSUME NEW n \in Nat, NEW S \in SUBSET (0..n)
  PROVE  /\ Cardinality(S) \in Nat
         /\ Ascending(S) \in [1..Cardinality(S) -> S]
         /\ \A i, j \in 1..Cardinality(S) : Ascending(S)[i] = Ascending(S)[j] => i = j
         /\ \A x \in S : \E i \in 1..Cardinality(S) : Ascending(S)[i] = x
<1> DEFINE k == Cardinality(S)
           a == Ascending(S)
<1>1. IsFiniteSet(S) /\ k \in Nat
  BY PositionsFinite, FS_CardinalityType
<1>2. a \in [1..k -> S] /\ Increasing(a)
  <2>1. \E s \in [1..k -> S] : \A i, j \in DOMAIN s : i < j => s[i] < s[j]
    BY AllListed DEF Listed, Increasing
  <2>2. QED
    BY <2>1 DEF Ascending, Increasing
<1> HIDE DEF a
<1>3. \A i, j \in 1..k : a[i] = a[j] => i = j
  <2>1. SUFFICES ASSUME NEW i \in 1..k, NEW j \in 1..k, i < j
                 PROVE  a[i] # a[j]
    BY <1>1
  <2>2. a[i] < a[j] /\ a[i] \in 0..n /\ a[j] \in 0..n
    BY <1>2, <2>1 DEF Increasing
  <2>3. QED
    BY <2>2
<1>4. \A x \in S : \E i \in 1..k : a[i] = x
  <2>1. a \in Injection(1..k, S)
    BY <1>2, <1>3 DEF Injection, IsInjective
  <2>2. Cardinality(1..k) = k
    BY <1>1, FS_Interval
  <2>3. a \in Surjection(1..k, S)
    BY <1>1, <2>1, <2>2, FS_Injection
  <2>4. QED
    BY <2>3 DEF Surjection
<1>5. QED
  BY <1>1, <1>2, <1>3, <1>4 DEF a

-----------------------------------------------------------------------------
(* What a chunk adds to the index                                          *)

LEMMA EventTyped ==
  ASSUME Typed
  PROVE  /\ Len(events) \in Nat /\ DOMAIN events = 1..Len(events)
         /\ \A k \in DOMAIN events : events[k].treasury \in Treasuries /\ events[k].block \in Nat
<1>1. events \in Seq(Event)
  BY DEF Typed
<1>2. Len(events) \in Nat /\ DOMAIN events = 1..Len(events)
      /\ \A k \in DOMAIN events : events[k] \in Event
  <2> HIDE DEF Event
  <2>1. QED
    BY <1>1
<1>3. QED
  BY <1>2 DEF Event

ListsOnce(found, S) ==
  /\ found \in Seq(Treasuries)
  /\ \A i, j \in DOMAIN found : found[i] = found[j] => i = j
  /\ \A i \in DOMAIN found : \E k \in S : found[i] = events[k].treasury
  /\ \A k \in S : \E i \in DOMAIN found : found[i] = events[k].treasury

LEMMA TreasuriesListed ==
  ASSUME Typed, CreatedOnce, NEW S \in SUBSET DOMAIN events
  PROVE  ListsOnce(TreasuriesOf(S), S)
<1> DEFINE n == Len(events)
           size == Cardinality(S)
           a == Ascending(S)
           found == TreasuriesOf(S)
<1>1. n \in Nat /\ DOMAIN events = 1..n /\ S \in SUBSET (0..n)
      /\ \A k \in DOMAIN events : events[k].treasury \in Treasuries
  BY EventTyped
<1>2. /\ size \in Nat /\ a \in [1..size -> S]
      /\ \A i, j \in 1..size : a[i] = a[j] => i = j
      /\ \A k \in S : \E i \in 1..size : a[i] = k
  BY <1>1, AscendingLists
<1>3. found = [i \in 1..size |-> events[a[i]].treasury]
  BY <1>2 DEF TreasuriesOf
<1> HIDE DEF a, size, found
<1>4. found \in [1..size -> Treasuries]
  BY <1>1, <1>2, <1>3
<1>5. found \in Seq(Treasuries) /\ DOMAIN found = 1..size
  BY <1>2, <1>4, SeqDef
<1>6. \A i, j \in DOMAIN found : found[i] = found[j] => i = j
  <2>1. SUFFICES ASSUME NEW i \in 1..size, NEW j \in 1..size, found[i] = found[j]
                 PROVE  i = j
    BY <1>5
  <2>2. a[i] \in DOMAIN events /\ a[j] \in DOMAIN events
    BY <1>2
  <2>3. events[a[i]].treasury = events[a[j]].treasury
    BY <1>3, <2>1
  <2>4. a[i] = a[j]
    BY <2>2, <2>3 DEF CreatedOnce
  <2>5. QED
    BY <1>2, <2>4
<1>7. \A i \in DOMAIN found : \E k \in S : found[i] = events[k].treasury
  <2> TAKE i \in DOMAIN found
  <2>1. i \in 1..size /\ a[i] \in S
    BY <1>2, <1>5
  <2>2. found[i] = events[a[i]].treasury
    BY <1>3, <2>1
  <2>3. QED
    BY <2>1, <2>2
<1>8. \A k \in S : \E i \in DOMAIN found : found[i] = events[k].treasury
  <2> TAKE k \in S
  <2>1. PICK i \in 1..size : a[i] = k
    BY <1>2
  <2>2. found[i] = events[k].treasury
    BY <1>3, <2>1
  <2>3. QED
    BY <1>5, <2>2
<1>9. QED
  BY <1>5, <1>6, <1>7, <1>8 DEF found, ListsOnce

(* Treasuries that may join the index together.                            *)
New(found) ==
  /\ found \in Seq(Treasuries)
  /\ \A i, j \in DOMAIN found : found[i] = found[j] => i = j
  /\ \A i \in DOMAIN found : found[i] \notin Indexed

LEMMA DiscoveredNew ==
  ASSUME Typed, CreatedOnce, NEW view
  PROVE  /\ New(Discovered(view))
         /\ \A k \in InChunk(view) :
              \/ events[k].treasury \in Indexed
              \/ \E i \in DOMAIN Discovered(view) : Discovered(view)[i] = events[k].treasury
<1> DEFINE S == {k \in InChunk(view) : events[k].treasury \notin Indexed}
<1>1. S \in SUBSET DOMAIN events /\ Discovered(view) = TreasuriesOf(S)
  BY DEF InChunk, Discovered
<1>2. \A k \in S : events[k].treasury \notin Indexed
  OBVIOUS
<1>4. \A k \in InChunk(view) : events[k].treasury \in Indexed \/ k \in S
  OBVIOUS
<1> DEFINE found == Discovered(view)
<1> HIDE DEF S
<1>9. ListsOnce(found, S)
  BY <1>1, TreasuriesListed
<1> HIDE DEF found
<1>3. /\ found \in Seq(Treasuries)
      /\ \A i, j \in DOMAIN found : found[i] = found[j] => i = j
      /\ \A i \in DOMAIN found : \E k \in S : found[i] = events[k].treasury
      /\ \A k \in S : \E i \in DOMAIN found : found[i] = events[k].treasury
  BY <1>9 DEF ListsOnce
<1>5. \A i \in DOMAIN found : found[i] \notin Indexed
  BY <1>2, <1>3
<1>6. New(found)
  BY <1>3, <1>5 DEF New
<1>7. \A k \in InChunk(view) :
        events[k].treasury \in Indexed \/ \E i \in DOMAIN found : found[i] = events[k].treasury
  BY <1>3, <1>4
<1>8. QED
  BY <1>6, <1>7 DEF found

LEMMA PrefixNew ==
  ASSUME NEW found, New(found), NEW n \in 0..Len(found)
  PROVE  New(SubSeq(found, 1, n))
<1> DEFINE part == SubSeq(found, 1, n)
<1>1. found \in Seq(Treasuries) /\ Len(found) \in Nat /\ DOMAIN found = 1..Len(found)
  BY DEF New
<1>2. \A i \in 1..n : found[i] \in Treasuries /\ i \in DOMAIN found
  BY <1>1
<1>3. part \in Seq(Treasuries) /\ Len(part) = n /\ \A i \in 1..n : part[i] = found[i]
  <2>1. /\ part \in Seq(Treasuries)
        /\ Len(part) = IF 1 <= n THEN n - 1 + 1 ELSE 0
        /\ \A i \in 1..(n - 1 + 1) : part[i] = found[1 + i - 1]
    BY <1>2, SubSeqProperties
  <2>2. QED
    BY <2>1
<1>4. DOMAIN part = 1..n
  BY <1>3
<1>5. QED
  BY <1>2, <1>3, <1>4 DEF New

(* They join behind the treasuries that are indexed.                       *)
LEMMA JoinIndex ==
  ASSUME Typed, IndexedOnce, CursorInside, NEW found, New(found),
         treasuryIndex' = treasuryIndex \o found
  PROVE  /\ treasuryIndex' \in Seq(Treasuries) /\ IndexedOnce'
         /\ \A t \in Indexed : t \in Indexed'
         /\ \A i \in DOMAIN found : found[i] \in Indexed'
         /\ Len(treasuryIndex') = Len(treasuryIndex) + Len(found)
<1> DEFINE m == Len(treasuryIndex)
           n == Len(found)
<1>1. /\ m \in Nat /\ n \in Nat /\ DOMAIN treasuryIndex = 1..m /\ DOMAIN found = 1..n
      /\ found \in Seq(Treasuries) /\ treasuryIndex \in Seq(Treasuries)
  BY DEF Typed, New
<1>2. /\ treasuryIndex' \in Seq(Treasuries) /\ Len(treasuryIndex') = m + n
      /\ \A i \in 1..(m + n) :
           treasuryIndex'[i] = IF i <= m THEN treasuryIndex[i] ELSE found[i - m]
  BY <1>1, ConcatProperties
<1>3. DOMAIN treasuryIndex' = 1..(m + n)
  BY <1>1, <1>2
<1> HIDE DEF m, n
<1>4. \A i \in 1..m : i \in 1..(m + n) /\ treasuryIndex'[i] = treasuryIndex[i]
  BY <1>1, <1>2
<1>5. \A i \in 1..n : m + i \in 1..(m + n) /\ treasuryIndex'[m + i] = found[i]
  BY <1>1, <1>2
<1>6. \A i \in (1..(m + n)) \ (1..m) : i - m \in 1..n /\ treasuryIndex'[i] = found[i - m]
  BY <1>1, <1>2
<1>7. \A i \in 1..m : treasuryIndex'[i] \in Indexed
  BY <1>1, <1>4 DEF Indexed
<1>8. \A i \in (1..(m + n)) \ (1..m) : treasuryIndex'[i] \notin Indexed
  BY <1>1, <1>6 DEF New
<1>9. IndexedOnce'
  <2>1. SUFFICES ASSUME NEW i \in 1..(m + n), NEW j \in 1..(m + n),
                        treasuryIndex'[i] = treasuryIndex'[j]
                 PROVE  i = j
    BY <1>3 DEF IndexedOnce
  <2>2. CASE i \in 1..m /\ j \in 1..m
    BY <1>1, <1>4, <2>1, <2>2 DEF IndexedOnce
  <2>3. CASE i \in 1..m /\ j \notin 1..m
    BY <1>7, <1>8, <2>1, <2>3
  <2>4. CASE i \notin 1..m /\ j \in 1..m
    BY <1>7, <1>8, <2>1, <2>4
  <2>5. CASE i \notin 1..m /\ j \notin 1..m
    <3>1. i - m \in 1..n /\ j - m \in 1..n /\ found[i - m] = found[j - m]
      BY <1>6, <2>1, <2>5
    <3> DEFINE x == i - m
               y == j - m
    <3>2. x = y
      <4>1. x \in DOMAIN found /\ y \in DOMAIN found /\ found[x] = found[y]
        BY <1>1, <3>1
      <4> HIDE DEF x, y
      <4>2. QED
        BY <4>1 DEF New
    <3>3. QED
      BY <1>1, <3>2
  <2>6. QED
    BY <2>2, <2>3, <2>4, <2>5
<1>10. \A t \in Indexed : t \in Indexed'
  BY <1>1, <1>3, <1>4 DEF Indexed
<1>11. \A i \in DOMAIN found : found[i] \in Indexed'
  BY <1>1, <1>3, <1>5 DEF Indexed
<1>12. QED
  BY <1>2, <1>9, <1>10, <1>11 DEF m, n

-----------------------------------------------------------------------------
(* The invariant is inductive                                              *)

LEMMA InvInit ==
  Init => RotationInv
<1> SUFFICES ASSUME Init
             PROVE  RotationInv
  OBVIOUS
<1>1. /\ head = 0 /\ nextFactoryBlock = FactoryFrom /\ latest = 0 /\ events = << >>
      /\ treasuryIndex = << >> /\ batch = << >> /\ tenantCursor = 0 /\ pc = "sleep"
  BY DEF Init
<1>2. << >> \in Seq(Event) /\ << >> \in Seq(Treasuries)
  <2> HIDE DEF Event
  <2>1. QED
    BY EmptySeq
<1>3. Typed
  BY <1>1, <1>2, RotationAssumption DEF Typed
<1>4. CreatedOnce /\ IndexedOnce /\ Scanned
  <2>1. DOMAIN events = {} /\ DOMAIN treasuryIndex = {}
    BY <1>1
  <2>2. QED
    BY <2>1 DEF CreatedOnce, IndexedOnce, Scanned
<1>5. CursorInside /\ BatchOfTurn /\ ScanBounded
  BY <1>1, RotationAssumption DEF CursorInside, BatchOfTurn, ScanBounded
<1>6. QED
  BY <1>3, <1>4, <1>5 DEF RotationInv

(* A step that touches neither the chain nor the index.                    *)
LEMMA IndexFrame ==
  ASSUME RotationInv,
         UNCHANGED <<head, events, nextFactoryBlock, treasuryIndex, tenantCursor>>,
         latest' \in Nat, latest' <= head, batch' \in Seq(Treasuries), BatchOfTurn',
         pc' = "scan" => nextFactoryBlock <= latest'
  PROVE  RotationInv'
<1>1. Typed'
  BY DEF RotationInv, Typed
<1>2. CreatedOnce' /\ IndexedOnce' /\ CursorInside' /\ ScanBounded'
  BY DEF RotationInv, CreatedOnce, IndexedOnce, CursorInside, ScanBounded
<1>3. Scanned => Scanned'
  BY DEF Scanned, Indexed
<1>4. QED
  BY <1>1, <1>2, <1>3 DEF RotationInv

LEMMA MineInv ==
  ASSUME RotationInv, Mine
  PROVE  RotationInv'
<1>1. /\ head' = head + 1
      /\ UNCHANGED <<events, nextFactoryBlock, treasuryIndex, tenantCursor, pc, latest, batch>>
  BY DEF Mine, index, cycleVars
<1>2. head \in Nat /\ latest \in Nat /\ latest <= head /\ nextFactoryBlock \in Nat
  BY DEF RotationInv, Typed
<1>3. Typed'
  BY <1>1, <1>2 DEF RotationInv, Typed
<1>4. CreatedOnce'
  <2>1. \A k \in DOMAIN events : events[k].block \in Nat /\ events[k].block <= head
    BY EventTyped DEF RotationInv, CreatedOnce
  <2>2. QED
    BY <1>1, <1>2, <2>1 DEF RotationInv, CreatedOnce
<1>5. IndexedOnce' /\ CursorInside' /\ BatchOfTurn'
  BY <1>1 DEF RotationInv, IndexedOnce, CursorInside, BatchOfTurn
<1>6. ScanBounded'
  BY <1>1, <1>2, RotationAssumption DEF RotationInv, ScanBounded
<1>7. Scanned => Scanned'
  BY <1>1 DEF Scanned, Indexed
<1>8. QED
  BY <1>3, <1>4, <1>5, <1>6, <1>7 DEF RotationInv

(* New events stand in a block that is not scanned yet.                    *)
LEMMA CreateInv ==
  ASSUME RotationInv, NEW new \in SUBSET Treasuries, CreateTreasuries(new)
  PROVE  RotationInv'
<1> DEFINE c == Cardinality(new)
           n == Len(events)
<1>1. /\ head' = head + 1 /\ FactoryFrom <= head + 1 /\ new \subseteq Treasuries \ Created
      /\ UNCHANGED <<nextFactoryBlock, treasuryIndex, tenantCursor, pc, latest, batch>>
  BY DEF CreateTreasuries, index, cycleVars
<1>2. head \in Nat /\ latest \in Nat /\ latest <= head /\ nextFactoryBlock \in Nat
      /\ treasuryIndex \in Seq(Treasuries) /\ batch \in Seq(Treasuries)
  BY DEF RotationInv, Typed
<1>3. PICK order \in [1..c -> new] :
        /\ {order[i] : i \in DOMAIN order} = new
        /\ events' = events \o [i \in DOMAIN order |-> [treasury |-> order[i], block |-> head + 1]]
  BY DEF CreateTreasuries
<1>4. IsFiniteSet(new) /\ c \in Nat
  BY RotationAssumption, FS_Subset, FS_CardinalityType
<1>5. \A i, j \in 1..c : order[i] = order[j] => i = j
  <2>1. order \in Surjection(1..c, new)
    BY <1>3 DEF Surjection
  <2>2. IsFiniteSet(1..c) /\ Cardinality(1..c) = c
    BY <1>4, FS_Interval
  <2>3. order \in Injection(1..c, new)
    BY <1>4, <2>1, <2>2, FS_SurjSameCardinalityImpliesInj
  <2>4. QED
    BY <2>3 DEF Injection, IsInjective
<1> DEFINE added == [i \in 1..c |-> [treasury |-> order[i], block |-> head + 1]]
<1>6. \A i \in 1..c : added[i] \in Event /\ added[i].treasury = order[i] /\ added[i].block = head + 1
                      /\ added[i].treasury \notin Created
  BY <1>1, <1>2, <1>3 DEF Event
<1>7. added \in Seq(Event) /\ Len(added) = c
  <2>1. added \in [1..c -> Event]
    BY <1>6
  <2> HIDE DEF added, Event
  <2>2. added \in Seq(Event)
    BY <1>4, <2>1, SeqDef
  <2>3. QED
    BY <1>4, <2>1, <2>2
<1>8. events' = events \o added
  BY <1>3
<1> HIDE DEF added, c
<1>9. n \in Nat /\ DOMAIN events = 1..n /\ events \in Seq(Event)
      /\ \A k \in 1..n : events[k].block \in Nat /\ events[k].block <= head
                         /\ FactoryFrom <= events[k].block
  BY EventTyped DEF RotationInv, CreatedOnce, Typed
<1>10. /\ events' \in Seq(Event) /\ Len(events') = n + c
       /\ \A i \in 1..(n + c) : events'[i] = IF i <= n THEN events[i] ELSE added[i - n]
  <2> HIDE DEF Event
  <2>1. QED
    BY <1>7, <1>8, <1>9, ConcatProperties
<1>11. DOMAIN events' = 1..(n + c)
  BY <1>4, <1>9, <1>10
<1> HIDE DEF n
<1>12. \A i \in 1..n : i \in 1..(n + c) /\ events'[i] = events[i]
  BY <1>4, <1>9, <1>10
<1>13. \A i \in (1..(n + c)) \ (1..n) : i - n \in 1..c /\ events'[i] = added[i - n]
  BY <1>4, <1>9, <1>10
<1>14. \A i \in 1..n : events'[i].treasury \in Created
  BY <1>9, <1>12 DEF Created
<1>15. \A i \in (1..(n + c)) \ (1..n) :
         /\ i - n \in 1..c /\ events'[i].treasury = order[i - n]
         /\ events'[i].block = head + 1 /\ events'[i].treasury \notin Created
  BY <1>6, <1>13
<1>16. Typed'
  BY <1>1, <1>2, <1>10 DEF Typed
<1>17. CreatedOnce'
  <2>1. \A i \in 1..(n + c) : FactoryFrom <= events'[i].block /\ events'[i].block <= head'
    <3> TAKE i \in 1..(n + c)
    <3>1. CASE i \in 1..n
      BY <1>1, <1>2, <1>9, <1>12, <3>1
    <3>2. CASE i \notin 1..n
      BY <1>1, <1>2, <1>15, <3>2
    <3>3. QED
      BY <3>1, <3>2
  <2>2. ASSUME NEW i \in 1..(n + c), NEW j \in 1..(n + c),
               events'[i].treasury = events'[j].treasury
        PROVE  i = j
    <3>1. CASE i \in 1..n /\ j \in 1..n
      BY <1>9, <1>12, <2>2, <3>1 DEF RotationInv, CreatedOnce
    <3>2. CASE i \in 1..n /\ j \notin 1..n
      BY <1>14, <1>15, <2>2, <3>2
    <3>3. CASE i \notin 1..n /\ j \in 1..n
      BY <1>14, <1>15, <2>2, <3>3
    <3>4. CASE i \notin 1..n /\ j \notin 1..n
      <4>1. i - n \in 1..c /\ j - n \in 1..c /\ order[i - n] = order[j - n]
        BY <1>15, <2>2, <3>4
      <4>2. i - n = j - n
        BY <1>5, <4>1
      <4>3. QED
        BY <1>9, <4>2
    <3>5. QED
      BY <3>1, <3>2, <3>3, <3>4
  <2>3. QED
    BY <1>11, <2>1, <2>2 DEF CreatedOnce
<1>18. IndexedOnce' /\ CursorInside' /\ BatchOfTurn' /\ ScanBounded'
  BY <1>1, <1>2, RotationAssumption
     DEF RotationInv, IndexedOnce, CursorInside, BatchOfTurn, ScanBounded
<1>19. Scanned => Scanned'
  <2>1. SUFFICES ASSUME Scanned, NEW i \in 1..(n + c), events'[i].block < nextFactoryBlock
                 PROVE  events'[i].treasury \in Indexed
    BY <1>1, <1>11 DEF Scanned, Indexed
  <2>2. nextFactoryBlock <= head + 1
    BY <1>1, <1>2, RotationAssumption DEF RotationInv, ScanBounded
  <2>3. i \in 1..n
    BY <1>2, <1>15, <2>1, <2>2
  <2>4. QED
    BY <1>9, <1>12, <2>1, <2>3 DEF Scanned
<1>20. QED
  BY <1>16, <1>17, <1>18, <1>19 DEF RotationInv

LEMMA ChunkBounds ==
  ASSUME Typed, ScanBounded, pc = "scan"
  PROVE  /\ ChunkEnd \in Nat /\ ChunkEnd <= latest /\ nextFactoryBlock <= ChunkEnd
         /\ NextChunk \in Nat /\ NextChunk <= head + 1 /\ nextFactoryBlock <= NextChunk
         /\ ChunkEnd # latest => NextChunk <= latest
<1>1. /\ latest \in Nat /\ nextFactoryBlock \in Nat /\ nextFactoryBlock <= latest
      /\ head \in Nat /\ latest <= head
  BY DEF Typed, ScanBounded
<1>2. LogChunk \in Nat /\ LogChunk >= 1
  BY RotationAssumption
<1>3. QED
  BY <1>1, <1>2 DEF ChunkEnd, NextChunk

(* A scan that indexes what is new, in full or in part.                    *)
LEMMA ScanKeeps ==
  ASSUME RotationInv, NEW found, New(found), treasuryIndex' = treasuryIndex \o found,
         UNCHANGED <<head, events, tenantCursor, latest, batch>>,
         nextFactoryBlock' \in Nat, BatchOfTurn', ScanBounded',
         (Lagging = FALSE) => Scanned'
  PROVE  RotationInv'
<1>1. /\ treasuryIndex' \in Seq(Treasuries) /\ IndexedOnce'
      /\ Len(treasuryIndex') = Len(treasuryIndex) + Len(found)
  BY JoinIndex DEF RotationInv
<1>2. Len(treasuryIndex) \in Nat /\ Len(found) \in Nat
  BY DEF RotationInv, Typed, New
<1>3. Typed' /\ CreatedOnce'
  BY <1>1 DEF RotationInv, Typed, CreatedOnce
<1>4. CursorInside'
  BY <1>1, <1>2 DEF RotationInv, CursorInside
<1>5. QED
  BY <1>1, <1>3, <1>4 DEF RotationInv

LEMMA ScanChunkInv ==
  ASSUME RotationInv, ScanChunk
  PROVE  RotationInv'
<1>1. PICK view \in Views : treasuryIndex' = treasuryIndex \o Discovered(view)
  BY DEF ScanChunk
<1>2. /\ pc = "scan" /\ nextFactoryBlock' = NextChunk
      /\ pc' = IF ChunkEnd = latest THEN "batch" ELSE "scan"
      /\ UNCHANGED <<head, events, tenantCursor, latest, batch>>
  BY DEF ScanChunk, Goto, chain, cycleVars
<1>3. Typed /\ CreatedOnce /\ IndexedOnce /\ CursorInside /\ BatchOfTurn /\ ScanBounded
  BY DEF RotationInv
<1> DEFINE found == Discovered(view)
<1>4. /\ New(found)
      /\ \A k \in InChunk(view) :
           events[k].treasury \in Indexed \/ \E i \in DOMAIN found : found[i] = events[k].treasury
  BY <1>3, DiscoveredNew
<1>5. /\ ChunkEnd \in Nat /\ ChunkEnd <= latest /\ nextFactoryBlock <= ChunkEnd
      /\ NextChunk \in Nat /\ NextChunk <= head + 1
      /\ ChunkEnd # latest => NextChunk <= latest
  BY <1>2, <1>3, ChunkBounds
<1>6. BatchOfTurn' /\ ScanBounded'
  BY <1>2, <1>3, <1>5 DEF BatchOfTurn, ScanBounded
<1>7. ASSUME Lagging = FALSE
      PROVE  Scanned'
  <2>1. Scanned /\ view = head
    BY <1>7 DEF RotationInv, Views
  <2>2. (\A t \in Indexed : t \in Indexed') /\ (\A i \in DOMAIN found : found[i] \in Indexed')
    <3> HIDE DEF found
    <3>1. treasuryIndex' = treasuryIndex \o found
      BY <1>1 DEF found
    <3>2. QED
      BY <1>3, <1>4, <3>1, JoinIndex
  <2> HIDE DEF found
  <2>3. SUFFICES ASSUME NEW k \in DOMAIN events, events[k].block < NextChunk
                 PROVE  events[k].treasury \in Indexed'
    BY <1>2 DEF Scanned
  <2>4. events[k].block \in Nat /\ events[k].block <= head /\ nextFactoryBlock \in Nat
    BY <1>3, EventTyped DEF CreatedOnce, Typed
  <2>5. CASE events[k].block < nextFactoryBlock
    BY <2>1, <2>2, <2>5 DEF Scanned
  <2>6. CASE ~(events[k].block < nextFactoryBlock)
    <3>1. events[k].block \in nextFactoryBlock..ChunkEnd /\ events[k].block <= view
      BY <1>5, <2>1, <2>3, <2>4, <2>6 DEF NextChunk
    <3>2. k \in InChunk(view)
      BY <3>1 DEF InChunk
    <3>3. QED
      BY <1>4, <2>2, <3>2
  <2>7. QED
    BY <2>5, <2>6
<1>8. nextFactoryBlock' \in Nat
  BY <1>2, <1>5
<1>9. treasuryIndex' = treasuryIndex \o found
  BY <1>1
<1> HIDE DEF found
<1>10. QED
  BY <1>2, <1>4, <1>6, <1>7, <1>8, <1>9, ScanKeeps

LEMMA ScanFailsInv ==
  ASSUME RotationInv, ScanFails
  PROVE  RotationInv'
<1>1. PICK view \in Views, n \in 0..Cardinality(Treasuries) :
        /\ n <= Len(Discovered(view))
        /\ treasuryIndex' = treasuryIndex \o SubSeq(Discovered(view), 1, n)
  BY DEF ScanFails
<1>2. /\ pc = "scan" /\ nextFactoryBlock' = nextFactoryBlock /\ pc' = "sleep"
      /\ UNCHANGED <<head, events, tenantCursor, latest, batch>>
  BY DEF ScanFails, Goto, chain, cycleVars
<1>3. Typed /\ CreatedOnce /\ IndexedOnce /\ CursorInside /\ BatchOfTurn /\ ScanBounded
  BY DEF RotationInv
<1>4. New(Discovered(view))
  BY <1>3, DiscoveredNew
<1> DEFINE found == SubSeq(Discovered(view), 1, n)
<1>5. New(found)
  <2>1. Len(Discovered(view)) \in Nat /\ n \in Nat
    BY <1>4, RotationAssumption, FS_CardinalityType DEF New
  <2>2. n \in 0..Len(Discovered(view))
    BY <1>1, <2>1
  <2>3. QED
    BY <1>4, <2>2, PrefixNew
<1>6. treasuryIndex' = treasuryIndex \o found
  BY <1>1
<1> HIDE DEF found
<1>7. \A t \in Indexed : t \in Indexed'
  BY <1>3, <1>5, <1>6, JoinIndex
<1>8. Scanned => Scanned'
  BY <1>2, <1>7 DEF Scanned
<1>9. BatchOfTurn' /\ ScanBounded' /\ nextFactoryBlock' \in Nat
  BY <1>2, <1>3 DEF BatchOfTurn, ScanBounded, Typed
<1>10. QED
  BY <1>2, <1>5, <1>6, <1>8, <1>9, ScanKeeps DEF RotationInv

(* The batch is taken from the index, and the cursor stays inside it.      *)
LEMMA TurnOf ==
  ASSUME NEW l \in Nat \ {0}, NEW c \in Nat, NEW d \in Nat, c < l, d <= l
  PROVE  (c + d) % l = IF c + d < l THEN c + d ELSE c + d - l
<1>1. CASE c + d < l
  BY <1>1
<1>2. CASE c + d >= l
  <2>1. c + d - l \in 0..(l - 1)
    BY <1>2
  <2>2. QED
    BY <1>2, <2>1
<1>3. QED
  BY <1>1, <1>2

LEMMA BatchBounds ==
  ASSUME Typed, CursorInside, treasuryIndex # << >>
  PROVE  /\ Len(treasuryIndex) \in Nat \ {0} /\ tenantCursor \in Nat
         /\ tenantCursor < Len(treasuryIndex)
         /\ BatchSize \in Nat \ {0} /\ BatchSize <= Len(treasuryIndex) /\ BatchSize <= MaxTenants
<1>1. treasuryIndex \in Seq(Treasuries)
  BY DEF Typed
<1>2. Len(treasuryIndex) \in Nat \ {0}
  BY <1>1, EmptySeq
<1>3. QED
  BY <1>2, RotationAssumption DEF CursorInside, BatchSize

LEMMA BatchIs ==
  ASSUME Typed, CursorInside, treasuryIndex # << >>, NEW i \in 1..BatchSize
  PROVE  LET l == Len(treasuryIndex) IN
         /\ AtCursor(i) = treasuryIndex[IF tenantCursor + i <= l THEN tenantCursor + i
                                        ELSE tenantCursor + i - l]
         /\ AtCursor(i) \in Treasuries
<1> DEFINE l == Len(treasuryIndex)
           d == i - 1
           at == IF tenantCursor + i <= l THEN tenantCursor + i ELSE tenantCursor + i - l
<1>1. l \in Nat \ {0} /\ tenantCursor \in Nat /\ tenantCursor < l /\ BatchSize \in Nat
      /\ BatchSize <= l /\ treasuryIndex \in Seq(Treasuries)
  BY BatchBounds DEF Typed
<1>2. d \in Nat /\ d <= l /\ i \in Nat /\ tenantCursor + d = tenantCursor + i - 1
  BY <1>1
<1>3. (tenantCursor + d) % l = IF tenantCursor + d < l THEN tenantCursor + d
                               ELSE tenantCursor + d - l
  <2> HIDE DEF d, l
  <2>1. QED
    BY <1>1, <1>2, TurnOf
<1>4. ((tenantCursor + i - 1) % l) + 1 = at
  BY <1>1, <1>2, <1>3
<1>5. at \in 1..l
  BY <1>1, <1>2
<1>6. AtCursor(i) = treasuryIndex[at]
  BY <1>4 DEF AtCursor
<1>7. treasuryIndex[at] \in Treasuries
  BY <1>1, <1>5
<1>8. QED
  BY <1>6, <1>7

LEMMA AdvancedIs ==
  ASSUME Typed, CursorInside, treasuryIndex # << >>
  PROVE  /\ Advanced = IF tenantCursor + BatchSize < Len(treasuryIndex)
                       THEN tenantCursor + BatchSize
                       ELSE tenantCursor + BatchSize - Len(treasuryIndex)
         /\ Advanced \in Nat /\ Advanced < Len(treasuryIndex)
<1> DEFINE l == Len(treasuryIndex)
<1>1. l \in Nat \ {0} /\ tenantCursor \in Nat /\ tenantCursor < l /\ BatchSize \in Nat
      /\ BatchSize <= l
  BY BatchBounds
<1>2. Advanced = IF tenantCursor + BatchSize < l THEN tenantCursor + BatchSize
                 ELSE tenantCursor + BatchSize - l
  <2>1. Advanced = (tenantCursor + BatchSize) % l
    BY DEF Advanced
  <2> HIDE DEF l
  <2>2. QED
    BY <1>1, <2>1, TurnOf
<1>3. QED
  BY <1>1, <1>2

LEMMA TakeBatchInv ==
  ASSUME RotationInv, TakeBatch
  PROVE  RotationInv'
<1>1. /\ pc = "batch" /\ pc' = "read"
      /\ UNCHANGED <<head, events, nextFactoryBlock, treasuryIndex, latest>>
  BY DEF TakeBatch, Goto, chain
<1>2. Typed /\ CursorInside
  BY DEF RotationInv
<1>3. batch' \in Seq(Treasuries) /\ CursorInside'
  <2>1. CASE treasuryIndex = << >>
    <3>1. batch' = << >> /\ tenantCursor' = tenantCursor
      BY <2>1 DEF TakeBatch
    <3>2. QED
      BY <1>1, <1>2, <3>1 DEF CursorInside
  <2>2. CASE treasuryIndex # << >>
    <3>1. batch' = [i \in 1..BatchSize |-> AtCursor(i)] /\ tenantCursor' = Advanced
      BY <2>2 DEF TakeBatch
    <3>2. BatchSize \in Nat /\ \A i \in 1..BatchSize : AtCursor(i) \in Treasuries
      BY <1>2, <2>2, BatchBounds, BatchIs
    <3>3. batch' \in [1..BatchSize -> Treasuries]
      BY <3>1, <3>2
    <3>4. batch' \in Seq(Treasuries)
      BY <3>2, <3>3, SeqDef
    <3>5. CursorInside'
      BY <1>1, <1>2, <2>2, <3>1, AdvancedIs DEF CursorInside
    <3>6. QED
      BY <3>4, <3>5
  <2>3. QED
    BY <2>1, <2>2
<1>4. Typed' /\ CreatedOnce' /\ IndexedOnce' /\ BatchOfTurn' /\ ScanBounded'
  BY <1>1, <1>3 DEF RotationInv, Typed, CreatedOnce, IndexedOnce, BatchOfTurn, ScanBounded
<1>5. Scanned => Scanned'
  BY <1>1 DEF Scanned, Indexed
<1>6. QED
  BY <1>3, <1>4, <1>5 DEF RotationInv

LEMMA RestartInv ==
  ASSUME RotationInv, Restart
  PROVE  RotationInv'
<1>1. /\ head' = head /\ events' = events /\ nextFactoryBlock' = FactoryFrom
      /\ treasuryIndex' = << >> /\ tenantCursor' = 0 /\ latest' = 0 /\ batch' = << >>
      /\ pc' = "sleep"
  BY DEF Restart, Goto, chain
<1>2. << >> \in Seq(Treasuries)
  BY EmptySeq
<1>3. Typed' /\ CreatedOnce'
  BY <1>1, <1>2, RotationAssumption DEF RotationInv, Typed, CreatedOnce
<1>4. IndexedOnce' /\ CursorInside' /\ BatchOfTurn' /\ ScanBounded'
  BY <1>1, RotationAssumption
     DEF RotationInv, IndexedOnce, CursorInside, BatchOfTurn, ScanBounded
<1>5. Scanned'
  <2>1. \A i \in DOMAIN events : FactoryFrom <= events[i].block /\ events[i].block \in Nat
    BY EventTyped DEF RotationInv, CreatedOnce
  <2>2. QED
    BY <1>1, <2>1, RotationAssumption DEF Scanned
<1>6. QED
  BY <1>3, <1>4, <1>5 DEF RotationInv

(* Every other step leaves the chain's height, the events and the index.   *)
LEMMA LoopInv ==
  ASSUME RotationInv,
         \/ (\E t \in Treasuries : SetMode(t)) \/ StartCycle \/ ReadLatest \/ ReadMandates
         \/ Observe \/ RunTenant \/ CycleFails \/ UNCHANGED vars
  PROVE  RotationInv'
<1>1. /\ head \in Nat /\ latest \in Nat /\ latest <= head /\ nextFactoryBlock \in Nat
      /\ batch \in Seq(Treasuries) /\ BatchOfTurn /\ ScanBounded
  BY DEF RotationInv, Typed
<1>2. ASSUME NEW t \in Treasuries, SetMode(t)
      PROVE  RotationInv'
  BY <1>1, <1>2, IndexFrame DEF SetMode, index, cycleVars, BatchOfTurn, ScanBounded
<1>3. CASE StartCycle
  BY <1>1, <1>3, IndexFrame DEF StartCycle, Goto, chain, index, cycleVars, BatchOfTurn
<1>4. CASE ReadLatest
  <2>1. /\ latest' \in Views /\ pc = "refresh"
        /\ pc' = IF nextFactoryBlock > latest' THEN "batch" ELSE "scan"
        /\ UNCHANGED <<head, events, nextFactoryBlock, treasuryIndex, tenantCursor, batch>>
    BY <1>4 DEF ReadLatest, Goto, chain, index
  <2>2. latest' \in Nat /\ latest' <= head
    BY <1>1, <2>1 DEF Views
  <2>3. BatchOfTurn' /\ (pc' = "scan" => nextFactoryBlock <= latest')
    BY <1>1, <2>1, <2>2 DEF BatchOfTurn
  <2>4. QED
    BY <1>1, <2>1, <2>2, <2>3, IndexFrame
<1>5. CASE ReadMandates
  <2>1. /\ batch' = << >> /\ pc' # "scan"
        /\ UNCHANGED <<head, events, nextFactoryBlock, treasuryIndex, tenantCursor, latest>>
    BY <1>5 DEF ReadMandates, Goto, chain, index
  <2>2. << >> \in Seq(Treasuries)
    BY EmptySeq
  <2>3. QED
    BY <1>1, <2>1, <2>2, IndexFrame DEF BatchOfTurn
<1>6. CASE Observe
  BY <1>1, <1>6, IndexFrame DEF Observe, Goto, chain, index, cycleVars, BatchOfTurn
<1>7. CASE RunTenant
  BY <1>1, <1>7, IndexFrame DEF RunTenant, Goto, chain, index, BatchOfTurn
<1>8. CASE CycleFails
  BY <1>1, <1>8, IndexFrame DEF CycleFails, Goto, chain, index, BatchOfTurn
<1>9. CASE UNCHANGED vars
  BY <1>1, <1>9, IndexFrame DEF vars, chain, index, cycleVars, BatchOfTurn, ScanBounded
<1>10. QED
  BY <1>2, <1>3, <1>4, <1>5, <1>6, <1>7, <1>8, <1>9

LEMMA InvStep ==
  RotationInv /\ [Next]_vars => RotationInv'
<1> SUFFICES ASSUME RotationInv, [Next]_vars
             PROVE  RotationInv'
  OBVIOUS
<1>1. CASE Mine
  BY <1>1, MineInv
<1>2. ASSUME NEW new \in SUBSET Treasuries, CreateTreasuries(new)
      PROVE  RotationInv'
  BY <1>2, CreateInv
<1>3. CASE ScanChunk
  BY <1>3, ScanChunkInv
<1>4. CASE ScanFails
  BY <1>4, ScanFailsInv
<1>5. CASE TakeBatch
  BY <1>5, TakeBatchInv
<1>6. CASE Restart
  BY <1>6, RestartInv
<1>7. CASE \/ (\E t \in Treasuries : SetMode(t)) \/ StartCycle \/ ReadLatest \/ ReadMandates
           \/ Observe \/ RunTenant \/ CycleFails \/ UNCHANGED vars
  BY <1>7, LoopInv
<1>8. QED
  BY <1>1, <1>2, <1>3, <1>4, <1>5, <1>6, <1>7 DEF Next, Loop

(* The invariant holds of every run.                                       *)
THEOREM RotationInvariant ==
  Spec => []RotationInv
<1>1. QED
  BY InvInit, InvStep, PTL DEF Spec

(* When every call is answered from one view of the chain, the scan leaves *)
(* no treasury behind and indexes none twice, through failures in the      *)
(* middle of a chunk and restarts (refreshTreasuryIndex).                  *)
THEOREM NoTreasuryLeftBehind ==
  ASSUME Lagging = FALSE
  PROVE  Spec => []IndexComplete
<1>1. RotationInv => IndexComplete
  BY DEF RotationInv, IndexedOnce, Scanned, IndexComplete
<1>2. QED
  BY <1>1, RotationInvariant, PTL

-----------------------------------------------------------------------------
(* The index read from the cursor on is the queue of turns                 *)

Turns(s, c) == SubSeq(s, c + 1, Len(s)) \o SubSeq(s, 1, c)

LEMMA PartIs ==
  ASSUME NEW S, NEW s \in Seq(S), NEW d \in Nat, NEW n \in Nat, n <= Len(s), d <= n
  PROVE  /\ SubSeq(s, d + 1, n) \in Seq(S) /\ Len(SubSeq(s, d + 1, n)) = n - d
         /\ \A i \in 1..(n - d) : SubSeq(s, d + 1, n)[i] = s[d + i]
<1> DEFINE m == d + 1
           part == SubSeq(s, m, n)
<1>1. m \in Int /\ n \in Int /\ n - m + 1 = n - d /\ \A i \in m..n : s[i] \in S
  OBVIOUS
<1> HIDE DEF m
<1>2. /\ part \in Seq(S) /\ Len(part) = IF m <= n THEN n - m + 1 ELSE 0
      /\ \A i \in 1..(n - m + 1) : part[i] = s[m + i - 1]
  BY <1>1, SubSeqProperties
<1> HIDE DEF part
<1>3. \A i \in 1..(n - d) : part[i] = s[d + i]
  <2> TAKE i \in 1..(n - d)
  <2>1. m + i - 1 = d + i
    BY DEF m
  <2>2. QED
    BY <1>1, <1>2, <2>1
<1>4. Len(part) = n - d
  BY <1>1, <1>2 DEF m
<1>5. QED
  BY <1>2, <1>3, <1>4 DEF part, m

LEMMA PrefixIs ==
  ASSUME NEW S, NEW s \in Seq(S), NEW n \in Nat, n <= Len(s)
  PROVE  /\ SubSeq(s, 1, n) \in Seq(S) /\ Len(SubSeq(s, 1, n)) = n
         /\ \A i \in 1..n : SubSeq(s, 1, n)[i] = s[i]
<1> DEFINE d == 0
<1>1. d \in Nat /\ d <= n /\ d + 1 = 1 /\ n - d = n /\ \A i \in 1..n : d + i = i
  OBVIOUS
<1> HIDE DEF d
<1>2. /\ SubSeq(s, d + 1, n) \in Seq(S) /\ Len(SubSeq(s, d + 1, n)) = n - d
      /\ \A i \in 1..(n - d) : SubSeq(s, d + 1, n)[i] = s[d + i]
  BY <1>1, PartIs
<1>3. QED
  BY <1>1, <1>2

LEMMA TurnsAre ==
  ASSUME NEW S, NEW s \in Seq(S), NEW c \in Nat, c <= Len(s)
  PROVE  /\ Turns(s, c) \in Seq(S) /\ Len(Turns(s, c)) = Len(s)
         /\ \A k \in 1..Len(s) :
              Turns(s, c)[k] = s[IF c + k <= Len(s) THEN c + k ELSE c + k - Len(s)]
<1> DEFINE l == Len(s)
           a == SubSeq(s, c + 1, l)
           b == SubSeq(s, 1, c)
<1>1. l \in Nat /\ c <= l
  OBVIOUS
<1>2. a \in Seq(S) /\ Len(a) = l - c /\ \A i \in 1..(l - c) : a[i] = s[c + i]
  BY <1>1, PartIs
<1>3. b \in Seq(S) /\ Len(b) = c /\ \A i \in 1..c : b[i] = s[i]
  BY <1>1, PrefixIs
<1>4. Turns(s, c) = a \o b
  BY DEF Turns
<1> HIDE DEF a, b, l
<1>6. (l - c) + c = l
  BY <1>1
<1>5. /\ Turns(s, c) \in Seq(S) /\ Len(Turns(s, c)) = l
      /\ \A k \in 1..l : Turns(s, c)[k] = IF k <= l - c THEN a[k] ELSE b[k - (l - c)]
  <2>1. /\ a \o b \in Seq(S) /\ Len(a \o b) = Len(a) + Len(b)
        /\ \A k \in 1..(Len(a) + Len(b)) :
             (a \o b)[k] = IF k <= Len(a) THEN a[k] ELSE b[k - Len(a)]
    BY <1>2, <1>3, ConcatProperties
  <2>2. Len(a) = l - c /\ Len(a) + Len(b) = l
    BY <1>2, <1>3, <1>6
  <2>3. QED
    BY <1>4, <2>1, <2>2
<1>7. ASSUME NEW k \in 1..l
      PROVE  Turns(s, c)[k] = s[IF c + k <= l THEN c + k ELSE c + k - l]
  <2>1. CASE k <= l - c
    <3>1. k \in 1..(l - c) /\ c + k <= l
      BY <1>1, <2>1
    <3>2. QED
      BY <1>2, <1>5, <1>6, <2>1, <3>1
  <2>2. CASE ~(k <= l - c)
    <3>1. k - (l - c) \in 1..c /\ ~(c + k <= l) /\ k - (l - c) = c + k - l
      BY <1>1, <2>2
    <3>2. QED
      BY <1>3, <1>5, <1>6, <2>2, <3>1
  <2>3. QED
    BY <2>1, <2>2
<1>8. QED
  BY <1>5, <1>6, <1>7 DEF l

(* What is added to the index joins the queue at one point.                *)
LEMMA TurnsJoin ==
  ASSUME NEW S, NEW s \in Seq(S), NEW new \in Seq(S), NEW c \in Nat, c <= Len(s)
  PROVE  /\ Len(s) - c \in 0..Len(Turns(s, c))
         /\ Turns(s \o new, c) = SubSeq(Turns(s, c), 1, Len(s) - c) \o new
                                 \o SubSeq(Turns(s, c), Len(s) - c + 1, Len(Turns(s, c)))
<1> DEFINE l == Len(s)
           n == Len(new)
           p == l - c
           q == Turns(s, c)
           t == s \o new
           w == Turns(t, c)
           a == SubSeq(q, 1, p)
           b == SubSeq(q, p + 1, Len(q))
<1>1. l \in Nat /\ n \in Nat /\ p \in Nat /\ p <= l /\ c = l - p
  OBVIOUS
<1>2. /\ q \in Seq(S) /\ Len(q) = l
      /\ \A k \in 1..l : q[k] = s[IF c + k <= l THEN c + k ELSE c + k - l]
  BY TurnsAre
<1>3. t \in Seq(S) /\ Len(t) = l + n
      /\ \A i \in 1..(l + n) : t[i] = IF i <= l THEN s[i] ELSE new[i - l]
  BY ConcatProperties
<1>4. /\ w \in Seq(S) /\ Len(w) = l + n
      /\ \A k \in 1..(l + n) : w[k] = t[IF c + k <= l + n THEN c + k ELSE c + k - (l + n)]
  <2>1. c <= Len(t)
    BY <1>1, <1>3
  <2> HIDE DEF t, l, n
  <2>2. /\ w \in Seq(S) /\ Len(w) = Len(t)
        /\ \A k \in 1..Len(t) : w[k] = t[IF c + k <= Len(t) THEN c + k ELSE c + k - Len(t)]
    BY <1>3, <2>1, TurnsAre
  <2>3. QED
    BY <1>3, <2>2
<1> HIDE DEF q, t, w
<1>5. a \in Seq(S) /\ Len(a) = p /\ \A i \in 1..p : a[i] = q[i]
  <2> HIDE DEF p
  <2>1. QED
    BY <1>1, <1>2, PrefixIs
<1>6. b \in Seq(S) /\ Len(b) = l - p /\ \A i \in 1..(l - p) : b[i] = q[p + i]
  <2> HIDE DEF p, l
  <2>1. b = SubSeq(q, p + 1, l) /\ l <= Len(q)
    BY <1>1, <1>2
  <2> HIDE DEF b
  <2>2. /\ SubSeq(q, p + 1, l) \in Seq(S) /\ Len(SubSeq(q, p + 1, l)) = l - p
        /\ \A i \in 1..(l - p) : SubSeq(q, p + 1, l)[i] = q[p + i]
    BY <1>1, <1>2, <2>1, PartIs
  <2>3. QED
    BY <2>1, <2>2
<1> HIDE DEF a, b
<1> DEFINE an == a \o new
           r == an \o b
<1> HIDE DEF p, l, n
<1>7. an \in Seq(S) /\ Len(an) = p + n
      /\ \A i \in 1..(p + n) : an[i] = IF i <= p THEN a[i] ELSE new[i - p]
  <2>1. n = Len(new)
    BY DEF n
  <2>2. QED
    BY <1>5, <2>1, ConcatProperties
<1> HIDE DEF an
<1>8. r \in Seq(S) /\ Len(r) = p + n + (l - p)
      /\ \A i \in 1..(p + n + (l - p)) : r[i] = IF i <= p + n THEN an[i] ELSE b[i - (p + n)]
  <2>1. /\ an \o b \in Seq(S) /\ Len(an \o b) = Len(an) + Len(b)
        /\ \A i \in 1..(Len(an) + Len(b)) :
             (an \o b)[i] = IF i <= Len(an) THEN an[i] ELSE b[i - Len(an)]
    BY <1>6, <1>7, ConcatProperties
  <2>2. Len(an) = p + n /\ Len(an) + Len(b) = p + n + (l - p)
    BY <1>6, <1>7
  <2>3. QED
    BY <2>1, <2>2
<1> HIDE DEF r
<1>9. ASSUME NEW k \in 1..(l + n)
      PROVE  w[k] = r[k]
  <2>0. l + n = p + n + (l - p) /\ k \in Nat
    BY <1>1
  <2>1. CASE k <= p
    <3>1. k \in 1..p /\ k \in 1..l /\ k \in 1..(p + n) /\ k <= p + n /\ c + k <= l + n
          /\ c + k <= l /\ c + k \in 1..(l + n)
      BY <1>1, <2>1
    <3>2. w[k] = s[c + k]
      BY <1>3, <1>4, <3>1
    <3>3. r[k] = a[k]
      BY <1>7, <1>8, <2>0, <2>1, <3>1
    <3>4. a[k] = s[c + k]
      BY <1>2, <1>5, <3>1
    <3>5. QED
      BY <3>2, <3>3, <3>4
  <2>2. CASE p < k /\ k <= p + n
    <3>1. k \in 1..(p + n) /\ ~(k <= p) /\ c + k <= l + n /\ ~(c + k <= l)
          /\ c + k \in 1..(l + n) /\ c + k - l = k - p
      BY <1>1, <2>2
    <3>2. w[k] = new[k - p]
      <4>1. w[k] = t[c + k]
        BY <1>4, <3>1
      <4>2. \A x \in 1..(l + n) : ~(x <= l) => t[x] = new[x - l]
        BY <1>3
      <4>3. PICK x \in 1..(l + n) : x = c + k
        BY <3>1
      <4>4. t[x] = new[x - l]
        BY <3>1, <4>2, <4>3
      <4>5. x - l = k - p
        BY <1>1, <3>1, <4>3
      <4> HIDE DEF l, p
      <4>6. w[k] = t[x]
        BY <4>1, <4>3, Zenon
      <4>7. QED
        BY <4>4, <4>5, <4>6, Zenon
    <3>3. r[k] = new[k - p]
      <4>1. k \in 1..(p + n + (l - p))
        BY <2>0
      <4>2. r[k] = an[k]
        BY <1>8, <2>2, <4>1
      <4>3. QED
        BY <1>7, <3>1, <4>2
    <3>4. QED
      BY <3>2, <3>3
  <2>3. CASE p + n < k
    <3>1. /\ ~(k <= p + n) /\ ~(c + k <= l + n) /\ k - (p + n) \in 1..(l - p)
          /\ c + k - (l + n) \in 1..(l + n) /\ c + k - (l + n) <= l
          /\ p + (k - (p + n)) = k - n /\ k - n \in 1..l /\ ~(c + (k - n) <= l)
          /\ c + (k - n) - l = c + k - (l + n)
      BY <1>1, <2>3
    <3>2. w[k] = s[c + k - (l + n)]
      BY <1>3, <1>4, <3>1
    <3>3. r[k] = b[k - (p + n)]
      BY <1>8, <2>0, <3>1
    <3>4. b[k - (p + n)] = q[k - n]
      BY <1>6, <3>1
    <3>5. q[k - n] = s[c + k - (l + n)]
      BY <1>2, <3>1
    <3>6. QED
      BY <3>2, <3>3, <3>4, <3>5
  <2>4. QED
    BY <1>1, <2>0, <2>1, <2>2, <2>3
<1>10. w = r
  <2>1. Len(w) = Len(r) /\ \A i \in 1..Len(w) : w[i] = r[i]
    BY <1>1, <1>4, <1>8, <1>9
  <2>2. QED
    BY <1>4, <1>8, <2>1, SeqEqual
<1>11. p \in 0..Len(q)
  BY <1>1, <1>2
<1>12. QED
  BY <1>10, <1>11 DEF w, r, an, a, b, q, t, p, l

(* Moving the cursor on by a batch moves the batch behind the others.      *)
LEMMA TurnsTake ==
  ASSUME NEW S, NEW s \in Seq(S), NEW c \in Nat, c < Len(s),
         NEW n \in Nat \ {0}, n <= Len(s), NEW d,
         d = IF c + n < Len(s) THEN c + n ELSE c + n - Len(s)
  PROVE  Turns(s, d) = Turns(Turns(s, c), n)
<1> DEFINE l == Len(s)
           q == Turns(s, c)
           r == Turns(q, n)
           w == Turns(s, d)
<1>1. l \in Nat /\ c <= l /\ c < l /\ d \in Nat /\ d <= l /\ n <= l
  OBVIOUS
<1>2. d = IF c + n < l THEN c + n ELSE c + n - l
  OBVIOUS
<1>3. /\ q \in Seq(S) /\ Len(q) = l
      /\ \A k \in 1..l : q[k] = s[IF c + k <= l THEN c + k ELSE c + k - l]
  BY <1>1, TurnsAre
<1>4. /\ w \in Seq(S) /\ Len(w) = l
      /\ \A k \in 1..l : w[k] = s[IF d + k <= l THEN d + k ELSE d + k - l]
  BY <1>1, TurnsAre
<1> HIDE DEF q, w
<1>5. /\ r \in Seq(S) /\ Len(r) = l
      /\ \A k \in 1..l : r[k] = q[IF n + k <= l THEN n + k ELSE n + k - l]
  <2>1. n <= Len(q) /\ n \in Nat
    BY <1>1, <1>3
  <2>2. /\ r \in Seq(S) /\ Len(r) = Len(q)
        /\ \A k \in 1..Len(q) : r[k] = q[IF n + k <= Len(q) THEN n + k ELSE n + k - Len(q)]
    BY <1>3, <2>1, TurnsAre
  <2> HIDE DEF r
  <2>3. QED
    BY <1>3, <2>2
<1> HIDE DEF r, l
<1>6. ASSUME NEW k \in 1..l
      PROVE  w[k] = r[k]
  <2> DEFINE j == IF n + k <= l THEN n + k ELSE n + k - l
             i == IF c + j <= l THEN c + j ELSE c + j - l
             h == IF d + k <= l THEN d + k ELSE d + k - l
  <2>1. j \in 1..l
    BY <1>1
  <2>2. i = h
    BY <1>1, <1>2
  <2>3. r[k] = q[j] /\ w[k] = s[h]
    BY <1>4, <1>5
  <2> HIDE DEF h, j
  <2>4. q[j] = s[i]
    BY <1>3, <2>1
  <2>5. QED
    BY <2>2, <2>3, <2>4
<1>7. Len(w) = Len(r) /\ \A i \in 1..Len(w) : w[i] = r[i]
  BY <1>4, <1>5, <1>6
<1>8. w = r
  BY <1>4, <1>5, <1>7, SeqEqual
<1>9. QED
  BY <1>8 DEF w, r, q

-----------------------------------------------------------------------------
(* The batches are the turns of a rotating queue                           *)

LEMMA RotatedIs ==
  /\ Rotated = Turns(treasuryIndex, tenantCursor)
  /\ Rotated' = Turns(treasuryIndex', tenantCursor')
<1>1. QED
  BY DEF Rotated, Turns

(* What is new joins the queue together.                                   *)
LEMMA ScanJoins ==
  ASSUME RotationInv, NEW found, New(found), treasuryIndex' = treasuryIndex \o found,
         UNCHANGED <<tenantCursor, batch>>
  PROVE  Rotation!Join \/ UNCHANGED <<Rotated, batch>>
<1> DEFINE n == Len(found)
           q == Rotated
           p == Len(treasuryIndex) - tenantCursor
<1>1. /\ treasuryIndex \in Seq(Treasuries) /\ found \in Seq(Treasuries) /\ n \in Nat
      /\ tenantCursor \in Nat /\ tenantCursor <= Len(treasuryIndex)
      /\ DOMAIN found = 1..n
  BY DEF RotationInv, Typed, CursorInside, New
<1>2. CASE found = << >>
  <2>1. treasuryIndex' = treasuryIndex
    BY <1>1, <1>2, ConcatEmptySeq
  <2>2. QED
    BY <2>1, RotatedIs
<1>3. CASE found # << >>
  <2>1. n \in Nat \ {0}
    BY <1>1, <1>3, EmptySeq
  <2>2. n <= Cardinality(Treasuries)
    <3>1. found \in [1..n -> Treasuries]
      BY <1>1
    <3>2. found \in Injection(1..n, Treasuries)
      BY <1>1, <3>1 DEF New, Injection, IsInjective
    <3>3. Cardinality(1..n) = n
      <4> HIDE DEF n
      <4>1. IsFiniteSet(1..n) /\ Cardinality(1..n) = n
        BY <1>1, FS_Interval
      <4>2. QED
        BY <4>1
    <3> DEFINE D == 1..n
    <3>4. found \in Injection(D, Treasuries) /\ Cardinality(D) = n /\ IsFiniteSet(Treasuries)
      BY <3>2, <3>3, RotationAssumption
    <3> HIDE DEF D, n
    <3>5. Cardinality(D) <= Cardinality(Treasuries)
      BY <3>4, FS_Injection
    <3>6. QED
      BY <3>4, <3>5
  <2>3. found \in UNION {[1..k -> Treasuries] : k \in 1..Cardinality(Treasuries)}
    <3>1. Cardinality(Treasuries) \in Nat
      BY RotationAssumption, FS_CardinalityType
    <3>2. found \in [1..n -> Treasuries] /\ n \in 1..Cardinality(Treasuries)
      BY <1>1, <2>1, <2>2, <3>1
    <3> HIDE DEF n
    <3>3. QED
      BY <3>2
  <2>4. /\ p \in 0..Len(q)
        /\ Rotated' = SubSeq(q, 1, p) \o found \o SubSeq(q, p + 1, Len(q))
    BY <1>1, RotatedIs, TurnsJoin
  <2>5. \A i, j \in DOMAIN found : i # j => found[i] # found[j]
    BY DEF New
  <2>6. \A i \in DOMAIN found, j \in DOMAIN q : found[i] # q[j]
    <3> TAKE i \in DOMAIN found, j \in DOMAIN q
    <3> DEFINE l == Len(treasuryIndex)
               at == IF tenantCursor + j <= l THEN tenantCursor + j ELSE tenantCursor + j - l
    <3>1. /\ q \in Seq(Treasuries) /\ Len(q) = l
          /\ \A k \in 1..l :
               q[k] = treasuryIndex[IF tenantCursor + k <= l THEN tenantCursor + k
                                    ELSE tenantCursor + k - l]
      BY <1>1, RotatedIs, TurnsAre
    <3>2. l \in Nat /\ DOMAIN treasuryIndex = 1..l
      BY <1>1
    <3> HIDE DEF q, l
    <3>3. j \in 1..l /\ q[j] = treasuryIndex[at]
      BY <3>1
    <3>4. at \in 1..l
      BY <1>1, <3>2, <3>3 DEF l
    <3>5. q[j] \in Indexed
      BY <3>2, <3>3, <3>4 DEF Indexed
    <3>6. QED
      BY <3>5 DEF New
  <2>9. Rotation!Cardinality(Treasuries) = Cardinality(Treasuries)
    BY DEF Rotation!Cardinality, Cardinality
  <2>10. batch' = batch
    OBVIOUS
  <2> HIDE DEF q, p
  <2>7. Rotation!Join
    BY <2>3, <2>4, <2>5, <2>6, <2>9, <2>10 DEF Rotation!Join, q
  <2>8. QED
    BY <2>7
<1>4. QED
  BY <1>2, <1>3

LEMMA TakeIsTurn ==
  ASSUME RotationInv, TakeBatch
  PROVE  Rotation!Take \/ UNCHANGED <<Rotated, batch>>
<1>1. Typed /\ CursorInside /\ pc = "batch" /\ treasuryIndex' = treasuryIndex
  BY DEF RotationInv, TakeBatch
<1>2. CASE treasuryIndex = << >>
  <2>1. batch' = << >> /\ tenantCursor' = tenantCursor /\ batch = << >>
    BY <1>1, <1>2 DEF TakeBatch, RotationInv, BatchOfTurn
  <2>2. QED
    BY <1>1, <2>1, RotatedIs
<1>3. CASE treasuryIndex # << >>
  <2> DEFINE l == Len(treasuryIndex)
             n == BatchSize
             c == tenantCursor
             q == Rotated
  <2>1. batch' = [i \in 1..n |-> AtCursor(i)] /\ tenantCursor' = Advanced
    BY <1>3 DEF TakeBatch
  <2>2. /\ treasuryIndex \in Seq(Treasuries) /\ l \in Nat \ {0} /\ n \in Nat \ {0} /\ n <= l
        /\ c \in Nat /\ c < l /\ c <= l
        /\ n = IF l < MaxTenants THEN l ELSE MaxTenants
    BY <1>1, <1>3, BatchBounds DEF Typed, BatchSize
  <2>3. Advanced = IF c + n < l THEN c + n ELSE c + n - l
    BY <1>1, <1>3, AdvancedIs
  <2>4. /\ q \in Seq(Treasuries) /\ Len(q) = l
        /\ \A k \in 1..l : q[k] = treasuryIndex[IF c + k <= l THEN c + k ELSE c + k - l]
    BY <2>2, RotatedIs, TurnsAre
  <2>5. \A i \in 1..n : AtCursor(i) = treasuryIndex[IF c + i <= l THEN c + i ELSE c + i - l]
    BY <1>1, <1>3, BatchIs
  <2>6. Rotated' = Turns(q, n)
    <3>1. Rotated' = Turns(treasuryIndex, Advanced) /\ q = Turns(treasuryIndex, c)
      BY <1>1, <2>1, RotatedIs
    <3>2. Turns(treasuryIndex, Advanced) = Turns(Turns(treasuryIndex, c), n)
      <4> HIDE DEF n, c
      <4>1. QED
        BY <2>2, <2>3, TurnsTake
    <3>3. QED
      BY <3>1, <3>2
  <2> HIDE DEF l, n, c, q
  <2>7. batch' = SubSeq(q, 1, n)
    <3> DEFINE b == [i \in 1..n |-> AtCursor(i)]
               part == SubSeq(q, 1, n)
    <3>1. n \in Nat /\ n <= Len(q)
      BY <2>2, <2>4
    <3>2. /\ part \in Seq(Treasuries) /\ Len(part) = n /\ \A i \in 1..n : part[i] = q[i]
      BY <2>4, <3>1, PrefixIs
    <3> HIDE DEF part
    <3>3. \A i \in 1..n : part[i] = AtCursor(i)
      <4> TAKE i \in 1..n
      <4>1. i \in 1..l
        BY <2>2
      <4>2. q[i] = treasuryIndex[IF c + i <= l THEN c + i ELSE c + i - l]
        BY <2>4, <4>1
      <4>3. QED
        BY <2>5, <3>2, <4>2
    <3>4. \A i \in 1..n : AtCursor(i) \in Treasuries
      BY <3>2, <3>3
    <3>5. b \in [1..n -> Treasuries] /\ \A i \in 1..n : b[i] = AtCursor(i)
      BY <3>4
    <3> HIDE DEF b
    <3>6. b \in Seq(Treasuries) /\ Len(b) = n
      BY <3>1, <3>5, SeqDef
    <3>7. Len(b) = Len(part) /\ \A i \in 1..Len(b) : b[i] = part[i]
      BY <3>2, <3>3, <3>5, <3>6
    <3>8. b = part
      BY <3>2, <3>6, <3>7, SeqEqual
    <3>9. QED
      BY <2>1, <3>8 DEF b, part
  <2>8. q # << >>
    BY <2>2, <2>4, EmptySeq
  <2>9. n = IF Len(q) < MaxTenants THEN Len(q) ELSE MaxTenants
    BY <2>2, <2>4
  <2>10. Rotated' = SubSeq(q, n + 1, Len(q)) \o batch'
    BY <2>6, <2>7 DEF Turns
  <2>11. Rotation!Take
    BY <2>7, <2>8, <2>9, <2>10 DEF Rotation!Take, q
  <2>12. QED
    BY <2>11
<1>4. QED
  BY <1>2, <1>3

LEMMA EmptyTurns ==
  Turns(<< >>, 0) = << >>
<1> DEFINE zero == 0
           none == << >>
           S == {}
<1>1. none \in Seq(S) /\ Len(none) = 0 /\ zero \in Nat /\ zero <= Len(none)
  BY EmptySeq
<1> HIDE DEF zero, none, S
<1>2. Turns(none, zero) \in Seq(S) /\ Len(Turns(none, zero)) = 0
  BY <1>1, TurnsAre
<1>3. Turns(none, zero) = << >>
  BY <1>2, EmptySeq
<1>4. QED
  BY <1>3 DEF none, zero

LEMMA RotationInit ==
  Init => Rotation!RInit
<1> SUFFICES ASSUME Init
             PROVE  Rotation!RInit
  OBVIOUS
<1>1. treasuryIndex = << >> /\ tenantCursor = 0 /\ batch = << >>
  BY DEF Init
<1>2. QED
  BY <1>1, EmptyTurns, RotatedIs DEF Rotation!RInit

LEMMA RotationStep ==
  ASSUME RotationInv, [Next]_vars
  PROVE  [Rotation!Join \/ Rotation!Take \/ Rotation!Forget \/ Rotation!Restart]_<<Rotated, batch>>
<1>1. CASE Mine \/ StartCycle \/ ReadLatest \/ Observe \/ RunTenant \/ CycleFails
           \/ (\E t \in Treasuries : SetMode(t)) \/ UNCHANGED vars
  <2>1. UNCHANGED <<treasuryIndex, tenantCursor, batch>>
    BY <1>1 DEF Mine, StartCycle, ReadLatest, Observe, RunTenant, CycleFails, SetMode, vars,
                index, cycleVars
  <2>2. QED
    BY <2>1, RotatedIs
<1>2. ASSUME NEW new \in SUBSET Treasuries, CreateTreasuries(new)
      PROVE  UNCHANGED <<Rotated, batch>>
  <2>1. UNCHANGED <<treasuryIndex, tenantCursor, batch>>
    BY <1>2 DEF CreateTreasuries, index, cycleVars
  <2>2. QED
    BY <2>1, RotatedIs
<1>3. CASE ScanChunk
  <2>1. PICK view \in Views : treasuryIndex' = treasuryIndex \o Discovered(view)
    BY <1>3 DEF ScanChunk
  <2>2. UNCHANGED <<tenantCursor, batch>>
    BY <1>3 DEF ScanChunk, cycleVars
  <2>3. New(Discovered(view))
    BY DiscoveredNew DEF RotationInv
  <2>4. QED
    BY <2>1, <2>2, <2>3, ScanJoins
<1>4. CASE ScanFails
  <2>1. PICK view \in Views, n \in 0..Cardinality(Treasuries) :
          /\ n <= Len(Discovered(view))
          /\ treasuryIndex' = treasuryIndex \o SubSeq(Discovered(view), 1, n)
    BY <1>4 DEF ScanFails
  <2>2. UNCHANGED <<tenantCursor, batch>>
    BY <1>4 DEF ScanFails, cycleVars
  <2>3. New(Discovered(view))
    BY DiscoveredNew DEF RotationInv
  <2>4. n \in 0..Len(Discovered(view))
    <3>1. Len(Discovered(view)) \in Nat /\ n \in Nat
      BY <2>3, RotationAssumption, FS_CardinalityType DEF New
    <3>2. QED
      BY <2>1, <3>1
  <2>5. New(SubSeq(Discovered(view), 1, n))
    BY <2>3, <2>4, PrefixNew
  <2>6. QED
    BY <2>1, <2>2, <2>5, ScanJoins
<1>5. CASE TakeBatch
  BY <1>5, TakeIsTurn
<1>6. CASE ReadMandates
  <2>1. treasuryIndex' = treasuryIndex /\ tenantCursor' = tenantCursor /\ batch' = << >>
    BY <1>6 DEF ReadMandates, index
  <2>2. QED
    BY <2>1, RotatedIs DEF Rotation!Forget
<1>7. CASE Restart
  <2>1. treasuryIndex' = << >> /\ tenantCursor' = 0 /\ batch' = << >>
    BY <1>7 DEF Restart
  <2>2. QED
    BY <2>1, EmptyTurns, RotatedIs DEF Rotation!Restart
<1>8. QED
  BY <1>1, <1>2, <1>3, <1>4, <1>5, <1>6, <1>7 DEF Next, Loop

(* The runner's schedule implements the rotating queue: a batch is the     *)
(* front of the queue and goes behind everyone, a discovered treasury      *)
(* joins at one point and is never put in front of others twice, and only  *)
(* a restart empties it (discoverTreasuryBatch, refreshTreasuryIndex).     *)
THEOREM BatchesAreTurns ==
  Spec => ImplementsRotation
<1>1. Init => Rotation!RInit
  BY RotationInit
<1>2. RotationInv /\ [Next]_vars
      => [Rotation!Join \/ Rotation!Take \/ Rotation!Forget \/ Rotation!Restart]_<<Rotated, batch>>
  BY RotationStep
<1>3. QED
  BY <1>1, <1>2, RotationInvariant, PTL DEF Spec, ImplementsRotation, Rotation!RSpec
============================================================================
