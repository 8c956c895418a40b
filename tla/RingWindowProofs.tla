-------------------------- MODULE RingWindowProofs --------------------------
(***************************************************************************)
(* Proofs about RingWindow, for any capacity, weights, gaps and limits.    *)
(***************************************************************************)
EXTENDS RingWindow, FiniteSetTheorems, TLAPS

-----------------------------------------------------------------------------
(***************************************************************************)
(* What the element at an index of a sorted slice is, for any finite set   *)
(* and any order: the facts about sorting that the proofs of the window's  *)
(* statistics rest on.  An order is a set of pairs, so that the lemmas can *)
(* be cited for the order of weights and for that of slopes.               *)
(***************************************************************************)

\* Any two elements compare, in a way that agrees from pair to pair.
Orders(R, S) ==
    /\ \A x, y \in S : <<x, y>> \in R \/ <<y, x>> \in R
    /\ \A x, y, z \in S : <<x, y>> \in R /\ <<y, z>> \in R => <<x, z>> \in R

UpTo(R, S, x) == {y \in S : <<y, x>> \in R}
Below(R, S, x) == {y \in S : <<x, y>> \notin R}

From(R, S, x) == {y \in S : <<x, y>> \in R}

\* x may stand at index k, from 0, of S sorted by R.
StandsAt(R, S, x, k) ==
    /\ Cardinality(Below(R, S, x)) <= k
    /\ Cardinality(UpTo(R, S, x)) > k

-----------------------------------------------------------------------------
LEMMA LeastNumber ==
    ASSUME NEW T \in SUBSET Nat, T # {}
    PROVE  \E n \in T : \A m \in T : n <= m
<1>1. PICK n \in T : \A m \in T : <<m, n>> \notin OpToRel(<, Nat)
  BY NatLessThanWellFounded, WFMin
<1>2. \A m \in T : ~ m < n
  BY <1>1 DEF OpToRel
<1> QED
  BY <1>2

LEMMA Counts ==
    ASSUME NEW R, NEW S, IsFiniteSet(S), NEW x
    PROVE  /\ IsFiniteSet(UpTo(R, S, x)) /\ Cardinality(UpTo(R, S, x)) \in Nat
           /\ Cardinality(UpTo(R, S, x)) <= Cardinality(S)
           /\ IsFiniteSet(Below(R, S, x)) /\ Cardinality(Below(R, S, x)) \in Nat
           /\ Cardinality(S) \in Nat
<1>1. UpTo(R, S, x) \in SUBSET S /\ Below(R, S, x) \in SUBSET S
  BY DEF UpTo, Below
<1> QED
  BY <1>1, FS_Subset, FS_CardinalityType

\* A larger element has more elements up to it.
LEMMA UpToGrows ==
    ASSUME NEW R, NEW S, IsFiniteSet(S), Orders(R, S), NEW x \in S, NEW y \in S,
           <<y, x>> \notin R
    PROVE  Cardinality(UpTo(R, S, x)) < Cardinality(UpTo(R, S, y))
<1>1. UpTo(R, S, x) \in SUBSET UpTo(R, S, y)
  BY DEF Orders, UpTo
<1>2. y \in UpTo(R, S, y) /\ y \notin UpTo(R, S, x)
  BY DEF Orders, UpTo
<1>3. Cardinality(UpTo(R, S, x)) \in Nat /\ Cardinality(UpTo(R, S, y)) \in Nat
  BY Counts
<1>4. /\ Cardinality(UpTo(R, S, x)) <= Cardinality(UpTo(R, S, y))
      /\ Cardinality(UpTo(R, S, y)) = Cardinality(UpTo(R, S, x)) => UpTo(R, S, y) = UpTo(R, S, x)
  BY <1>1, Counts, FS_Subset
<1> QED
  BY <1>2, <1>3, <1>4

LEMMA FewestUpTo ==
    ASSUME NEW R, NEW S, IsFiniteSet(S), NEW T \in SUBSET S, T # {}
    PROVE  \E x \in T : \A y \in T : Cardinality(UpTo(R, S, x)) <= Cardinality(UpTo(R, S, y))
<1> DEFINE counts == {Cardinality(UpTo(R, S, x)) : x \in T}
<1>1. counts \in SUBSET Nat /\ counts # {}
  BY Counts
<1>2. PICK n \in counts : \A m \in counts : n <= m
  BY <1>1, LeastNumber
<1>3. PICK x \in T : n = Cardinality(UpTo(R, S, x))
  BY <1>2
<1> QED
  BY <1>2, <1>3

LEMMA LargestElement ==
    ASSUME NEW R, NEW S, IsFiniteSet(S), Orders(R, S), NEW T \in SUBSET S, T # {}
    PROVE  \E x \in T : \A y \in T : <<y, x>> \in R
<1> DEFINE rest(x) == Cardinality(S) - Cardinality(UpTo(R, S, x))
           rests == {rest(x) : x \in T}
<1>1. \A x \in T : rest(x) \in Nat /\ Cardinality(UpTo(R, S, x)) \in Nat /\ Cardinality(S) \in Nat
  BY Counts
<1>2. rests \in SUBSET Nat /\ rests # {}
  BY <1>1
<1>3. PICK n \in rests : \A m \in rests : n <= m
  BY <1>2, LeastNumber
<1>4. PICK x \in T : n = rest(x)
  BY <1>3
<1>5. ASSUME NEW y \in T, <<y, x>> \notin R PROVE FALSE
  <2>1. Cardinality(UpTo(R, S, x)) < Cardinality(UpTo(R, S, y))
    BY <1>5, UpToGrows
  <2>2. rest(x) <= rest(y)
    BY <1>3, <1>4
  <2> QED
    BY <1>1, <2>1, <2>2
<1> QED
  BY <1>5

\* Every index of a sorted set has an element.
LEMMA SomeElementStandsAt ==
    ASSUME NEW R, NEW S, IsFiniteSet(S), Orders(R, S),
           NEW k \in Nat, k < Cardinality(S)
    PROVE  \E x \in S : StandsAt(R, S, x, k)
<1> DEFINE T == {x \in S : Cardinality(UpTo(R, S, x)) > k}
<1>1. T # {}
  <2>1. S # {} /\ S \in SUBSET S
    BY FS_EmptySet
  <2>2. PICK x \in S : \A y \in S : <<y, x>> \in R
    BY <2>1, LargestElement
  <2>3. UpTo(R, S, x) = S
    BY <2>2 DEF UpTo
  <2> QED
    BY <2>3
<1>2. PICK x \in T : \A y \in T : Cardinality(UpTo(R, S, x)) <= Cardinality(UpTo(R, S, y))
  <2>1. T \in SUBSET S
    OBVIOUS
  <2> HIDE DEF T
  <2> QED
    BY <1>1, <2>1, FewestUpTo
<1>3. ASSUME Cardinality(Below(R, S, x)) > k PROVE FALSE
  <2>1. IsFiniteSet(Below(R, S, x)) /\ Cardinality(Below(R, S, x)) \in Nat
    BY Counts
  <2>2. Below(R, S, x) # {} /\ Below(R, S, x) \in SUBSET S
    BY <1>3, <2>1, FS_EmptySet DEF Below
  <2>3. PICK m \in Below(R, S, x) : \A y \in Below(R, S, x) : <<y, m>> \in R
    BY <2>2, LargestElement
  <2>4. m \in S /\ <<x, m>> \notin R
    BY <2>3 DEF Below
  <2>5. Below(R, S, x) \in SUBSET UpTo(R, S, m)
    BY <2>3 DEF Below, UpTo
  <2>6. Cardinality(Below(R, S, x)) <= Cardinality(UpTo(R, S, m)) /\ Cardinality(UpTo(R, S, m)) \in Nat
    BY <2>5, Counts, FS_Subset
  <2>7. m \in T
    BY <1>3, <2>1, <2>4, <2>6
  <2>8. Cardinality(UpTo(R, S, m)) < Cardinality(UpTo(R, S, x))
    BY <2>4, UpToGrows
  <2>9. Cardinality(UpTo(R, S, x)) \in Nat
    BY Counts
  <2> QED
    BY <1>2, <2>6, <2>7, <2>8, <2>9
<1>4. Cardinality(Below(R, S, x)) \in Nat /\ x \in S /\ Cardinality(UpTo(R, S, x)) > k
  BY Counts
<1> QED
  BY <1>3, <1>4 DEF StandsAt

-----------------------------------------------------------------------------
(* What is at an index.                                                    *)

\* The share of the elements on each side.
LEMMA SharesAtIndex ==
    ASSUME NEW R, NEW S, IsFiniteSet(S), NEW x \in S, NEW k \in Nat, StandsAt(R, S, x, k)
    PROVE  /\ IsFiniteSet(UpTo(R, S, x)) /\ Cardinality(UpTo(R, S, x)) \in Nat
           /\ Cardinality(UpTo(R, S, x)) > k
           /\ IsFiniteSet(From(R, S, x)) /\ Cardinality(From(R, S, x)) \in Nat
           /\ Cardinality(From(R, S, x)) >= Cardinality(S) - k
           /\ Cardinality(S) \in Nat
<1>1. From(R, S, x) = S \ Below(R, S, x) /\ S \cap Below(R, S, x) = Below(R, S, x)
  BY DEF From, Below
<1>2. /\ IsFiniteSet(From(R, S, x))
      /\ Cardinality(From(R, S, x)) = Cardinality(S) - Cardinality(Below(R, S, x))
  BY <1>1, FS_Difference
<1>3. Cardinality(From(R, S, x)) \in Nat
  BY <1>2, FS_CardinalityType
<1>4. /\ IsFiniteSet(UpTo(R, S, x)) /\ Cardinality(UpTo(R, S, x)) \in Nat
      /\ Cardinality(Below(R, S, x)) \in Nat /\ Cardinality(S) \in Nat
  BY Counts
<1>5. Cardinality(Below(R, S, x)) <= k /\ Cardinality(UpTo(R, S, x)) > k
  BY DEF StandsAt
<1> QED
  BY <1>2, <1>3, <1>4, <1>5

LEMMA SmallerHasFewer ==
    ASSUME NEW R, NEW S, IsFiniteSet(S), Orders(R, S),
           NEW x \in S, NEW k \in Nat, StandsAt(R, S, x, k), NEW y \in S, <<x, y>> \notin R
    PROVE  Cardinality(UpTo(R, S, y)) <= k
<1>1. UpTo(R, S, y) \in SUBSET Below(R, S, x)
  BY DEF Orders, UpTo, Below
<1>2. Cardinality(UpTo(R, S, y)) <= Cardinality(Below(R, S, x))
  BY <1>1, Counts, FS_Subset
<1>3. Cardinality(UpTo(R, S, y)) \in Nat /\ Cardinality(Below(R, S, x)) \in Nat
  BY Counts
<1> QED
  BY <1>2, <1>3 DEF StandsAt

LEMMA IndexesInOrder ==
    ASSUME NEW R, NEW S, IsFiniteSet(S), Orders(R, S),
           NEW x \in S, NEW k \in Nat, StandsAt(R, S, x, k),
           NEW y \in S, NEW l \in Nat, StandsAt(R, S, y, l), k <= l
    PROVE  <<x, y>> \in R
<1> SUFFICES ASSUME <<x, y>> \notin R PROVE FALSE
  OBVIOUS
<1>1. Cardinality(UpTo(R, S, y)) <= k /\ Cardinality(UpTo(R, S, y)) \in Nat
  BY SmallerHasFewer, Counts
<1>2. Cardinality(UpTo(R, S, y)) > l
  BY DEF StandsAt
<1> QED
  BY <1>1, <1>2

LEMMA NothingBetween ==
    ASSUME NEW R, NEW S, IsFiniteSet(S), Orders(R, S), NEW k \in Nat,
           NEW x \in S, StandsAt(R, S, x, k), NEW y \in S, StandsAt(R, S, y, k + 1),
           NEW z \in S
    PROVE  <<z, x>> \in R \/ <<y, z>> \in R
<1> SUFFICES ASSUME <<z, x>> \notin R, <<y, z>> \notin R PROVE FALSE
  OBVIOUS
<1> DEFINE A == UpTo(R, S, x)
           B == From(R, S, y)
<1>1. /\ IsFiniteSet(A) /\ Cardinality(A) \in Nat /\ Cardinality(A) > k
      /\ IsFiniteSet(B) /\ Cardinality(B) \in Nat /\ Cardinality(B) >= Cardinality(S) - (k + 1)
      /\ Cardinality(S) \in Nat
  <2>1. k + 1 \in Nat
    OBVIOUS
  <2> QED
    BY <2>1, SharesAtIndex
<1>2. <<x, z>> \in R
  BY DEF Orders
<1>3. A \cap B = {}
  BY <1>2 DEF Orders, UpTo, From
<1>4. A \cup B \in SUBSET S /\ z \notin A \cup B
  BY DEF UpTo, From
<1> HIDE DEF A, B
<1>5. IsFiniteSet(A \cup B) /\ Cardinality(A \cup B) = Cardinality(A) + Cardinality(B)
  <2>1. Cardinality(A \cap B) = 0
    BY <1>3, FS_EmptySet
  <2>2. IsFiniteSet(A \cup B)
        /\ Cardinality(A \cup B) = Cardinality(A) + Cardinality(B) - Cardinality(A \cap B)
    BY <1>1, FS_Union
  <2> QED
    BY <1>1, <2>1, <2>2
<1>6. /\ Cardinality(A \cup B) <= Cardinality(S)
      /\ Cardinality(S) = Cardinality(A \cup B) => S = A \cup B
  BY <1>4, FS_Subset
<1> QED
  BY <1>1, <1>4, <1>5, <1>6

\* Two neighbouring indexes have two elements, that may be equal in the order.
LEMMA NeighboursDiffer ==
    ASSUME NEW R, NEW S, IsFiniteSet(S), Orders(R, S), NEW k \in Nat,
           NEW x \in S, StandsAt(R, S, x, k), NEW y \in S, StandsAt(R, S, y, k + 1)
    PROVE  \E i, j \in S : /\ i # j
                           /\ <<i, x>> \in R /\ <<x, i>> \in R
                           /\ <<j, y>> \in R /\ <<y, j>> \in R
<1>1. k + 1 \in Nat /\ <<x, y>> \in R /\ <<x, x>> \in R /\ <<y, y>> \in R
  <2>1. k + 1 \in Nat /\ k <= k + 1
    OBVIOUS
  <2> QED
    BY <2>1, IndexesInOrder DEF Orders
<1>2. CASE <<y, x>> \notin R
  BY <1>1, <1>2
<1>3. CASE <<y, x>> \in R
  <2> DEFINE A == UpTo(R, S, y)
             B == From(R, S, x)
  <2>1. /\ IsFiniteSet(A) /\ Cardinality(A) \in Nat /\ Cardinality(A) > k + 1
        /\ IsFiniteSet(B) /\ Cardinality(B) \in Nat /\ Cardinality(B) >= Cardinality(S) - k
        /\ Cardinality(S) \in Nat
    BY <1>1, SharesAtIndex
  <2>2. A \cup B \in SUBSET S
    BY DEF UpTo, From
  <2>3. \A i \in A \cap B : /\ i \in S /\ <<i, x>> \in R /\ <<x, i>> \in R
                            /\ <<i, y>> \in R /\ <<y, i>> \in R
    BY <1>3 DEF Orders, UpTo, From
  <2> HIDE DEF A, B
  <2>4. Cardinality(A \cup B) <= Cardinality(S)
    BY <2>2, FS_Subset
  <2>5. /\ IsFiniteSet(A \cup B) /\ Cardinality(A \cup B) \in Nat
        /\ Cardinality(A \cup B) = Cardinality(A) + Cardinality(B) - Cardinality(A \cap B)
        /\ IsFiniteSet(A \cap B) /\ Cardinality(A \cap B) \in Nat
    BY <2>1, FS_Union, FS_Intersection, FS_CardinalityType
  <2>6. Cardinality(A \cap B) # 0 /\ Cardinality(A \cap B) # 1
    BY <2>1, <2>4, <2>5
  <2>7. A \cap B # {} /\ ~ \E i : A \cap B = {i}
    BY <2>5, <2>6, FS_EmptySet, FS_Singleton
  <2>8. PICK i \in A \cap B, j \in A \cap B : i # j
    BY <2>7
  <2> QED
    BY <2>3, <2>8
<1> QED
  BY <1>2, <1>3

C == WindowCapacity

LEMMA Capacity == C \in Nat /\ C >= 2 /\ MinSamples \in Nat /\ MinSamples > 2 /\ MinSamples <= C
BY WindowConfig, ReadingConfig DEF C

\* The index in the array of the i-th element of the window.
Index(start, i) == (start + i - 1) % C

LEMMA IndexOf ==
    ASSUME NEW start \in 0..C-1, NEW i \in 1..C
    PROVE  Index(start, i) = IF start + i - 1 < C THEN start + i - 1 ELSE start + i - 1 - C
<1> DEFINE a == start + i - 1
<1>1. C \in Nat /\ C > 0 /\ a \in 0..2*C-1
  BY Capacity
<1> HIDE DEF a
<1>2. a % C = IF a < C THEN a ELSE a - C
  BY <1>1
<1> QED
  BY <1>1, <1>2 DEF Index, a

-----------------------------------------------------------------------------
(* The ring (ring.add, ring.values).                                       *)

Reading == [weight : Weights, at : Nat]

\* The element at index start + i - 1 is the i-th of the window; start moves
\* only when the ring is full.
StandsFor(start, count, elements, w) ==
    /\ count < C => start = 0
    /\ w \in Seq(Reading) /\ Len(w) = count
    /\ \A i \in 1..count : elements[Index(start, i)] = w[i]

Elements == [0..C-1 -> Reading \cup {NoReading}]

Holds(r, w) ==
    \E start \in 0..C-1, count \in 0..C, elements \in Elements :
        /\ r = [elements |-> elements, start |-> start, count |-> count]
        /\ StandsFor(start, count, elements, w)

\* Readings come in the order of their times, the newest at last.
InOrder(w, t) ==
    /\ t \in Nat
    /\ \A i \in 1..Len(w) : w[i].at <= t
    /\ \A i, j \in 1..Len(w) : i < j => w[i].at < w[j].at

WInv == Holds(ring, window) /\ InOrder(window, last)

LEMMA WInitially == Init => WInv
<1> SUFFICES ASSUME Init PROVE WInv
  OBVIOUS
<1>1. window = <<>> /\ last = 0 /\ Len(window) = 0 /\ window \in Seq(Reading)
  BY DEF Init
<1>2. ring = [elements |-> [i \in 0..C-1 |-> NoReading], start |-> 0, count |-> 0]
  BY DEF Init, NewRing, C
<1>3. [i \in 0..C-1 |-> NoReading] \in Elements /\ 0 \in 0..C-1 /\ 0 \in 0..C
  BY Capacity DEF Elements
<1>4. Holds(ring, window)
  <2>1. StandsFor(0, 0, [i \in 0..C-1 |-> NoReading], window)
    BY <1>1 DEF StandsFor
  <2> QED
    BY <1>2, <1>3, <2>1 DEF Holds
<1>5. InOrder(window, last)
  BY <1>1 DEF InOrder
<1> QED
  BY <1>4, <1>5 DEF WInv

\* What Slide does to a window of at most C readings.
LEMMA SlideWindow ==
    ASSUME NEW w \in Seq(Reading), Len(w) <= C, NEW value \in Reading
    PROVE  /\ Slide(w, value) \in Seq(Reading)
           /\ Len(w) < C => /\ Len(Slide(w, value)) = Len(w) + 1
                            /\ \A i \in 1..Len(w) : Slide(w, value)[i] = w[i]
                            /\ Slide(w, value)[Len(w) + 1] = value
           /\ Len(w) = C => /\ Len(Slide(w, value)) = C
                            /\ \A i \in 1..C-1 : Slide(w, value)[i] = w[i+1]
                            /\ Slide(w, value)[C] = value
<1> DEFINE longer == Append(w, value)
<1>1. /\ longer \in Seq(Reading) /\ Len(longer) = Len(w) + 1 /\ Len(w) \in Nat /\ longer # <<>>
      /\ \A i \in 1..Len(w) : longer[i] = w[i]
      /\ longer[Len(w) + 1] = value
  OBVIOUS
<1>2. Slide(w, value) = IF Len(longer) > C THEN Tail(longer) ELSE longer
  BY DEF Slide, C
<1> HIDE DEF longer
<1>3. CASE Len(w) < C
  BY <1>1, <1>2, <1>3, Capacity
<1>4. CASE Len(w) = C
  <2>1. Slide(w, value) = Tail(longer)
    BY <1>1, <1>2, <1>4, Capacity
  <2>2. /\ Tail(longer) \in Seq(Reading) /\ Len(Tail(longer)) = C
        /\ \A i \in 1..C : Tail(longer)[i] = longer[i+1]
    BY <1>1, <1>4, Capacity
  <2> QED
    BY <1>1, <1>4, <2>1, <2>2, Capacity
<1> QED
  BY <1>1, <1>3, <1>4, Capacity

\* The two cases of ring.add, for the index that is written.
LEMMA AddToPartlyFilled ==
    ASSUME NEW count \in 0..C-1, NEW elements \in Elements,
           NEW w \in Seq(Reading), Len(w) = count, NEW value \in Reading,
           \A i \in 1..count : elements[i - 1] = w[i]
    PROVE  \A i \in 1..count+1 : [elements EXCEPT ![count] = value][i - 1] = Slide(w, value)[i]
<1>1. C \in Nat /\ C >= 2 /\ count \in Nat
  BY Capacity
<1>2. /\ \A i \in 1..count : Slide(w, value)[i] = w[i]
      /\ Slide(w, value)[count + 1] = value
  <2>1. Len(w) <= C /\ Len(w) < C
    BY <1>1
  <2>2. /\ \A i \in 1..Len(w) : Slide(w, value)[i] = w[i]
        /\ Slide(w, value)[Len(w) + 1] = value
    BY <2>1, SlideWindow
  <2> QED
    BY <2>2
<1> SUFFICES ASSUME NEW i \in 1..count+1
             PROVE  [elements EXCEPT ![count] = value][i - 1] = Slide(w, value)[i]
  OBVIOUS
<1>3. CASE i = count + 1
  BY <1>1, <1>2, <1>3 DEF Elements
<1>4. CASE i # count + 1
  BY <1>1, <1>2, <1>4 DEF Elements
<1> QED
  BY <1>3, <1>4

LEMMA NextStart ==
    ASSUME NEW start \in 0..C-1
    PROVE  (start + 1) % C = IF start = C - 1 THEN 0 ELSE start + 1
<1>1. C \in Nat /\ C >= 2
  BY Capacity
<1> QED
  BY <1>1

LEMMA AddToFull ==
    ASSUME NEW start \in 0..C-1, NEW elements \in Elements,
           NEW w \in Seq(Reading), Len(w) = C, NEW value \in Reading,
           \A i \in 1..C : elements[Index(start, i)] = w[i],
           NEW next, next = IF start = C - 1 THEN 0 ELSE start + 1
    PROVE  \A i \in 1..C : [elements EXCEPT ![start] = value][Index(next, i)] = Slide(w, value)[i]
<1>1. C \in Nat /\ C >= 2 /\ start \in Nat /\ next \in 0..C-1
  BY Capacity
<1>2. /\ \A i \in 1..C-1 : Slide(w, value)[i] = w[i+1]
      /\ Slide(w, value)[C] = value
  <2>1. Len(w) <= C
    BY <1>1
  <2> QED
    BY <2>1, SlideWindow
<1> SUFFICES ASSUME NEW i \in 1..C
             PROVE  [elements EXCEPT ![start] = value][Index(next, i)] = Slide(w, value)[i]
  OBVIOUS
<1>3. Index(next, i) = IF next + i - 1 < C THEN next + i - 1 ELSE next + i - 1 - C
  BY <1>1, IndexOf
<1>4. CASE i = C
  <2>1. Index(next, i) = start
    BY <1>1, <1>3, <1>4
  <2> QED
    BY <1>1, <1>2, <1>4, <2>1 DEF Elements
<1>5. CASE i # C
  <2>1. i \in 1..C-1 /\ i + 1 \in 1..C
    BY <1>1, <1>5
  <2>2. Index(start, i + 1) = IF start + (i + 1) - 1 < C THEN start + (i + 1) - 1 ELSE start + (i + 1) - 1 - C
    BY <2>1, IndexOf
  <2>3. Index(next, i) = Index(start, i + 1) /\ Index(next, i) # start /\ Index(next, i) \in 0..C-1
    BY <1>1, <1>3, <2>1, <2>2
  <2>4. elements[Index(start, i + 1)] = w[i + 1]
    BY <2>1
  <2> QED
    BY <1>1, <1>2, <2>1, <2>3, <2>4 DEF Elements
<1> QED
  BY <1>4, <1>5

LEMMA RingAddHolds ==
    ASSUME NEW r, NEW w, Holds(r, w), NEW value \in Reading
    PROVE  Holds(RingAdd(r, value), Slide(w, value))
<1>0. PICK start \in 0..C-1, count \in 0..C, elements \in Elements :
          /\ r = [elements |-> elements, start |-> start, count |-> count]
          /\ StandsFor(start, count, elements, w)
  BY DEF Holds
<1>1. /\ r = [elements |-> elements, start |-> start, count |-> count]
      /\ count < C => start = 0
      /\ w \in Seq(Reading) /\ Len(w) = count
      /\ \A i \in 1..count : elements[Index(start, i)] = w[i]
  BY <1>0 DEF StandsFor
<1>2. r.elements = elements /\ r.start = start /\ r.count = count
  BY <1>1
<1>3. C \in Nat /\ C >= 2 /\ start \in Nat /\ count \in Nat
  BY Capacity
<1>4. Slide(w, value) \in Seq(Reading)
  BY <1>1, <1>3, SlideWindow
<1>5. CASE count < C
  <2> DEFINE after == [elements EXCEPT ![count] = value]
  <2>1. start = 0 /\ (start + count) % C = count
    <3>1. count \in 0..C-1
      BY <1>3, <1>5
    <3>2. count % C = count
      BY <1>3, <3>1
    <3> QED
      BY <1>1, <1>5, <3>2
  <2>2. RingAdd(r, value) = [elements |-> after, start |-> 0, count |-> count + 1]
    BY <1>1, <1>2, <1>3, <1>5, <2>1 DEF RingAdd, C
  <2>3. after \in Elements /\ count + 1 \in 0..C /\ 0 \in 0..C-1
    BY <1>3, <1>5 DEF Elements
  <2>4. \A i \in 1..count+1 : i - 1 \in 0..C-1 /\ Index(0, i) = i - 1
    BY <1>3, <1>5, IndexOf
  <2>5. \A i \in 1..count : elements[i - 1] = w[i]
    BY <1>1, <1>3, <1>5, <2>1, <2>4
  <2>6. \A i \in 1..count+1 : after[i - 1] = Slide(w, value)[i]
    <3>1. count \in 0..C-1
      BY <1>3, <1>5
    <3>2. w \in Seq(Reading) /\ Len(w) = count
      BY <1>1
    <3> HIDE <1>0, <1>1
    <3> QED
      BY <2>5, <3>1, <3>2, AddToPartlyFilled
  <2>7. Len(Slide(w, value)) = count + 1
    BY <1>1, <1>3, <1>5, SlideWindow
  <2> HIDE DEF after
  <2>8. \A i \in 1..count+1 : after[Index(0, i)] = Slide(w, value)[i]
    BY <2>4, <2>6
  <2>9. StandsFor(0, count + 1, after, Slide(w, value))
    BY <1>4, <2>7, <2>8 DEF StandsFor
  <2> QED
    BY <2>2, <2>3, <2>9 DEF Holds
<1>6. CASE count = C
  <2> DEFINE after == [elements EXCEPT ![start] = value]
             next == (start + 1) % C
  <2>1. RingAdd(r, value) = [elements |-> after, start |-> next, count |-> C]
    BY <1>1, <1>2, <1>6 DEF RingAdd, C
  <2>2. /\ next \in 0..C-1
        /\ \A i \in 1..C : after[Index(next, i)] = Slide(w, value)[i]
    BY <1>1, <1>3, <1>6, NextStart, AddToFull
  <2>3. after \in Elements /\ C \in 0..C
    BY <1>3 DEF Elements
  <2>4. Len(Slide(w, value)) = C
    BY <1>1, <1>3, <1>6, SlideWindow
  <2> HIDE DEF after, next
  <2>5. StandsFor(next, C, after, Slide(w, value))
    BY <1>3, <1>4, <2>2, <2>4 DEF StandsFor
  <2> QED
    BY <2>1, <2>2, <2>3, <2>5 DEF Holds
<1> QED
  BY <1>3, <1>5, <1>6

\* What ring.values yields is the window.
LEMMA ValuesAreTheWindow ==
    ASSUME NEW r, NEW w, Holds(r, w)
    PROVE  RingValues(r) = w
<1>1. PICK start \in 0..C-1, count \in 0..C, elements \in Elements :
          /\ r = [elements |-> elements, start |-> start, count |-> count]
          /\ StandsFor(start, count, elements, w)
  BY DEF Holds
<1>2. r.elements = elements /\ r.start = start /\ r.count = count
  BY <1>1
<1>3. RingValues(r) = [i \in 1..count |-> elements[Index(start, i)]]
  BY <1>2 DEF RingValues, Index, C
<1>4. w \in Seq(Reading) /\ Len(w) = count /\ \A i \in 1..count : elements[Index(start, i)] = w[i]
  BY <1>1 DEF StandsFor
<1>5. w = [i \in 1..count |-> w[i]]
  BY <1>4
<1> QED
  BY <1>3, <1>4, <1>5

LEMMA SlideInOrder ==
    ASSUME NEW w \in Seq(Reading), Len(w) <= C, NEW t, InOrder(w, t),
           NEW value \in Reading, value.at > t
    PROVE  InOrder(Slide(w, value), value.at)
<1> DEFINE v == Slide(w, value)
<1>1. C \in Nat /\ C >= 2 /\ Len(w) \in Nat /\ t \in Nat /\ value.at \in Nat
  BY Capacity DEF InOrder, Reading
<1>2. \A i \in 1..Len(w) : w[i] \in Reading
  OBVIOUS
<1>3. \A i \in 1..Len(w) : w[i].at \in Nat /\ w[i].at <= t
  BY <1>2 DEF InOrder, Reading
<1>4. \A i, j \in 1..Len(w) : i < j => w[i].at < w[j].at
  BY DEF InOrder
<1>5. CASE Len(w) < C
  <2>1. /\ Len(v) = Len(w) + 1
        /\ \A i \in 1..Len(w) : v[i] = w[i]
        /\ v[Len(w) + 1] = value
    BY <1>5, SlideWindow
  <2> HIDE DEF v
  <2>2. \A i \in 1..Len(v) : v[i].at <= value.at
    <3> SUFFICES ASSUME NEW i \in 1..Len(v) PROVE v[i].at <= value.at
      OBVIOUS
    <3>1. CASE i = Len(w) + 1
      BY <1>1, <2>1, <3>1
    <3>2. CASE i # Len(w) + 1
      <4>1. i \in 1..Len(w)
        BY <1>1, <2>1, <3>2
      <4>2. v[i] = w[i] /\ w[i].at \in Nat /\ w[i].at <= t
        BY <1>3, <2>1, <4>1
      <4> QED
        BY <1>1, <4>2
    <3> QED
      BY <3>1, <3>2
  <2>3. \A i, j \in 1..Len(v) : i < j => v[i].at < v[j].at
    <3> SUFFICES ASSUME NEW i \in 1..Len(v), NEW j \in 1..Len(v), i < j
                 PROVE  v[i].at < v[j].at
      OBVIOUS
    <3>1. i \in 1..Len(w) /\ v[i] = w[i] /\ w[i].at \in Nat /\ w[i].at <= t
      BY <1>1, <1>3, <2>1
    <3>2. CASE j = Len(w) + 1
      BY <1>1, <2>1, <3>1, <3>2
    <3>3. CASE j # Len(w) + 1
      <4>1. j \in 1..Len(w)
        BY <1>1, <2>1, <3>3
      <4> QED
        BY <1>4, <2>1, <3>1, <4>1
    <3> QED
      BY <3>2, <3>3
  <2> QED
    BY <1>1, <2>2, <2>3 DEF InOrder, v
<1>6. CASE Len(w) = C
  <2>1. /\ Len(v) = C
        /\ \A i \in 1..C-1 : v[i] = w[i+1]
        /\ v[C] = value
    BY <1>6, SlideWindow
  <2> HIDE DEF v
  <2>2. \A i \in 1..C-1 : i + 1 \in 1..Len(w) /\ v[i].at = w[i+1].at /\ v[i].at \in Nat /\ v[i].at <= t
    BY <1>1, <1>3, <1>6, <2>1
  <2>3. \A i \in 1..C : i = C \/ i \in 1..C-1
    BY <1>1
  <2>4. \A i \in 1..Len(v) : v[i].at <= value.at
    BY <1>1, <2>1, <2>2, <2>3
  <2>5. \A i, j \in 1..Len(v) : i < j => v[i].at < v[j].at
    <3> SUFFICES ASSUME NEW i \in 1..C, NEW j \in 1..C, i < j
                 PROVE  v[i].at < v[j].at
      BY <2>1
    <3>1. i \in 1..C-1
      BY <1>1
    <3>2. CASE j = C
      BY <1>1, <2>1, <2>2, <3>1, <3>2
    <3>3. CASE j # C
      <4>1. j \in 1..C-1 /\ i + 1 < j + 1
        BY <1>1, <3>3
      <4>2. i + 1 \in 1..Len(w) /\ j + 1 \in 1..Len(w)
        BY <2>2, <3>1, <4>1
      <4>3. w[i+1].at < w[j+1].at
        BY <1>4, <4>1, <4>2
      <4> QED
        BY <2>2, <3>1, <4>1, <4>3
    <3> QED
      BY <3>2, <3>3
  <2> QED
    BY <1>1, <2>4, <2>5 DEF InOrder, v
<1> QED
  BY <1>1, <1>5, <1>6

LEMMA WStep == WInv /\ [Next]_vars => WInv'
<1> SUFFICES ASSUME WInv, [Next]_vars PROVE WInv'
  OBVIOUS
<1>1. CASE UNCHANGED vars
  <2>1. ring' = ring /\ window' = window /\ last' = last
    BY <1>1 DEF vars
  <2> QED
    BY <2>1 DEF WInv
<1>2. ASSUME NEW weight \in Weights, NEW gap \in Gaps, AddReading(weight, gap) PROVE WInv'
  <2> DEFINE reading == [weight |-> weight, at |-> last + gap]
  <2>1. /\ ring' = RingAdd(ring, reading) /\ window' = Slide(window, reading)
        /\ last' = last + gap
    BY <1>2 DEF AddReading
  <2>2. last \in Nat /\ gap \in Nat /\ gap > 0
    BY ReadingConfig DEF WInv, InOrder
  <2>3. reading \in Reading /\ reading.at = last' /\ reading.at > last
    BY <2>1, <2>2 DEF Reading
  <2> HIDE DEF reading
  <2>4. Holds(ring', window')
    BY <2>1, <2>3, RingAddHolds DEF WInv
  <2>5. window \in Seq(Reading) /\ Len(window) <= C
    BY Capacity DEF WInv, Holds, StandsFor
  <2>6. InOrder(window', last')
    BY <2>1, <2>3, <2>5, SlideInOrder DEF WInv
  <2> QED
    BY <2>4, <2>6 DEF WInv
<1> QED
  BY <1>1, <1>2 DEF Next

LEMMA WInvariant == Spec => []WInv
BY WInitially, WStep, PTL DEF Spec

\* Wrapping around and overwriting, the ring yields the latest readings in the
\* order they came, for every capacity (ring.add, ring.values).
THEOREM RingAlwaysHoldsWindow == Spec => []RingHoldsWindow
<1>1. WInv => RingHoldsWindow
  BY ValuesAreTheWindow DEF WInv, RingHoldsWindow
<1> QED
  BY <1>1, WInvariant, PTL

-----------------------------------------------------------------------------
(* The weights of a window (evaluate, percentileIndex).                    *)

ByWeight(w) == {q \in (DOMAIN w) \X (DOMAIN w) : w[q[1]].weight <= w[q[2]].weight}

LEMMA WeightsAreOrdered ==
    ASSUME NEW w \in Seq(Reading)
    PROVE  /\ Orders(ByWeight(w), DOMAIN w)
           /\ \A i, j \in DOMAIN w : <<i, j>> \in ByWeight(w) <=> w[i].weight <= w[j].weight
           /\ IsFiniteSet(DOMAIN w) /\ Cardinality(DOMAIN w) = Len(w) /\ Len(w) \in Nat
           /\ \A i \in DOMAIN w : w[i].weight \in Nat
<1>1. \A i \in DOMAIN w : w[i].weight \in Nat
  <2>1. \A i \in DOMAIN w : w[i] \in Reading
    OBVIOUS
  <2> QED
    BY <2>1, ReadingConfig DEF Reading
<1>2. \A i, j \in DOMAIN w : <<i, j>> \in ByWeight(w) <=> w[i].weight <= w[j].weight
  BY DEF ByWeight
<1>3. Orders(ByWeight(w), DOMAIN w)
  <2> DEFINE R == ByWeight(w)
             D == DOMAIN w
  <2>1. \A i, j \in D : <<i, j>> \in R \/ <<j, i>> \in R
    <3> SUFFICES ASSUME NEW i \in D, NEW j \in D PROVE <<i, j>> \in R \/ <<j, i>> \in R
      OBVIOUS
    <3>1. w[i].weight \in Nat /\ w[j].weight \in Nat
      BY <1>1
    <3>2. w[i].weight <= w[j].weight \/ w[j].weight <= w[i].weight
      BY <3>1
    <3> QED
      BY <1>2, <3>2
  <2>2. ASSUME NEW i \in D, NEW j \in D, NEW k \in D, <<i, j>> \in R, <<j, k>> \in R
        PROVE  <<i, k>> \in R
    <3>1. w[i].weight <= w[j].weight /\ w[j].weight <= w[k].weight
      BY <1>2, <2>2
    <3>2. w[i].weight <= w[k].weight
      BY <1>1, <3>1
    <3> QED
      BY <1>2, <3>2
  <2> HIDE DEF R, D
  <2>3. Orders(R, D)
    BY <2>1, <2>2 DEF Orders
  <2> QED
    BY <2>3 DEF R, D
<1>4. DOMAIN w = 1..Len(w) /\ Len(w) \in Nat
  OBVIOUS
<1>5. IsFiniteSet(1..Len(w)) /\ Cardinality(1..Len(w)) = Len(w)
  BY <1>4, FS_Interval
<1> QED
  BY <1>1, <1>2, <1>3, <1>4, <1>5

\* What the CHOOSE of WeightAt finds.
LEMMA WeightAtIndex ==
    ASSUME NEW w \in Seq(Reading), NEW k \in Nat, k < Len(w)
    PROVE  \E i \in DOMAIN w :
               StandsAt(ByWeight(w), DOMAIN w, i, k) /\ WeightAt(w, k) = w[i].weight
<1> DEFINE D == DOMAIN w
           Chosen(x) == /\ Cardinality({y \in D : ~ w[x].weight <= w[y].weight}) <= k
                        /\ Cardinality({y \in D : w[y].weight <= w[x].weight}) > k
<1>1. \A x \in D : /\ {y \in D : ~ w[x].weight <= w[y].weight} = Below(ByWeight(w), D, x)
                   /\ {y \in D : w[y].weight <= w[x].weight} = UpTo(ByWeight(w), D, x)
  BY WeightsAreOrdered DEF Below, UpTo
<1>2. \A x \in D : Chosen(x) <=> StandsAt(ByWeight(w), D, x, k)
  BY <1>1 DEF StandsAt
<1>3. \E x \in D : Chosen(x)
  <2>1. \E x \in D : StandsAt(ByWeight(w), D, x, k)
    BY WeightsAreOrdered, SomeElementStandsAt
  <2> QED
    BY <1>2, <2>1
<1>4. WeightAt(w, k) = w[CHOOSE x \in D : Chosen(x)].weight
  BY DEF WeightAt, SortedAt
<1> HIDE DEF Chosen
<1>5. PICK i \in D : Chosen(i) /\ i = CHOOSE x \in D : Chosen(x)
  BY <1>3
<1> QED
  BY <1>2, <1>4, <1>5

\* AtMost and AtLeast count the two sides.
LEMMA SidesOfAWeight ==
    ASSUME window \in Seq(Reading), NEW i \in DOMAIN window
    PROVE  /\ AtMost(window[i].weight) = Cardinality(UpTo(ByWeight(window), DOMAIN window, i))
           /\ AtLeast(window[i].weight) = Cardinality(From(ByWeight(window), DOMAIN window, i))
<1>1. /\ UpTo(ByWeight(window), DOMAIN window, i)
             = {j \in DOMAIN window : window[j].weight <= window[i].weight}
      /\ From(ByWeight(window), DOMAIN window, i)
             = {j \in DOMAIN window : window[j].weight >= window[i].weight}
  BY WeightsAreOrdered DEF UpTo, From
<1> QED
  BY <1>1 DEF AtMost, AtLeast

\* The two samples that MedianSplitsWindow asks for.
Splits(i, j) ==
    /\ (i = j) <=> (Len(window) % 2 = 1)
    /\ window[i].weight <= window[j].weight
    /\ 2 * AtMost(window[i].weight) >= Len(window)
    /\ 2 * AtLeast(window[j].weight) >= Len(window)
    /\ \A k \in DOMAIN window :
           window[k].weight <= window[i].weight \/ window[k].weight >= window[j].weight
    /\ Median(window) = (window[i].weight + window[j].weight) \div 2

LEMMA OddMedian ==
    ASSUME window \in Seq(Reading), NEW m \in Nat, Len(window) = 2 * m + 1
    PROVE  \E i, j \in DOMAIN window : Splits(i, j)
<1> DEFINE D == DOMAIN window
           R == ByWeight(window)
<1>1. Len(window) % 2 = 1 /\ Len(window) \div 2 = m /\ m < Len(window)
  OBVIOUS
<1>2. PICK i \in D : StandsAt(R, D, i, m) /\ WeightAt(window, m) = window[i].weight
  BY <1>1, WeightAtIndex
<1>3. Median(window) = window[i].weight
  BY <1>1, <1>2 DEF Median
<1>4. /\ IsFiniteSet(D) /\ Cardinality(D) = 2 * m + 1
      /\ \A k \in D : window[k].weight \in Nat
  BY WeightsAreOrdered
<1>5. /\ Cardinality(UpTo(R, D, i)) \in Nat /\ Cardinality(UpTo(R, D, i)) > m
      /\ Cardinality(From(R, D, i)) \in Nat /\ Cardinality(From(R, D, i)) >= (2 * m + 1) - m
  BY <1>2, <1>4, SharesAtIndex
<1>6. /\ AtMost(window[i].weight) = Cardinality(UpTo(R, D, i))
      /\ AtLeast(window[i].weight) = Cardinality(From(R, D, i))
  BY SidesOfAWeight
<1>7. 2 * AtMost(window[i].weight) >= Len(window) /\ 2 * AtLeast(window[i].weight) >= Len(window)
  BY <1>5, <1>6
<1>8. (window[i].weight + window[i].weight) \div 2 = window[i].weight
  BY <1>4
<1>9. \A k \in D : window[k].weight <= window[i].weight \/ window[k].weight >= window[i].weight
  BY <1>4
<1>10. window[i].weight <= window[i].weight
  BY <1>4
<1>11. Splits(i, i)
  BY <1>1, <1>3, <1>7, <1>8, <1>9, <1>10 DEF Splits
<1> QED
  BY <1>11

LEMMA RoundedMean ==
    ASSUME NEW a \in Nat, NEW b \in Nat, a <= b
    PROVE  a + (b - a) \div 2 = (a + b) \div 2
<1>1. PICK c \in Nat : c = b - a
  OBVIOUS
<1>2. c \div 2 \in Nat /\ (c = 2 * (c \div 2) \/ c = 2 * (c \div 2) + 1)
  BY <1>1
<1>3. a + b = c + 2 * a
  BY <1>1
<1>4. (c + 2 * a) \div 2 = (c \div 2) + a
  BY <1>2
<1> QED
  BY <1>1, <1>2, <1>3, <1>4

LEMMA EvenMedian ==
    ASSUME window \in Seq(Reading), NEW m \in Nat, m > 0, Len(window) = 2 * m
    PROVE  \E i, j \in DOMAIN window : Splits(i, j)
<1> DEFINE D == DOMAIN window
           R == ByWeight(window)
<1>1. /\ Len(window) % 2 = 0 /\ Len(window) \div 2 = m /\ m < Len(window)
      /\ m - 1 \in Nat /\ m - 1 < Len(window) /\ (m - 1) + 1 = m
  OBVIOUS
<1>2. PICK x \in D : StandsAt(R, D, x, m - 1) /\ WeightAt(window, m - 1) = window[x].weight
  BY <1>1, WeightAtIndex
<1>3. PICK y \in D : StandsAt(R, D, y, m) /\ WeightAt(window, m) = window[y].weight
  BY <1>1, WeightAtIndex
<1>4. /\ IsFiniteSet(D) /\ Cardinality(D) = 2 * m /\ Orders(R, D)
      /\ \A k \in D : window[k].weight \in Nat
      /\ \A k, l \in D : <<k, l>> \in R <=> window[k].weight <= window[l].weight
  BY WeightsAreOrdered
<1>5. Median(window) = window[x].weight + (window[y].weight - window[x].weight) \div 2
  BY <1>1, <1>2, <1>3 DEF Median
<1>6. StandsAt(R, D, y, (m - 1) + 1)
  BY <1>1, <1>3
<1>7. PICK i \in D, j \in D : /\ i # j
                              /\ <<i, x>> \in R /\ <<x, i>> \in R
                              /\ <<j, y>> \in R /\ <<y, j>> \in R
  BY <1>1, <1>2, <1>4, <1>6, NeighboursDiffer
<1>8. window[i].weight = window[x].weight /\ window[j].weight = window[y].weight
  BY <1>4, <1>7
<1>9. window[x].weight <= window[y].weight
  <2>1. m - 1 <= m
    OBVIOUS
  <2>2. <<x, y>> \in R
    BY <1>1, <1>2, <1>3, <1>4, <2>1, IndexesInOrder
  <2> QED
    BY <1>4, <2>2
<1>10. \A k \in D : window[k].weight <= window[x].weight \/ window[k].weight >= window[y].weight
  <2> SUFFICES ASSUME NEW k \in D
               PROVE  window[k].weight <= window[x].weight \/ window[k].weight >= window[y].weight
    OBVIOUS
  <2>1. <<k, x>> \in R \/ <<y, k>> \in R
    BY <1>1, <1>2, <1>4, <1>6, NothingBetween
  <2> QED
    BY <1>4, <2>1
<1>11. /\ Cardinality(UpTo(R, D, x)) \in Nat /\ Cardinality(UpTo(R, D, x)) > m - 1
       /\ Cardinality(From(R, D, y)) \in Nat /\ Cardinality(From(R, D, y)) >= 2 * m - m
  BY <1>1, <1>2, <1>3, <1>4, SharesAtIndex
<1>12. /\ AtMost(window[x].weight) = Cardinality(UpTo(R, D, x))
       /\ AtLeast(window[y].weight) = Cardinality(From(R, D, y))
  BY SidesOfAWeight
<1>13. 2 * AtMost(window[x].weight) >= Len(window) /\ 2 * AtLeast(window[y].weight) >= Len(window)
  BY <1>11, <1>12
<1>14. Median(window) = (window[x].weight + window[y].weight) \div 2
  <2>1. window[x].weight \in Nat /\ window[y].weight \in Nat
    BY <1>4
  <2> QED
    BY <1>5, <1>9, <2>1, RoundedMean
<1>15. Splits(i, j)
  BY <1>1, <1>7, <1>8, <1>9, <1>10, <1>13, <1>14 DEF Splits
<1> QED
  BY <1>15

LEMMA MedianSplits ==
    ASSUME window \in Seq(Reading), Len(window) > 0
    PROVE  \E i, j \in DOMAIN window : Splits(i, j)
<1> DEFINE m == Len(window) \div 2
<1>1. Len(window) \in Nat
  OBVIOUS
<1>2. m \in Nat /\ (Len(window) = 2 * m + 1 \/ (Len(window) = 2 * m /\ m > 0))
  BY <1>1
<1> HIDE DEF m
<1> QED
  BY <1>2, OddMedian, EvenMedian

\* A percentile is at the rank rounded up.
LEMMA PercentileAtIndex ==
    ASSUME NEW n \in Nat, n > 2, NEW percentile \in 1..99
    PROVE  LET k == PercentileIndex(n, percentile)
           IN  /\ k \in Nat /\ k < n
               /\ 100 * k >= percentile * (n - 1)
               /\ 100 * k <= percentile * (n - 1) + 99
<1> DEFINE a == percentile * (n - 1)
<1>1. a \in Nat /\ a <= 99 * (n - 1)
  OBVIOUS
<1> HIDE DEF a
<1> DEFINE k == (a + 99) \div 100
<1>2. k \in Nat /\ 100 * k >= a /\ 100 * k <= a + 99
  BY <1>1
<1>3. PercentileIndex(n, percentile) = k
  BY DEF PercentileIndex, a
<1> HIDE DEF k
<1>4. k < n
  BY <1>1, <1>2
<1> QED
  BY <1>2, <1>3, <1>4 DEF a

LEMMA RankIsPercentile ==
    ASSUME window \in Seq(Reading), Len(window) > 2, NEW percentile \in 1..99
    PROVE  IsPercentile(WeightAt(window, PercentileIndex(Len(window), percentile)), percentile)
<1> DEFINE D == DOMAIN window
           R == ByWeight(window)
           k == PercentileIndex(Len(window), percentile)
           p == percentile * (Len(window) - 1)
<1>1. Len(window) \in Nat /\ p \in Int
  OBVIOUS
<1>2. k \in Nat /\ k < Len(window) /\ 100 * k >= p /\ 100 * k <= p + 99
  BY <1>1, PercentileAtIndex
<1> HIDE DEF k, p
<1>3. PICK x \in D : StandsAt(R, D, x, k) /\ WeightAt(window, k) = window[x].weight
  BY <1>2, WeightAtIndex
<1>4. /\ IsFiniteSet(D) /\ Orders(R, D)
      /\ \A i, j \in D : <<i, j>> \in R <=> window[i].weight <= window[j].weight
      /\ \A i \in D : window[i].weight \in Nat
  BY WeightsAreOrdered
<1>5. 100 * (AtMost(window[x].weight) - 1) >= p
  <2>1. /\ Cardinality(UpTo(R, D, x)) \in Nat /\ Cardinality(UpTo(R, D, x)) > k
        /\ AtMost(window[x].weight) = Cardinality(UpTo(R, D, x))
    BY <1>2, <1>3, <1>4, SharesAtIndex, SidesOfAWeight
  <2> QED
    BY <1>1, <1>2, <2>1
<1>6. ASSUME NEW i \in D, window[i].weight < window[x].weight
      PROVE  100 * (AtMost(window[i].weight) - 1) < p
  <2>1. <<x, i>> \notin R
    BY <1>4, <1>6
  <2>2. /\ Cardinality(UpTo(R, D, i)) <= k /\ Cardinality(UpTo(R, D, i)) \in Nat
        /\ AtMost(window[i].weight) = Cardinality(UpTo(R, D, i))
    BY <1>2, <1>3, <1>4, <2>1, SmallerHasFewer, Counts, SidesOfAWeight
  <2> QED
    BY <1>1, <1>2, <2>2
<1>7. IsPercentile(window[x].weight, percentile)
  BY <1>5, <1>6 DEF IsPercentile, p
<1> QED
  BY <1>3, <1>7 DEF k

\* A larger index has no smaller weight.
LEMMA WeightsAscend ==
    ASSUME NEW w \in Seq(Reading), NEW k \in Nat, NEW l \in Nat, k <= l, l < Len(w)
    PROVE  /\ WeightAt(w, k) \in Nat /\ WeightAt(w, l) \in Nat
           /\ WeightAt(w, k) <= WeightAt(w, l)
<1>1. Len(w) \in Nat /\ k < Len(w)
  BY SMT
<1>2. PICK x \in DOMAIN w : StandsAt(ByWeight(w), DOMAIN w, x, k) /\ WeightAt(w, k) = w[x].weight
  BY <1>1, WeightAtIndex
<1>3. PICK y \in DOMAIN w : StandsAt(ByWeight(w), DOMAIN w, y, l) /\ WeightAt(w, l) = w[y].weight
  BY WeightAtIndex
<1>4. <<x, y>> \in ByWeight(w)
  BY <1>2, <1>3, WeightsAreOrdered, IndexesInOrder
<1> QED
  BY <1>2, <1>3, <1>4, WeightsAreOrdered

LEMMA MedianIsEnclosed ==
    ASSUME NEW w \in Seq(Reading), Len(w) > 2
    PROVE  P05(w) <= Median(w) /\ Median(w) <= P95(w)
<1> DEFINE n == Len(w)
           m == n \div 2
           low == PercentileIndex(n, 5)
           high == PercentileIndex(n, 95)
<1>1. n \in Nat /\ n > 2
  OBVIOUS
<1>2. /\ low \in Nat /\ 100 * low >= 5 * (n - 1) /\ 100 * low <= 5 * (n - 1) + 99
      /\ high \in Nat /\ high < n /\ 100 * high >= 95 * (n - 1)
  <2>1. 5 \in 1..99 /\ 95 \in 1..99
    OBVIOUS
  <2> QED
    BY <1>1, <2>1, PercentileAtIndex
<1>3. P05(w) = WeightAt(w, low) /\ P95(w) = WeightAt(w, high)
  BY DEF P05, P95
<1>4. Median(w) = IF n % 2 = 1 THEN WeightAt(w, m)
                  ELSE WeightAt(w, m - 1) + (WeightAt(w, m) - WeightAt(w, m - 1)) \div 2
  BY DEF Median
<1>5. m \in Nat /\ ((n % 2 = 1 /\ n = 2 * m + 1) \/ (n % 2 # 1 /\ n = 2 * m))
  BY <1>1
<1> HIDE DEF n, m, low, high
<1>6. /\ low <= m /\ m <= high /\ m > 0 /\ m < n
      /\ n = 2 * m => low <= m - 1
  BY <1>1, <1>2, <1>5
<1>7. /\ WeightAt(w, low) \in Nat /\ WeightAt(w, m) \in Nat /\ WeightAt(w, high) \in Nat
      /\ WeightAt(w, low) <= WeightAt(w, m) /\ WeightAt(w, m) <= WeightAt(w, high)
  BY <1>2, <1>5, <1>6, WeightsAscend DEF n
<1>8. CASE n % 2 = 1
  BY <1>3, <1>4, <1>7, <1>8
<1>9. CASE n % 2 # 1
  <2>1. n = 2 * m /\ m - 1 \in Nat /\ low <= m - 1 /\ m - 1 <= m
    BY <1>5, <1>6, <1>9
  <2>2. /\ WeightAt(w, m - 1) \in Nat /\ WeightAt(w, low) <= WeightAt(w, m - 1)
        /\ WeightAt(w, m - 1) <= WeightAt(w, m)
    <3>1. m - 1 < n
      BY <1>5, <1>6
    <3> QED
      BY <1>2, <1>5, <1>6, <2>1, <3>1, WeightsAscend DEF n
  <2> DEFINE a == WeightAt(w, m - 1)
             b == WeightAt(w, m)
             d == b - a
  <2>3. d \in Nat /\ d \div 2 \in Nat /\ d \div 2 <= d
    BY <1>7, <2>2
  <2>4. Median(w) = a + d \div 2
    BY <1>4, <1>9
  <2>5. a \in Nat /\ a + d = b
    BY <1>7, <2>2
  <2>6. a <= a + d \div 2 /\ a + d \div 2 <= b
    <3> HIDE DEF a, b, d
    <3> QED
      BY <2>3, <2>5
  <2>7. WeightAt(w, low) <= a /\ b <= WeightAt(w, high) /\ a \in Nat /\ b \in Nat /\ d \div 2 \in Nat
    BY <1>7, <2>2, <2>3
  <2> HIDE DEF a, b, d
  <2> QED
    BY <1>3, <1>7, <2>4, <2>6, <2>7
<1> QED
  BY <1>8, <1>9

LEMMA RanksOfTheWindow == WInv => RanksAreRight
<1> SUFFICES ASSUME WInv, Ready(window)
             PROVE  RanksAreRight
  BY DEF RanksAreRight, MedianSplitsWindow, PercentilesEncloseMedian
<1>1. window \in Seq(Reading) /\ Len(window) \in Nat
  BY DEF WInv, Holds, StandsFor
<1>2. Len(window) > 2 /\ Len(window) > 0
  BY <1>1, Capacity DEF Ready
<1>3. MedianSplitsWindow
  BY <1>1, <1>2, MedianSplits DEF MedianSplitsWindow, Splits
<1>4. PercentilesEncloseMedian
  <2>1. 5 \in 1..99 /\ 95 \in 1..99
    OBVIOUS
  <2>2. IsPercentile(P05(window), 5) /\ IsPercentile(P95(window), 95)
    BY <1>1, <1>2, <2>1, RankIsPercentile DEF P05, P95
  <2> QED
    BY <1>1, <1>2, <2>2, MedianIsEnclosed DEF PercentilesEncloseMedian
<1> QED
  BY <1>3, <1>4 DEF RanksAreRight

\* The median that a weighing stores splits the readings of the ring in halves,
\* and the percentiles of its dispersion enclose it, however many readings the
\* ring holds (evaluate, percentileIndex).
THEOREM RanksAreAlwaysRight == Spec => []RanksAreRight
BY RanksOfTheWindow, WInvariant, PTL

-----------------------------------------------------------------------------
(* The slopes of a window (theilSenSlope, absLessOrEqual).                 *)

Rational == Int \X (Nat \ {0})

LEMMA TimesKeepsOrder ==
    ASSUME NEW a \in Int, NEW b \in Int, NEW c \in Nat, a <= b
    PROVE  a * c <= b * c
OBVIOUS

LEMMA CancelFactor ==
    ASSUME NEW a \in Int, NEW b \in Int, NEW c \in Nat \ {0}, a * c <= b * c
    PROVE  a <= b
OBVIOUS

LEMMA RationalsAreOrdered ==
    ASSUME NEW a \in Rational, NEW b \in Rational, NEW c \in Rational
    PROVE  /\ RatLE(a, b) \/ RatLE(b, a)
           /\ RatLE(a, b) /\ RatLE(b, c) => RatLE(a, c)
<1>1. /\ a[1] \in Int /\ b[1] \in Int /\ c[1] \in Int
      /\ a[2] \in Nat \ {0} /\ b[2] \in Nat \ {0} /\ c[2] \in Nat \ {0}
  BY DEF Rational
<1>2. \A m, n \in Int : m * n \in Int
  OBVIOUS
<1>3. RatLE(a, b) \/ RatLE(b, a)
  BY <1>1, <1>2 DEF RatLE
<1>4. ASSUME RatLE(a, b), RatLE(b, c) PROVE RatLE(a, c)
  <2>1. a[1] * b[2] \in Int /\ b[1] * a[2] \in Int /\ b[1] * c[2] \in Int /\ c[1] * b[2] \in Int
        /\ a[1] * c[2] \in Int /\ c[1] * a[2] \in Int
    BY <1>1
  <2>2. (a[1] * b[2]) * c[2] <= (b[1] * a[2]) * c[2]
    BY <1>1, <1>4, <2>1, TimesKeepsOrder DEF RatLE
  <2>3. (b[1] * c[2]) * a[2] <= (c[1] * b[2]) * a[2]
    BY <1>1, <1>4, <2>1, TimesKeepsOrder DEF RatLE
  <2>4. /\ (a[1] * b[2]) * c[2] = (a[1] * c[2]) * b[2]
        /\ (b[1] * a[2]) * c[2] = (b[1] * c[2]) * a[2]
        /\ (c[1] * b[2]) * a[2] = (c[1] * a[2]) * b[2]
    BY <1>1
  <2>5. (a[1] * c[2]) * b[2] <= (c[1] * a[2]) * b[2]
    <3>1. (a[1] * c[2]) * b[2] \in Int /\ (b[1] * a[2]) * c[2] \in Int /\ (c[1] * a[2]) * b[2] \in Int
      BY <1>1
    <3> QED
      BY <2>2, <2>3, <2>4, <3>1
  <2>6. a[1] * c[2] <= c[1] * a[2]
    BY <1>1, <2>1, <2>5, CancelFactor
  <2> QED
    BY <2>6 DEF RatLE
<1> QED
  BY <1>3, <1>4

\* The mean of two rationals lies between them.
LEMMA MeanLiesBetween ==
    ASSUME NEW a \in Rational, NEW b \in Rational, RatLE(a, b)
    PROVE  LET s == <<a[1] * b[2] + b[1] * a[2], 2 * a[2] * b[2]>>
           IN  s \in Rational /\ RatLE(a, s) /\ RatLE(s, b)
<1> DEFINE l == a[1] * b[2]
           r == b[1] * a[2]
           d == a[2] * b[2]
           s == <<l + r, 2 * d>>
<1>1. /\ a[1] \in Int /\ b[1] \in Int
      /\ a[2] \in Nat \ {0} /\ b[2] \in Nat \ {0}
  BY DEF Rational
<1>2. l \in Int /\ r \in Int /\ d \in Nat \ {0}
  BY <1>1
<1>3. l <= r
  BY DEF RatLE
<1>4. /\ a[1] * (2 * d) = (2 * l) * a[2]
      /\ b[1] * (2 * d) = (2 * r) * b[2]
  BY <1>1
<1>5. /\ (2 * l) * a[2] <= (l + r) * a[2]
      /\ (l + r) * b[2] <= (2 * r) * b[2]
  <2> HIDE DEF l, r
  <2>1. 2 * l \in Int /\ 2 * r \in Int /\ l + r \in Int /\ 2 * l <= l + r /\ l + r <= 2 * r
    BY <1>2, <1>3
  <2> QED
    BY <1>1, <2>1, TimesKeepsOrder
<1>6. 2 * a[2] * b[2] = 2 * d /\ 2 * d \in Nat \ {0} /\ l + r \in Int
  BY <1>1, <1>2
<1>7. s \in Rational /\ s[1] = l + r /\ s[2] = 2 * d
  <2> HIDE DEF l, r, d
  <2> QED
    BY <1>6 DEF Rational
<1> HIDE DEF d, s
<1>8. RatLE(a, s) /\ RatLE(s, b)
  BY <1>4, <1>5, <1>7 DEF RatLE
<1> QED
  BY <1>6, <1>7, <1>8 DEF s

BySlope(w) ==
    {q \in PairsOf(w) \X PairsOf(w) : RatLE(SlopeOf(w, q[1]), SlopeOf(w, q[2]))}

\* A window whose times ascend: the denominators of its slopes are positive.
Timed(w) == w \in Seq(Reading) /\ \A i, j \in DOMAIN w : i < j => w[i].at < w[j].at

LEMMA SlopesAreRational ==
    ASSUME NEW w, Timed(w), NEW p \in PairsOf(w)
    PROVE  SlopeOf(w, p) \in Rational
<1>1. p[1] \in DOMAIN w /\ p[2] \in DOMAIN w /\ p[1] < p[2]
  BY DEF PairsOf
<1>2. w[p[1]] \in Reading /\ w[p[2]] \in Reading /\ w[p[1]].at < w[p[2]].at
  BY <1>1 DEF Timed
<1>3. /\ w[p[1]].weight \in Nat /\ w[p[2]].weight \in Nat
      /\ w[p[1]].at \in Nat /\ w[p[2]].at \in Nat
  BY <1>2, ReadingConfig DEF Reading
<1>4. Second \in Nat
  BY WindowConfig
<1>5. /\ (w[p[2]].weight - w[p[1]].weight) * Second \in Int
      /\ w[p[2]].at - w[p[1]].at \in Nat \ {0}
  BY <1>2, <1>3, <1>4
<1> QED
  BY <1>5 DEF SlopeOf, Rational

LEMMA SlopesAreOrdered ==
    ASSUME NEW w, Timed(w)
    PROVE  /\ Orders(BySlope(w), PairsOf(w))
           /\ \A p, q \in PairsOf(w) :
                  <<p, q>> \in BySlope(w) <=> RatLE(SlopeOf(w, p), SlopeOf(w, q))
           /\ IsFiniteSet(PairsOf(w)) /\ Cardinality(PairsOf(w)) \in Nat
           /\ Len(w) > 1 => Cardinality(PairsOf(w)) > 0
<1>1. \A p, q \in PairsOf(w) : <<p, q>> \in BySlope(w) <=> RatLE(SlopeOf(w, p), SlopeOf(w, q))
  BY DEF BySlope
<1>2. /\ \A p, q \in PairsOf(w) : <<p, q>> \in BySlope(w) \/ <<q, p>> \in BySlope(w)
      /\ \A p, q, r \in PairsOf(w) :
             <<p, q>> \in BySlope(w) /\ <<q, r>> \in BySlope(w) => <<p, r>> \in BySlope(w)
  <2>1. \A p \in PairsOf(w) : SlopeOf(w, p) \in Rational
    BY SlopesAreRational
  <2> QED
    BY <1>1, <2>1, RationalsAreOrdered
<1>3. Orders(BySlope(w), PairsOf(w))
  BY <1>2 DEF Orders
<1>4. DOMAIN w = 1..Len(w) /\ Len(w) \in Nat
  BY DEF Timed
<1>5. IsFiniteSet(DOMAIN w)
  BY <1>4, FS_Interval
<1>6. IsFiniteSet((DOMAIN w) \X (DOMAIN w)) /\ PairsOf(w) \in SUBSET ((DOMAIN w) \X (DOMAIN w))
  BY <1>5, FS_Product DEF PairsOf
<1>7. IsFiniteSet(PairsOf(w)) /\ Cardinality(PairsOf(w)) \in Nat
  BY <1>6, FS_Subset, FS_CardinalityType
<1>8. ASSUME Len(w) > 1 PROVE Cardinality(PairsOf(w)) > 0
  <2>1. <<1, 2>> \in PairsOf(w)
    BY <1>4, <1>8 DEF PairsOf
  <2>2. Cardinality(PairsOf(w)) # 0
    BY <1>7, <2>1, FS_EmptySet
  <2> QED
    BY <1>7, <2>2
<1> QED
  BY <1>1, <1>3, <1>7, <1>8

SlopeAt(w, k) == SortedAt(PairsOf(w), LAMBDA p : SlopeOf(w, p), RatLE, k)

LEMMA SlopeAtIndex ==
    ASSUME NEW w, Timed(w), NEW k \in Nat, k < Cardinality(PairsOf(w))
    PROVE  \E p \in PairsOf(w) :
               StandsAt(BySlope(w), PairsOf(w), p, k) /\ SlopeAt(w, k) = SlopeOf(w, p)
<1> DEFINE P == PairsOf(w)
           Chosen(x) == /\ Cardinality({y \in P : ~ RatLE(SlopeOf(w, x), SlopeOf(w, y))}) <= k
                        /\ Cardinality({y \in P : RatLE(SlopeOf(w, y), SlopeOf(w, x))}) > k
<1>1. \A x \in P : /\ {y \in P : ~ RatLE(SlopeOf(w, x), SlopeOf(w, y))} = Below(BySlope(w), P, x)
                   /\ {y \in P : RatLE(SlopeOf(w, y), SlopeOf(w, x))} = UpTo(BySlope(w), P, x)
  BY SlopesAreOrdered DEF Below, UpTo
<1>2. \A x \in P : Chosen(x) <=> StandsAt(BySlope(w), P, x, k)
  BY <1>1 DEF StandsAt
<1>3. \E x \in P : Chosen(x)
  <2>1. \E x \in P : StandsAt(BySlope(w), P, x, k)
    BY SlopesAreOrdered, SomeElementStandsAt
  <2> QED
    BY <1>2, <2>1
<1>4. SlopeAt(w, k) = SlopeOf(w, CHOOSE x \in P : Chosen(x))
  BY DEF SlopeAt, SortedAt
<1> HIDE DEF Chosen
<1>5. PICK p \in P : Chosen(p) /\ p = CHOOSE x \in P : Chosen(x)
  BY <1>3
<1> QED
  BY <1>2, <1>4, <1>5

\* The middle slope lies between a pair of the lower half and one of the upper.
LEMMA MiddleLiesBetween ==
    ASSUME NEW w, Timed(w), Len(w) > 1
    PROVE  /\ TheilSenSlope(w) \in Rational
           /\ \E p, q \in PairsOf(w), k, l \in Nat :
                  /\ StandsAt(BySlope(w), PairsOf(w), p, k) /\ 2 * (k + 1) >= Cardinality(PairsOf(w))
                  /\ StandsAt(BySlope(w), PairsOf(w), q, l) /\ 2 * l <= Cardinality(PairsOf(w))
                  /\ RatLE(SlopeOf(w, p), TheilSenSlope(w)) /\ RatLE(TheilSenSlope(w), SlopeOf(w, q))
<1> DEFINE n == Cardinality(PairsOf(w))
           m == n \div 2
<1>1. n \in Nat /\ n > 0
  BY SlopesAreOrdered
<1>2. TheilSenSlope(w) =
          IF n % 2 = 1 THEN SlopeAt(w, m)
          ELSE <<SlopeAt(w, m - 1)[1] * SlopeAt(w, m)[2] + SlopeAt(w, m)[1] * SlopeAt(w, m - 1)[2],
                 2 * SlopeAt(w, m - 1)[2] * SlopeAt(w, m)[2]>>
  BY DEF TheilSenSlope, MiddleSlope, SlopeAt
<1> HIDE DEF n
<1>3. m \in Nat /\ m < n /\ ((n % 2 = 1 /\ n = 2 * m + 1) \/ (n % 2 # 1 /\ n = 2 * m /\ m > 0))
  BY <1>1
<1> HIDE DEF m
<1>4. PICK q \in PairsOf(w) :
          StandsAt(BySlope(w), PairsOf(w), q, m) /\ SlopeAt(w, m) = SlopeOf(w, q)
  BY <1>3, SlopeAtIndex DEF n
<1>5. SlopeOf(w, q) \in Rational
  BY SlopesAreRational
<1>6. 2 * m <= n /\ 2 * (m + 1) >= n
  BY <1>1, <1>3
<1>7. CASE n % 2 = 1
  <2>1. TheilSenSlope(w) = SlopeOf(w, q)
    BY <1>2, <1>4, <1>7
  <2>2. RatLE(SlopeOf(w, q), SlopeOf(w, q))
    BY <1>5, RationalsAreOrdered
  <2> QED
    BY <1>3, <1>4, <1>5, <1>6, <2>1, <2>2 DEF n
<1>8. CASE n % 2 # 1
  <2>1. n = 2 * m /\ m - 1 \in Nat /\ m - 1 < n /\ m - 1 <= m /\ 2 * ((m - 1) + 1) >= n
    BY <1>3, <1>8
  <2>2. PICK p \in PairsOf(w) :
            StandsAt(BySlope(w), PairsOf(w), p, m - 1) /\ SlopeAt(w, m - 1) = SlopeOf(w, p)
    BY <2>1, SlopeAtIndex DEF n
  <2>3. SlopeOf(w, p) \in Rational
    BY SlopesAreRational
  <2>4. RatLE(SlopeOf(w, p), SlopeOf(w, q))
    <3>1. <<p, q>> \in BySlope(w)
      BY <1>3, <1>4, <2>1, <2>2, SlopesAreOrdered, IndexesInOrder
    <3> QED
      BY <3>1, SlopesAreOrdered
  <2>5. TheilSenSlope(w) =
            <<SlopeOf(w, p)[1] * SlopeOf(w, q)[2] + SlopeOf(w, q)[1] * SlopeOf(w, p)[2],
              2 * SlopeOf(w, p)[2] * SlopeOf(w, q)[2]>>
    BY <1>2, <1>4, <1>8, <2>2
  <2>6. /\ TheilSenSlope(w) \in Rational
        /\ RatLE(SlopeOf(w, p), TheilSenSlope(w)) /\ RatLE(TheilSenSlope(w), SlopeOf(w, q))
    BY <1>5, <2>3, <2>4, <2>5, MeanLiesBetween
  <2> QED
    BY <1>3, <1>4, <1>6, <2>1, <2>2, <2>6 DEF n
<1> QED
  BY <1>7, <1>8

LEMMA SlopeHalves ==
    ASSUME NEW w, Timed(w), Len(w) > 1
    PROVE  LET s == TheilSenSlope(w)
               pairs == PairsOf(w)
               least == {p \in pairs : RatLE(SlopeOf(w, p), s)}
               most == {p \in pairs : RatLE(s, SlopeOf(w, p))}
           IN  /\ s \in Rational
               /\ 2 * Cardinality(least) >= Cardinality(pairs)
               /\ 2 * Cardinality(most) >= Cardinality(pairs)
               /\ least # {} /\ most # {}
<1> DEFINE s == TheilSenSlope(w)
           P == PairsOf(w)
           R == BySlope(w)
           n == Cardinality(P)
           least == {p \in P : RatLE(SlopeOf(w, p), s)}
           most == {p \in P : RatLE(s, SlopeOf(w, p))}
<1>1. /\ IsFiniteSet(P) /\ n \in Nat /\ n > 0 /\ Orders(R, P)
      /\ \A p, q \in P : <<p, q>> \in R <=> RatLE(SlopeOf(w, p), SlopeOf(w, q))
  BY SlopesAreOrdered
<1>2. s \in Rational /\ \A p \in P : SlopeOf(w, p) \in Rational
  BY MiddleLiesBetween, SlopesAreRational
<1>3. PICK p \in P, q \in P, k \in Nat, l \in Nat :
          /\ StandsAt(R, P, p, k) /\ 2 * (k + 1) >= n
          /\ StandsAt(R, P, q, l) /\ 2 * l <= n
          /\ RatLE(SlopeOf(w, p), s) /\ RatLE(s, SlopeOf(w, q))
  BY MiddleLiesBetween
<1> HIDE DEF s
<1>4. UpTo(R, P, p) \in SUBSET least
  BY <1>1, <1>2, <1>3, RationalsAreOrdered DEF UpTo
<1>5. From(R, P, q) \in SUBSET most
  BY <1>1, <1>2, <1>3, RationalsAreOrdered DEF From
<1>6. IsFiniteSet(least) /\ IsFiniteSet(most)
  <2>1. least \in SUBSET P /\ most \in SUBSET P
    OBVIOUS
  <2> HIDE DEF least, most, P
  <2> QED
    BY <1>1, <2>1, FS_Subset
<1>7. /\ Cardinality(UpTo(R, P, p)) \in Nat /\ Cardinality(UpTo(R, P, p)) > k
      /\ Cardinality(From(R, P, q)) \in Nat /\ Cardinality(From(R, P, q)) >= n - l
  BY <1>1, <1>3, SharesAtIndex
<1> HIDE DEF least, most, P, R
<1>8. /\ Cardinality(least) \in Nat /\ Cardinality(UpTo(R, P, p)) <= Cardinality(least)
      /\ Cardinality(most) \in Nat /\ Cardinality(From(R, P, q)) <= Cardinality(most)
  BY <1>4, <1>5, <1>6, FS_Subset, FS_CardinalityType
<1> HIDE DEF n
<1>9. 2 * Cardinality(least) >= n /\ 2 * Cardinality(most) >= n
  BY <1>1, <1>3, <1>7, <1>8
<1>10. Cardinality(least) # 0 /\ Cardinality(most) # 0
  BY <1>1, <1>8, <1>9
<1>11. least # {} /\ most # {}
  BY <1>10, FS_EmptySet
<1> QED
  BY <1>2, <1>9, <1>11 DEF s, P, n, least, most

LEMMA WindowIsTimed ==
    ASSUME WInv, Ready(window)
    PROVE  Timed(window) /\ Len(window) > 1
<1>1. window \in Seq(Reading) /\ Len(window) \in Nat /\ DOMAIN window = 1..Len(window)
  BY DEF WInv, Holds, StandsFor
<1>2. Len(window) > 1
  BY <1>1, Capacity DEF Ready
<1> QED
  BY <1>1, <1>2 DEF WInv, InOrder, Timed

\* At least half of the pairwise slopes are on each side of the diagnostic
\* slope, whatever the readings: comparing by cross-multiplication orders the
\* slopes as rationals, and the mean of two lies between them (theilSenSlope).
THEOREM SlopeIsAlwaysMedian == Spec => []SlopeIsMedianOfPairs
<1>1. WInv => SlopeIsMedianOfPairs
  <2> SUFFICES ASSUME WInv, Ready(window) PROVE SlopeIsMedianOfPairs
    BY DEF SlopeIsMedianOfPairs
  <2>1. Timed(window) /\ Len(window) > 1
    BY WindowIsTimed
  <2>2. TheilSenSlope(window)[2] > 0
    <3>1. TheilSenSlope(window) \in Rational
      BY <2>1, SlopeHalves
    <3>2. TheilSenSlope(window)[2] \in Nat \ {0}
      BY <3>1 DEF Rational
    <3> QED
      BY <3>2
  <2> QED
    BY <2>1, <2>2, SlopeHalves DEF SlopeIsMedianOfPairs
<1> QED
  BY <1>1, WInvariant, PTL

LEMMA WithinLimit ==
    ASSUME NEW r \in Rational, NEW limit \in Nat, AbsAtMost(r, limit)
    PROVE  RatLE(r, <<limit, 1>>) /\ RatLE(<<-limit, 1>>, r)
<1>1. r[1] \in Int /\ r[2] \in Nat
  BY DEF Rational
<1>2. PICK b \in Int : b = r[2] * limit
  BY <1>1
<1>3. r[1] <= b /\ -r[1] <= b
  <2>1. (IF r[1] < 0 THEN -r[1] ELSE r[1]) <= b
    BY <1>2 DEF AbsAtMost
  <2> QED
    BY <1>1, <2>1
<1>4. limit * r[2] = b /\ (-limit) * r[2] = -b
  BY <1>1, <1>2
<1>5. r[1] * 1 <= limit * r[2] /\ (-limit) * r[2] <= r[1] * 1
  BY <1>1, <1>3, <1>4
<1> QED
  BY <1>5 DEF RatLE

\* A load that grows, or shrinks, faster than the limit between any two readings
\* of the ring is never called stable (the slope test of evaluate).
THEOREM RampIsNeverCalledStable == Spec => []RampIsNeverStable
<1>1. WInv => RampIsNeverStable
  <2> SUFFICES ASSUME WInv, Ready(window), Stable(window) PROVE RampIsNeverStable
    BY DEF RampIsNeverStable
  <2> DEFINE s == TheilSenSlope(window)
  <2>1. Timed(window) /\ Len(window) > 1
    BY WindowIsTimed
  <2>2. s \in Rational
    BY <2>1, SlopeHalves
  <2>3. MaxSlope \in Nat /\ AbsAtMost(s, MaxSlope)
    BY WindowConfig DEF Stable
  <2>4. RatLE(s, <<MaxSlope, 1>>) /\ RatLE(<<-MaxSlope, 1>>, s)
    BY <2>2, <2>3, WithinLimit
  <2>5. <<MaxSlope, 1>> \in Rational /\ <<-MaxSlope, 1>> \in Rational
    BY <2>3 DEF Rational
  <2>6. PICK p \in PairsOf(window) : RatLE(SlopeOf(window, p), s)
    BY <2>1, SlopeHalves
  <2>7. PICK q \in PairsOf(window) : RatLE(s, SlopeOf(window, q))
    BY <2>1, SlopeHalves
  <2>8. SlopeOf(window, p) \in Rational /\ SlopeOf(window, q) \in Rational
    BY <2>1, SlopesAreRational
  <2> HIDE DEF s
  <2>9. RatLE(SlopeOf(window, p), <<MaxSlope, 1>>) /\ RatLE(<<-MaxSlope, 1>>, SlopeOf(window, q))
    BY <2>2, <2>4, <2>5, <2>6, <2>7, <2>8, RationalsAreOrdered
  <2> QED
    BY <2>9 DEF RampIsNeverStable
<1> QED
  BY <1>1, WInvariant, PTL
=============================================================================
