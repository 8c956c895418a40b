---------------------------- MODULE ReportProofs ----------------------------
(***************************************************************************)
(* Proofs about Reports, for any table of weighings and any filter: sums   *)
(* over finite sets, the stock as the sum of what was weighed, and the     *)
(* report as a partition of both.                                          *)
(***************************************************************************)
EXTENDS FinalizationProofs, Reports, FiniteSetTheorems, WellFoundedInduction

-----------------------------------------------------------------------------
(* Sums of a column over a finite set of rows, whatever the order in which *)
(* PostgreSQL, or SumFunctionOnSet, comes to them.                         *)

Total(f, S) == SumFunctionOnSet(f, S)

Pick(s) == CHOOSE x \in s : TRUE

\* g gives the total of each subset of S.
Adds(f, S, g) ==
    g = [s \in SUBSET S |-> IF s = {} THEN 0 ELSE f[Pick(s)] + g[s \ {Pick(s)}]]

\* Every such g gives S the total v.
AddsUpTo(f, S, v) == (\E g : Adds(f, S, g)) /\ \A g : Adds(f, S, g) => g[S] = v

LEMMA LeastNumber ==
    ASSUME NEW T \in SUBSET Nat, T # {}
    PROVE  \E n \in T : \A m \in T : ~ m < n
<1>1. PICK n \in T : \A m \in T : <<m, n>> \notin OpToRel(<, Nat)
  BY NatLessThanWellFounded, WFMin
<1> QED
  BY <1>1 DEF OpToRel

\* What holds of a finite set as soon as it holds of its proper subsets.
LEMMA SubsetInduction ==
    ASSUME NEW D, IsFiniteSet(D), NEW Good \in SUBSET SUBSET D,
           \A T \in SUBSET D : (\A u \in SUBSET T : u # T => u \in Good) => T \in Good
    PROVE  D \in Good
<1> SUFFICES ASSUME D \notin Good PROVE FALSE
  OBVIOUS
<1> DEFINE Bad == {n \in Nat : \E T \in SUBSET D : T \notin Good /\ Cardinality(T) = n}
<1>1. \A T \in SUBSET D : IsFiniteSet(T) /\ Cardinality(T) \in Nat
  BY FS_Subset, FS_CardinalityType
<1>2. Bad # {} /\ Bad \in SUBSET Nat
  <2>1. D \in SUBSET D /\ Cardinality(D) \in Nat
    BY <1>1
  <2>2. Cardinality(D) \in Bad
    BY <2>1
  <2> QED
    BY <2>2
<1> HIDE DEF Bad
<1>3. PICK n \in Bad : \A m \in Bad : ~ m < n
  BY <1>2, LeastNumber
<1>4. PICK T \in SUBSET D : T \notin Good /\ Cardinality(T) = n
  BY <1>3 DEF Bad
<1>5. ASSUME NEW u \in SUBSET T, u # T PROVE u \in Good
  <2>1. u \in SUBSET D /\ Cardinality(u) \in Nat /\ Cardinality(T) \in Nat
    BY <1>1
  <2>2. Cardinality(u) <= Cardinality(T) /\ Cardinality(u) # Cardinality(T)
    BY <1>1, <1>5, FS_Subset
  <2>3. Cardinality(u) < n
    BY <1>4, <2>1, <2>2
  <2>4. Cardinality(u) \notin Bad
    BY <1>3, <2>3
  <2> QED
    BY <2>1, <2>4 DEF Bad
<1> QED
  BY <1>4, <1>5

LEMMA TotalUnfolds ==
    ASSUME NEW f, NEW S
    PROVE  Total(f, S) = (CHOOSE g : Adds(f, S, g))[S]
BY Zenon DEF Total, SumFunctionOnSet, FoldFunctionOnSet, MapThenFoldSet, Adds, Pick

LEMMA TotalOfAll ==
    ASSUME NEW f
    PROVE  SumFunction(f) = Total(f, DOMAIN f)
BY DEF SumFunction, Total

LEMMA TotalIs ==
    ASSUME NEW f, NEW S, NEW v, AddsUpTo(f, S, v)
    PROVE  Total(f, S) = v
<1>1. Adds(f, S, CHOOSE g : Adds(f, S, g))
  BY Zenon DEF AddsUpTo
<1> QED
  BY <1>1, TotalUnfolds, Zenon DEF AddsUpTo

LEMMA PickIn ==
    ASSUME NEW s, s # {}
    PROVE  Pick(s) \in s
BY DEF Pick

\* Totals of the subsets of S are totals of the subsets of a subset.
LEMMA AddsBelow ==
    ASSUME NEW f, NEW S, NEW g, Adds(f, S, g), NEW u \in SUBSET S
    PROVE  Adds(f, u, [s \in SUBSET u |-> g[s]])
<1> DEFINE h == [s \in SUBSET u |-> g[s]]
<1>1. ASSUME NEW s \in SUBSET u
      PROVE  h[s] = IF s = {} THEN 0 ELSE f[Pick(s)] + h[s \ {Pick(s)}]
  <2>1. s \in SUBSET S /\ s \ {Pick(s)} \in SUBSET u
    OBVIOUS
  <2>2. g[s] = IF s = {} THEN 0 ELSE f[Pick(s)] + g[s \ {Pick(s)}]
    BY <2>1, Zenon DEF Adds
  <2>3. h[s] = g[s] /\ h[s \ {Pick(s)}] = g[s \ {Pick(s)}]
    BY <2>1
  <2> QED
    BY <2>2, <2>3, Zenon
<1>2. h = [s \in SUBSET u |-> IF s = {} THEN 0 ELSE f[Pick(s)] + h[s \ {Pick(s)}]]
  BY <1>1, Zenon
<1> QED
  BY <1>2, Zenon DEF Adds

\* What MapThenFoldSet means for finite sets: a total is defined, and it is
\* the value of one element and the total of the others.
LEMMA TotalSplits ==
    ASSUME NEW f, NEW S, IsFiniteSet(S)
    PROVE  /\ AddsUpTo(f, S, Total(f, S))
           /\ Total(f, S) = IF S = {} THEN 0 ELSE f[Pick(S)] + Total(f, S \ {Pick(S)})
<1> DEFINE value(T) == IF T = {} THEN 0 ELSE f[Pick(T)] + Total(f, T \ {Pick(T)})
           Good == {T \in SUBSET S : AddsUpTo(f, T, value(T))}
<1>1. ASSUME NEW T \in SUBSET S, \A u \in SUBSET T : u # T => u \in Good
      PROVE  T \in Good
  <2>1. ASSUME NEW u \in SUBSET T, u # T PROVE AddsUpTo(f, u, Total(f, u)) /\ Total(f, u) = value(u)
    BY <1>1, <2>1, TotalIs, Zenon
  <2>2. ASSUME NEW s \in SUBSET T, s # {}
        PROVE  s \ {Pick(s)} \in SUBSET T /\ s \ {Pick(s)} # T
    BY <2>2, PickIn
  <2> DEFINE g == [s \in SUBSET T |-> value(s)]
  <2>3. ASSUME NEW s \in SUBSET T
        PROVE  g[s] = IF s = {} THEN 0 ELSE f[Pick(s)] + g[s \ {Pick(s)}]
    BY <2>1, <2>2, Zenon
  <2>4. g = [s \in SUBSET T |-> IF s = {} THEN 0 ELSE f[Pick(s)] + g[s \ {Pick(s)}]]
    BY <2>3, Zenon
  <2>5. Adds(f, T, g)
    BY <2>4, Zenon DEF Adds
  <2>6. ASSUME NEW h, Adds(f, T, h) PROVE h[T] = value(T)
    <3>1. h[T] = IF T = {} THEN 0 ELSE f[Pick(T)] + h[T \ {Pick(T)}]
      <4>1. T \in SUBSET T
        OBVIOUS
      <4> QED
        BY <2>6, <4>1, Zenon DEF Adds
    <3>2. ASSUME T # {} PROVE h[T \ {Pick(T)}] = Total(f, T \ {Pick(T)})
      <4> DEFINE u == T \ {Pick(T)}
      <4>1. u \in SUBSET T /\ u # T /\ u \in SUBSET u
        BY <3>2, <2>2
      <4> HIDE DEF u
      <4>2. Adds(f, u, [s \in SUBSET u |-> h[s]])
        BY <2>6, <4>1, AddsBelow
      <4>3. [s \in SUBSET u |-> h[s]][u] = Total(f, u)
        BY <2>1, <4>1, <4>2, Zenon DEF AddsUpTo
      <4>4. h[u] = Total(f, u)
        BY <4>1, <4>3, Zenon
      <4> QED
        BY <4>4 DEF u
    <3> QED
      BY <3>1, <3>2, Zenon
  <2>7. AddsUpTo(f, T, value(T))
    BY <2>5, <2>6, Zenon DEF AddsUpTo
  <2> QED
    BY <2>7
<1>2. Good \in SUBSET SUBSET S
  OBVIOUS
<1> HIDE DEF Good
<1>3. S \in Good
  BY <1>1, <1>2, SubsetInduction
<1>4. AddsUpTo(f, S, value(S))
  BY <1>3 DEF Good
<1>5. Total(f, S) = value(S)
  BY <1>4, TotalIs, Zenon
<1> QED
  BY <1>4, <1>5, Zenon

LEMMA TotalOfNone ==
    ASSUME NEW f
    PROVE  Total(f, {}) = 0
<1>1. IsFiniteSet({})
  BY FS_EmptySet
<1> QED
  BY <1>1, TotalSplits, Zenon

LEMMA TotalNat ==
    ASSUME NEW f, NEW S, IsFiniteSet(S), \A x \in S : f[x] \in Nat
    PROVE  Total(f, S) \in Nat
<1> DEFINE Good == {T \in SUBSET S : Total(f, T) \in Nat}
<1>1. ASSUME NEW T \in SUBSET S, \A u \in SUBSET T : u # T => u \in Good
      PROVE  T \in Good
  <2>1. Total(f, T) = IF T = {} THEN 0 ELSE f[Pick(T)] + Total(f, T \ {Pick(T)})
    BY FS_Subset, TotalSplits
  <2>2. CASE T = {}
    BY <2>1, <2>2
  <2>3. CASE T # {}
    <3>1. Pick(T) \in T
      BY <2>3, PickIn
    <3>2. T \ {Pick(T)} \in SUBSET T /\ T \ {Pick(T)} # T
      BY <3>1
    <3>3. Total(f, T \ {Pick(T)}) \in Nat /\ f[Pick(T)] \in Nat
      BY <1>1, <3>1, <3>2
    <3>4. Total(f, T) \in Nat
      BY <2>1, <2>3, <3>3
    <3> QED
      BY <3>4
  <2> QED
    BY <2>2, <2>3
<1>2. Good \in SUBSET SUBSET S
  OBVIOUS
<1> HIDE DEF Good
<1>3. S \in Good
  BY <1>1, <1>2, SubsetInduction
<1> QED
  BY <1>3 DEF Good

\* The total depends on the column at the rows that are summed, and on nothing else.
LEMMA TotalsAgree ==
    ASSUME NEW f, NEW g, NEW S, IsFiniteSet(S), \A x \in S : f[x] = g[x]
    PROVE  Total(f, S) = Total(g, S)
<1> DEFINE Good == {T \in SUBSET S : Total(f, T) = Total(g, T)}
<1>1. ASSUME NEW T \in SUBSET S, \A u \in SUBSET T : u # T => u \in Good
      PROVE  T \in Good
  <2>1. /\ Total(f, T) = IF T = {} THEN 0 ELSE f[Pick(T)] + Total(f, T \ {Pick(T)})
        /\ Total(g, T) = IF T = {} THEN 0 ELSE g[Pick(T)] + Total(g, T \ {Pick(T)})
    BY FS_Subset, TotalSplits
  <2>2. ASSUME T # {} PROVE f[Pick(T)] = g[Pick(T)] /\ Total(f, T \ {Pick(T)}) = Total(g, T \ {Pick(T)})
    <3>1. Pick(T) \in T
      BY <2>2, PickIn
    <3>2. T \ {Pick(T)} \in SUBSET T /\ T \ {Pick(T)} # T
      BY <3>1
    <3> QED
      BY <1>1, <3>1, <3>2
  <2>3. Total(f, T) = Total(g, T)
    BY <2>1, <2>2, Zenon
  <2> QED
    BY <2>3
<1>2. Good \in SUBSET SUBSET S
  OBVIOUS
<1> HIDE DEF Good
<1>3. S \in Good
  BY <1>1, <1>2, SubsetInduction
<1> QED
  BY <1>3 DEF Good

\* The order of the rows does not matter: any of them may come first.
LEMMA TotalTakes ==
    ASSUME NEW f, NEW S, IsFiniteSet(S), \A x \in S : f[x] \in Nat, NEW x \in S
    PROVE  Total(f, S) = f[x] + Total(f, S \ {x})
<1> DEFINE Good == {T \in SUBSET S : \A y \in T : Total(f, T) = f[y] + Total(f, T \ {y})}
<1>1. ASSUME NEW T \in SUBSET S, \A u \in SUBSET T : u # T => u \in Good
      PROVE  T \in Good
  <2> SUFFICES ASSUME NEW y \in T PROVE Total(f, T) = f[y] + Total(f, T \ {y})
    OBVIOUS
  <2> DEFINE p == Pick(T)
  <2>1. p \in T /\ IsFiniteSet(T)
    BY PickIn, FS_Subset
  <2>2. Total(f, T) = f[p] + Total(f, T \ {p})
    BY <2>1, TotalSplits
  <2> HIDE DEF p
  <2>3. CASE p = y
    BY <2>2, <2>3
  <2>4. CASE p # y
    <3>1. /\ T \ {p} \in SUBSET T /\ T \ {p} # T /\ y \in T \ {p}
          /\ T \ {y} \in SUBSET T /\ T \ {y} # T /\ p \in T \ {y}
          /\ (T \ {p}) \ {y} = (T \ {y}) \ {p}
      BY <2>1, <2>4
    <3>2. /\ Total(f, T \ {p}) = f[y] + Total(f, (T \ {y}) \ {p})
          /\ Total(f, T \ {y}) = f[p] + Total(f, (T \ {y}) \ {p})
      BY <1>1, <3>1
    <3>3. IsFiniteSet((T \ {y}) \ {p}) /\ \A z \in (T \ {y}) \ {p} : f[z] \in Nat
      BY <2>1, FS_Subset
    <3>4. f[p] \in Nat /\ f[y] \in Nat /\ Total(f, (T \ {y}) \ {p}) \in Nat
      BY <2>1, <3>3, TotalNat
    <3> QED
      BY <2>2, <3>2, <3>4
  <2> QED
    BY <2>3, <2>4
<1>2. Good \in SUBSET SUBSET S
  OBVIOUS
<1> HIDE DEF Good
<1>3. S \in Good
  BY <1>1, <1>2, SubsetInduction
<1> QED
  BY <1>3 DEF Good

LEMMA TotalAdds ==
    ASSUME NEW f, NEW S, IsFiniteSet(S), NEW x, x \notin S, \A y \in S \cup {x} : f[y] \in Nat
    PROVE  IsFiniteSet(S \cup {x}) /\ Total(f, S \cup {x}) = f[x] + Total(f, S)
<1>1. IsFiniteSet(S \cup {x})
  BY FS_AddElement
<1>2. x \in S \cup {x} /\ (S \cup {x}) \ {x} = S
  OBVIOUS
<1> DEFINE W == S \cup {x}
<1> HIDE DEF W
<1>3. IsFiniteSet(W) /\ x \in W /\ W \ {x} = S /\ \A y \in W : f[y] \in Nat
  BY <1>1, <1>2 DEF W
<1>4. Total(f, W) = f[x] + Total(f, W \ {x})
  BY <1>3, TotalTakes
<1> QED
  BY <1>1, <1>3, <1>4 DEF W

\* Rows in two groups.
LEMMA TotalOfBoth ==
    ASSUME NEW f, NEW A, IsFiniteSet(A), NEW B, IsFiniteSet(B), A \cap B = {},
           \A x \in A \cup B : f[x] \in Nat
    PROVE  /\ IsFiniteSet(A \cup B)
           /\ Total(f, A \cup B) = Total(f, A) + Total(f, B)
<1> DEFINE Good == {T \in SUBSET B : Total(f, A \cup T) = Total(f, A) + Total(f, T)}
<1>1. ASSUME NEW T \in SUBSET B, \A u \in SUBSET T : u # T => u \in Good
      PROVE  T \in Good
  <2>1. Total(f, A) \in Nat
    BY TotalNat
  <2>2. CASE T = {}
    <3>1. A \cup T = A /\ Total(f, T) = 0
      BY <2>2, TotalOfNone
    <3>2. Total(f, A \cup T) = Total(f, A) + Total(f, T)
      BY <2>1, <3>1
    <3> QED
      BY <3>2
  <2>3. ASSUME NEW y \in T PROVE T \in Good
    <3> DEFINE u == T \ {y}
    <3>1. u \in SUBSET T /\ u # T /\ u \in SUBSET B /\ y \notin A \cup u /\ y \notin u
          /\ u \cup {y} = T /\ (A \cup u) \cup {y} = A \cup T
      BY <2>3
    <3> HIDE DEF u
    <3>2. IsFiniteSet(u) /\ IsFiniteSet(A \cup u)
      BY <3>1, FS_Subset, FS_Union
    <3>3. (\A z \in u \cup {y} : f[z] \in Nat) /\ (\A z \in (A \cup u) \cup {y} : f[z] \in Nat)
      BY <3>1
    <3>4. Total(f, u \cup {y}) = f[y] + Total(f, u)
      BY <3>1, <3>2, <3>3, TotalAdds
    <3>5. Total(f, (A \cup u) \cup {y}) = f[y] + Total(f, A \cup u)
      BY <3>1, <3>2, <3>3, TotalAdds
    <3>6. Total(f, A \cup u) = Total(f, A) + Total(f, u)
      BY <1>1, <3>1
    <3>7. Total(f, u) \in Nat /\ f[y] \in Nat
      BY <3>2, <3>3, TotalNat
    <3>8. /\ Total(f, T) = f[y] + Total(f, u)
          /\ Total(f, A \cup T) = f[y] + (Total(f, A) + Total(f, u))
      BY <3>1, <3>4, <3>5, <3>6, Zenon
    <3> DEFINE a == Total(f, A)  b == Total(f, u)  c == f[y]
    <3>9. a \in Nat /\ b \in Nat /\ c \in Nat
      BY <2>1, <3>7
    <3> HIDE DEF a, b, c
    <3>10. c + (a + b) = a + (c + b)
      BY <3>9
    <3>11. Total(f, A \cup T) = Total(f, A) + Total(f, T)
      BY <3>8, <3>10, Zenon DEF a, b, c
    <3> QED
      BY <3>11
  <2> QED
    BY <2>2, <2>3
<1>2. Good \in SUBSET SUBSET B
  OBVIOUS
<1> HIDE DEF Good
<1>3. B \in Good
  BY <1>1, <1>2, SubsetInduction
<1> QED
  BY <1>3, FS_Union DEF Good

\* GROUP BY loses no row and counts none twice: the groups' totals add up to
\* the total, whatever the number of groups.
LEMMA TotalOfGroups ==
    ASSUME NEW f, NEW S, IsFiniteSet(S), \A x \in S : f[x] \in Nat,
           NEW K, IsFiniteSet(K), NEW group, \A x \in S : group[x] \in K,
           NEW totals, \A k \in K : totals[k] = Total(f, {x \in S : group[x] = k})
    PROVE  Total(totals, K) = Total(f, S)
<1> DEFINE Of(L) == {x \in S : group[x] \in L}
           Good == {L \in SUBSET K : Total(totals, L) = Total(f, Of(L))}
<1>1. ASSUME NEW L \in SUBSET K, \A u \in SUBSET L : u # L => u \in Good
      PROVE  L \in Good
  <2>1. CASE L = {}
    <3>1. Of(L) = {}
      BY <2>1
    <3>2. Total(totals, L) = Total(f, Of(L))
      BY <2>1, <3>1, TotalOfNone
    <3> QED
      BY <3>2
  <2>2. ASSUME NEW k \in L PROVE L \in Good
    <3> DEFINE u == L \ {k}
               One == {x \in S : group[x] = k}
    <3>1. u \in SUBSET L /\ u # L /\ k \notin u /\ u \cup {k} = L /\ k \in K
          /\ u \in SUBSET K
      BY <2>2
    <3>2. Of(u) \cap One = {} /\ Of(L) = Of(u) \cup One
      BY <3>1
    <3>3. IsFiniteSet(u) /\ IsFiniteSet(Of(u)) /\ IsFiniteSet(One)
      <4>1. Of(u) \in SUBSET S /\ One \in SUBSET S
        OBVIOUS
      <4> HIDE DEF Of, One, u
      <4> QED
        BY <3>1, <4>1, FS_Subset
    <3>4. \A x \in Of(u) \cup One : f[x] \in Nat
      OBVIOUS
    <3>5. Total(totals, u) = Total(f, Of(u)) /\ totals[k] = Total(f, One)
      BY <1>1, <3>1
    <3>6. \A j \in K : totals[j] \in Nat
      <4> SUFFICES ASSUME NEW j \in K PROVE totals[j] \in Nat
        OBVIOUS
      <4>1. {x \in S : group[x] = j} \in SUBSET S
        OBVIOUS
      <4>2. Total(f, {x \in S : group[x] = j}) \in Nat
        BY <4>1, FS_Subset, TotalNat
      <4> QED
        BY <4>2
    <3> HIDE DEF Of, One, u
    <3>7. Total(f, Of(u) \cup One) = Total(f, Of(u)) + Total(f, One)
      BY <3>2, <3>3, <3>4, TotalOfBoth
    <3>8. Total(totals, u \cup {k}) = totals[k] + Total(totals, u)
      BY <3>1, <3>3, <3>6, TotalAdds
    <3>9. Total(totals, u) \in Nat /\ totals[k] \in Nat
      BY <3>1, <3>3, <3>6, TotalNat
    <3>10. Total(totals, L) = Total(f, Of(L))
      BY <3>1, <3>2, <3>5, <3>7, <3>8, <3>9
    <3> QED
      BY <3>10
  <2> QED
    BY <2>1, <2>2
<1>2. Good \in SUBSET SUBSET K /\ Of(K) = S
  OBVIOUS
<1> HIDE DEF Good, Of
<1>3. K \in Good
  BY <1>1, <1>2, SubsetInduction
<1> QED
  BY <1>2, <1>3 DEF Good

LEMMA TotalOfNothing ==
    ASSUME NEW f, NEW S, IsFiniteSet(S), \A x \in S : f[x] = 0
    PROVE  Total(f, S) = 0
<1> DEFINE Good == {T \in SUBSET S : Total(f, T) = 0}
<1>1. ASSUME NEW T \in SUBSET S, \A u \in SUBSET T : u # T => u \in Good
      PROVE  T \in Good
  <2>1. CASE T = {}
    BY <2>1, TotalOfNone
  <2>2. ASSUME NEW y \in T PROVE T \in Good
    <3>1. T \ {y} \in SUBSET T /\ T \ {y} # T
      BY <2>2
    <3>2. Total(f, T \ {y}) = 0 /\ f[y] = 0
      BY <1>1, <3>1
    <3>3. IsFiniteSet(T) /\ \A x \in T : f[x] \in Nat
      BY FS_Subset
    <3>4. Total(f, T) = f[y] + Total(f, T \ {y})
      BY <3>3, TotalTakes
    <3>5. Total(f, T) = 0
      BY <3>2, <3>4
    <3> QED
      BY <3>5
  <2> QED
    BY <2>1, <2>2
<1>2. Good \in SUBSET SUBSET S
  OBVIOUS
<1> HIDE DEF Good
<1>3. S \in Good
  BY <1>1, <1>2, SubsetInduction
<1> QED
  BY <1>3 DEF Good

\* COUNT(*) is a sum of ones.
LEMMA TotalCounts ==
    ASSUME NEW f, NEW S, IsFiniteSet(S), \A x \in S : f[x] = 1
    PROVE  Total(f, S) = Cardinality(S)
<1> DEFINE Good == {T \in SUBSET S : Total(f, T) = Cardinality(T)}
<1>1. ASSUME NEW T \in SUBSET S, \A u \in SUBSET T : u # T => u \in Good
      PROVE  T \in Good
  <2>1. CASE T = {}
    BY <2>1, TotalOfNone, FS_EmptySet
  <2>2. ASSUME NEW y \in T PROVE T \in Good
    <3>1. T \ {y} \in SUBSET T /\ T \ {y} # T
      BY <2>2
    <3>2. Total(f, T \ {y}) = Cardinality(T \ {y}) /\ f[y] = 1
      BY <1>1, <3>1
    <3>3. IsFiniteSet(T) /\ (\A x \in T : f[x] \in Nat) /\ IsFiniteSet(T \ {y})
      BY FS_Subset
    <3>4. Total(f, T) = f[y] + Total(f, T \ {y})
      BY <3>3, TotalTakes
    <3>5. Cardinality(T \ {y}) = Cardinality(T) - 1 /\ Cardinality(T) \in Nat
      BY <3>3, FS_RemoveElement, FS_CardinalityType
    <3>6. Total(f, T) = Cardinality(T)
      BY <3>2, <3>4, <3>5
    <3> QED
      BY <3>6
  <2> QED
    BY <2>1, <2>2
<1>2. Good \in SUBSET SUBSET S
  OBVIOUS
<1> HIDE DEF Good
<1>3. S \in Good
  BY <1>1, <1>2, SubsetInduction
<1> QED
  BY <1>3 DEF Good

-----------------------------------------------------------------------------
(* The stock.                                                              *)

NetOf == [w \in Row |-> w.net]
CostOf == [w \in Row |-> w.cost]
MarginOf == [w \in Row |-> w.margin]
PriceAt == [w \in Row |-> PriceOf[w.transport]]
Once == [w \in Row |-> 1]
GroupOf == [w \in Row |-> BinOf(w.transport)]

Loads(b) == {w \in weighings : BinOf(w.transport) = b}

\* Each inventory row holds the net weights of its loads, no less and no more.
StockIsWeighed ==
    /\ IsFiniteSet(weighings)
    /\ \A b \in Bins : inventory[b] = Total(NetOf, Loads(b))

LEMMA ColumnsAreNat ==
    ASSUME NEW w \in Row
    PROVE  /\ w.net \in Nat /\ w.cost \in Nat /\ w.margin \in Nat /\ PriceOf[w.transport] \in Nat
           /\ w.transport \in Transports /\ w.session \in Sessions /\ BinOf(w.transport) \in Bins
<1>1. w.transport \in Transports /\ w.net \in Nat /\ w.cost \in Nat /\ w.session \in Sessions
  BY BigintRange DEF Row
<1>2. w.margin \in Nat
  BY DEF Row, MarginRates
<1>3. PriceOf[w.transport] \in Nat /\ BranchOf[w.transport] \in Branches /\ GrainOf[w.transport] \in Grains
  BY <1>1, ColumnTypes
<1> QED
  BY <1>1, <1>2, <1>3 DEF BinOf, Bins, Book!BinOf, Book!Bins

LEMMA StockGrows ==
    ASSUME IInv, StockIsWeighed, NEW r \in Row, Book!Record(r), r \notin weighings
    PROVE  StockIsWeighed'
<1>1. /\ inventory' = [inventory EXCEPT ![BinOf(r.transport)] = @ + r.net]
      /\ weighings' = weighings \cup {r} /\ weighings \subseteq Row /\ inventory \in [Bins -> Nat]
  BY BigintRange DEF Book!Record, BinOf, IInv, TypeOK
<1>2. IsFiniteSet(weighings')
  BY <1>1, FS_AddElement DEF StockIsWeighed
<1>3. ASSUME NEW b \in Bins PROVE inventory'[b] = Total(NetOf, Loads(b)')
  <2>1. /\ IsFiniteSet(Loads(b)) /\ Loads(b) \subseteq Row /\ r \notin Loads(b)
        /\ inventory[b] = Total(NetOf, Loads(b))
    BY <1>1, FS_Subset DEF StockIsWeighed, Loads
  <2>2. \A w \in Loads(b) \cup {r} : NetOf[w] \in Nat
    BY <2>1, ColumnsAreNat DEF NetOf
  <2>3. CASE BinOf(r.transport) = b
    <3>1. Loads(b)' = Loads(b) \cup {r}
      BY <1>1, <2>3 DEF Loads, BinOf, Book!BinOf
    <3>2. inventory'[b] = inventory[b] + r.net /\ inventory[b] \in Nat /\ r.net \in Nat
      BY <1>1, <2>3, ColumnsAreNat
    <3>3. Total(NetOf, Loads(b) \cup {r}) = NetOf[r] + Total(NetOf, Loads(b))
      BY <2>1, <2>2, TotalAdds
    <3>4. NetOf[r] = r.net
      BY DEF NetOf
    <3>5. Total(NetOf, Loads(b) \cup {r}) = r.net + inventory[b]
      BY <2>1, <3>3, <3>4
    <3> QED
      BY <3>1, <3>2, <3>5
  <2>4. CASE BinOf(r.transport) # b
    <3>1. Loads(b)' = Loads(b)
      BY <1>1, <2>4 DEF Loads, BinOf, Book!BinOf
    <3>2. inventory'[b] = inventory[b]
      BY <1>1, <2>4
    <3> QED
      BY <2>1, <3>1, <3>2
  <2> QED
    BY <2>3, <2>4
<1> QED
  BY <1>2, <1>3 DEF StockIsWeighed, Bins, Book!Bins, Total, NetOf, Row

LEMMA StockStep ==
    ASSUME IInv, StockIsWeighed, [Next]_vars
    PROVE  StockIsWeighed'
<1>1. CASE UNCHANGED <<inventory, weighings>>
  BY <1>1 DEF StockIsWeighed, Loads, Bins, Book!Bins, BinOf, Book!BinOf, Total, NetOf, Row
<1>2. CASE \E t \in Transports : Book!Open(t) \/ Book!Cancel(t)
  BY <1>1, <1>2 DEF Book!Open, Book!Cancel
<1>3. ASSUME NEW c \in Callers, pc[c] = "commit", Publish(c)
      PROVE  StockIsWeighed'
  <2>1. Book!Record(RowOf(c)) /\ RowOf(c) \notin weighings
    BY <1>3, PublishRecords
  <2>2. RowOf(c) \in Row
    BY <1>3, RowIsTyped DEF IInv, Locking
  <2> QED
    BY <2>1, <2>2, StockGrows
<1> QED
  BY <1>1, <1>2, <1>3, TableSteps

\* At every moment each inventory row is the sum of the net weights of its
\* committed weighings, whatever calls are under way.
THEOREM StockIsSumOfLoads == Spec => []StockIsWeighed
<1>1. Init => StockIsWeighed
  <2> SUFFICES ASSUME Init PROVE StockIsWeighed
    OBVIOUS
  <2>1. weighings = {} /\ inventory = [b \in Bins |-> 0]
    BY DEF Init, Book!Init, Bins
  <2>2. \A b \in Bins : Loads(b) = {}
    BY <2>1 DEF Loads
  <2> QED
    BY <2>1, <2>2, FS_EmptySet, TotalOfNone DEF StockIsWeighed
<1>2. IInv /\ StockIsWeighed /\ [Next]_vars => StockIsWeighed'
  BY StockStep
<1> QED
  BY <1>1, <1>2, InductiveInvariant, PTL DEF Spec

-----------------------------------------------------------------------------
(* One report.                                                             *)

Rows(f, b) == {w \in Selected(f) : BinOf(w.transport) = b}

Groups(f) == {BinOf(w.transport) : w \in Selected(f)}

\* A table of weighings that a report can be made of.
Table == weighings \subseteq Row /\ IsFiniteSet(weighings)

LEMMA SelectedRows ==
    ASSUME Table, NEW f
    PROVE  /\ Selected(f) \subseteq weighings /\ Selected(f) \subseteq Row
           /\ IsFiniteSet(Selected(f))
           /\ \A b : Rows(f, b) \subseteq Selected(f) /\ Rows(f, b) \subseteq Row
                     /\ IsFiniteSet(Rows(f, b))
           /\ Groups(f) \subseteq Bins /\ IsFiniteSet(Groups(f))
<1>1. Selected(f) \subseteq weighings /\ Selected(f) \subseteq Row
  BY DEF Selected, Table
<1>2. IsFiniteSet(Selected(f))
  BY <1>1, FS_Subset DEF Table
<1>3. \A b : Rows(f, b) \subseteq Selected(f)
  BY DEF Rows
<1>4. \A b : IsFiniteSet(Rows(f, b))
  BY <1>2, <1>3, FS_Subset
<1>5. Groups(f) \subseteq Bins
  BY <1>1, ColumnsAreNat DEF Groups
<1>6. IsFiniteSet(Bins)
  BY ReportConfig, FS_Product DEF Bins, Book!Bins
<1>7. IsFiniteSet(Groups(f))
  BY <1>5, <1>6, FS_Subset
<1> QED
  BY <1>1, <1>2, <1>3, <1>4, <1>5, <1>7

\* A column of selected rows, summed as the report does it.
LEMMA ColumnTotal ==
    ASSUME NEW S \in SUBSET Row, IsFiniteSet(S)
    PROVE  /\ SumFunction([w \in S |-> w.net]) = Total(NetOf, S)
           /\ SumFunction([w \in S |-> w.cost]) = Total(CostOf, S)
           /\ SumFunction([w \in S |-> w.margin]) = Total(MarginOf, S)
           /\ SumFunction([w \in S |-> PriceOf[w.transport]]) = Total(PriceAt, S)
<1> DEFINE nets == [w \in S |-> w.net]
           costs == [w \in S |-> w.cost]
           margins == [w \in S |-> w.margin]
           prices == [w \in S |-> PriceOf[w.transport]]
<1>1. /\ \A w \in S : nets[w] = NetOf[w]
      /\ \A w \in S : costs[w] = CostOf[w]
      /\ \A w \in S : margins[w] = MarginOf[w]
      /\ \A w \in S : prices[w] = PriceAt[w]
  BY DEF NetOf, CostOf, MarginOf, PriceAt
<1>2. DOMAIN nets = S /\ DOMAIN costs = S /\ DOMAIN margins = S /\ DOMAIN prices = S
  OBVIOUS
<1> HIDE DEF nets, costs, margins, prices
<1>3. /\ SumFunction(nets) = Total(nets, S) /\ SumFunction(costs) = Total(costs, S)
      /\ SumFunction(margins) = Total(margins, S) /\ SumFunction(prices) = Total(prices, S)
  BY <1>2, TotalOfAll
<1>4. Total(nets, S) = Total(NetOf, S) /\ Total(costs, S) = Total(CostOf, S)
  BY <1>1, TotalsAgree
<1>5. Total(margins, S) = Total(MarginOf, S) /\ Total(prices, S) = Total(PriceAt, S)
  BY <1>1, TotalsAgree
<1> QED
  BY <1>3, <1>4, <1>5 DEF nets, costs, margins, prices

LEMMA ItemOfGroup ==
    ASSUME Table, NEW f
    PROVE  /\ DOMAIN Items(f) = Groups(f)
           /\ \A b \in Groups(f) :
                 /\ Items(f)[b] = ItemOf(Rows(f, b))
                 /\ Items(f)[b]["net"] = Total(NetOf, Rows(f, b))
                 /\ Items(f)[b]["cost"] = Total(CostOf, Rows(f, b))
                 /\ Items(f)[b]["margins"] = Total(MarginOf, Rows(f, b))
                 /\ Items(f)[b]["prices"] = Total(PriceAt, Rows(f, b))
                 /\ Items(f)[b]["count"] = Cardinality(Rows(f, b))
<1>1. DOMAIN Items(f) = Groups(f) /\ \A b \in Groups(f) : Items(f)[b] = ItemOf(Rows(f, b))
  BY DEF Items, Groups, Rows
<1>2. ASSUME NEW b \in Groups(f)
      PROVE  /\ ItemOf(Rows(f, b)).net = Total(NetOf, Rows(f, b))
             /\ ItemOf(Rows(f, b)).cost = Total(CostOf, Rows(f, b))
             /\ ItemOf(Rows(f, b)).margins = Total(MarginOf, Rows(f, b))
             /\ ItemOf(Rows(f, b)).prices = Total(PriceAt, Rows(f, b))
             /\ ItemOf(Rows(f, b)).count = Cardinality(Rows(f, b))
  <2>1. Rows(f, b) \in SUBSET Row /\ IsFiniteSet(Rows(f, b))
    BY SelectedRows
  <2> QED
    BY <2>1, ColumnTotal DEF ItemOf
<1> QED
  BY <1>1, <1>2

\* The totals that Query adds up from its groups are those of the single rows.
LEMMA ReportTotals ==
    ASSUME Table, NEW f
    PROVE  /\ Report(f).items = Items(f)
           /\ Report(f).totals.net = Total(NetOf, Selected(f))
           /\ Report(f).totals.cost = Total(CostOf, Selected(f))
           /\ Report(f).totals.count = Cardinality(Selected(f))
           /\ Cardinality(Selected(f)) # 0 =>
                 /\ Report(f).totals.margin =
                       TotalAverage(Total(MarginOf, Selected(f)), Cardinality(Selected(f)))
                 /\ Report(f).totals.price =
                       TotalAverage(Total(PriceAt, Selected(f)), Cardinality(Selected(f)))
<1> DEFINE S == Selected(f)
           K == Groups(f)
           column(name) == [b \in K |-> Items(f)[b][name]]
<1>1. /\ S \subseteq Row /\ IsFiniteSet(S) /\ IsFiniteSet(K)
      /\ \A w \in S : GroupOf[w] \in K
  BY SelectedRows DEF Groups, GroupOf
<1>2. \A b : {w \in S : GroupOf[w] = b} = Rows(f, b)
  BY <1>1 DEF Rows, GroupOf
<1>3. /\ \A w \in S : NetOf[w] \in Nat
      /\ \A w \in S : CostOf[w] \in Nat
      /\ \A w \in S : MarginOf[w] \in Nat
      /\ \A w \in S : PriceAt[w] \in Nat
      /\ \A w \in S : Once[w] = 1
  BY <1>1, ColumnsAreNat DEF NetOf, CostOf, MarginOf, PriceAt, Once
<1>4. /\ \A b \in K : column("net")[b] = Total(NetOf, {w \in S : GroupOf[w] = b})
      /\ \A b \in K : column("cost")[b] = Total(CostOf, {w \in S : GroupOf[w] = b})
      /\ \A b \in K : column("margins")[b] = Total(MarginOf, {w \in S : GroupOf[w] = b})
      /\ \A b \in K : column("prices")[b] = Total(PriceAt, {w \in S : GroupOf[w] = b})
  <2>1. \A name : \A b \in K : column(name)[b] = Items(f)[b][name]
    OBVIOUS
  <2> HIDE DEF column
  <2>2. /\ \A b \in K : column("net")[b] = Total(NetOf, Rows(f, b))
        /\ \A b \in K : column("cost")[b] = Total(CostOf, Rows(f, b))
        /\ \A b \in K : column("margins")[b] = Total(MarginOf, Rows(f, b))
        /\ \A b \in K : column("prices")[b] = Total(PriceAt, Rows(f, b))
    BY <2>1, ItemOfGroup
  <2> QED
    BY <1>2, <2>2, Zenon
<1>5. \A b \in K : column("count")[b] = Total(Once, {w \in S : GroupOf[w] = b})
  <2> SUFFICES ASSUME NEW b \in K PROVE column("count")[b] = Total(Once, Rows(f, b))
    BY <1>2
  <2>1. IsFiniteSet(Rows(f, b)) /\ \A w \in Rows(f, b) : Once[w] = 1
    BY SelectedRows DEF Once
  <2>2. Total(Once, Rows(f, b)) = Cardinality(Rows(f, b))
    BY <2>1, TotalCounts
  <2> QED
    BY <2>2, ItemOfGroup
<1>6. \A name : SumFunction(column(name)) = Total(column(name), K)
  <2> SUFFICES ASSUME NEW name PROVE SumFunction(column(name)) = Total(column(name), K)
    OBVIOUS
  <2>1. DOMAIN column(name) = K
    OBVIOUS
  <2> QED
    BY <2>1, TotalOfAll
<1> HIDE DEF S, column
<1>7. Total(column("net"), K) = Total(NetOf, S)
  BY <1>1, <1>3, <1>4, TotalOfGroups
<1>8. Total(column("cost"), K) = Total(CostOf, S)
  BY <1>1, <1>3, <1>4, TotalOfGroups
<1>9. Total(column("margins"), K) = Total(MarginOf, S)
  BY <1>1, <1>3, <1>4, TotalOfGroups
<1>10. Total(column("prices"), K) = Total(PriceAt, S)
  BY <1>1, <1>3, <1>4, TotalOfGroups
<1>11. Total(column("count"), K) = Cardinality(S)
  <2>1. \A w \in S : Once[w] \in Nat
    BY <1>3
  <2>2. Total(column("count"), K) = Total(Once, S)
    BY <1>1, <1>5, <2>1, TotalOfGroups
  <2> QED
    BY <1>1, <1>3, <2>2, TotalCounts
<1>12. \A name : [b \in DOMAIN Items(f) |-> Items(f)[b][name]] = column(name)
  BY ItemOfGroup DEF column
<1>13. LET n == Cardinality(S)
       IN  Totals(Items(f)) =
             [net |-> Total(NetOf, S), cost |-> Total(CostOf, S), count |-> n,
              price |-> IF n = 0 THEN 0 ELSE TotalAverage(Total(PriceAt, S), n),
              margin |-> IF n = 0 THEN 0 ELSE TotalAverage(Total(MarginOf, S), n)]
  BY <1>6, <1>7, <1>8, <1>9, <1>10, <1>11, <1>12, Zenon DEF Totals
<1> QED
  BY <1>13 DEF Report, S

-----------------------------------------------------------------------------
(* A report and the stock.                                                 *)

\* What the report relies on at every state.
Consistent == TypeOK /\ WeighedOnce /\ StockIsWeighed

LEMMA ConsistentTable == Consistent => Table
BY DEF Consistent, Table, TypeOK, StockIsWeighed

LEMMA EverythingIsSelected ==
    ASSUME Consistent
    PROVE  Selected(Everything) = weighings /\ \A b : Rows(Everything, b) = Loads(b)
<1>1. \A w \in weighings : w.transport \in Transports /\ status[w.transport] = "WEIGHED"
  BY ConsistentTable, ColumnsAreNat DEF Table, Consistent, WeighedOnce
<1>2. Selected(Everything) = weighings
  BY <1>1 DEF Selected, Everything
<1> QED
  BY <1>2 DEF Rows, Loads

Weighed(bins) == {t \in Transports : status[t] = "WEIGHED" /\ BinOf(t) \in bins}

\* One weighing for each WEIGHED transport, whatever bins are counted.
LEMMA LoadsAreTransports ==
    ASSUME Consistent, NEW bins
    PROVE  Cardinality({w \in weighings : BinOf(w.transport) \in bins}) = Cardinality(Weighed(bins))
<1> DEFINE L == {w \in weighings : BinOf(w.transport) \in bins}
           T == Weighed(bins)
           F == [w \in L |-> w.transport]
<1>1. IsFiniteSet(L)
  BY FS_Subset DEF Consistent, StockIsWeighed
<1>2. \A w \in weighings : w.transport \in Transports /\ status[w.transport] = "WEIGHED"
  BY ConsistentTable, ColumnsAreNat DEF Table, Consistent, WeighedOnce
<1>3. F \in [L -> T]
  BY <1>2 DEF Weighed
<1>4. \A v, w \in L : F[v] = F[w] => v = w
  BY DEF Consistent, WeighedOnce
<1>5. \A t \in T : \E w \in L : F[w] = t
  BY DEF Consistent, WeighedOnce, Weighed
<1> HIDE DEF L, T, F
<1>6. F \in Bijection(L, T)
  BY <1>3, <1>4, <1>5 DEF Bijection, Injection, Surjection, IsInjective
<1>7. Cardinality(L) = Cardinality(T)
  BY <1>1, <1>6, FS_Bijection DEF ExistsBijection
<1> QED
  BY <1>7 DEF L, T

\* TotalAverage is the mean of its n values, rounded half up.
LEMMA AverageIsMean ==
    ASSUME NEW sum \in Nat, NEW n \in Nat, n # 0
    PROVE  IsMean(TotalAverage(sum, n), sum, n)
<1> DEFINE h == n \div 2
           q == (sum + h) \div n
           p == n * q
<1>1. h \in Nat /\ 2 * h <= n /\ n <= 2 * h + 1
  OBVIOUS
<1> HIDE DEF h
<1>2. q \in Nat
  BY <1>1
<1>3. p \in Nat /\ p <= sum + h /\ sum + h < p + n
  BY <1>1, <1>2
<1>4. TotalAverage(sum, n) = q /\ 2 * n * q = 2 * p
  BY <1>2 DEF TotalAverage, h
<1> HIDE DEF p, q
<1>5. 2 * sum - n < 2 * p /\ 2 * p <= 2 * sum + n
  BY <1>1, <1>3
<1> QED
  BY <1>4, <1>5 DEF IsMean

ForBin(b) == [Everything EXCEPT !.branch = b[1], !.grain = b[2]]

\* The item of a bin, or its absence, says what the inventory row says.
LEMMA ItemTellsStock ==
    ASSUME Consistent, NEW b \in Bins
    PROVE  IF b \notin DOMAIN Items(Everything) THEN inventory[b] = 0 /\ Weighed({b}) = {}
           ELSE /\ Items(Everything)[b].net = inventory[b]
                /\ Items(Everything)[b].count = Cardinality(Weighed({b}))
                /\ Items(ForBin(b)) = [bin \in {b} |-> Items(Everything)[b]]
<1>1. /\ Table /\ DOMAIN Items(Everything) = Groups(Everything)
      /\ Groups(Everything) = {BinOf(w.transport) : w \in weighings}
      /\ Rows(Everything, b) = Loads(b)
      /\ inventory[b] = Total(NetOf, Loads(b))
  BY ConsistentTable, ItemOfGroup, EverythingIsSelected DEF Groups, Consistent, StockIsWeighed
<1>2. CASE b \notin Groups(Everything)
  <2>1. Loads(b) = {}
    BY <1>1, <1>2 DEF Loads
  <2>2. inventory[b] = 0
    BY <1>1, <2>1, TotalOfNone
  <2>3. Weighed({b}) = {}
    BY <1>1, <1>2 DEF Weighed, Consistent, WeighedOnce
  <2> QED
    BY <1>1, <1>2, <2>2, <2>3
<1>3. CASE b \in Groups(Everything)
  <2>1. /\ Items(Everything)[b] = ItemOf(Loads(b))
        /\ Items(Everything)[b].net = Total(NetOf, Loads(b))
        /\ Items(Everything)[b].count = Cardinality(Loads(b))
    BY <1>1, <1>3, ItemOfGroup
  <2>2. Cardinality(Loads(b)) = Cardinality(Weighed({b}))
    <3>1. Loads(b) = {w \in weighings : BinOf(w.transport) \in {b}}
      BY DEF Loads
    <3> QED
      BY <3>1, LoadsAreTransports
  <2>3. /\ b = <<b[1], b[2]>> /\ b[1] \in Branches /\ b[2] \in Grains
        /\ b[1] # Any /\ b[2] # Any
    BY ReportConfig DEF Bins, Book!Bins
  <2>4. Selected(ForBin(b)) = Loads(b)
    <3>1. /\ ForBin(b).branch = b[1] /\ ForBin(b).grain = b[2]
          /\ ForBin(b).start = Any /\ ForBin(b).end = Any
      BY DEF ForBin, Everything
    <3>2. \A w \in weighings :
             BinOf(w.transport) = b <=> BranchOf[w.transport] = b[1] /\ GrainOf[w.transport] = b[2]
      BY <2>3 DEF BinOf, Book!BinOf
    <3>3. \A w \in weighings : status[w.transport] = "WEIGHED"
      BY <1>1, ColumnsAreNat DEF Table, Consistent, WeighedOnce
    <3> QED
      BY <2>3, <3>1, <3>2, <3>3 DEF Selected, Loads
  <2>5. Groups(ForBin(b)) = {b} /\ Rows(ForBin(b), b) = Loads(b)
    BY <1>1, <1>3, <2>4 DEF Groups, Rows, Loads
  <2>6. /\ DOMAIN Items(ForBin(b)) = {b}
        /\ Items(ForBin(b))[b] = ItemOf(Loads(b))
    BY <1>1, <2>5, ItemOfGroup
  <2>7. Items(ForBin(b)) = [bin \in {b} |-> Items(Everything)[b]]
    <3>1. Items(ForBin(b)) = [bin \in DOMAIN Items(ForBin(b)) |-> Items(ForBin(b))[bin]]
      BY DEF Items
    <3> HIDE DEF ForBin
    <3> QED
      BY <2>1, <2>6, <3>1
  <2> QED
    BY <1>1, <1>3, <2>1, <2>2, <2>7
<1> QED
  BY <1>1, <1>2, <1>3

\* All inventory rows together are the net weight of all loads.
LEMMA WholeStock ==
    ASSUME Consistent
    PROVE  SumFunction(inventory) = Total(NetOf, weighings)
<1>1. /\ weighings \subseteq Row /\ IsFiniteSet(weighings) /\ DOMAIN inventory = Bins
  BY ConsistentTable DEF Table, Consistent, TypeOK
<1>2. IsFiniteSet(Bins)
  BY ReportConfig, FS_Product DEF Bins, Book!Bins
<1>3. \A w \in weighings : GroupOf[w] \in Bins /\ NetOf[w] \in Nat
  BY <1>1, ColumnsAreNat DEF GroupOf, NetOf
<1>4. \A b : {w \in weighings : GroupOf[w] = b} = Loads(b)
  BY <1>1 DEF GroupOf, Loads
<1>5. \A b \in Bins : inventory[b] = Total(NetOf, {w \in weighings : GroupOf[w] = b})
  BY <1>4 DEF Consistent, StockIsWeighed
<1>6. Total(inventory, Bins) = Total(NetOf, weighings)
  BY <1>1, <1>2, <1>3, <1>5, TotalOfGroups
<1> QED
  BY <1>1, <1>6, TotalOfAll

\* The totals of the whole report, averages included.
LEMMA TotalsTellStock ==
    ASSUME Consistent
    PROVE  LET totals == Report(Everything).totals
           IN  /\ totals.net = SumFunction(inventory)
               /\ totals.count = Cardinality(Weighed(Bins))
               /\ weighings # {} =>
                     /\ IsMean(totals.margin, SumFunction([w \in weighings |-> w.margin]), totals.count)
                     /\ IsMean(totals.price, SumFunction([w \in weighings |-> PriceOf[w.transport]]),
                               totals.count)
<1> DEFINE totals == Report(Everything).totals
           n == Cardinality(weighings)
<1>1. Table /\ weighings \subseteq Row /\ IsFiniteSet(weighings) /\ Selected(Everything) = weighings
  BY ConsistentTable, EverythingIsSelected DEF Table
<1>2. /\ totals.net = Total(NetOf, weighings) /\ totals.count = n
      /\ n # 0 => /\ totals.margin = TotalAverage(Total(MarginOf, weighings), n)
                  /\ totals.price = TotalAverage(Total(PriceAt, weighings), n)
  BY <1>1, ReportTotals
<1>3. totals.net = SumFunction(inventory)
  BY <1>2, WholeStock
<1>4. totals.count = Cardinality(Weighed(Bins))
  <2>1. weighings = {w \in weighings : BinOf(w.transport) \in Bins}
    BY <1>1, ColumnsAreNat
  <2> QED
    BY <1>2, <2>1, LoadsAreTransports
<1>5. ASSUME weighings # {}
      PROVE  /\ IsMean(totals.margin, SumFunction([w \in weighings |-> w.margin]), totals.count)
             /\ IsMean(totals.price, SumFunction([w \in weighings |-> PriceOf[w.transport]]),
                       totals.count)
  <2>1. n \in Nat /\ n # 0
    BY <1>1, <1>5, FS_EmptySet, FS_CardinalityType
  <2>2. (\A w \in weighings : MarginOf[w] \in Nat) /\ (\A w \in weighings : PriceAt[w] \in Nat)
    BY <1>1, ColumnsAreNat DEF MarginOf, PriceAt
  <2>3. Total(MarginOf, weighings) \in Nat /\ Total(PriceAt, weighings) \in Nat
    BY <1>1, <2>2, TotalNat
  <2>4. /\ SumFunction([w \in weighings |-> w.margin]) = Total(MarginOf, weighings)
        /\ SumFunction([w \in weighings |-> PriceOf[w.transport]]) = Total(PriceAt, weighings)
    BY <1>1, ColumnTotal
  <2> HIDE DEF n, totals
  <2>5. /\ IsMean(TotalAverage(Total(MarginOf, weighings), n), Total(MarginOf, weighings), n)
        /\ IsMean(TotalAverage(Total(PriceAt, weighings), n), Total(PriceAt, weighings), n)
    BY <2>1, <2>3, AverageIsMean
  <2> QED
    BY <1>2, <2>1, <2>4, <2>5, Zenon
<1> QED
  BY <1>3, <1>4, <1>5

UntilDay(day) == [Everything EXCEPT !.end = ParseReportTime(day, TRUE)]
AfterDay(day) == [Everything EXCEPT !.start = ParseReportTime(day + 1, FALSE)]
OnDay(day) == [UntilDay(day) EXCEPT !.start = ParseReportTime(day, FALSE)]

LEMMA DayOf ==
    ASSUME NEW at \in Nat
    PROVE  LET day == at \div DayLength
           IN  /\ day \in Nat
               /\ ParseReportTime(day, FALSE) \in Nat /\ ParseReportTime(day, TRUE) \in Nat
               /\ ParseReportTime(day + 1, FALSE) = ParseReportTime(day, TRUE) + 1
               /\ ParseReportTime(day, FALSE) <= at /\ at <= ParseReportTime(day, TRUE)
<1> DEFINE day == at \div DayLength
           p == DayLength * day
<1>1. DayLength \in Nat \ {0}
  BY ReportConfig
<1>2. day \in Nat
  BY <1>1
<1>3. p \in Nat /\ p <= at /\ at < p + DayLength
  BY <1>1, <1>2
<1>4. day * DayLength = p /\ (day + 1) * DayLength = p + DayLength
  BY <1>1, <1>2
<1> HIDE DEF day, p
<1>5. /\ ParseReportTime(day, FALSE) = p
      /\ ParseReportTime(day, TRUE) = p + (DayLength - 1)
      /\ ParseReportTime(day + 1, FALSE) = p + DayLength
  BY <1>1, <1>3, <1>4 DEF ParseReportTime
<1>6. /\ p + (DayLength - 1) \in Nat /\ at <= p + (DayLength - 1)
      /\ p + DayLength = (p + (DayLength - 1)) + 1
  BY <1>1, <1>3
<1> QED
  BY <1>2, <1>3, <1>5, <1>6 DEF day

\* A day ends where the next begins: what is weighed until then and what is
\* weighed after it are all loads, and no load is both.
LEMMA DaysSplitTheReport ==
    ASSUME Consistent, NEW x \in Sessions
    PROVE  LET day == WeighedAt[x] \div DayLength
           IN  /\ ~Refused(OnDay(day))
               /\ Report(UntilDay(day)).totals.cost + Report(AfterDay(day)).totals.cost =
                     Report(Everything).totals.cost
               /\ Report(UntilDay(day)).totals.count + Report(AfterDay(day)).totals.count =
                     Report(Everything).totals.count
               /\ \A w \in weighings : w.session = x => w \in Selected(OnDay(day))
<1> DEFINE day == WeighedAt[x] \div DayLength
           first == ParseReportTime(day, FALSE)
           last == ParseReportTime(day, TRUE)
           A == Selected(UntilDay(day))
           B == Selected(AfterDay(day))
<1>1. WeighedAt[x] \in Nat /\ \A y \in Sessions : WeighedAt[y] \in Nat
  BY ReportConfig
<1>2. /\ first \in Nat /\ last \in Nat /\ ParseReportTime(day + 1, FALSE) = last + 1
      /\ first <= WeighedAt[x] /\ WeighedAt[x] <= last
  BY <1>1, DayOf
<1>3. first # Any /\ last # Any /\ last + 1 # Any
  <2>1. \A k \in Nat : k # Any
    BY ReportConfig
  <2>2. \A k \in Nat : k + 1 \in Nat
    OBVIOUS
  <2> HIDE DEF first, last, day
  <2> QED
    BY <1>2, <2>1, <2>2, Zenon
<1>4. /\ Table /\ weighings \subseteq Row /\ IsFiniteSet(weighings)
      /\ Selected(Everything) = weighings
  BY ConsistentTable, EverythingIsSelected DEF Table
<1>5. \A w \in weighings : status[w.transport] = "WEIGHED" /\ WeighedAt[w.session] \in Nat
  BY <1>1, <1>4, ColumnsAreNat DEF Consistent, WeighedOnce
<1> HIDE DEF day
<1>6. /\ UntilDay(day).branch = Any /\ UntilDay(day).grain = Any
      /\ UntilDay(day).start = Any /\ UntilDay(day).end = last
  BY DEF UntilDay, Everything
<1>7. /\ AfterDay(day).branch = Any /\ AfterDay(day).grain = Any
      /\ AfterDay(day).start = last + 1 /\ AfterDay(day).end = Any
  BY <1>2 DEF AfterDay, Everything
<1>8. /\ OnDay(day).branch = Any /\ OnDay(day).grain = Any
      /\ OnDay(day).start = first /\ OnDay(day).end = last
  BY DEF OnDay, UntilDay, Everything
<1> HIDE DEF first, last
<1>9. A = {w \in weighings : WeighedAt[w.session] <= last}
  BY <1>3, <1>5, <1>6 DEF Selected
<1>10. B = {w \in weighings : WeighedAt[w.session] >= last + 1}
  BY <1>3, <1>5, <1>7 DEF Selected
<1>11. A \cup B = weighings /\ A \cap B = {}
  BY <1>2, <1>5, <1>9, <1>10
<1>12. ~Refused(OnDay(day))
  BY <1>1, <1>2, <1>8 DEF Refused
<1>13. \A w \in weighings : w.session = x => w \in Selected(OnDay(day))
  BY <1>2, <1>5, <1>8 DEF Selected
<1> HIDE DEF A, B
<1>14. IsFiniteSet(A) /\ IsFiniteSet(B) /\ \A w \in A \cup B : CostOf[w] \in Nat
  <2>1. A \in SUBSET weighings /\ B \in SUBSET weighings
    BY <1>11
  <2> QED
    BY <1>4, <2>1, FS_Subset, ColumnsAreNat DEF CostOf
<1>15. /\ Report(UntilDay(day)).totals.cost = Total(CostOf, A)
       /\ Report(AfterDay(day)).totals.cost = Total(CostOf, B)
       /\ Report(Everything).totals.cost = Total(CostOf, weighings)
       /\ Report(UntilDay(day)).totals.count = Cardinality(A)
       /\ Report(AfterDay(day)).totals.count = Cardinality(B)
       /\ Report(Everything).totals.count = Cardinality(weighings)
  BY <1>4, ReportTotals DEF A, B
<1>16. Total(CostOf, A \cup B) = Total(CostOf, A) + Total(CostOf, B)
  BY <1>11, <1>14, TotalOfBoth
<1>17. Cardinality(A \cup B) = Cardinality(A) + Cardinality(B)
  <2>1. Cardinality(A \cap B) = 0
    BY <1>11, FS_EmptySet
  <2>2. Cardinality(A) \in Nat /\ Cardinality(B) \in Nat
    BY <1>14, FS_CardinalityType
  <2>3. Cardinality(A \cup B) = Cardinality(A) + Cardinality(B) - Cardinality(A \cap B)
    BY <1>14, FS_Union
  <2> QED
    BY <2>1, <2>2, <2>3
<1>18. /\ Report(UntilDay(day)).totals.cost + Report(AfterDay(day)).totals.cost =
             Report(Everything).totals.cost
       /\ Report(UntilDay(day)).totals.count + Report(AfterDay(day)).totals.count =
             Report(Everything).totals.count
  BY <1>11, <1>15, <1>16, <1>17, Zenon
<1> QED
  BY <1>12, <1>13, <1>18 DEF day

\* At every moment between the statements of finalizations, for any branches,
\* grains, days and prices, the report and the stock say the same.
THEOREM ReportsTellStock == Spec => []ReportTellsStock
<1>1. ASSUME Consistent PROVE ReportTellsStock
  <2>1. Report(Everything).items = Items(Everything)
    BY <1>1, ConsistentTable, ReportTotals
  <2>2. \A b \in Bins :
           IF b \notin DOMAIN Items(Everything) THEN inventory[b] = 0 /\ Weighed({b}) = {}
           ELSE /\ Items(Everything)[b].net = inventory[b]
                /\ Items(Everything)[b].count = Cardinality(Weighed({b}))
                /\ Items(ForBin(b)) = [bin \in {b} |-> Items(Everything)[b]]
    BY <1>1, ItemTellsStock
  <2>3. /\ Report(Everything).totals.net = SumFunction(inventory)
        /\ Report(Everything).totals.count = Cardinality(Weighed(Bins))
        /\ weighings # {} =>
              /\ IsMean(Report(Everything).totals.margin,
                        SumFunction([w \in weighings |-> w.margin]),
                        Report(Everything).totals.count)
              /\ IsMean(Report(Everything).totals.price,
                        SumFunction([w \in weighings |-> PriceOf[w.transport]]),
                        Report(Everything).totals.count)
    BY <1>1, TotalsTellStock
  <2>4. \A x \in Sessions :
           LET day == WeighedAt[x] \div DayLength
           IN  /\ ~Refused(OnDay(day))
               /\ Report(UntilDay(day)).totals.cost + Report(AfterDay(day)).totals.cost =
                     Report(Everything).totals.cost
               /\ Report(UntilDay(day)).totals.count + Report(AfterDay(day)).totals.count =
                     Report(Everything).totals.count
               /\ \A w \in weighings : w.session = x => w \in Selected(OnDay(day))
    BY <1>1, DaysSplitTheReport
  <2> QED
    BY <2>1, <2>2, <2>3, <2>4, Zenon
       DEF ReportTellsStock, Weighed, ForBin, UntilDay, AfterDay, OnDay
<1>2. IInv /\ StockIsWeighed => Consistent
  BY DEF IInv, Consistent
<1> QED
  BY <1>1, <1>2, InductiveInvariant, StockIsSumOfLoads, PTL
=============================================================================
