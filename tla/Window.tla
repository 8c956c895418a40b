------------------------------- MODULE Window -------------------------------
(***************************************************************************)
(* The arithmetic of package stabilizer: the ring that keeps the latest    *)
(* readings of a session, and the decision whether they are stable.  A     *)
(* reading is [weight |-> grams, at |-> measuredAt].  Sorting is modelled   *)
(* by its result, the element at an index of the sorted slice.             *)
(***************************************************************************)
EXTENDS Integers, Sequences, FiniteSets

CONSTANTS
    WindowCapacity, MinSamples, MinWindowDuration,
    AbsoluteTolerance, PercentToleranceBPS, MaxSlope,
    Second    \* time units per second; slopes are grams per second

ASSUME WindowConfig ==
    /\ WindowCapacity \in Nat /\ MinSamples \in Nat \ {0, 1} /\ MinSamples <= WindowCapacity
    /\ MinWindowDuration \in Nat
    /\ AbsoluteTolerance \in Nat /\ PercentToleranceBPS \in Nat /\ MaxSlope \in Nat
    /\ Second \in Nat \ {0}

-----------------------------------------------------------------------------
(* type ring: a fixed array, the index of its oldest element and a count.  *)

NewRing(empty) ==
    [elements |-> [i \in 0..WindowCapacity-1 |-> empty], start |-> 0, count |-> 0]

\* Mutant: a full ring overwrites its newest element.
RingAddKeepsOldest(r, value) ==
    LET full == r.count = WindowCapacity
        index == IF full THEN (r.start + r.count - 1) % WindowCapacity
                 ELSE (r.start + r.count) % WindowCapacity
    IN  [elements |-> [r.elements EXCEPT ![index] = value],
         start |-> r.start,
         count |-> IF full THEN r.count ELSE r.count + 1]

RingAdd(r, value) ==
    LET full == r.count = WindowCapacity
        index == IF full THEN r.start ELSE (r.start + r.count) % WindowCapacity
    IN  [elements |-> [r.elements EXCEPT ![index] = value],
         start |-> IF full THEN (r.start + 1) % WindowCapacity ELSE r.start,
         count |-> IF full THEN r.count ELSE r.count + 1]

RingValues(r) ==
    [i \in 1..r.count |-> r.elements[(r.start + i - 1) % WindowCapacity]]

\* What the ring stands for: a sequence of which only the latest are kept.
Slide(window, value) ==
    LET longer == Append(window, value)
    IN  IF Len(longer) > WindowCapacity THEN Tail(longer) ELSE longer

-----------------------------------------------------------------------------
(***************************************************************************)
(* The element at index k, from 0, of the elements of S sorted by value:   *)
(* at most k are strictly smaller and more than k are not larger.          *)
(***************************************************************************)
SortedAt(S, Value(_), LE(_,_), k) ==
    LET at == CHOOSE x \in S :
                  /\ Cardinality({y \in S : ~LE(Value(x), Value(y))}) <= k
                  /\ Cardinality({y \in S : LE(Value(y), Value(x))}) > k
    IN  Value(at)

WeightAt(window, k) ==
    SortedAt(DOMAIN window, LAMBDA i : window[i].weight, LAMBDA a, b : a <= b, k)

\* The middle weight, or the mean of the two middle ones rounded down.
Median(window) ==
    LET n == Len(window)
        upper == WeightAt(window, n \div 2)
    IN  IF n % 2 = 1 THEN upper
        ELSE LET lower == WeightAt(window, n \div 2 - 1)
             IN  lower + (upper - lower) \div 2

\* Mutant: the rank is rounded down instead of up.
PercentileIndexFloor(length, percentile) == (percentile * (length - 1)) \div 100

\* Nearest rank, rounded up, as an index from 0.
PercentileIndex(length, percentile) == (percentile * (length - 1) + 99) \div 100

P05(window) == WeightAt(window, PercentileIndex(Len(window), 5))
P95(window) == WeightAt(window, PercentileIndex(Len(window), 95))
Dispersion(window) == P95(window) - P05(window)

\* Dispersion within basis points of the median.
PercentWithin(dispersion, median, bps) == dispersion * 10000 <= median * bps

-----------------------------------------------------------------------------
(* Exact slopes: a rational is <<numerator, denominator>>, denominator > 0. *)

RatLE(a, b) == a[1] * b[2] <= b[1] * a[2]

AbsAtMost(r, limit) == (IF r[1] < 0 THEN -r[1] ELSE r[1]) <= r[2] * limit

PairsOf(window) == {p \in (DOMAIN window) \X (DOMAIN window) : p[1] < p[2]}

SlopeOf(window, p) ==
    <<(window[p[2]].weight - window[p[1]].weight) * Second, window[p[2]].at - window[p[1]].at>>

\* The middle slope of some pairs; the mean of the two middle ones when their
\* number is even.
MiddleSlope(window, pairs) ==
    LET n == Cardinality(pairs)
        upper == SortedAt(pairs, LAMBDA p : SlopeOf(window, p), RatLE, n \div 2)
    IN  IF n % 2 = 1 THEN upper
        ELSE LET lower == SortedAt(pairs, LAMBDA p : SlopeOf(window, p), RatLE, n \div 2 - 1)
             IN  <<lower[1] * upper[2] + upper[1] * lower[2], 2 * lower[2] * upper[2]>>

\* Mutant: only neighbouring readings are compared.
TheilSenSlopeNeighbours(window) ==
    MiddleSlope(window, {p \in PairsOf(window) : p[2] = p[1] + 1})

TheilSenSlope(window) == MiddleSlope(window, PairsOf(window))

-----------------------------------------------------------------------------
(* Manager.evaluate.                                                       *)

Duration(window) == window[Len(window)].at - window[1].at

Ready(window) ==
    Len(window) >= MinSamples /\ Duration(window) >= MinWindowDuration

\* Mutant: only the spread of the weights counts, not their trend.
StableAnySlope(window) ==
    /\ Dispersion(window) <= AbsoluteTolerance
    /\ PercentWithin(Dispersion(window), Median(window), PercentToleranceBPS)

Stable(window) ==
    /\ Dispersion(window) <= AbsoluteTolerance
    /\ PercentWithin(Dispersion(window), Median(window), PercentToleranceBPS)
    /\ AbsAtMost(TheilSenSlope(window), MaxSlope)
=============================================================================
