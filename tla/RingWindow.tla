----------------------------- MODULE RingWindow -----------------------------
(***************************************************************************)
(* The ring of one session and the statistics of what it holds, while      *)
(* readings arrive.  The variable window is what the ring stands for: the  *)
(* latest WindowCapacity readings, oldest first.                           *)
(***************************************************************************)
EXTENDS Window

CONSTANTS
    Weights,      \* grams a reading may carry
    Gaps,         \* time between two readings, never 0: Add checks the order
    MaxReadings,  \* bound on the readings of a behaviour
    NoReading     \* the zero Reading of a fresh array

ASSUME ReadingConfig ==
    /\ Weights \subseteq Nat \ {0}
    /\ Gaps \subseteq Nat \ {0}
    /\ MaxReadings \in Nat
    /\ MinSamples > 2   \* Config.validate asks for 30

VARIABLES ring, window, last, seen

vars == <<ring, window, last, seen>>

Init ==
    /\ ring = NewRing(NoReading)
    /\ window = <<>>
    /\ last = 0     \* measuredAt of the newest reading
    /\ seen = 0     \* readings so far

AddReading(weight, gap) ==
    /\ seen < MaxReadings
    /\ LET reading == [weight |-> weight, at |-> last + gap]
       IN  /\ ring' = RingAdd(ring, reading)
           /\ window' = Slide(window, reading)
    /\ last' = last + gap
    /\ seen' = seen + 1

Next == \E weight \in Weights, gap \in Gaps : AddReading(weight, gap)

Spec == Init /\ [][Next]_vars

-----------------------------------------------------------------------------
\* Wrapping around and overwriting, the ring always yields the latest
\* readings in the order they came (ring.add, ring.values).
RingHoldsWindow == RingValues(ring) = window

\* The samples of the window with weight at most, or at least, w.
AtMost(w) == Cardinality({i \in DOMAIN window : window[i].weight <= w})
AtLeast(w) == Cardinality({i \in DOMAIN window : window[i].weight >= w})

(***************************************************************************)
(* The final weight splits the window.  For an odd number of samples it is *)
(* one of them, with half of the samples on each side; for an even number  *)
(* it is the mean of the last of the lower and the first of the upper      *)
(* half, rounded down (evaluate).                                          *)
(***************************************************************************)
MedianSplitsWindow ==
    Ready(window) =>
        \E i, j \in DOMAIN window :
            /\ (i = j) <=> (Len(window) % 2 = 1)
            /\ window[i].weight <= window[j].weight
            /\ 2 * AtMost(window[i].weight) >= Len(window)
            /\ 2 * AtLeast(window[j].weight) >= Len(window)
            /\ \A k \in DOMAIN window :
                   window[k].weight <= window[i].weight \/ window[k].weight >= window[j].weight
            /\ Median(window) = (window[i].weight + window[j].weight) \div 2

(***************************************************************************)
(* The percentiles are nearest ranks rounded up: a p-th percentile has at  *)
(* least p percent of the other samples at or below it, and so large a     *)
(* share below no smaller sample.  They enclose the median, so the         *)
(* dispersion stored with a weighing is never negative (percentileIndex,   *)
(* evaluate; weighings_dispersion_non_negative).                           *)
(***************************************************************************)
IsPercentile(value, percentile) ==
    /\ 100 * (AtMost(value) - 1) >= percentile * (Len(window) - 1)
    /\ \A i \in DOMAIN window :
           window[i].weight < value =>
               100 * (AtMost(window[i].weight) - 1) < percentile * (Len(window) - 1)

PercentilesEncloseMedian ==
    Ready(window) =>
        /\ IsPercentile(P05(window), 5) /\ IsPercentile(P95(window), 95)
        /\ P05(window) <= Median(window) /\ Median(window) <= P95(window)

\* The two statistics that a weighing is stored with (evaluate).
RanksAreRight == MedianSplitsWindow /\ PercentilesEncloseMedian

\* At least half of the pairwise slopes are on each side of the diagnostic
\* slope, or at it: the cross-multiplied order of theilSenSlope is the order
\* of the rationals.
SlopeIsMedianOfPairs ==
    Ready(window) =>
        LET s == TheilSenSlope(window)
            pairs == PairsOf(window)
        IN  /\ s[2] > 0
            /\ 2 * Cardinality({p \in pairs : RatLE(SlopeOf(window, p), s)}) >= Cardinality(pairs)
            /\ 2 * Cardinality({p \in pairs : RatLE(s, SlopeOf(window, p))}) >= Cardinality(pairs)

\* A load that keeps growing faster than the limit between any two samples,
\* or keeps shrinking so, is never called stable, however small its spread
\* (the slope test of evaluate, absLessOrEqual).
RampIsNeverStable ==
    Ready(window) /\ Stable(window) =>
        /\ \E p \in PairsOf(window) : RatLE(SlopeOf(window, p), <<MaxSlope, 1>>)
        /\ \E p \in PairsOf(window) : RatLE(<<-MaxSlope, 1>>, SlopeOf(window, p))
=============================================================================
