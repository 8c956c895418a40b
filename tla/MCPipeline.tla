----------------------------- MODULE MCPipeline -----------------------------
(***************************************************************************)
(* Small instances of Pipeline: one scale, two trucks with plates p1 and   *)
(* p2, transports t1 and t2 of the first truck and t3 of the second.  A    *)
(* heavy truck is weighed by the third steady reading.                     *)
(***************************************************************************)
EXTENDS Pipeline, TLC

CONSTANTS w1, w2, t1, t2, t3, p1, p2, b1, g1, s1

MCPlateOf == [t \in Transports |-> IF t = t3 THEN p2 ELSE p1]
MCTareOf == [t \in Transports |-> 2]
MCBranchOf == [t \in Transports |-> b1]
MCGrainOf == [t \in Transports |-> g1]
MCScaleBranch == [s \in Scales |-> b1]

R(n, plate, weight) == [event |-> n, scale |-> s1, plate |-> plate, weight |-> weight, at |-> n]

\* A truck stands on the scale; the device sends its last reading again.
OneTruck == <<R(1, p1, 6), R(2, p1, 6), R(3, p1, 6), R(3, p1, 6)>>

\* The readings of two trucks reach the API mixed.
TwoTrucks == <<R(1, p1, 6), R(2, p2, 5), R(3, p1, 6), R(4, p1, 6)>>

\* An empty scale settles at a weight below the tare.
LightTruck == <<R(1, p1, 1), R(2, p1, 1), R(3, p1, 1)>>

\* A truck passes, leaves and passes again.
TwoPassages ==
    <<R(1, p1, 6), R(2, p1, 6), R(3, p1, 6), R(4, p1, 1), R(5, p1, 6), R(6, p1, 6), R(7, p1, 6)>>

\* The device sends everything twice, enough for two workers to weigh the truck.
SentTwice == [i \in 1..6 |-> R((i + 1) \div 2, p1, 6)]

AllFeeds == {OneTruck, TwoTrucks, LightTruck, SentTwice}
OneTruckFeed == {OneTruck}
TwoPassagesFeed == {TwoPassages}

\* The longer feeds go without failures.
OneFailure == [f \in Feeds |-> IF f \in {OneTruck, LightTruck} THEN 1 ELSE 0]

SymmetricWorkers == Permutations(Workers)
=============================================================================
