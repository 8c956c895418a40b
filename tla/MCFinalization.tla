--------------------------- MODULE MCFinalization ---------------------------
(***************************************************************************)
(* Small instances of Finalization.  Truck k1 passes twice (transports t1, *)
(* t2), truck k2 once (t3); all three loads are of one branch and grain, so *)
(* they share one inventory row.  Scales s1 and s3 stand in the branch of  *)
(* the transports, scale s2 in another one.                                *)
(***************************************************************************)
EXTENDS Reports

CONSTANTS c1, c2, t1, t2, t3, k1, k2, p1, p2, p3, b1, b2, g1, s1, s2, s3, x1, x2, e1, e2

MCTruckOf == [t \in Transports |-> IF t = t3 THEN k2 ELSE k1]
MCBranchOf == [t \in Transports |-> b1]
MCGrainOf == [t \in Transports |-> g1]
MCPriceOf == [t \in Transports |-> IF t = t1 THEN 7 ELSE 8]
\* The last moment of a day and the first one of the next.
MCWeighedAt == [x \in Sessions |-> IF x = x1 THEN 1 ELSE 2]
MCScaleBranch == [s \in Scales |-> IF s = s2 THEN b2 ELSE b1]

ByPlate(x, e, s, p, gross) ==
    [session |-> x, event |-> e, scale |-> s, transport |-> NoTransport,
     plate |-> p, gross |-> gross]

ById(x, e, s, t, gross) ==
    [session |-> x, event |-> e, scale |-> s, transport |-> t,
     plate |-> NoPlate, gross |-> gross]

\* One truck: an event delivered to two workers, or seen by two scales.
RaceInputs ==
    {ByPlate(x1, e1, s1, p1, 9), ByPlate(x2, e2, s3, p1, 9)}

\* Passages of two trucks, by plate from scales of both branches, or by the id
\* of the transport: without an event, in a session of another passage, or
\* with a weight that validate refuses.
PassageInputs ==
    {ByPlate(x1, e1, s1, p1, 9), ByPlate(x2, e2, s1, p2, 6), ByPlate(x2, e2, s2, p2, 6),
     ById(x1, NoEvent, s1, t3, 6), ById(x2, e2, s1, t1, 0)}
=============================================================================
