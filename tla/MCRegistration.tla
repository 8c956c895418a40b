--------------------------- MODULE MCRegistration ---------------------------
(***************************************************************************)
(* A small instance of Registration: the seeded rows b1, k1, g1, s1 and    *)
(* the OPEN transport t1, a second grain type g2, a second scale s2 that   *)
(* is given the key of s1, and transports t2, t3 of the same truck.        *)
(***************************************************************************)
EXTENDS Registration, TLC

CONSTANTS c1, c2, b1, k1, g1, g2, s1, s2, t1, t2, t3, key, padded

\* padded is key with blanks around it; scale_id 0 is 1 in lower case.
MCTrimmed == [k \in Keys |-> key]
MCNormal == [code \in ScaleIds |-> IF code = 0 THEN 1 ELSE code]

MCSeedRegistry ==
    [id \in {b1, k1, g1} |-> [code |-> 1, value |-> IF id = k1 THEN 1 ELSE 0, active |-> TRUE]]
MCSeedScales == [id \in {s1} |-> [code |-> 0, branch |-> b1, key |-> key, active |-> TRUE]]
MCSeedTransports ==
    [id \in {t1} |-> [branch |-> b1, truck |-> k1, grain |-> g1, price |-> 0, status |-> "OPEN"]]

Call(op) == [op |-> op, valid |-> TRUE, id |-> None, branch |-> None, truck |-> None,
             grain |-> None, code |-> None, key |-> NoKey]
ScaleCall(op, id, code, k) == [Call(op) EXCEPT !.id = id, !.branch = b1, !.code = code, !.key = k]
Opening(id, grain) ==
    [Call("CreateTransport") EXCEPT !.id = id, !.branch = b1, !.truck = k1, !.grain = grain]
Cancelling(id) == [Call("Cancel") EXCEPT !.id = id]
Sending(code, k, valid) == [Call("Ingest") EXCEPT !.code = code, !.key = k, !.valid = valid]

TransportCalls == {Opening(t2, g1), Opening(t3, g2), Cancelling(t1), Cancelling(t2)}

ScaleCalls ==
    {ScaleCall("CreateScale", s2, 2, key),
     ScaleCall("UpdateScale", s1, 0, NoKey), ScaleCall("UpdateScale", s1, 2, padded),
     Sending(1, padded, TRUE), Sending(2, key, TRUE), Sending(1, key, FALSE)}

MCWorkloads == {TransportCalls, ScaleCalls}

SymmetricCallers == Permutations(Callers)
=============================================================================
