---------------------------- MODULE MCStabilizer ----------------------------
(* Small instances of Stabilizer for TLC. *)
EXTENDS Stabilizer, TLC

CONSTANTS s1, s2, p1, p2

Key(scale, plate) == [scale |-> scale, plate |-> plate]

\* Two trucks on one scale and one on another, one of the three written in two
\* ways, and a blank plate.
Written ==
    ("s1 p1" :> Key(s1, p1)) @@ ("S1 p-1" :> Key(s1, p1)) @@ ("s1 p2" :> Key(s1, p2))
    @@ ("s2 p1" :> Key(s2, p1)) @@ ("blank" :> NoKey)
=============================================================================
