-------------------------- MODULE MCProjectionRunner --------------------------
(* Instances of ProjectionRunner for TLC.                                     *)
EXTENDS ProjectionRunner

CONSTANTS r1, r2, p1, p2, a1, a2

TwoProjections == <<p1, p2>>
\* The second projection cannot handle the second event of a1.
SecondRaises   == {<<p2, [agg |-> a1, sequence |-> 2]>>}
=============================================================================
