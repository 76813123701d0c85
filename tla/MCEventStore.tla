---------------------------- MODULE MCEventStore ----------------------------
(* Instances of EventStore for TLC.                                         *)
EXTENDS EventStore, TLC

CONSTANTS c1, c2, a1, a2, e1, e2, f1, f2

Versions == (a1 :> 4) @@ (a2 :> 1)

\* e2 has no apply_ method; f2 is a field with a leading underscore.
Writes   == (e1 :> {f1, f2}) @@ (e2 :> {})
KeptByA1 == (a1 :> {f1}) @@ (a2 :> {})

CallerSymmetry == Permutations(Callers)
=============================================================================
