---------------------------- MODULE MCSagaManager ----------------------------
(* Instances of SagaManager for TLC.                                         *)
EXTENDS SagaManager, TLC

CONSTANTS d1, d2, d3, t1, t2, e1, e2, e3

\* e1 is handled by the saga class, e2 by its base class, e3 by neither.
Of == (d1 :> e1) @@ (d2 :> e2) @@ (d3 :> e3)
=============================================================================
