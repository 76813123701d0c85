---------------------------- MODULE MCIdempotency ----------------------------
(* Instances of Idempotency for TLC: two requests with body a, one with b.  *)
EXTENDS Idempotency, TLC

CONSTANTS q1, q2, q3, a, b, v

TwoBodies == (q1 :> a) @@ (q2 :> a) @@ (q3 :> b)
OneBody   == (q1 :> a) @@ (q2 :> a) @@ (q3 :> a)
=============================================================================
