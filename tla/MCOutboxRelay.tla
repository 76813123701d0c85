---------------------------- MODULE MCOutboxRelay ----------------------------
(* Instances of OutboxRelay for TLC: rows e1..e3 and relays r1, r2.         *)
EXTENDS OutboxRelay, TLC

CONSTANTS e1, e2, e3, r1, r2

\* e1 and e2 occurred at the same instant, e3 later.
MCRows       == {e1, e2, e3}
MCOccurredAt == (e1 :> 1) @@ (e2 :> 1) @@ (e3 :> 2)
MCHash       == (e1 :> 4) @@ (e2 :> 3) @@ (e3 :> 2)
MCRelays     == {r1, r2}
OneShard     == (r1 :> 0) @@ (r2 :> 0)
=============================================================================
