--------------------------- MODULE OutboxDelivery ---------------------------
(***************************************************************************)
(* What the transactional outbox promises, without relays, locks or        *)
(* attempts: an accepted row is put on the stream any number of times and  *)
(* is settled at most once, as published only after it really was put on   *)
(* the stream.                                                             *)
(***************************************************************************)
CONSTANT Rows

VARIABLES
  status,   \* [Rows -> {"absent", "pending", "published"}]
  onStream  \* rows that were put on the stream at least once

vars == <<status, onStream>>

Init == /\ status = [x \in Rows |-> "absent"]
        /\ onStream = {}

\* The transaction that wrote the row committed.
Accept(X) == /\ \A x \in X : status[x] = "absent"
             /\ status' = [x \in Rows |-> IF x \in X THEN "pending" ELSE status[x]]
             /\ UNCHANGED onStream

\* At-least-once: only a pending row is (again) put on the stream.
Deliver(x) == /\ status[x] = "pending"
              /\ onStream' = onStream \cup {x}
              /\ UNCHANGED status

\* A batch of rows already on the stream is settled.
Settle(X) == /\ X \subseteq onStream
             /\ \A x \in X : status[x] = "pending"
             /\ status' = [x \in Rows |-> IF x \in X THEN "published" ELSE status[x]]
             /\ UNCHANGED onStream

Next == \/ \E X \in SUBSET Rows : Accept(X) \/ Settle(X)
        \/ \E x \in Rows : Deliver(x)

Spec == Init /\ [][Next]_vars
=============================================================================
