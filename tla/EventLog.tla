------------------------------- MODULE EventLog -------------------------------
(***************************************************************************)
(* What the event store promises: one append-only stream per aggregate,    *)
(* extended only by a writer that has seen the whole of it (optimistic     *)
(* concurrency), so no append is based on a stale stream.                  *)
(***************************************************************************)
EXTENDS Naturals, Sequences

CONSTANTS
  Aggregates,
  Writers,
  Events,
  NoView      \* a writer that has loaded nothing

VARIABLES
  stream,     \* [Aggregates -> Seq(Events)]
  seen        \* [Writers -> NoView or [agg, length]]

logVars == <<stream, seen>>

LogInit ==
  /\ stream = [a \in Aggregates |-> <<>>]
  /\ seen = [w \in Writers |-> NoView]

\* A writer reads a stream, up to its end.
Observe(w, a) ==
  /\ seen' = [seen EXCEPT ![w] = [agg |-> a, length |-> Len(stream[a])]]
  /\ UNCHANGED stream

Forget(w) ==
  /\ seen' = [seen EXCEPT ![w] = NoView]
  /\ UNCHANGED stream

\* The writer adds events behind all those it has seen, and nobody else's.
Extend(w) ==
  /\ seen[w] # NoView
  /\ LET a == seen[w].agg IN
       /\ seen[w].length = Len(stream[a])
       /\ Len(stream'[a]) > Len(stream[a])
       /\ SubSeq(stream'[a], 1, Len(stream[a])) = stream[a]
       /\ \A b \in Aggregates \ {a} : stream'[b] = stream[b]
       /\ seen' = [seen EXCEPT ![w].length = Len(stream'[a])]

LogNext ==
  \E w \in Writers : Forget(w) \/ Extend(w) \/ \E a \in Aggregates : Observe(w, a)

LogSpec == LogInit /\ [][LogNext]_logVars
=============================================================================
