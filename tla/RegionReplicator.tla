-------------------------- MODULE RegionReplicator --------------------------
(***************************************************************************)
(* qx.regions.replicator: workers that forward the published rows of the   *)
(* local outbox to the broker of another region, in order of               *)
(* (occurred_at, id), each batch in one transaction that also moves the    *)
(* checkpoint of the target region.  The local outbox is the abstract one, *)
(* OutboxDelivery, which the relays implement: rows become published in    *)
(* any order.  Nothing keeps two processes from serving the same target.   *)
(***************************************************************************)
EXTENDS Naturals, Sequences, FiniteSets, SequencesExt

CONSTANTS
  Rows,         \* outbox rows: pairs <<occurred_at, id>> of positive numbers
  Replicators,
  Stoppable,    \* the ones that stop() is called on
  BatchSize,    \* batch_size
  MaxFaults     \* bound on failures and crashes

ASSUME ReplicatorAssumption ==
  /\ Rows \subseteq (Nat \ {0}) \X (Nat \ {0}) /\ BatchSize \in Nat \ {0} /\ MaxFaults \in Nat
  /\ IsFiniteSet(Replicators)

VARIABLES
  status, onStream,  \* of the local outbox
  checkpoint,        \* committed row of qx_region_checkpoints
  rep,               \* [Replicators -> record], see Start
  faults,
  sent,              \* [Rows -> times it reached the remote stream]
  late,              \* history: rows published after a reader had gone past them
  setbacks           \* history: commits that moved the checkpoint back

outbox == <<status, onStream>>
history == <<late, setbacks>>
vars == <<outbox, checkpoint, rep, faults, sent, history>>

Outbox == INSTANCE OutboxDelivery

\* (None, None) of _load_checkpoint sorts before every row.
None == <<0, 0>>
Before(x, y) == x[1] < y[1] \/ (x[1] = y[1] /\ x[2] < y[2])
UpTo(x, y) == x = y \/ Before(x, y)

Start == [pc |-> "loop", cursor |-> None, batch |-> <<>>, done |-> 0, stop |-> FALSE]
Reached(i) == IF rep[i].done = 0 THEN rep[i].cursor ELSE rep[i].batch[rep[i].done]

Init ==
  /\ Outbox!Init
  /\ checkpoint = None /\ rep = [i \in Replicators |-> Start] /\ faults = 0
  /\ sent = [x \in Rows |-> 0] /\ late = {} /\ setbacks = 0

Set(i, r) == rep' = [rep EXCEPT ![i] = r]
Fault == faults < MaxFaults /\ faults' = faults + 1

-----------------------------------------------------------------------------
\* A transaction has read its cursor.
Reading(i) == rep[i].pc \in {"select", "forward", "save", "commit"}

\* A row was passed when the checkpoint, or what an open transaction has read of the
\* checkpoint or the outbox, lies beyond it.
Passed(x) ==
  \/ UpTo(x, checkpoint)
  \/ \E i \in Replicators :
       Reading(i) /\ (UpTo(x, rep[i].cursor) \/ \E y \in Range(rep[i].batch) : Before(x, y))

\* The local service and its relays.
LocalOutbox ==
  /\ Outbox!Next
  /\ late' = late \cup {x \in Rows : status[x] # "published" /\ status'[x] = "published" /\ Passed(x)}
  /\ UNCHANGED <<checkpoint, rep, faults, sent, setbacks>>

\* The transaction begins: _load_checkpoint.
LoadCheckpoint(i) ==
  /\ rep[i].pc = "loop" /\ ~rep[i].stop
  /\ Set(i, [rep[i] EXCEPT !.pc = "select", !.cursor = checkpoint, !.batch = <<>>, !.done = 0])
  /\ UNCHANGED <<outbox, checkpoint, faults, sent, history>>

\* Mutant of Fetched: the id does not break ties of occurred_at.
FetchedByTime(b, cursor) ==
  LET new == {x \in Rows : status[x] = "published" /\ cursor[1] < x[1]} IN
  /\ Range(b) \subseteq new
  /\ Len(b) = IF Cardinality(new) < BatchSize THEN Cardinality(new) ELSE BatchSize
  /\ \A n \in DOMAIN b : \A x \in new : Before(x, b[n]) <=> \E m \in 1 .. (n - 1) : b[m] = x

\* The SELECT: the published rows behind the cursor, ORDER BY occurred_at, id LIMIT.
Fetched(b, cursor) ==
  LET new == {x \in Rows : status[x] = "published" /\ Before(cursor, x)} IN
  /\ Range(b) \subseteq new
  /\ Len(b) = IF Cardinality(new) < BatchSize THEN Cardinality(new) ELSE BatchSize
  /\ \A n \in DOMAIN b : \A x \in new : Before(x, b[n]) <=> \E m \in 1 .. (n - 1) : b[m] = x

FetchBatch(i) ==
  /\ rep[i].pc = "select"
  /\ \E rows \in SeqOf(Rows, BatchSize) :
       /\ Fetched(rows, rep[i].cursor)
       /\ Set(i, [rep[i] EXCEPT !.batch = rows, !.pc = IF rows = <<>> THEN "sleep" ELSE "forward"])
  /\ UNCHANGED <<outbox, checkpoint, faults, sent, history>>

Row(i) == rep[i].batch[rep[i].done + 1]

\* publish_raw succeeds.
Forward(i) ==
  /\ rep[i].pc = "forward"
  /\ sent' = [sent EXCEPT ![Row(i)] = @ + 1]
  /\ Set(i, [rep[i] EXCEPT !.done = @ + 1,
                           !.pc = IF rep[i].done + 1 = Len(rep[i].batch) THEN "save" ELSE "forward"])
  /\ UNCHANGED <<outbox, checkpoint, faults, history>>

\* Mutant of AfterFailure: the loop goes on behind the failed row.
AfterFailureContinue(i) ==
  [rep[i] EXCEPT !.done = @ + 1, !.pc = IF rep[i].done + 1 = Len(rep[i].batch) THEN "save" ELSE "forward"]

\* "break", and the checkpoint is saved if anything was forwarded.
AfterFailure(i) == [rep[i] EXCEPT !.pc = IF rep[i].done > 0 THEN "save" ELSE "sleep"]

\* publish_raw raises: nothing was stored, or only the acknowledgement was lost.
ForwardFails(i) ==
  /\ rep[i].pc = "forward" /\ Fault
  /\ \E stored \in 0..1 : sent' = [sent EXCEPT ![Row(i)] = @ + stored]
  /\ Set(i, AfterFailure(i))
  /\ UNCHANGED <<outbox, checkpoint, history>>

\* Mutant of SaveCheckpoint: nothing is written.
SaveNothing(i) ==
  /\ rep[i].pc = "save"
  /\ Set(i, [rep[i] EXCEPT !.pc = "commit", !.done = 0])
  /\ UNCHANGED <<outbox, checkpoint, faults, sent, history>>

\* The upsert; it waits for another transaction that has written the row.
SaveCheckpoint(i) ==
  /\ rep[i].pc = "save" /\ \A j \in Replicators : rep[j].pc # "commit"
  /\ Set(i, [rep[i] EXCEPT !.pc = "commit"])
  /\ UNCHANGED <<outbox, checkpoint, faults, sent, history>>

Commit(i) ==
  /\ rep[i].pc = "commit"
  /\ checkpoint' = Reached(i)
  /\ setbacks' = IF Before(Reached(i), checkpoint) THEN setbacks + 1 ELSE setbacks
  /\ Set(i, [rep[i] EXCEPT !.pc = "sleep", !.batch = <<>>, !.done = 0])
  /\ UNCHANGED <<outbox, faults, sent, late>>

\* A statement or the commit fails: rollback, the error is logged.
BatchFails(i) ==
  /\ rep[i].pc \in {"select", "save", "commit"} /\ Fault
  /\ Set(i, [rep[i] EXCEPT !.pc = "sleep", !.batch = <<>>, !.done = 0])
  /\ UNCHANGED <<outbox, checkpoint, sent, history>>

\* The process dies and is started again.
Crash(i) ==
  /\ rep[i].pc # "loop" /\ Fault
  /\ Set(i, Start)
  /\ UNCHANGED <<outbox, checkpoint, sent, history>>

\* _sleep ends with its timeout or with stop().
Wake(i) ==
  /\ rep[i].pc = "sleep"
  /\ Set(i, [rep[i] EXCEPT !.pc = "loop", !.batch = <<>>, !.done = 0])
  /\ UNCHANGED <<outbox, checkpoint, faults, sent, history>>

Stop(i) ==
  /\ i \in Stoppable /\ ~rep[i].stop
  /\ Set(i, [rep[i] EXCEPT !.stop = TRUE])
  /\ UNCHANGED <<outbox, checkpoint, faults, sent, history>>

Exit(i) ==
  /\ rep[i].pc = "loop" /\ rep[i].stop
  /\ Set(i, [rep[i] EXCEPT !.pc = "stopped"])
  /\ UNCHANGED <<outbox, checkpoint, faults, sent, history>>

Step(i) == \/ LoadCheckpoint(i) \/ FetchBatch(i) \/ Forward(i) \/ SaveCheckpoint(i) \/ Commit(i)
           \/ Wake(i) \/ Exit(i)

Next == \/ LocalOutbox
        \/ \E i \in Replicators : Step(i) \/ ForwardFails(i) \/ BatchFails(i) \/ Crash(i) \/ Stop(i)

\* run() loops until it is stopped.
Spec == Init /\ [][Next]_vars /\ \A i \in Replicators : WF_vars(Step(i))

-----------------------------------------------------------------------------
(* Properties                                                              *)

\* "Stop batch on first failure so we don't skip events": no published row at or below
\* the checkpoint is missing in the other region, whatever fails and whoever else
\* serves the target; but a row the relay marks published after a reader has gone past
\* it is behind every later cursor.
SkippedOnlyIfLate ==
  \A x \in Rows : status[x] = "published" /\ UpTo(x, checkpoint) => sent[x] > 0 \/ x \in late

\* _process_one_batch: a row is sent again only for a failure or crash, once for every
\* further process, and when a slower process moves the checkpoint back.
ResendsAccounted ==
  \A x \in Rows : sent[x] <= Cardinality(Replicators) * (1 + setbacks) + faults

\* run(): a published row that is not late reaches the other region, unless every
\* replicator is stopped.
EventuallyForwarded ==
  \A x \in Rows :
    (status[x] = "published" /\ x \notin late) ~> (sent[x] > 0 \/ \A i \in Replicators : rep[i].stop)
=============================================================================
