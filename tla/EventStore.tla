------------------------------ MODULE EventStore ------------------------------
(***************************************************************************)
(* qx.eventstore: event-sourced aggregates kept as rows of the table       *)
(* qx_aggregate_events (unique on aggregate and sequence) with an optional *)
(* snapshot row each.  Callers load an aggregate, record events on the     *)
(* instance and append them, each in a database transaction of its own at  *)
(* READ COMMITTED.  The value of a field is the sequence of the events     *)
(* whose apply_ method wrote it, the finest value those can compute from   *)
(* an event and the field.  A snapshot keeps some fields and loses others. *)
(***************************************************************************)
EXTENDS Integers, Sequences, FiniteSets, SequencesExt

CONSTANTS
  Callers,
  Aggregates,
  DomainEvents,
  Fields,         \* attributes of the aggregates, besides id, version and _pending_events
  Applies,        \* [DomainEvents -> SUBSET Fields]: what the apply_ method writes, {} without one
  Kept,           \* [Aggregates -> SUBSET Fields]: the dataclass fields of its class without a
                  \* leading "_": none when the subclass is not itself decorated with @dataclass
  NoSnapshot,     \* the aggregate has no snapshot row
  NoView,         \* see EventLog
  SnapshotEvery,  \* snapshot_every
  MaxVersion,     \* [Aggregates -> Nat]: bound on the events of a stream
  MaxPending,     \* bound on the events recorded between two appends
  MaxRollbacks    \* bound on transactions that fail after a successful append()

ASSUME EventStoreAssumption ==
  /\ Applies \in [DomainEvents -> SUBSET Fields]
  /\ Kept \in [Aggregates -> SUBSET Fields]
  /\ SnapshotEvery \in Nat \ {0}
  /\ NoView \notin [agg : Aggregates, length : Nat]
  /\ MaxVersion \in [Aggregates -> Nat] /\ MaxPending \in Nat /\ MaxRollbacks \in Nat

VARIABLES
  rows,      \* committed rows [agg, sequence, event]
  snapshot,  \* [Aggregates -> NoSnapshot or [version, state]]: committed snapshots
  pc,        \* [Callers -> PCs]
  inst,      \* [Callers -> the loaded instance: agg, version, state, _pending_events, and the
             \* history variable restored: it was built from a snapshot]
  tx,        \* [Callers -> rows and snapshot written by the open transaction]
  rollbacks

storeVars == <<rows, snapshot, pc, inst, tx, rollbacks>>

\* loading: between the two SELECTs of load(); aborted: PostgreSQL refuses
\* everything but ROLLBACK after a failed statement
PCs == {"idle", "loading", "ready", "aborted"}

Row(a, n, e) == [agg |-> a, sequence |-> n, event |-> e]
EmptyTx == [rows |-> {}, snapshot |-> NoSnapshot]

\* Every field has its default.
Blank == [f \in Fields |-> <<>>]
NewInstance(a) == [agg |-> a, version |-> 0, state |-> Blank, pending |-> <<>>, restored |-> FALSE]

EventStoreInit ==
  /\ rows = {}
  /\ snapshot = [a \in Aggregates |-> NoSnapshot]
  /\ pc = [c \in Callers |-> "idle"]
  /\ inst = [c \in Callers |-> NewInstance(CHOOSE a \in Aggregates : TRUE)]
  /\ tx = [c \in Callers |-> EmptyTx]
  /\ rollbacks = 0

-----------------------------------------------------------------------------
(* EventSourcedAggregate                                                   *)

\* _apply: an event without an apply_ method changes nothing.
ApplyEvent(state, e) ==
  [f \in Fields |-> IF f \in Applies[e] THEN Append(state[f], e) ELSE state[f]]

Replay(events, state) ==
  LET after[n \in 0..Len(events)] == IF n = 0 THEN state ELSE ApplyEvent(after[n - 1], events[n])
  IN after[Len(events)]

\* _replay: the events are applied, not recorded.
Replayed(i, events, version) ==
  [i EXCEPT !.state = Replay(events, @), !.version = version]

\* _from_events
FromEvents(a, events, version) == Replayed(NewInstance(a), events, version)

\* pull_events
PullEvents(i) == [i EXCEPT !.pending = <<>>]

-----------------------------------------------------------------------------
(* load()                                                                  *)

\* _restore_from_snapshot: a field that the stored state lacks gets its default.
Restored(a, snap) ==
  [agg |-> a, version |-> snap.version, pending |-> <<>>, restored |-> TRUE,
   state |-> [f \in Fields |-> IF f \in DOMAIN snap.state THEN snap.state[f] ELSE Blank[f]]]

\* The first SELECT; without a snapshot _from_events, or a new instance made by the
\* caller when load() returns None, start from nothing.
LoadSnapshot(c, a) ==
  /\ pc[c] = "idle"
  /\ inst' = [inst EXCEPT ![c] =
       IF snapshot[a] = NoSnapshot THEN NewInstance(a) ELSE Restored(a, snapshot[a])]
  /\ pc' = [pc EXCEPT ![c] = "loading"]
  /\ UNCHANGED <<rows, snapshot, tx, rollbacks>>

\* Mutant of TailRows: the WHERE clause lacks the aggregate.
TailRowsOfAll(a, version) == {r \in rows : r.sequence > version}

\* The rows the second SELECT returns.
TailRows(a, version) == {r \in rows : r.agg = a /\ r.sequence > version}

\* ORDER BY sequence: the i-th row has fewer than i rows before it.
InOrder(rs) ==
  [i \in 1..Cardinality(rs) |-> CHOOSE r \in rs :
     /\ Cardinality({s \in rs : s.sequence < r.sequence}) < i
     /\ Cardinality({s \in rs : s.sequence <= r.sequence}) >= i]
EventsOf(rs) == [i \in 1..Cardinality(rs) |-> InOrder(rs)[i].event]

\* The tail is replayed onto the restored snapshot, or the whole stream onto a new
\* instance; the version becomes that of the last row.
LoadEvents(c) ==
  /\ pc[c] = "loading"
  /\ LET i == inst[c]
         tail == TailRows(i.agg, i.version)
         version == IF tail = {} THEN i.version ELSE Last(InOrder(tail)).sequence IN
       inst' = [inst EXCEPT ![c] = IF i.version = 0 THEN FromEvents(i.agg, EventsOf(tail), version)
                                   ELSE Replayed(i, EventsOf(tail), version)]
  /\ pc' = [pc EXCEPT ![c] = "ready"]
  /\ UNCHANGED <<rows, snapshot, tx, rollbacks>>

-----------------------------------------------------------------------------
(* record_event() and append()                                             *)

RecordEvent(c, e) ==
  /\ pc[c] = "ready"
  /\ Len(inst[c].pending) < MaxPending
  /\ inst[c].version + Len(inst[c].pending) < MaxVersion[inst[c].agg]
  /\ inst' = [inst EXCEPT ![c].pending = Append(@, e), ![c].state = ApplyEvent(@, e)]
  /\ UNCHANGED <<rows, snapshot, pc, tx, rollbacks>>

\* The rows append() inserts.
NewRows(c) ==
  {Row(inst[c].agg, inst[c].version + i, inst[c].pending[i]) : i \in 1..Len(inst[c].pending)}

\* Mutant of Clashes: the index on (aggregate_type, aggregate_id, sequence) is not unique.
ClashesNever(rs, new) == FALSE

\* The unique index.
Clashes(rs, new) == \E r \in rs, n \in new : r.agg = n.agg /\ r.sequence = n.sequence

\* A row another open transaction has inserted makes the INSERT wait for its end.
Waits(c) == \E d \in Callers \ {c} : Clashes(tx[d].rows, NewRows(c))

\* Nothing is pending: append() reports the version of the instance.
AppendNothing(c) ==
  /\ pc[c] = "ready" /\ inst[c].pending = <<>>
  /\ UNCHANGED storeVars

\* _serialize_aggregate: of an instance's fields only those of the dataclass are stored.
Serialized(a, state) == [f \in Kept[a] |-> state[f]]

\* Mutant of Snapshotted: the snapshot is taken before aggregate.version is set.
SnapshottedEarly(c, new) ==
  [version |-> inst[c].version, state |-> Serialized(inst[c].agg, inst[c].state)]

\* The row _save_snapshot upserts after the version was set to new.
Snapshotted(c, new) == [version |-> new, state |-> Serialized(inst[c].agg, inst[c].state)]

\* pull_events, the INSERT, and the snapshot when the new version is a multiple.
AppendEvents(c) ==
  /\ pc[c] = "ready" /\ inst[c].pending # <<>>
  /\ ~Waits(c) /\ ~Clashes(rows \cup tx[c].rows, NewRows(c))
  /\ LET new == inst[c].version + Len(inst[c].pending) IN
       /\ tx' = [tx EXCEPT ![c].rows = @ \cup NewRows(c),
                           ![c].snapshot = IF new % SnapshotEvery = 0 THEN Snapshotted(c, new) ELSE @]
       /\ inst' = [inst EXCEPT ![c] = [PullEvents(@) EXCEPT !.version = new]]
  /\ UNCHANGED <<rows, snapshot, pc, rollbacks>>

\* The INSERT hits the unique index: ConflictError.  The events were already pulled.
AppendConflict(c) ==
  /\ pc[c] = "ready" /\ inst[c].pending # <<>>
  /\ ~Waits(c) /\ Clashes(rows \cup tx[c].rows, NewRows(c))
  /\ inst' = [inst EXCEPT ![c] = PullEvents(@)]
  /\ pc' = [pc EXCEPT ![c] = "aborted"]
  /\ UNCHANGED <<rows, snapshot, tx, rollbacks>>

-----------------------------------------------------------------------------
(* The caller's transaction                                                *)

\* The instance stays usable after the commit.
CommitTx(c) ==
  /\ pc[c] = "ready" /\ tx[c] # EmptyTx
  /\ rows' = rows \cup tx[c].rows
  /\ snapshot' = [snapshot EXCEPT ![inst[c].agg] = IF tx[c].snapshot = NoSnapshot THEN @ ELSE tx[c].snapshot]
  /\ tx' = [tx EXCEPT ![c] = EmptyTx]
  /\ UNCHANGED <<pc, inst, rollbacks>>

\* ROLLBACK after a conflict, an error or a crash; the instance goes with it.
Rollback(c) ==
  /\ pc[c] # "idle" /\ (pc[c] = "aborted" \/ tx[c] # EmptyTx)
  /\ IF pc[c] = "aborted" THEN UNCHANGED rollbacks
     ELSE rollbacks < MaxRollbacks /\ rollbacks' = rollbacks + 1
  /\ tx' = [tx EXCEPT ![c] = EmptyTx]
  /\ pc' = [pc EXCEPT ![c] = "idle"]
  /\ UNCHANGED <<rows, snapshot, inst>>

\* The caller drops an instance it has no transaction open for.
Discard(c) ==
  /\ pc[c] = "ready" /\ tx[c] = EmptyTx
  /\ pc' = [pc EXCEPT ![c] = "idle"]
  /\ UNCHANGED <<rows, snapshot, inst, tx, rollbacks>>

-----------------------------------------------------------------------------
EventStoreNext ==
  \E c \in Callers :
    \/ \E a \in Aggregates : LoadSnapshot(c, a)
    \/ LoadEvents(c)
    \/ \E e \in DomainEvents : RecordEvent(c, e)
    \/ AppendNothing(c) \/ AppendEvents(c) \/ AppendConflict(c)
    \/ CommitTx(c) \/ Rollback(c) \/ Discard(c)

EventStoreSpec == EventStoreInit /\ [][EventStoreNext]_storeVars

-----------------------------------------------------------------------------
(* Properties                                                              *)

Committed(a) == {r \in rows : r.agg = a}

\* The fields that know the whole stream: behind a snapshot those it keeps.
Known(i) == IF i.restored THEN Kept[i.agg] ELSE Fields

\* An instance, whether it came from a snapshot and its tail or from all events, is the
\* replay of the stream up to its version, followed by what it has pending, also when
\* others committed between the two SELECTs of load(): field by field, and of an instance
\* built from a snapshot only in the fields that snapshots keep.  (The others start from
\* their defaults again and miss every event before the snapshot.)
InstanceIsReplay ==
  \A c \in Callers : pc[c] = "ready" =>
    LET mine == {r \in rows \cup tx[c].rows : r.agg = inst[c].agg /\ r.sequence <= inst[c].version}
    IN \A f \in Known(inst[c]) :
         inst[c].state[f] = Replay(EventsOf(mine) \o inst[c].pending, Blank)[f]

\* The fields of a committed snapshot are those of the replay of the stream up to its
\* version, also when the instance it was taken of came from an earlier snapshot.
SnapshotFaithful ==
  \A a \in Aggregates : snapshot[a] # NoSnapshot =>
    snapshot[a].state =
      Serialized(a, Replay(EventsOf({r \in Committed(a) : r.sequence <= snapshot[a].version}), Blank))

\* The committed streams and what each caller has seen of them.
Log == INSTANCE EventLog WITH
  Writers <- Callers,
  Events  <- DomainEvents,
  stream  <- [a \in Aggregates |-> EventsOf(Committed(a))],
  seen    <- [c \in Callers |->
                IF pc[c] # "ready" THEN NoView
                ELSE [agg |-> inst[c].agg, length |-> inst[c].version - Cardinality(tx[c].rows)]]

\* The store implements the append-only log: no append is based on a stale stream.
ImplementsLog == Log!LogSpec

=============================================================================
