--------------------------- MODULE ProjectionRunner ---------------------------
(***************************************************************************)
(* qx.projections: runners that poll the event table and drive the         *)
(* registered projections, one transaction per run_once() or rebuild(), and *)
(* the command "qx projections rebuild", which resets a checkpoint.  The   *)
(* read model is written by the projection in transactions of its own; the *)
(* checkpoint belongs to the runner's transaction.                         *)
(***************************************************************************)
EXTENDS Naturals, Sequences, FiniteSets, SequencesExt

CONSTANTS
  Runners,
  Registered,    \* the projections of a runner, in order of registration
  Aggregates,
  BatchSize,     \* batch_size
  Poison,        \* pairs <<projection, row>> whose handler always raises
  NoWrite,       \* the transaction has not written the checkpoint
  MaxLength,     \* bound on the events of an aggregate
  MaxFailures,   \* bound on failures and crashes of runners
  MaxRebuilds,   \* bound on calls of rebuild()
  MaxResets      \* bound on uses of the command

Projections == Range(Registered)
Rows == [agg : Aggregates, sequence : 1..MaxLength]

ASSUME ProjectionAssumption ==
  /\ Registered \in Seq(Projections) /\ Registered # <<>>
  /\ BatchSize \in Nat \ {0}
  /\ MaxLength \in Nat /\ MaxFailures \in Nat /\ MaxRebuilds \in Nat /\ MaxResets \in Nat
  /\ Poison \subseteq Projections \X Rows
  /\ NoWrite \notin Nat

VARIABLES
  length,      \* [Aggregates -> Nat]: the event log, contiguous per aggregate (EventLog)
  checkpoint,  \* [Projections -> Nat]: committed last_sequence, 0 without a row
  model,       \* [Projections -> SUBSET Rows]: events in the read model
  pc,          \* [Runners -> RunPCs]
  current,     \* [Runners -> index of the projection being run]
  rebuilding,  \* [Runners -> BOOLEAN]
  last,        \* [Runners -> last_seq]
  batch,       \* [Runners -> event_rows]
  done,        \* [Runners -> number of rows of the batch already applied]
  written,     \* [Runners -> [Projections -> uncommitted checkpoint or NoWrite]]
  spoiled,     \* SUBSET Projections: history: a rebuild died or overlapped another run
  overtaken,   \* [Projections -> SUBSET Rows]: history: a cursor was past the row when it
               \* was committed, or LIMIT cut it from a row of the same number
  failures, rebuilds, resets

run == <<pc, current, rebuilding, last, batch, done, written>>
counts == <<failures, rebuilds, resets>>
projectionVars == <<length, checkpoint, model, run, spoiled, overtaken, counts>>

RunPCs == {"idle", "zero", "get", "select", "apply", "save", "commit"}

NoWrites == [p \in Projections |-> NoWrite]
Running(r) == Registered[current[r]]
LogRows == {w \in Rows : w.sequence <= length[w.agg]}

ProjectionInit ==
  /\ length = [a \in Aggregates |-> 0]
  /\ checkpoint = [p \in Projections |-> 0]
  /\ model = [p \in Projections |-> {}]
  /\ pc = [r \in Runners |-> "idle"]
  /\ current = [r \in Runners |-> 1]
  /\ rebuilding = [r \in Runners |-> FALSE]
  /\ last = [r \in Runners |-> 0]
  /\ batch = [r \in Runners |-> <<>>]
  /\ done = [r \in Runners |-> 0]
  /\ written = [r \in Runners |-> NoWrites]
  /\ spoiled = {}
  /\ overtaken = [p \in Projections |-> {}]
  /\ failures = 0 /\ rebuilds = 0 /\ resets = 0

EventRow(a, k) == [agg |-> a, sequence |-> k]

\* How far the cursors of a projection have come: the committed checkpoint, the
\* uncommitted ones, and those of the runs that have begun to read.
Reached(p) ==
  {checkpoint[p]} \cup ({written[r][p] : r \in Runners} \ {NoWrite})
    \cup {last[r] : r \in {r \in Runners : Running(r) = p /\ pc[r] = "select"}}
    \cup {Last(batch[r]).sequence : r \in {r \in Runners : Running(r) = p /\ pc[r] \in {"apply", "save"}}}

\* An aggregate's next event is committed.
AppendEvent(a) ==
  LET next == length[a] + 1
      passed(p) == IF \E n \in Reached(p) : next <= n THEN {EventRow(a, next)} ELSE {}
  IN
  /\ length[a] < MaxLength
  /\ length' = [length EXCEPT ![a] = next]
  /\ overtaken' = [p \in Projections |-> overtaken[p] \cup passed(p)]
  /\ UNCHANGED <<checkpoint, model, run, spoiled, counts>>

-----------------------------------------------------------------------------
(* run_once() and rebuild()                                                *)

\* run_once: the loop over the registered projections begins.
RunOnce(r) ==
  /\ pc[r] = "idle"
  /\ pc' = [pc EXCEPT ![r] = "get"]
  /\ spoiled' = spoiled \cup {Running(q) : q \in {q \in Runners : rebuilding[q]}}
  /\ UNCHANGED <<length, checkpoint, model, current, rebuilding, last, batch, done, written, overtaken, counts>>

\* rebuild: projection.reset() empties the read model at once.
Rebuild(r, i) ==
  /\ pc[r] = "idle" /\ rebuilds < MaxRebuilds
  /\ rebuilds' = rebuilds + 1
  /\ model' = [model EXCEPT ![Registered[i]] = {}]
  /\ current' = [current EXCEPT ![r] = i]
  /\ rebuilding' = [rebuilding EXCEPT ![r] = TRUE]
  /\ pc' = [pc EXCEPT ![r] = "zero"]
  /\ spoiled' = IF \E q \in Runners : pc[q] # "idle" THEN spoiled \cup {Registered[i]} ELSE spoiled
  /\ UNCHANGED <<length, checkpoint, last, batch, done, written, overtaken, failures, resets>>

\* The upsert waits for another transaction that has written the row.
RowFree(r, p) == \A q \in Runners \ {r} : written[q][p] = NoWrite

\* _set_checkpoint(0), then _run_projection with from_sequence=0.
RebuildZero(r) ==
  /\ pc[r] = "zero" /\ RowFree(r, Running(r))
  /\ written' = [written EXCEPT ![r][Running(r)] = 0]
  /\ last' = [last EXCEPT ![r] = 0]
  /\ pc' = [pc EXCEPT ![r] = "select"]
  /\ UNCHANGED <<length, checkpoint, model, current, rebuilding, batch, done, spoiled, overtaken, counts>>

GetCheckpoint(r) ==
  /\ pc[r] = "get"
  /\ last' = [last EXCEPT ![r] = checkpoint[Running(r)]]
  /\ pc' = [pc EXCEPT ![r] = "select"]
  /\ UNCHANGED <<length, checkpoint, model, current, rebuilding, batch, done, written, spoiled, overtaken, counts>>

\* Mutant of Fetched: "sequence > last_seq + 1".
FetchedOffByOne(b, from) ==
  LET new == {w \in LogRows : w.sequence > from + 1} IN
  /\ Range(b) \subseteq new /\ IsInjective(b)
  /\ Len(b) = IF Cardinality(new) < BatchSize THEN Cardinality(new) ELSE BatchSize
  /\ \A i \in DOMAIN b : \A w \in new : w.sequence < b[i].sequence => \E j \in 1..(i - 1) : b[j] = w

\* The SELECT: rows above the cursor by sequence, ties in any order, LIMIT.
Fetched(b, from) ==
  LET new == {w \in LogRows : w.sequence > from} IN
  /\ Range(b) \subseteq new /\ IsInjective(b)
  /\ Len(b) = IF Cardinality(new) < BatchSize THEN Cardinality(new) ELSE BatchSize
  /\ \A i \in DOMAIN b : \A w \in new : w.sequence < b[i].sequence => \E j \in 1..(i - 1) : b[j] = w

\* What follows a projection: the next one of run_once, or the end of the session.
Onward(r) ==
  IF rebuilding[r] \/ current[r] = Len(Registered)
  THEN pc' = [pc EXCEPT ![r] = "commit"] /\ UNCHANGED current
  ELSE pc' = [pc EXCEPT ![r] = "get"] /\ current' = [current EXCEPT ![r] = @ + 1]

\* The rows that LIMIT cuts from the last row of a batch, whose number they have.
CutTies(b) == {w \in LogRows \ Range(b) : b # <<>> /\ w.sequence = Last(b).sequence}

Select(r) ==
  /\ pc[r] = "select"
  /\ \E b \in SeqOf(LogRows, BatchSize) :
       /\ Fetched(b, last[r])
       /\ batch' = [batch EXCEPT ![r] = b]
       /\ overtaken' = [overtaken EXCEPT ![Running(r)] = @ \cup CutTies(b)]
       /\ IF b = <<>> THEN Onward(r) ELSE pc' = [pc EXCEPT ![r] = "apply"] /\ UNCHANGED current
  /\ done' = [done EXCEPT ![r] = 0]
  /\ UNCHANGED <<length, checkpoint, model, rebuilding, last, written, spoiled, counts>>

\* projection.apply() of the next row.
Apply(r) ==
  /\ pc[r] = "apply"
  /\ LET w == batch[r][done[r] + 1] IN
       /\ <<Running(r), w>> \notin Poison
       /\ model' = [model EXCEPT ![Running(r)] = @ \cup {w}]
  /\ done' = [done EXCEPT ![r] = @ + 1]
  /\ pc' = [pc EXCEPT ![r] = IF done[r] + 1 = Len(batch[r]) THEN "save" ELSE "apply"]
  /\ UNCHANGED <<length, checkpoint, current, rebuilding, last, batch, written, spoiled, overtaken, counts>>

\* Mutant of NewCheckpoint: the checkpoint counts one row too many.
NewCheckpointPast(r) == Last(batch[r]).sequence + 1

\* "int(event_rows[-1]["sequence"])"
NewCheckpoint(r) == Last(batch[r]).sequence

SetCheckpoint(r) ==
  /\ pc[r] = "save" /\ RowFree(r, Running(r))
  /\ written' = [written EXCEPT ![r][Running(r)] = NewCheckpoint(r)]
  /\ batch' = [batch EXCEPT ![r] = <<>>]
  /\ done' = [done EXCEPT ![r] = 0]
  /\ last' = [last EXCEPT ![r] = 0]
  /\ Onward(r)
  /\ UNCHANGED <<length, checkpoint, model, rebuilding, spoiled, overtaken, counts>>

\* The locals of the run are gone.
EndRun(r) ==
  /\ pc' = [pc EXCEPT ![r] = "idle"]
  /\ rebuilding' = [rebuilding EXCEPT ![r] = FALSE]
  /\ written' = [written EXCEPT ![r] = NoWrites]
  /\ current' = [current EXCEPT ![r] = 1]
  /\ last' = [last EXCEPT ![r] = 0]
  /\ batch' = [batch EXCEPT ![r] = <<>>]
  /\ done' = [done EXCEPT ![r] = 0]
  /\ UNCHANGED <<length, model, overtaken, rebuilds, resets>>

\* The caller commits the session.
Commit(r) ==
  /\ pc[r] = "commit"
  /\ checkpoint' = [p \in Projections |-> IF written[r][p] = NoWrite THEN checkpoint[p] ELSE written[r][p]]
  /\ EndRun(r)
  /\ UNCHANGED <<spoiled, failures>>

\* The session rolls back.
Rollback(r) ==
  /\ EndRun(r)
  /\ spoiled' = IF rebuilding[r] THEN spoiled \cup {Running(r)} ELSE spoiled
  /\ UNCHANGED checkpoint

\* The handler raises: the exception leaves run_once and the session rolls back,
\* with the checkpoints of the projections before this one.
ApplyRaises(r) ==
  /\ pc[r] = "apply" /\ <<Running(r), batch[r][done[r] + 1]>> \in Poison
  /\ Rollback(r)
  /\ UNCHANGED failures

\* Any other failure, or the death of the process: rollback.
Fail(r) ==
  /\ pc[r] # "idle" /\ failures < MaxFailures
  /\ failures' = failures + 1
  /\ Rollback(r)

\* "qx projections rebuild": one transaction that sets the checkpoint to 0.
CliReset(p) ==
  /\ resets < MaxResets /\ \A r \in Runners : written[r][p] = NoWrite
  /\ resets' = resets + 1
  /\ checkpoint' = [checkpoint EXCEPT ![p] = 0]
  /\ UNCHANGED <<length, model, run, spoiled, overtaken, failures, rebuilds>>

\* "qx projections status": MAX(sequence) over the event table less the checkpoint.
Lag(p) ==
  LET sequences == {0} \cup {w.sequence : w \in LogRows}
  IN  Max(sequences) - checkpoint[p]

-----------------------------------------------------------------------------
RunStep(r) ==
  \/ RunOnce(r) \/ GetCheckpoint(r) \/ Select(r) \/ Apply(r) \/ SetCheckpoint(r)
  \/ Commit(r) \/ ApplyRaises(r) \/ RebuildZero(r)

ProjectionNext ==
  \/ \E a \in Aggregates : AppendEvent(a)
  \/ \E r \in Runners : RunStep(r) \/ Fail(r) \/ \E i \in DOMAIN Registered : Rebuild(r, i)
  \/ \E p \in Projections : CliReset(p)

ProjectionSpec == ProjectionInit /\ [][ProjectionNext]_projectionVars

\* The polling loop calls run_once() for ever; a transaction that waits for a row
\* lock gets it (the server grants it in order of arrival).
FairProjectionSpec ==
  /\ ProjectionSpec
  /\ \A r \in Runners :
       /\ WF_projectionVars(RunStep(r))
       /\ SF_projectionVars(SetCheckpoint(r)) /\ SF_projectionVars(RebuildZero(r))

-----------------------------------------------------------------------------
(* Properties                                                              *)

\* What of an aggregate's stream is neither in the read model nor was overtaken.
Behind(p, a) == {w \in LogRows \ (model[p] \cup overtaken[p]) : w.agg = a}

\* Whatever runners overlap, fail or are reset: no row at or below a committed
\* checkpoint is missing from the read model, unless it was overtaken; an event is
\* overtaken only by one of another aggregate that has the same sequence number or a
\* higher one, never within its own stream; and what the status command reports as
\* lag covers what is missing of each stream.  Excepted are a rebuild in progress,
\* which has emptied the read model, and one that died before its commit or overlapped
\* another run.
NoSkip ==
  \A p \in Projections :
    /\ \A w \in overtaken[p] : \E v \in LogRows : v.agg # w.agg /\ v.sequence >= w.sequence
    /\ \/ p \in spoiled \/ \E r \in Runners : rebuilding[r] /\ Running(r) = p
       \/ /\ {w \in LogRows : w.sequence <= checkpoint[p]} \subseteq model[p] \cup overtaken[p]
          /\ \A a \in Aggregates : Cardinality(Behind(p, a)) <= Lag(p)

\* "processes all events since the last checkpoint": a committed event reaches the read
\* model of every projection, unless it was overtaken or a rebuild spoiled the
\* projection.  An event that some projection cannot handle holds back only events
\* that are not before it, but those of every projection: the transaction is shared.
EventuallyApplied ==
  \A p \in Projections : \A w \in Rows :
    (w \in LogRows /\ \A bad \in Poison : bad[2].sequence > w.sequence)
      ~> (w \in model[p] \cup overtaken[p] \/ p \in spoiled)
=============================================================================
