----------------------------- MODULE SagaManager -----------------------------
(***************************************************************************)
(* qx.saga: SagaManager and SagaStore for the instance of one saga class   *)
(* with one correlation key.  Workers handle deliveries of integration     *)
(* events, tickers look for timed-out instances; each works in a database  *)
(* transaction that its caller commits.  The saga state is the set of the  *)
(* events whose handlers have contributed to it.                           *)
(***************************************************************************)
EXTENDS Naturals, FiniteSets

CONSTANTS
  Deliveries,   \* deliveries of messages to workers
  Events,
  EventOf,      \* [Deliveries -> Events]: a redelivery carries the same event
  OwnHandlers,  \* events the saga class itself handles with @on
  BaseHandlers, \* events its base classes handle
  Tickers,      \* background tasks calling tick_timeouts()
  UseLock,      \* whether a lock_factory is configured
  Free,         \* the lock's key does not exist
  NoRow,        \* there is no saga row; the transaction has written nothing
  MaxAttempts,  \* compensate_max_attempts
  MaxFaults,    \* bound on crashes and on locks that expire under their holder
  MaxAges       \* bound on how often the row grows older than the timeout

Terminal == {"completed", "failed", "compensated"}
RowSet == [status : {"running"} \cup Terminal, state : SUBSET Events, version : Nat, old : BOOLEAN]

ASSUME SagaAssumption ==
  /\ NoRow \notin RowSet
  /\ EventOf \in [Deliveries -> Events]
  /\ OwnHandlers \subseteq Events /\ BaseHandlers \subseteq Events
  /\ Deliveries \cap Tickers = {}
  /\ Free \notin Tickers
  /\ UseLock \in BOOLEAN
  /\ MaxAttempts \in Nat \ {0} /\ MaxFaults \in Nat /\ MaxAges \in Nat

INSTANCE DistributedLockOps

VARIABLES
  row,          \* committed row: NoRow or [status, state, version, old]
  pc,           \* [Processes -> PCs]
  instance,     \* [Processes -> the loaded SagaInstance or NoRow]
  saga,         \* [Processes -> [state, status]]: the hydrated saga and new_status
  attempts,     \* [Processes -> calls of compensate()]
  tx,           \* [Processes -> uncommitted row or NoRow]
  lock,         \* value of the timeout lock's key
  overrun,      \* history: a lock expired under its holder
  faults, ages

vars == <<row, pc, instance, saga, attempts, tx, lock, overrun, faults, ages>>

Processes == Deliveries \cup Tickers
PCs == {"new", "create", "lock", "handle", "compensate", "save", "release", "commit", "end"}

RowOf(status, state, version) ==
  [status |-> status, state |-> state, version |-> version, old |-> FALSE]
NewSaga == [state |-> {}, status |-> "running"]

Init ==
  /\ row = NoRow
  /\ pc = [p \in Processes |-> "new"]
  /\ instance = [p \in Processes |-> NoRow]
  /\ saga = [p \in Processes |-> NewSaga]
  /\ attempts = [p \in Processes |-> 0]
  /\ tx = [p \in Processes |-> NoRow]
  /\ lock = Free
  /\ overrun = FALSE
  /\ faults = 0 /\ ages = 0

Goto(p, to) == pc' = [pc EXCEPT ![p] = to]

\* PostgreSQL: an INSERT of the same key, or an UPDATE of the row, waits for the
\* transaction that has written it.
RowFree(p) == \A q \in Processes \ {p} : tx[q] = NoRow

-----------------------------------------------------------------------------
(* handle() / _dispatch_to()                                               *)

\* is_terminal
Done(r) == r.status \in Terminal

\* The handler table SagaMeta builds: a class inherits what it does not override.
Handlers == OwnHandlers \cup BaseHandlers

\* No handler for the event: the saga is passed over, the caller commits nothing and the
\* delivery is acked.
Skip(d) ==
  /\ d \in Deliveries /\ pc[d] = "new" /\ EventOf[d] \notin Handlers
  /\ Goto(d, "end")
  /\ UNCHANGED <<row, instance, saga, attempts, tx, lock, overrun, faults, ages>>

Load(d) ==
  /\ d \in Deliveries /\ pc[d] = "new" /\ EventOf[d] \in Handlers
  /\ instance' = [instance EXCEPT ![d] = row]
  /\ IF row = NoRow
     THEN Goto(d, "create") /\ UNCHANGED saga
     ELSE /\ saga' = [saga EXCEPT ![d] = [NewSaga EXCEPT !.state = row.state]]
          /\ Goto(d, IF Done(row) THEN "commit" ELSE "handle")
  /\ UNCHANGED <<row, attempts, tx, lock, overrun, faults, ages>>

\* The first event for the key.  On a unique violation the manager just returns.
Create(d) ==
  /\ pc[d] = "create" /\ RowFree(d)
  /\ IF row # NoRow
     THEN Goto(d, "commit") /\ UNCHANGED <<instance, saga, tx>>
     ELSE /\ tx' = [tx EXCEPT ![d] = RowOf("running", {}, 0)]
          /\ instance' = [instance EXCEPT ![d] = RowOf("running", {}, 0)]
          /\ saga' = [saga EXCEPT ![d] = NewSaga]
          /\ Goto(d, "handle")
  /\ UNCHANGED <<row, attempts, lock, overrun, faults, ages>>

\* mark_failed() or an exception.
NeedsCompensation(outcome) == outcome \in {"failed", "raised"}

\* saga.handle(event): the handler ends in one of four ways; one that raises does so
\* before it has changed the state.
Handle(d, outcome) ==
  /\ d \in Deliveries /\ pc[d] = "handle"
  /\ saga' = [saga EXCEPT
       ![d].state = IF outcome = "raised" THEN @ ELSE @ \cup {EventOf[d]},
       ![d].status = IF outcome \in {"failed", "raised"} THEN "compensated" ELSE outcome]
  /\ Goto(d, IF NeedsCompensation(outcome) THEN "compensate" ELSE "save")
  /\ UNCHANGED <<row, instance, attempts, tx, lock, overrun, faults, ages>>

\* The attempt under way is the last one.
Exhausted(p) == attempts[p] + 1 >= MaxAttempts

\* One attempt of _compensate_with_retry; the last failure is swallowed.
Compensate(p, succeeds) ==
  /\ pc[p] = "compensate"
  /\ attempts' = [attempts EXCEPT ![p] = @ + 1]
  /\ Goto(p, IF succeeds \/ Exhausted(p) THEN "save" ELSE "compensate")
  /\ UNCHANGED <<row, instance, saga, tx, lock, overrun, faults, ages>>

-----------------------------------------------------------------------------
(* save()                                                                  *)

\* Mutant of Matches: the UPDATE does not compare the version.
MatchesAnyVersion(p, r) == r # NoRow

\* The row the UPDATE of p finds: id and version.
Matches(p, r) == r # NoRow /\ r.version = instance[p].version

\* The Result of save() is ignored: a conflict goes unnoticed.
Save(p) ==
  /\ pc[p] = "save" /\ RowFree(p)
  /\ tx' = [tx EXCEPT ![p] =
       IF Matches(p, IF tx[p] # NoRow THEN tx[p] ELSE row)
       THEN RowOf(saga[p].status, saga[p].state, instance[p].version + 1)
       ELSE @]
  /\ Goto(p, IF p \in Tickers /\ UseLock THEN "release" ELSE "commit")
  /\ UNCHANGED <<row, instance, saga, attempts, lock, overrun, faults, ages>>

\* The caller commits; a delivery is acked, a ticker sleeps until its next tick.
Commit(p) ==
  /\ pc[p] = "commit"
  /\ row' = IF tx[p] = NoRow THEN row ELSE tx[p]
  /\ tx' = [tx EXCEPT ![p] = NoRow]
  /\ attempts' = [attempts EXCEPT ![p] = 0]
  /\ Goto(p, IF p \in Tickers THEN "new" ELSE "end")
  /\ UNCHANGED <<instance, saga, lock, overrun, faults, ages>>

-----------------------------------------------------------------------------
(* tick_timeouts()                                                         *)

\* Mutant of TimedOut: the query asks for failed instances.
TimedOutFailed == row # NoRow /\ row.status = "failed" /\ row.old

\* load_timed_out: running and updated before the threshold.
TimedOut == row # NoRow /\ row.status = "running" /\ row.old

Tick(t) ==
  /\ t \in Tickers /\ pc[t] = "new" /\ TimedOut
  /\ instance' = [instance EXCEPT ![t] = row]
  /\ saga' = [saga EXCEPT ![t] = [NewSaga EXCEPT !.state = row.state]]
  /\ Goto(t, IF UseLock THEN "lock" ELSE "handle")
  /\ UNCHANGED <<row, attempts, tx, lock, overrun, faults, ages>>

\* Mutant of Enters: "held" is not tested.
EntersAlways(t) == TRUE

\* The lock was acquired.
Enters(t) == lock = Free

AcquireLock(t) ==
  /\ pc[t] = "lock"
  /\ lock' = SetNX(lock, t)
  /\ Goto(t, IF Enters(t) THEN "handle" ELSE "commit")
  /\ UNCHANGED <<row, instance, saga, attempts, tx, overrun, faults, ages>>

\* The timeout handler: mark_failed() is persisted as compensated without a call of
\* compensate().
RunTimeout(t, outcome) ==
  /\ t \in Tickers /\ pc[t] = "handle"
  /\ saga' = [saga EXCEPT ![t].status = IF outcome \in {"failed", "raised"} THEN "compensated" ELSE outcome]
  /\ Goto(t, IF outcome = "raised" THEN "compensate" ELSE "save")
  /\ UNCHANGED <<row, instance, attempts, tx, lock, overrun, faults, ages>>

ReleaseLock(t) ==
  /\ pc[t] = "release"
  /\ lock' = CompareAndDelete(lock, t)
  /\ Goto(t, "commit")
  /\ UNCHANGED <<row, instance, saga, attempts, tx, overrun, faults, ages>>

-----------------------------------------------------------------------------
(* Time and failures                                                       *)

\* The row has not been updated for longer than the timeout.
GrowOld ==
  /\ row # NoRow /\ ~row.old /\ ages < MaxAges
  /\ ages' = ages + 1
  /\ row' = [row EXCEPT !.old = TRUE]
  /\ UNCHANGED <<pc, instance, saga, attempts, tx, lock, overrun, faults>>

Inside(t) == t \in Tickers /\ pc[t] \in {"handle", "compensate", "save", "release"}

\* The TTL of the lock ends: for a holder that has crashed, or, a fault, under one
\* that takes longer than the TTL.
LockExpires ==
  /\ lock # Free
  /\ IF Inside(lock) THEN faults < MaxFaults /\ faults' = faults + 1 /\ overrun' = TRUE
     ELSE UNCHANGED <<faults, overrun>>
  /\ lock' = Free
  /\ UNCHANGED <<row, pc, instance, saga, attempts, tx, ages>>

\* A crash or a database error: rollback; a delivery is redelivered.
Crash(p) ==
  /\ pc[p] \notin {"new", "end"} /\ faults < MaxFaults
  /\ faults' = faults + 1
  /\ tx' = [tx EXCEPT ![p] = NoRow]
  /\ attempts' = [attempts EXCEPT ![p] = 0]
  /\ Goto(p, "new")
  /\ UNCHANGED <<row, instance, saga, lock, overrun, ages>>

-----------------------------------------------------------------------------
Outcomes == {"running", "completed", "failed", "raised"}

Step(p) ==
  \/ Skip(p) \/ Load(p) \/ Create(p) \/ (\E o \in Outcomes : Handle(p, o))
  \/ (\E b \in BOOLEAN : Compensate(p, b)) \/ Save(p) \/ Commit(p)
  \/ Tick(p) \/ AcquireLock(p) \/ (\E o \in Outcomes : RunTimeout(p, o)) \/ ReleaseLock(p)

Quiet ==
  /\ \A d \in Deliveries : pc[d] = "end"
  /\ \A t \in Tickers : pc[t] = "new"
  /\ ~TimedOut /\ UNCHANGED vars

Next == (\E p \in Processes : Step(p) \/ Crash(p)) \/ GrowOld \/ LockExpires \/ Quiet

Spec == Init /\ [][Next]_vars

\* Workers and tickers keep running, Redis expires the key of a dead holder.
FairSpec == Spec /\ (\A p \in Processes : WF_vars(Step(p))) /\ WF_vars(LockExpires)

-----------------------------------------------------------------------------
(* Properties                                                              *)

\* A saga that is completed or compensated stays as it is, whatever deliveries and
\* timeouts that loaded it earlier still save.
TerminalIsFinal ==
  [][row # NoRow /\ row.status \in Terminal =>
       row' # NoRow /\ row'.status = row.status /\ row'.state = row.state]_vars

\* No save overwrites what another one has recorded in the saga state.
NoLostUpdate ==
  [][row # NoRow => row' # NoRow /\ row.state \subseteq row'.state /\ row'.version \in {row.version, row.version + 1}]_vars

\* Two tickers are never inside the timeout handler of the instance together, as
\* long as no holder outlives the TTL of its lock.
TimeoutsExclusive ==
  \A t, u \in Tickers : Inside(t) /\ Inside(u) /\ ~overrun => t = u

\* A timed-out instance is eventually taken care of, also when the ticker holding
\* its lock dies.
TimeoutServed ==
  LET overdue == row # NoRow /\ row.status = "running" /\ row.old IN overdue ~> ~overdue
=============================================================================
