--------------------------- MODULE CommandPipeline ---------------------------
(***************************************************************************)
(* Commands sent to the Mediator, on their way through the recommended     *)
(* behaviors                                                               *)
(*   Logging -> Tracing -> Metrics -> Validation -> Authorization          *)
(*     -> Transaction -> Retry -> ExceptionTranslation -> handler          *)
(* with the UnitOfWork that TransactionBehavior opens.  The handler is the *)
(* one the docs and examples show: load the aggregate, track it, change it *)
(* (which records a domain event and an integration event on the loaded    *)
(* instance), save it with the optimistic version check.  commit() hands   *)
(* the domain event to Mediator.publish, whose handlers may record further *)
(* events or send a command of their own, nested in the first one's task.  *)
(*                                                                         *)
(* Attempt n of command c loads an instance of its own; <<c, n>> is the    *)
(* event recorded on that instance, <<c, 0>> the one an event handler adds.*)
(***************************************************************************)
EXTENDS Mediator

CONSTANTS
  Commands,     \* command executions
  NoCommand,    \* nobody has the row locked; no unit of work is active
  Rows,         \* aggregates
  RowsOf,       \* [Commands -> SUBSET Rows]: the aggregates a command may change
  Parent,       \* [Commands -> Commands \cup {NoCommand}]: sent by a handler of
                \* that command's event; such a command sends no others
  TypeOf,       \* [Commands -> message types]
  EventOf,      \* [Commands -> event types]
  RoleOf,       \* [handlers -> {"plain", "recorder", "sender"}]
  Messages,     \* contents: [valid, principal, policies]
  Behaviors,    \* command_behaviors
  MaxAttempts,  \* max_attempts of RetryBehavior
  MaxFaults     \* bound on failing calls, cancellations and crashes

ASSUME PipelineAssumption ==
  /\ NoCommand \notin Commands
  /\ RowsOf \in [Commands -> (SUBSET Rows) \ {{}}]
  /\ Parent \in [Commands -> Commands \cup {NoCommand}]
  /\ \A c \in Commands : Parent[c] # NoCommand => Parent[Parent[c]] = NoCommand
  /\ MaxAttempts \in Nat \ {0}
  /\ MaxFaults \in Nat

Roots == {c \in Commands : Parent[c] = NoCommand}
Task(c) == IF Parent[c] = NoCommand THEN c ELSE Parent[c]
Instances == 0 .. MaxAttempts

VARIABLES
  version,   \* [Rows -> Nat]: committed version column
  rowLock,   \* [Rows -> Commands]: the transaction that updated the row and has not ended
  outbox,    \* committed outbox events
  log,       \* history: committed writes, <<[cmd, row, base, to], ...>>
  cmd,       \* [Commands -> record], see Fresh
  active,    \* [Roots -> Commands]: the context variable _active_uow of the task
  faults

db == <<version, rowLock, outbox, log>>
vars == <<mediatorVars, db, cmd, active, faults>>

Fresh ==
  [pc |-> "start", result |-> "none",
   row |-> CHOOSE r \in Rows : TRUE,
   attempt |-> 1,      \* the retry loop's counter, from 1
   loaded |-> 0,       \* version of the instance loaded by this attempt
   dirty |-> 0,        \* version written by the open transaction, 0 if none
   basis |-> 0,        \* history: committed version the first save replaced
   pending |-> {},     \* instances with events in their buffer
   tracked |-> {},     \* instances in UnitOfWork._tracked
   drained |-> {},     \* events taken by commit()
   broken |-> FALSE,   \* the open transaction is aborted (SQL error)
   at |-> 1,           \* next handler of the domain event
   errors |-> FALSE,   \* a handler of the domain event raised
   child |-> NoCommand,\* the command such a handler sent and waits for
   watched |-> {}]     \* what Logging, Tracing and Metrics recorded

Init ==
  /\ MediatorInit
  /\ version = [r \in Rows |-> 1] /\ rowLock = [r \in Rows |-> NoCommand]
  /\ outbox = {} /\ log = <<>>
  /\ cmd = [c \in Commands |-> Fresh]
  /\ active = [c \in Roots |-> NoCommand]
  /\ faults = 0

At(c, l) == cmd[c].pc = l
Fault == faults < MaxFaults /\ faults' = faults + 1
NoFault == UNCHANGED faults
Row(c) == cmd[c].row

\* The caller of c: its client, or an event handler of the command around it.
Called(c) == \A p \in {Parent[c]} \ {NoCommand} : At(p, "await") /\ cmd[p].child = c

\* What a statement of c's transaction sees: its own write, else the last commit.
Visible(c) == IF cmd[c].dirty # 0 THEN cmd[c].dirty ELSE version[Row(c)]
Unlocked(c) == [r \in Rows |-> IF rowLock[r] = c THEN NoCommand ELSE rowLock[r]]

Outcome(r) == CASE r = "success" -> "success" [] r = "raised" -> "raised" [] OTHER -> "failure"

\* The record of c when depth behaviors hand its result to the caller.
Ended(c, r, depth) ==
  [cmd[c] EXCEPT !.pc = "end", !.result = r, !.watched = Watched(Behaviors, depth, Outcome(r))]

\* Mutant of Deactivated: the token is not reset when the behavior ends.
DeactivatedNever(c) == active

\* _active_uow.reset(token): the unit of work around this one, if there is one.
Deactivated(c) == [active EXCEPT ![Task(c)] = Parent[c]]

-----------------------------------------------------------------------------
(* Mediator.send and the outer behaviors                                   *)

\* Nothing in front of TransactionBehavior suspends: the chain runs in one step up
\* to the answer of a behavior, or until the unit of work is open.
Send(c) ==
  /\ Serving /\ At(c, "start")
  /\ Called(c)
  /\ \E m \in Messages, r \in RowsOf[c] :
       LET stop == ShortCircuit(Behaviors, m) IN
       IF TypeOf[c] \notin DOMAIN registry.single    \* MediatorError
       THEN cmd' = [cmd EXCEPT ![c] = Ended(c, "raised", 0)] /\ UNCHANGED active
       ELSE IF stop[1] # 0
       THEN cmd' = [cmd EXCEPT ![c] = Ended(c, "rejected", stop[1])] /\ UNCHANGED active
       ELSE /\ cmd' = [cmd EXCEPT ![c].pc = "load", ![c].row = r]
            /\ active' = [active EXCEPT ![Task(c)] = c]
  /\ UNCHANGED <<mediatorVars, db>> /\ NoFault

-----------------------------------------------------------------------------
(* The handler                                                             *)

\* UnitOfWork.track: "aggregate not in self._tracked", and Entity.__eq__ compares ids.
Track(tracked, n) == IF tracked = {} THEN {n} ELSE tracked

\* get_current_uow(), called by code that runs for c.
CurrentUow(c) == active[Task(c)]

\* repo.get, get_current_uow().track, and the aggregate method that records its events.
Load(c) ==
  /\ At(c, "load") /\ ~cmd[c].broken
  /\ cmd' = [cmd EXCEPT ![c].loaded = Visible(c), ![c].pc = "save",
                        ![c].pending = @ \cup {cmd[c].attempt},
                        ![CurrentUow(c)].tracked = Track(@, cmd[c].attempt)]
  /\ UNCHANGED <<mediatorVars, db, active>> /\ NoFault

\* Mutant of VersionMatches: the UPDATE does not compare versions.
VersionMatchesAlways(c) == TRUE

\* WHERE id = ... AND version = current_version.
VersionMatches(c) == Visible(c) = cmd[c].loaded

\* repo.save: waits for the row lock of another transaction, then compares.
\* A ConflictError is not retryable.
Save(c) ==
  /\ At(c, "save") /\ ~cmd[c].broken
  /\ rowLock[Row(c)] \in {NoCommand, c}
  /\ IF VersionMatches(c)
     THEN /\ cmd' = [cmd EXCEPT ![c].dirty = cmd[c].loaded + 1, ![c].pc = "return",
                                ![c].basis = IF cmd[c].dirty = 0 THEN cmd[c].loaded ELSE @]
          /\ rowLock' = [rowLock EXCEPT ![Row(c)] = c]
     ELSE /\ cmd' = [cmd EXCEPT ![c].result = "conflict", ![c].pc = "rollback"]
          /\ UNCHANGED rowLock
  /\ UNCHANGED <<mediatorVars, version, outbox, log, active>> /\ NoFault

\* A call of the handler fails with an InfrastructureError or TimeoutError, or
\* raises (cancellation included): ExceptionTranslation makes it a failed Result.
HandlerFails(c) ==
  /\ cmd[c].pc \in {"load", "save", "return"}
  /\ Fault
  /\ cmd' = [cmd EXCEPT ![c].pc = "failed"]
  /\ UNCHANGED <<mediatorVars, db, active>>

\* An SQL statement fails: PostgreSQL refuses every later statement of the
\* transaction until it is rolled back.
SqlFails(c) ==
  /\ cmd[c].pc \in {"load", "save"}
  /\ IF cmd[c].broken THEN NoFault ELSE Fault
  /\ cmd' = [cmd EXCEPT ![c].pc = "failed", ![c].broken = TRUE]
  /\ UNCHANGED <<mediatorVars, db, active>>

-----------------------------------------------------------------------------
(* RetryBehavior                                                           *)

\* Mutant of Retry: the attempts are not counted.
RetryUncounted(c) ==
  /\ At(c, "failed") /\ cmd[c].attempt < MaxAttempts
  /\ cmd' = [cmd EXCEPT ![c].pc = "load"]
  /\ UNCHANGED <<mediatorVars, db, active>> /\ NoFault

\* After the back-off, run the handler again, in the same unit of work.
Retry(c) ==
  /\ At(c, "failed") /\ cmd[c].attempt < MaxAttempts
  /\ cmd' = [cmd EXCEPT ![c].pc = "load", ![c].attempt = @ + 1]
  /\ UNCHANGED <<mediatorVars, db, active>> /\ NoFault

\* Attempts exhausted, or a code outside retryable_codes: the failure is the
\* result, nothing is committed.
GiveUp(c) ==
  /\ At(c, "failed")
  /\ cmd' = [cmd EXCEPT ![c].pc = "rollback", ![c].result = "infra"]
  /\ UNCHANGED <<mediatorVars, db, active>> /\ NoFault

-----------------------------------------------------------------------------
(* UnitOfWork.commit with Mediator.publish, rollback and __aexit__         *)

\* Mutant of Drain: pull_events leaves the buffers as they are.
DrainKeeps(c) ==
  /\ At(c, "return")
  /\ cmd' = [cmd EXCEPT ![c].drained = cmd[c].tracked \cap cmd[c].pending, ![c].pc = "dispatch"]
  /\ UNCHANGED <<mediatorVars, db, active>> /\ NoFault

\* The handler succeeded: pull_events of every tracked aggregate.
Drain(c) ==
  /\ At(c, "return")
  /\ cmd' = [cmd EXCEPT ![c].drained = cmd[c].tracked \cap cmd[c].pending, ![c].pc = "dispatch",
                        ![c].pending = @ \ cmd[c].tracked]
  /\ UNCHANGED <<mediatorVars, db, active>> /\ NoFault

\* The handlers publish() runs for the drained domain event.
Handlers(c) == IF cmd[c].drained = {} THEN <<>> ELSE HandlersOf(registry, EventOf[c])
Dispatching(c) == At(c, "dispatch") /\ cmd[c].at \in DOMAIN Handlers(c)

Children(c) == {k \in Commands : Parent[k] = c /\ At(k, "start")}

\* publish: the next handler returns, after recording one more event on the tracked
\* aggregate if it does that; or it sends a command and waits for its result.
HandleEvent(c) ==
  /\ Dispatching(c)
  /\ LET role == RoleOf[Handlers(c)[cmd[c].at]] IN
     \/ /\ role = "sender"
        /\ \E k \in Children(c) : cmd' = [cmd EXCEPT ![c].pc = "await", ![c].child = k]
     \/ /\ role # "sender" \/ Children(c) = {}
        /\ cmd' = [cmd EXCEPT ![c].at = @ + 1,
                              ![CurrentUow(c)].pending = IF role = "recorder" THEN @ \cup {0} ELSE @]
  /\ UNCHANGED <<mediatorVars, db, active>> /\ NoFault

\* The nested command has ended; the handler raises unless it succeeded.
ChildEnded(c) ==
  /\ At(c, "await")
  /\ At(cmd[c].child, "end")
  /\ cmd' = [cmd EXCEPT ![c].pc = "dispatch", ![c].at = @ + 1,
                        ![c].errors = @ \/ cmd[cmd[c].child].result # "success"]
  /\ UNCHANGED <<mediatorVars, db, active>> /\ NoFault

\* A handler raises: publish keeps the error and goes on with the next one.
EventHandlerRaises(c) ==
  /\ Dispatching(c)
  /\ Fault
  /\ cmd' = [cmd EXCEPT ![c].at = @ + 1, ![c].errors = TRUE]
  /\ UNCHANGED <<mediatorVars, db, active>>

\* Every handler has run: BaseExceptionGroup if one raised, else on to the outbox.
Dispatched(c) ==
  /\ At(c, "dispatch") /\ ~Dispatching(c)
  /\ cmd' = IF cmd[c].errors
            THEN [cmd EXCEPT ![c].pc = "rollback", ![c].result = "raised"]
            ELSE [cmd EXCEPT ![c].pc = "sql"]
  /\ UNCHANGED <<mediatorVars, db, active>> /\ NoFault

\* A handler of the event cannot be resolved, or the INSERT or the COMMIT fails: the
\* exception passes through every behavior.
CommitFails(c) ==
  /\ Dispatching(c) \/ At(c, "sql")
  /\ Fault
  /\ cmd' = [cmd EXCEPT ![c].pc = "rollback", ![c].result = "raised"]
  /\ UNCHANGED <<mediatorVars, db, active>>

\* Mutant of Persisted: the outbox rows are written after the commit, and are lost
\* with the process in between.
PersistedWithoutOutbox(c) ==
  /\ version' = [version EXCEPT ![Row(c)] = cmd[c].dirty]
  /\ log' = Append(log, [cmd |-> c, row |-> Row(c), base |-> cmd[c].basis, to |-> cmd[c].dirty])
  /\ UNCHANGED outbox

\* What session.commit() makes durable: the row and the outbox rows together.
Persisted(c) ==
  /\ version' = [version EXCEPT ![Row(c)] = cmd[c].dirty]
  /\ log' = Append(log, [cmd |-> c, row |-> Row(c), base |-> cmd[c].basis, to |-> cmd[c].dirty])
  /\ outbox' = outbox \cup {<<c, n>> : n \in cmd[c].drained}

\* The COMMIT takes effect; when its answer is lost the caller sees an exception.
SqlCommit(c) ==
  /\ At(c, "sql")
  /\ Persisted(c)
  /\ rowLock' = Unlocked(c)
  /\ active' = Deactivated(c)
  /\ \/ NoFault /\ cmd' = [cmd EXCEPT ![c] = Ended(c, "success", Len(Behaviors))]
     \/ Fault /\ cmd' = [cmd EXCEPT ![c] = Ended(c, "raised", Len(Behaviors))]
  /\ UNCHANGED mediatorVars

\* __aexit__: implicit rollback of everything not committed, then close.
Rollback(c) ==
  /\ At(c, "rollback")
  /\ cmd' = [cmd EXCEPT ![c] = [Ended(c, cmd[c].result, Len(Behaviors)) EXCEPT !.dirty = 0]]
  /\ rowLock' = Unlocked(c)
  /\ active' = Deactivated(c)
  /\ UNCHANGED <<mediatorVars, version, outbox, log>> /\ NoFault

\* The process of a task dies: PostgreSQL rolls its open transactions back.
Crash(t) ==
  LET dead == {c \in Commands : Task(c) = t /\ cmd[c].pc \notin {"start", "end"}} IN
  /\ dead # {}
  /\ Fault
  /\ cmd' = [c \in Commands |->
               IF c \in dead THEN [cmd[c] EXCEPT !.pc = "end", !.result = "raised", !.dirty = 0]
               ELSE cmd[c]]
  /\ rowLock' = [r \in Rows |-> IF rowLock[r] \in dead THEN NoCommand ELSE rowLock[r]]
  /\ active' = [active EXCEPT ![t] = NoCommand]
  /\ UNCHANGED <<mediatorVars, version, outbox, log>>

-----------------------------------------------------------------------------
Advance(c) ==
  \/ Send(c) \/ Load(c) \/ Save(c) \/ SqlFails(c) \/ Retry(c) \/ GiveUp(c) \/ Drain(c)
  \/ HandleEvent(c) \/ ChildEnded(c) \/ Dispatched(c) \/ SqlCommit(c) \/ Rollback(c)

Startup == Register /\ UNCHANGED <<db, cmd, active, faults>>

\* Nested commands that wait for rows locked by the very commands around them: the
\* handlers that sent them wait too, and PostgreSQL sees no deadlock.
Deadlocked ==
  \E S \in SUBSET Commands \ {{}} :
    \A c \in S : At(c, "save") /\ \E k \in S : Parent[k] = rowLock[Row(c)]

\* The startup failed, or nothing is left to do, or Deadlocked.
Idle ==
  /\ calls = <<>>
  /\ registry.error \/ \A c \in Commands :
       \/ cmd[c].pc \in {"end", "await"}
       \/ At(c, "start") /\ ~Called(c)
       \/ At(c, "save") /\ rowLock[Row(c)] \notin {NoCommand, c}
  /\ UNCHANGED vars

Next ==
  \/ Startup
  \/ \E c \in Commands : \/ Advance(c) \/ HandlerFails(c)
                         \/ EventHandlerRaises(c) \/ CommitFails(c)
  \/ \E t \in Roots : Crash(t)
  \/ Idle

Spec == Init /\ [][Next]_vars

\* Every coroutine keeps being scheduled and every database call returns.
FairSpec == Spec /\ WF_vars(Startup) /\ \A c \in Commands : WF_vars(Advance(c))

-----------------------------------------------------------------------------
(* Properties                                                              *)

Written(c) == \E i \in DOMAIN log : log[i].cmd = c
EventsOf(c) == {e[2] : e \in {x \in outbox : x[1] = c}}
Earlier(i) == {j \in 1 .. i - 1 : log[j].row = log[i].row}

\* No lost update: a committed write of a row was computed from the version it
\* replaced and is newer than it, so concurrent saves of an aggregate form one chain.
WritesChain ==
  \A i \in DOMAIN log :
    /\ log[i].to > log[i].base
    /\ Earlier(i) = {} => log[i].base = 1
    /\ \A j \in Earlier(i) : (\A k \in Earlier(i) : k <= j) => log[i].base = log[j].to

\* "The outbox pattern's atomic guarantee" (UnitOfWork.commit): the outbox has
\* events of a command exactly when its write is committed; what the caller and
\* the metrics take for a success is both, a failure is neither.
OutboxIsAtomic ==
  \A c \in Commands :
    /\ EventsOf(c) # {} <=> Written(c)
    /\ cmd[c].result = "success" => Written(c)
    /\ cmd[c].result \in {"rejected", "conflict", "infra"} => ~Written(c)
    /\ <<"Metrics", "success">> \in cmd[c].watched => Written(c)

\* get_current_uow: while a handler or an event handler of c runs, the active unit of
\* work is the one opened for c, also after a command nested in it has ended.
UowIsOwn ==
  \A c \in Commands :
    /\ cmd[c].pc \in {"load", "save", "return", "failed", "dispatch", "sql", "rollback"}
         => active[Task(c)] = c
    /\ At(c, "await") => active[c] \in {c} \cup {k \in Commands : Parent[k] = c}

\* track and pull_events: of the events recorded for a committed command exactly those
\* of the first instance are in the outbox, once; the ones left in a buffer belong to
\* an instance a retry loaded or were recorded by an event handler after the drain.
EventsAccounted ==
  \A c \in Commands : Written(c) =>
    /\ EventsOf(c) \cap cmd[c].pending = {}
    /\ cmd[c].attempt \in cmd[c].pending \cup EventsOf(c)
    /\ \E first \in Instances \ {0} :
         EventsOf(c) = {first} /\ \A n \in cmd[c].pending \ {0} : n > first

\* Every command that is sent gets an answer, although saves wait for row locks,
\* unless nested commands wait for rows that the commands around them have locked.
Answered ==
  \A c \in Commands : cmd[c].pc \notin {"start", "end"} ~> (At(c, "end") \/ Deadlocked)

=============================================================================
