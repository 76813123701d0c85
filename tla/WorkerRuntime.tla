---------------------------- MODULE WorkerRuntime ----------------------------
(***************************************************************************)
(* qx.worker: WorkerRuntime pulls messages from a durable JetStream        *)
(* consumer (explicit ack, max_deliver, ack_wait) and runs one task per    *)
(* delivery: decode, handlers in registration order, then ack, nak or dead *)
(* letter.  The consumer's server side is external and modelled from the   *)
(* configuration NatsConsumer gives it.                                    *)
(*                                                                         *)
(* A task is identified by its message and num_delivered.                  *)
(***************************************************************************)
EXTENDS Integers, FiniteSets, Sequences

CONSTANTS
  Events,       \* contents of messages
  Kind,         \* [Events -> Kinds]
  NumHandlers,  \* integration handlers registered for a good event
  Workers,      \* worker processes sharing the durable consumer
  Concurrency,  \* concurrency
  MaxDeliver,   \* max_deliver of the consumer
  UseDLQ,       \* a DeadLetterStore is configured
  MaxMessages,  \* bound on the messages ever published
  MaxFaults     \* bound on crashes, lost or failing calls, late tasks and stops

\* unknown: not in the EventRegistry; unhandled: no integration handler for it;
\* badtenant: the tenant header is not a UUID
Kinds == {"good", "unhandled", "unknown", "malformed", "badtenant"}

ASSUME WorkerAssumption ==
  /\ Kind \in [Events -> Kinds]
  /\ NumHandlers \in Nat \ {0}
  /\ Concurrency \in Nat \ {0}
  /\ MaxDeliver \in Nat \ {0}
  /\ UseDLQ \in BOOLEAN
  /\ MaxMessages \in Nat
  /\ MaxFaults \in Nat

VARIABLES
  stream,     \* Seq(Events): message m is stream[m]
  js,         \* [Ids -> ConsumerStates]: the consumer's view of a message
  num,        \* [Ids -> Nat]: num_delivered
  task,       \* [Ids \X Attempts -> [pc, worker, h]]: the task of a delivery
  phase,      \* [Workers -> Phases]: where run() is
  want,       \* [Workers -> Nat]: the size passed to sub.fetch
  stopping,   \* [Workers -> BOOLEAN]: _stop is set
  deadLetters,\* SUBSET Ids: messages with a row in qx_dead_letters
  handled,    \* SUBSET Ids: history: all handlers completed in one delivery
  given,      \* SUBSET Ids: history: dropped as unknown or PermanentWorkerError
  lostRows,   \* SUBSET Ids: history: "DLQ persist failed; message will be lost"
  disturbed,  \* SUBSET Ids: history: some fault hit a delivery of the message
  faults

consumer == <<js, num>>
workerVars == <<phase, want, stopping>>
history == <<deadLetters, handled, given, lostRows>>
vars == <<stream, js, num, task, phase, want, stopping, deadLetters, handled, given,
          lostRows, disturbed, faults>>

Ids == 1 .. MaxMessages
Attempts == 1 .. MaxDeliver
ConsumerStates == {"absent", "ready", "outstanding", "acked", "dead"}
Phases == {"subscribing", "loop", "fetching", "draining", "stopped", "crashed"}
PCs == {"decode", "run", "ack", "failed", "nak", "persist", "notify", "drop", "done"}
NoTask == [pc |-> "none"]
Tasks == [pc : PCs, worker : Workers, h : 0 .. NumHandlers]

Init ==
  /\ stream = <<>>
  /\ js = [m \in Ids |-> "absent"]
  /\ num = [m \in Ids |-> 0]
  /\ task = [t \in Ids \X Attempts |-> NoTask]
  /\ phase = [w \in Workers |-> "subscribing"]
  /\ want = [w \in Workers |-> 0]
  /\ stopping = [w \in Workers |-> FALSE]
  /\ deadLetters = {} /\ handled = {} /\ given = {} /\ lostRows = {} /\ disturbed = {}
  /\ faults = 0

Alive(t) == task[t].pc \notin {"none", "done"}

\* inflight, without the completed tasks: the loop reaps them before it counts.
Inflight(w) == {t \in DOMAIN task : Alive(t) /\ task[t].worker = w}

\* A fault that hits the messages M.
Fault(M) == /\ faults < MaxFaults
            /\ faults' = faults + 1
            /\ disturbed' = disturbed \cup M
NoFault == UNCHANGED <<faults, disturbed>>

Goto(t, pc) == task' = [task EXCEPT ![t].pc = pc]

-----------------------------------------------------------------------------
(* Publishers: the outbox relay, and "qx dlq replay".                      *)

Append1(e) ==
  /\ Len(stream) < MaxMessages
  /\ stream' = Append(stream, e)
  /\ js' = [js EXCEPT ![Len(stream) + 1] = "ready"]
  /\ UNCHANGED <<num, task, workerVars, history>> /\ NoFault

Publish(e) == Append1(e)

\* The CLI re-publishes the row's payload to its subject and leaves the row.
Replay(m) == m \in deadLetters /\ Append1(stream[m])

-----------------------------------------------------------------------------
(* The consumer on the server                                              *)

\* What becomes of a delivery that was refused or timed out.
AfterRefusal(m) == IF num[m] < MaxDeliver THEN "ready" ELSE "dead"

\* An ack settles the message while the consumer still has it pending, also
\* when a later delivery is under way.
ServerAck(m) ==
  js' = [js EXCEPT ![m] = IF @ \in {"ready", "outstanding"} THEN "acked" ELSE @]

\* A nak of the current delivery requeues it; a nak of an older one may be ignored.
ServerNak(m, n) ==
  \/ js' = [js EXCEPT ![m] = IF @ = "outstanding" THEN AfterRefusal(m) ELSE @]
  \/ n # num[m] /\ UNCHANGED js

Deliver(M) ==
  /\ js' = [m \in Ids |-> IF m \in M THEN "outstanding" ELSE js[m]]
  /\ num' = [m \in Ids |-> IF m \in M THEN num[m] + 1 ELSE num[m]]

\* ack_wait passes after the delivery's task is gone without an answer.
AckWait(m) ==
  /\ js[m] = "outstanding"
  /\ ~Alive(<<m, num[m]>>)
  /\ js' = [js EXCEPT ![m] = AfterRefusal(m)]
  /\ UNCHANGED <<stream, num, task, workerVars, history>> /\ NoFault

\* ack_wait passes while the delivery's task is still running.
AckWaitLate(m) ==
  /\ js[m] = "outstanding"
  /\ Alive(<<m, num[m]>>)
  /\ Fault({m})
  /\ js' = [js EXCEPT ![m] = AfterRefusal(m)]
  /\ UNCHANGED <<stream, num, task, workerVars, history>>

-----------------------------------------------------------------------------
(* WorkerRuntime.run                                                       *)

\* NatsConsumer.messages: the durable consumer is created or attached to.
Subscribe(w) ==
  /\ phase[w] = "subscribing"
  /\ phase' = [phase EXCEPT ![w] = "loop"]
  /\ UNCHANGED <<stream, consumer, task, want, stopping, history>> /\ NoFault

\* add_consumer or pull_subscribe raises: the exception leaves run().
SubscribeFails(w) ==
  /\ phase[w] = "subscribing"
  /\ Fault({})
  /\ phase' = [phase EXCEPT ![w] = "stopped"]
  /\ UNCHANGED <<stream, consumer, task, want, stopping, history>>

\* Mutant of Available: completed tasks are not reaped.
AvailableUnreaped(w) ==
  Concurrency - Cardinality({t \in DOMAIN task : task[t] # NoTask /\ task[t].worker = w})

\* available = concurrency - len(inflight), after reaping completed tasks.
Available(w) == Concurrency - Cardinality(Inflight(w))

\* _stop is tested, then sub.fetch(available) is awaited.
BeginFetch(w) ==
  /\ phase[w] = "loop" /\ ~stopping[w]
  /\ Available(w) > 0
  /\ phase' = [phase EXCEPT ![w] = "fetching"]
  /\ want' = [want EXCEPT ![w] = Available(w)]
  /\ UNCHANGED <<stream, consumer, task, stopping, history>> /\ NoFault

\* All slots are taken: sleep and look again.
Busy(w) ==
  /\ phase[w] = "loop" /\ ~stopping[w]
  /\ Available(w) <= 0
  /\ UNCHANGED vars

\* Batches the server may answer the fetch with.
Batches(w) ==
  {M \in SUBSET {m \in Ids : js[m] = "ready"} : M # {} /\ Cardinality(M) <= want[w]}

\* The fetch returns a batch: one task per message, also when stop() was called
\* while the fetch was pending.
FetchReturns(w) ==
  /\ phase[w] = "fetching"
  /\ \E M \in Batches(w) :
       /\ Deliver(M)
       /\ task' = [t \in DOMAIN task |->
                     IF t[1] \in M /\ t[2] = num[t[1]] + 1
                     THEN [pc |-> "decode", worker |-> w, h |-> 0] ELSE task[t]]
  /\ phase' = [phase EXCEPT ![w] = "loop"]
  /\ UNCHANGED <<stream, want, stopping, history>> /\ NoFault

\* TimeoutError or a fetch error: back to the head of the loop.
FetchTimeout(w) ==
  /\ phase[w] = "fetching"
  /\ phase' = [phase EXCEPT ![w] = "loop"]
  /\ UNCHANGED <<stream, consumer, task, want, stopping, history>> /\ NoFault

\* The server delivered, but the answer never became a batch.
FetchLost(w) ==
  /\ phase[w] = "fetching"
  /\ \E M \in Batches(w) : Deliver(M) /\ Fault(M)
  /\ phase' = [phase EXCEPT ![w] = "loop"]
  /\ UNCHANGED <<stream, task, want, stopping, history>>

Stop(w) ==
  /\ ~stopping[w] /\ phase[w] \in {"subscribing", "loop", "fetching"}
  /\ Fault({})
  /\ stopping' = [stopping EXCEPT ![w] = TRUE]
  /\ UNCHANGED <<stream, consumer, task, phase, want, history>>

\* The loop ends; the subscription is closed.
BeginDrain(w) ==
  /\ phase[w] = "loop" /\ stopping[w]
  /\ phase' = [phase EXCEPT ![w] = "draining"]
  /\ UNCHANGED <<stream, consumer, task, want, stopping, history>> /\ NoFault

\* asyncio.gather(*inflight) completed: run() returns.
Drained(w) ==
  /\ phase[w] = "draining"
  /\ Inflight(w) = {}
  /\ phase' = [phase EXCEPT ![w] = "stopped"]
  /\ UNCHANGED <<stream, consumer, task, want, stopping, history>> /\ NoFault

\* The process dies with its tasks.
Crash(w) ==
  /\ phase[w] \notin {"stopped", "crashed"}
  /\ Fault({t[1] : t \in Inflight(w)})
  /\ phase' = [phase EXCEPT ![w] = "crashed"]
  /\ task' = [t \in DOMAIN task |->
                IF t \in Inflight(w) THEN [task[t] EXCEPT !.pc = "done"] ELSE task[t]]
  /\ UNCHANGED <<stream, consumer, want, stopping, history>>

Restart(w) ==
  /\ phase[w] \in {"stopped", "crashed"}
  /\ phase' = [phase EXCEPT ![w] = "subscribing"]
  /\ stopping' = [stopping EXCEPT ![w] = FALSE]
  /\ UNCHANGED <<stream, consumer, task, want, history>> /\ NoFault

-----------------------------------------------------------------------------
(* WorkerRuntime._process, one action per await                            *)

\* NatsConsumer.parse_message: the registry is asked before the payload is validated.
ParseMessage(kind) ==
  CASE kind = "unknown"   -> "EventTypeNotRegistered"
    [] kind = "malformed" -> "error"
    [] OTHER              -> "event"

\* parse_message and the request context.  UUID(tenant) raises outside every try:
\* the task ends and the message is neither acked nor naked.
Decode(t) ==
  /\ task[t].pc = "decode"
  /\ LET kind == Kind[stream[t[1]]]
         parsed == ParseMessage(kind) IN
     /\ Goto(t, CASE parsed = "EventTypeNotRegistered" -> "drop"
                  [] parsed = "error" -> "nak"
                  [] OTHER -> IF kind = "badtenant" THEN "done" ELSE "run")
     /\ given' = IF parsed = "EventTypeNotRegistered" THEN given \cup {t[1]} ELSE given
  /\ UNCHANGED <<stream, consumer, workerVars, deadLetters, handled, lostRows>> /\ NoFault

\* Mediator.consume_integration raises MediatorError when no handler is registered.
HasHandler(t) == Kind[stream[t[1]]] # "unhandled"

\* Mutant of HandlerReturns: ack as soon as the first handler returned.
HandlerReturnsFirst(t) ==
  /\ task[t].pc = "run" /\ HasHandler(t)
  /\ task' = [task EXCEPT ![t].h = @ + 1, ![t].pc = "ack"]
  /\ UNCHANGED handled
  /\ UNCHANGED <<stream, consumer, workerVars, deadLetters, given, lostRows>> /\ NoFault

\* consume_integration: the handlers run one after the other; closing the scope
\* suppresses disposal errors.
HandlerReturns(t) ==
  /\ task[t].pc = "run" /\ HasHandler(t)
  /\ LET last == task[t].h + 1 = NumHandlers IN
     /\ task' = [task EXCEPT ![t].h = @ + 1, ![t].pc = IF last THEN "ack" ELSE "run"]
     /\ handled' = IF last THEN handled \cup {t[1]} ELSE handled
  /\ UNCHANGED <<stream, consumer, workerVars, deadLetters, given, lostRows>> /\ NoFault

\* A handler raises PermanentWorkerError: warn, then ack.
HandlerPermanent(t) ==
  /\ task[t].pc = "run" /\ HasHandler(t)
  /\ Goto(t, "drop")
  /\ given' = given \cup {t[1]}
  /\ UNCHANGED <<stream, consumer, workerVars, deadLetters, handled, lostRows>> /\ NoFault

\* A handler raises anything else, or there is none.
HandlerRaises(t) ==
  /\ task[t].pc = "run"
  /\ Goto(t, "failed")
  /\ UNCHANGED <<stream, consumer, workerVars, history>> /\ NoFault

\* await msg.ack(), at the end of the try block ("ack") or of a handler branch
\* ("drop").  The ack is a fire-and-forget publish.
Acks(t) == task[t].pc \in {"ack", "drop"}

Ack(t) ==
  /\ Acks(t)
  /\ ServerAck(t[1])
  /\ Goto(t, "done")
  /\ UNCHANGED <<stream, num, workerVars, history>> /\ NoFault

\* The ack never reaches the server.
AckLost(t) ==
  /\ Acks(t)
  /\ Fault({t[1]})
  /\ Goto(t, "done")
  /\ UNCHANGED <<stream, consumer, workerVars, history>>

\* msg.ack() raises.  Inside the try block this is one more handler failure;
\* in the other branches the exception ends the task.
AckRaises(t) ==
  /\ Acks(t)
  /\ Fault({t[1]})
  /\ Goto(t, IF task[t].pc = "ack" THEN "failed" ELSE "done")
  /\ UNCHANGED <<stream, consumer, workerVars, history>>

\* _is_last_attempt: num_delivered >= max_deliver.
IsLastAttempt(t) == t[2] >= MaxDeliver

\* except Exception: dead letter on the last attempt, otherwise nak.
Classify(t) ==
  /\ task[t].pc = "failed"
  /\ Goto(t, IF UseDLQ /\ IsLastAttempt(t) THEN "persist" ELSE "nak")
  /\ UNCHANGED <<stream, consumer, workerVars, history>> /\ NoFault

\* DeadLetterStore.persist committed its row.
Persist(t) ==
  /\ task[t].pc = "persist"
  /\ deadLetters' = deadLetters \cup {t[1]}
  /\ Goto(t, "notify")
  /\ UNCHANGED <<stream, consumer, workerVars, handled, given, lostRows>> /\ NoFault

\* _publish_notification to qx_dlq.<event_name>: whether it arrives or not, persist returns.
PublishNotification(t) ==
  /\ task[t].pc = "notify"
  /\ Goto(t, "drop")
  /\ UNCHANGED <<stream, consumer, workerVars, history>> /\ NoFault

\* persist raised: logged as lost, and acked all the same.
PersistFails(t) ==
  /\ task[t].pc = "persist"
  /\ Fault({t[1]})
  /\ lostRows' = lostRows \cup {t[1]}
  /\ Goto(t, "drop")
  /\ UNCHANGED <<stream, consumer, workerVars, deadLetters, handled, given>>

\* Mutant of Nak: after the nak the handlers are tried again in process.
NakAndRetry(t) ==
  /\ task[t].pc = "nak"
  /\ ServerNak(t[1], t[2])
  /\ task' = [task EXCEPT ![t] = [@ EXCEPT !.pc = "run", !.h = 0]]
  /\ UNCHANGED <<stream, num, workerVars, history>> /\ NoFault

Nak(t) ==
  /\ task[t].pc = "nak"
  /\ ServerNak(t[1], t[2])
  /\ Goto(t, "done")
  /\ UNCHANGED <<stream, num, workerVars, history>> /\ NoFault

\* The nak is lost or raises: the task ends, ack_wait decides.
NakLost(t) ==
  /\ task[t].pc = "nak"
  /\ Fault({t[1]})
  /\ Goto(t, "done")
  /\ UNCHANGED <<stream, consumer, workerVars, history>>

-----------------------------------------------------------------------------
Step(t) == \/ Decode(t) \/ HandlerReturns(t) \/ HandlerPermanent(t) \/ HandlerRaises(t)
           \/ Ack(t) \/ Classify(t) \/ Persist(t) \/ PublishNotification(t) \/ Nak(t)
FaultyStep(t) == AckLost(t) \/ AckRaises(t) \/ PersistFails(t) \/ NakLost(t)

Next ==
  \/ \E e \in Events : Publish(e)
  \/ \E m \in Ids : Replay(m) \/ AckWait(m) \/ AckWaitLate(m)
  \/ \E w \in Workers :
       \/ Subscribe(w) \/ SubscribeFails(w) \/ BeginFetch(w) \/ Busy(w)
       \/ FetchReturns(w) \/ FetchTimeout(w) \/ FetchLost(w)
       \/ Stop(w) \/ BeginDrain(w) \/ Drained(w) \/ Crash(w) \/ Restart(w)
  \/ \E t \in Ids \X Attempts : Step(t) \/ FaultyStep(t)

Spec == Init /\ [][Next]_vars

(* Tasks and run() keep being scheduled, awaits return, ack_wait expires,  *)
(* stopped or crashed workers are started again.  A fetch can time out any *)
(* number of times, but while messages are ready it does not always.       *)
Fairness ==
  /\ \A t \in Ids \X Attempts : WF_vars(Step(t))
  /\ \A m \in Ids : WF_vars(AckWait(m))
  /\ \A w \in Workers : /\ WF_vars(Subscribe(w)) /\ WF_vars(BeginFetch(w)) /\ SF_vars(FetchReturns(w))
                        /\ WF_vars(FetchTimeout(w))
                        /\ WF_vars(BeginDrain(w)) /\ WF_vars(Drained(w)) /\ WF_vars(Restart(w))

FairSpec == Spec /\ Fairness

-----------------------------------------------------------------------------
(* Properties                                                              *)

\* No message is simply gone.  An acked one had all its handlers complete in one delivery,
\* or was dropped for a reason the docstring names, or is in qx_dead_letters, or the worker
\* logged that persisting it failed; and with a DeadLetterStore the consumer abandons a
\* well-formed one only when some fault hit one of its deliveries.
FateAccounted ==
  \A m \in Ids :
    /\ js[m] = "acked" => m \in handled \cup given \cup deadLetters \cup lostRows
    /\ js[m] = "dead" /\ UseDLQ /\ Kind[stream[m]] = "good" => m \in disturbed

\* Two tasks work on one message at the same time only after a fault (a late
\* task whose ack_wait passed).
ExclusiveUnlessDisturbed ==
  \A m \in Ids : m \notin disturbed =>
    \A i, j \in Attempts : Alive(<<m, i>>) /\ Alive(<<m, j>>) => i = j

\* Every published message is settled: acked, or abandoned by the consumer.
EventuallySettled ==
  \A m \in Ids : js[m] = "ready" ~> js[m] \in {"acked", "dead"}

=============================================================================
