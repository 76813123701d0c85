---------------------------- MODULE OrderService ----------------------------
(***************************************************************************)
(* The order service of the examples, the one program in the repository    *)
(* that puts the framework's parts together: event-sourced orders with     *)
(* commands in transactions of their own, the OrderPlacedIntegration event *)
(* through the outbox, the fulfilment saga that confirms an order and      *)
(* cancels it on timeout, and the summary read model.  The parts appear by *)
(* what their own modules show: a stream per order extended by who has     *)
(* seen all of it (EventLog), at-least-once delivery (OutboxDelivery), a   *)
(* saga row that is running once its transaction has committed             *)
(* (SagaManager), and a runner with one checkpoint (ProjectionRunner).     *)
(***************************************************************************)
EXTENDS Integers, Sequences, FiniteSets, SequencesExt

CONSTANTS
  Orders,
  Clients,        \* concurrent HTTP requests
  Consumer,       \* the worker task that handles integration events
  Ticker,         \* the task that calls tick_timeouts
  Runners,        \* application processes with their projection loop
  Baskets,        \* what a client may order: [quantities, total]
  MaxRequests, MaxFaults

ASSUME OrderAssumption ==
  /\ IsFiniteSet(Orders) /\ Orders # {}
  /\ Consumer \notin Clients /\ Ticker \notin Clients /\ Consumer # Ticker

Slots == Clients \cup {Consumer, Ticker}

VARIABLES
  log,          \* [Orders -> Seq(events)]: the event table
  message,      \* [Orders -> {"none", "pending", "handled"}]: OrderPlacedIntegration
  saga,         \* [Orders -> {"absent", "running"}]: OrderFulfillmentSaga rows
  due,          \* [Orders -> BOOLEAN]: updated_at lies more than 30 minutes back
  timedOut,     \* the sagas the tick in progress has still to serve
  cmd,          \* [Slots -> record]: the command a task executes, see Idle
  summary,      \* [Orders -> status or "none"]: qx_order_summaries
  checkpoint,   \* last_sequence of order_summary
  projected,    \* history: the rows of the event table that finished passes have read
  run,          \* [Runners -> record]: the pass in progress
  requests, faults

sagas == <<message, saga, due, timedOut>>
view == <<summary, checkpoint, projected, run>>
vars == <<log, sagas, cmd, view, requests, faults>>

Idle == [pc |-> "idle", kind |-> "none", order |-> CHOOSE o \in Orders : TRUE, seen |-> 0, answer |-> "none"]
NoPass == [rows |-> {}, left |-> {}]

Init ==
  /\ log = [o \in Orders |-> <<>>] /\ message = [o \in Orders |-> "none"]
  /\ saga = [o \in Orders |-> "absent"] /\ due = [o \in Orders |-> FALSE] /\ timedOut = {}
  /\ cmd = [s \in Slots |-> Idle]
  /\ summary = [o \in Orders |-> "none"] /\ checkpoint = 0 /\ projected = {}
  /\ run = [r \in Runners |-> NoPass]
  /\ requests = 0 /\ faults = 0

Fault == faults < MaxFaults /\ faults' = faults + 1
Set(s, c) == cmd' = [cmd EXCEPT ![s] = c]
Answer(s, a) == [cmd[s] EXCEPT !.pc = "done", !.answer = a]

-----------------------------------------------------------------------------
(* The aggregate                                                           *)

\* The apply methods, folded over the stream.
StatusOf(stream) ==
  CASE stream = <<>>            -> "none"
    [] Contains(stream, "cancelled") -> "cancelled"
    [] stream # <<>> /\ ~Contains(stream, "cancelled") /\ Contains(stream, "confirmed") -> "confirmed"
    [] OTHER                    -> "pending"

\* OrderItem raises for a quantity that is not positive.
ValidItems(b) == \A i \in DOMAIN b.quantities : b.quantities[i] > 0

\* Order.place
Place(b) ==
  CASE ~ValidItems(b)      -> "InfrastructureError"   \* ValueError, translated
    [] b.quantities = <<>> -> "DomainError"
    [] b.total <= 0        -> "DomainError"
    [] OTHER               -> "ok"

\* Order.confirm, Order.cancel
Confirm(status) == IF status = "pending" THEN "ok" ELSE "DomainError"
Cancel(status) == IF status = "cancelled" THEN "DomainError" ELSE "ok"
Decide(kind, status) == IF kind = "confirmed" THEN Confirm(status) ELSE Cancel(status)

-----------------------------------------------------------------------------
(* Requests and handlers                                                   *)

Request(c) == /\ c \in Clients /\ cmd[c].pc \in {"idle", "done"}
              /\ requests < MaxRequests /\ requests' = requests + 1

\* POST /orders: the event and the outbox row commit together.
PlaceOrder(c, o) ==
  /\ Request(c) /\ log[o] = <<>>
  /\ \E b \in Baskets :
       /\ Set(c, [Idle EXCEPT !.pc = "done", !.kind = "placed", !.order = o, !.answer = Place(b)])
       /\ log' = IF Place(b) = "ok" THEN [log EXCEPT ![o] = <<"placed">>] ELSE log
       /\ message' = IF Place(b) = "ok" THEN [message EXCEPT ![o] = "pending"] ELSE message
  /\ UNCHANGED <<saga, due, timedOut, view, faults>>

\* GET /orders/{id}
GetOrder(c, o) ==
  /\ Request(c)
  /\ Set(c, [Idle EXCEPT !.pc = "done", !.kind = "get", !.order = o,
                         !.answer = IF summary[o] = "none" THEN "NotFoundError" ELSE summary[o]])
  /\ UNCHANGED <<log, sagas, view, faults>>

\* POST /orders/{id}/confirm and /cancel
Send(c, o, kind) ==
  /\ Request(c)
  /\ Set(c, [Idle EXCEPT !.pc = "load", !.kind = kind, !.order = o])
  /\ UNCHANGED <<log, sagas, view, faults>>

\* ConfirmOrderHandler, CancelOrderHandler: load the stream and decide.
Load(s) ==
  /\ cmd[s].pc = "load"
  /\ LET stream == log[cmd[s].order]
         result == IF stream = <<>> THEN "NotFoundError" ELSE Decide(cmd[s].kind, StatusOf(stream))
     IN Set(s, IF result = "ok" THEN [cmd[s] EXCEPT !.pc = "append", !.seen = Len(stream)] ELSE Answer(s, result))
  /\ UNCHANGED <<log, sagas, view, requests, faults>>

\* Mutant of Free: the sequence numbers are not unique.
FreeAlways(s) == TRUE

\* The unique (aggregate, sequence) is not taken by a committed event.
Free(s) == Len(log[cmd[s].order]) = cmd[s].seen

\* The INSERT; it waits for an uncommitted row with the same key.  A conflict is a
\* failed Result which the handlers drop: the transaction, which PostgreSQL has aborted,
\* "commits", and the answer is a success.
AppendEvent(s) ==
  /\ cmd[s].pc = "append"
  /\ \A t \in Slots : ~(cmd[t].pc = "commit" /\ cmd[t].order = cmd[s].order)
  /\ Set(s, IF Free(s) THEN [cmd[s] EXCEPT !.pc = "commit"] ELSE Answer(s, "ok"))
  /\ UNCHANGED <<log, sagas, view, requests, faults>>

Commit(s) ==
  /\ cmd[s].pc = "commit"
  /\ log' = [log EXCEPT ![cmd[s].order] = Append(@, cmd[s].kind)]
  /\ Set(s, Answer(s, "ok"))
  /\ UNCHANGED <<sagas, view, requests, faults>>

\* Mutant of HandlerFails: the handler drops every failure.
HandlerFailsQuietly(s) ==
  /\ cmd[s].pc \in {"load", "append", "commit"} /\ Fault
  /\ Set(s, Answer(s, "ok"))
  /\ UNCHANGED <<log, sagas, view, requests>>

\* The database fails: the exception rolls back and is translated.
HandlerFails(s) ==
  /\ cmd[s].pc \in {"load", "append", "commit"} /\ Fault
  /\ Set(s, Answer(s, "InfrastructureError"))
  /\ UNCHANGED <<log, sagas, view, requests>>

-----------------------------------------------------------------------------
(* The saga                                                                *)

\* on_order_placed: the order is confirmed at once.
OnOrderPlaced(o) ==
  /\ cmd[Consumer].pc = "idle" /\ message[o] = "pending"
  /\ Set(Consumer, [Idle EXCEPT !.pc = "load", !.kind = "confirmed", !.order = o])
  /\ UNCHANGED <<log, sagas, view, requests, faults>>

\* tick_timeouts: the sagas that are due, which the tick then serves one after the other.
LoadTimedOut ==
  /\ cmd[Ticker].pc = "idle" /\ timedOut = {}
  /\ timedOut' = {o \in Orders : saga[o] = "running" /\ due[o]} /\ timedOut' # {}
  /\ UNCHANGED <<log, message, saga, due, cmd, view, requests, faults>>

\* handle_timeout
OnTimeout(o) ==
  /\ cmd[Ticker].pc = "idle" /\ o \in timedOut
  /\ timedOut' = timedOut \ {o}
  /\ Set(Ticker, [Idle EXCEPT !.pc = "load", !.kind = "cancelled", !.order = o])
  /\ UNCHANGED <<log, message, saga, due, view, requests, faults>>

\* Mutant of SagaSaved: the saga ends with its first command.
SagaSavedEnded == "absent"

\* The Result of dispatch() is dropped.  OrderConfirmed and OrderCancelled, which would
\* end the saga, are domain events and never sent: it stays running.
SagaSaved == "running"

\* The saga's own transaction commits after the command, and the message is acked.
SaveSaga(s) ==
  /\ s \in {Consumer, Ticker} /\ cmd[s].pc = "done"
  /\ LET o == cmd[s].order IN
     /\ saga' = [saga EXCEPT ![o] = SagaSaved]
     /\ due' = [due EXCEPT ![o] = FALSE]
     /\ message' = IF s = Consumer THEN [message EXCEPT ![o] = "handled"] ELSE message
  /\ Set(s, Idle)
  /\ UNCHANGED <<log, timedOut, view, requests, faults>>

\* It fails, or the worker dies: the message is delivered again, the timeout recurs, and a tick
\* ends before it has served the rest.
SagaFails(s) ==
  /\ s \in {Consumer, Ticker} /\ cmd[s].pc = "done" /\ Fault
  /\ Set(s, Idle)
  /\ timedOut' = IF s = Ticker THEN {} ELSE timedOut
  /\ UNCHANGED <<log, message, saga, due, view, requests>>

\* Thirty minutes without an update.
TimePasses(o) ==
  /\ saga[o] = "running" /\ ~due[o]
  /\ due' = [due EXCEPT ![o] = TRUE]
  /\ UNCHANGED <<log, message, saga, timedOut, cmd, view, requests, faults>>

-----------------------------------------------------------------------------
(* The read model                                                          *)

Positions == {<<n, o>> : n \in 1..3, o \in Orders}

\* run_once of the projection loop: it reads all events above the checkpoint.
RunOnce(r) ==
  /\ run[r] = NoPass
  /\ LET new == {w \in Positions : w[1] > checkpoint /\ w[1] <= Len(log[w[2]])} IN
     /\ new # {}
     /\ run' = [run EXCEPT ![r] = [rows |-> new, left |-> new]]
  /\ UNCHANGED <<log, sagas, cmd, summary, checkpoint, projected, requests, faults>>

\* Mutant of Applied: a repeated OrderPlaced overwrites the row, and the updates are
\* written only where the row is still pending.
AppliedOnce(row, event) ==
  CASE event = "placed"                       -> "pending"
    [] event # "placed" /\ row = "pending"     -> event
    [] OTHER                                  -> row

\* on_orderplaced inserts unless there is a row; the others update a row.
Applied(row, event) ==
  CASE event = "placed" /\ row = "none" -> "pending"
    [] event # "placed" /\ row # "none" -> event
    [] OTHER                            -> row

\* The rows by sequence, ties in any order.  A handler commits its own transaction.
Project(r) ==
  /\ \E w \in run[r].left :
       /\ \A v \in run[r].left : w[1] <= v[1]
       /\ summary' = [summary EXCEPT ![w[2]] = Applied(@, log[w[2]][w[1]])]
       /\ run' = [run EXCEPT ![r].left = @ \ {w}]
  /\ UNCHANGED <<log, sagas, cmd, checkpoint, projected, requests, faults>>

\* _set_checkpoint to the sequence of the last row.
SaveCheckpoint(r) ==
  /\ run[r].left = {}
  /\ \E w \in run[r].rows : (\A v \in run[r].rows : v[1] <= w[1]) /\ checkpoint' = w[1]
  /\ projected' = projected \cup run[r].rows
  /\ run' = [run EXCEPT ![r] = NoPass]
  /\ UNCHANGED <<log, sagas, cmd, summary, requests, faults>>

\* The pass fails or the process dies: what was applied stays, the checkpoint too.
PassFails(r) ==
  /\ run[r] # NoPass /\ Fault
  /\ run' = [run EXCEPT ![r] = NoPass]
  /\ UNCHANGED <<log, sagas, cmd, summary, checkpoint, projected, requests>>

-----------------------------------------------------------------------------
Handle(s) == Load(s) \/ AppendEvent(s) \/ Commit(s)
Loop(r) == RunOnce(r) \/ Project(r) \/ SaveCheckpoint(r)
Consume == SaveSaga(Consumer) \/ \E o \in Orders : OnOrderPlaced(o)
Tick == LoadTimedOut \/ SaveSaga(Ticker) \/ \E o \in Orders : OnTimeout(o)

Next ==
  \/ \E c \in Clients, o \in Orders :
       PlaceOrder(c, o) \/ GetOrder(c, o) \/ \E kind \in {"confirmed", "cancelled"} : Send(c, o, kind)
  \/ \E s \in Slots : Handle(s) \/ HandlerFails(s) \/ SagaFails(s)
  \/ Consume \/ Tick
  \/ \E o \in Orders : TimePasses(o)
  \/ \E r \in Runners : Loop(r) \/ PassFails(r)

\* Handlers run to their end, the worker, the timeout task and the projection loop go
\* round, and time passes; nothing makes a client send a request.
Spec ==
  /\ Init /\ [][Next]_vars
  /\ \A s \in Slots : WF_vars(Handle(s))
  /\ WF_vars(Consume) /\ WF_vars(Tick)
  /\ \A o \in Orders : WF_vars(TimePasses(o))
  /\ \A r \in Runners : WF_vars(Loop(r))

-----------------------------------------------------------------------------
(* Properties                                                              *)

\* Order, ConfirmOrderHandler, CancelOrderHandler: whatever clients, the saga and its
\* timeout do at the same time, an order is placed, then confirmed at most once, then
\* cancelled at most once, with nothing behind the cancellation.
StreamIsLegal ==
  \A o \in Orders :
    \E history \in {<<"placed", "confirmed", "cancelled">>, <<"placed", "cancelled">>} :
      IsPrefix(log[o], history)

\* The runner has one checkpoint for all streams: an event of o was committed at a sequence
\* that events of other orders had moved the checkpoint to, and no pass reads it.
Overtaken(o) == \E n \in 1 .. Len(log[o]) : n <= checkpoint /\ <<n, o>> \notin projected

\* OrderSummaryProjection with one application process: unless the order is overtaken, its
\* summary reaches its status and, if the order changes no more, stays there, crashes,
\* repeated events and the events of other orders in between notwithstanding.
SummaryFollows ==
  \A o \in Orders : \A status \in {"pending", "confirmed", "cancelled"} :
    <>[](StatusOf(log[o]) = status) => <>[](summary[o] = status \/ Overtaken(o))

\* OrderFulfillmentSaga: a placed order does not stay pending: it is confirmed, or the
\* timeout cancels it when the confirmation was lost.
PlacedIsDecided == \A o \in Orders : (StatusOf(log[o]) = "pending") ~> (StatusOf(log[o]) \in {"confirmed", "cancelled"})

\* Every success is backed by the stream: the position the command wanted is taken, by
\* its own event or by the concurrent one whose conflict the handler dropped; and a
\* status that was read is one the order had.
AnswersBacked ==
  \A c \in Clients : cmd[c].pc = "done" =>
    LET stream == log[cmd[c].order] IN
    /\ cmd[c].kind \in {"confirmed", "cancelled"} /\ cmd[c].answer = "ok" => Len(stream) > cmd[c].seen
    /\ cmd[c].kind = "get" => \/ cmd[c].answer = "NotFoundError"
                              \/ \E n \in 1..Len(stream) : cmd[c].answer = StatusOf(SubSeq(stream, 1, n))
=============================================================================
