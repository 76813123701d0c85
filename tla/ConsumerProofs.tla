---------------------------- MODULE ConsumerProofs ----------------------------
(***************************************************************************)
(* The two consumers of events.  WorkerRuntime, for any number of messages, *)
(* deliveries, workers and handlers, whatever crashes, is lost or comes     *)
(* late: no message is settled without a reason, and two tasks work on one  *)
(* message only after a fault.  ProjectionRunner, for any number of         *)
(* runners, projections and aggregates, whatever overlaps, fails or is      *)
(* reset: no event at or below a checkpoint is missing from its read model  *)
(* but one that an event of another aggregate has overtaken.                *)
(***************************************************************************)
EXTENDS WorkerRuntime, ProjectionRunner, FiniteSetTheorems, WellFoundedInduction, TLAPS

Deliveries == Ids \X Attempts
TaskSet == [pc : PCs, worker : Workers, h : Nat]

Types ==
  /\ stream \in Seq(Events) /\ Len(stream) <= MaxMessages
  /\ js \in [Ids -> ConsumerStates] /\ num \in [Ids -> Nat]
  /\ task \in [Deliveries -> TaskSet \cup {NoTask}]

\* What the consumer counts: a message it may deliver has deliveries left.
Counted ==
  \A m \in Ids :
    /\ num[m] <= MaxDeliver
    /\ js[m] = "absent" <=> m > Len(stream)
    /\ js[m] = "absent" => num[m] = 0
    /\ js[m] = "ready" => num[m] < MaxDeliver
    /\ js[m] = "outstanding" => num[m] >= 1

\* A task that is about to ack has the reason on record, and the last delivery of a
\* well-formed message is not naked where a DeadLetterStore is configured.
Reasons ==
  \A t \in Deliveries :
    /\ task[t] # NoTask => t[1] <= Len(stream)
    /\ task[t].pc = "ack" => t[1] \in handled
    /\ task[t].pc = "notify" => t[1] \in deadLetters
    /\ task[t].pc = "drop" => t[1] \in given \cup deadLetters \cup lostRows
    /\ task[t].pc = "nak" /\ UseDLQ /\ Kind[stream[t[1]]] = "good" => t[2] < MaxDeliver

\* A dead letter is of a message that was published.
DeadLetterRows == \A m \in deadLetters : m \in Ids /\ m <= Len(stream)

\* Unless a fault hit the message, a living task is the one of the current delivery, which
\* the consumer has outstanding ...
Current ==
  \A t \in Deliveries : Alive(t) /\ t[1] \notin disturbed => t[2] = num[t[1]] /\ js[t[1]] = "outstanding"

\* ... and an outstanding delivery of a well-formed message has its living task.
Held ==
  \A m \in Ids : m \notin disturbed /\ js[m] = "outstanding" /\ Kind[stream[m]] = "good" => Alive(<<m, num[m]>>)

\* The inductive invariant.
IInv == Types /\ Counted /\ Reasons /\ DeadLetterRows /\ Current /\ Held /\ FateAccounted

USE WorkerAssumption

-----------------------------------------------------------------------------
(* One task moves                                                          *)

\* A living task is a record of TaskSet.
LEMMA LivingTask ==
  ASSUME Types, NEW t \in Deliveries, NEW p \in PCs, task[t].pc = p
  PROVE  task[t] \in TaskSet
<1>1. NoTask.pc = "none" /\ "none" \notin PCs
  BY DEF NoTask, PCs
<1>. QED  BY <1>1 DEF Types

\* The histories only grow, the dead letters by the message of the task.
Grow(t) ==
  /\ handled \subseteq handled' /\ given \subseteq given' /\ lostRows \subseteq lostRows'
  /\ deadLetters \subseteq deadLetters' /\ deadLetters' \subseteq deadLetters \cup {t[1]}

\* A task goes on, with the reason for what it does next on record; it ends by itself only
\* when a fault hit its message or the message is not well-formed.
LEMMA TaskStep ==
  ASSUME IInv, NEW t \in Deliveries, Alive(t), NEW r \in TaskSet, task' = [task EXCEPT ![t] = r],
         UNCHANGED <<stream, js, num>>, Grow(t), disturbed \subseteq disturbed',
         r.pc = "ack" => t[1] \in handled',
         r.pc = "notify" => t[1] \in deadLetters',
         r.pc = "drop" => t[1] \in given' \cup deadLetters' \cup lostRows',
         r.pc = "nak" /\ UseDLQ /\ Kind[stream[t[1]]] = "good" => t[2] < MaxDeliver,
         r.pc = "done" => t[1] \in disturbed' \/ Kind[stream[t[1]]] # "good"
  PROVE  IInv'
<1>1. task \in [Deliveries -> TaskSet \cup {NoTask}]
  BY DEF IInv, Types
<1>2. task' \in [Deliveries -> TaskSet \cup {NoTask}] /\ task'[t] = r /\ \A u \in Deliveries \ {t} : task'[u] = task[u]
  BY <1>1
<1>3. task[t] # NoTask
  BY DEF Alive, NoTask
<1>4. Types' /\ Counted'
  BY <1>2 DEF IInv, Types, Counted
<1>5. Reasons'
  <2>1. SUFFICES ASSUME NEW u \in Deliveries
                 PROVE  /\ task'[u] # NoTask => u[1] <= Len(stream)
                        /\ task'[u].pc = "ack" => u[1] \in handled'
                        /\ task'[u].pc = "notify" => u[1] \in deadLetters'
                        /\ task'[u].pc = "drop" => u[1] \in given' \cup deadLetters' \cup lostRows'
                        /\ task'[u].pc = "nak" /\ UseDLQ /\ Kind[stream[u[1]]] = "good" => u[2] < MaxDeliver
    BY DEF Reasons
  <2>2. CASE u = t
    BY <1>2, <1>3, <2>2 DEF IInv, Reasons
  <2>3. CASE u # t
    BY <1>2, <2>3 DEF IInv, Reasons, Grow
  <2>. QED  BY <2>2, <2>3
<1>6. Current'
  <2>1. \A u \in Deliveries : Alive(u)' => Alive(u)
    BY <1>2 DEF Alive
  <2>. QED  BY <2>1 DEF IInv, Current
<1>7. Held'
  <2>1. SUFFICES ASSUME NEW m \in Ids, m \notin disturbed', js[m] = "outstanding", Kind[stream[m]] = "good"
                 PROVE  Alive(<<m, num[m]>>)'
    BY DEF Held
  <2>2. num[m] \in Attempts
    BY <2>1 DEF IInv, Types, Counted, Attempts
  <2>3. PICK u \in Deliveries : u = <<m, num[m]>>
    BY <2>2 DEF Deliveries
  <2>4. Alive(u)
    BY <2>1, <2>3 DEF IInv, Held
  <2>5. Alive(u)'
    <3>1. CASE u = t
      <4>1. r.pc # "none"
        BY DEF TaskSet, PCs
      <4>2. t[1] = m
        BY <2>3, <3>1
      <4>3. r.pc # "done"
        BY <2>1, <4>2
      <4>. QED  BY <1>2, <3>1, <4>1, <4>3 DEF Alive
    <3>2. CASE u # t
      BY <1>2, <2>4, <3>2 DEF Alive
    <3>. QED  BY <3>1, <3>2
  <2>. QED  BY <2>3, <2>5
<1>8. FateAccounted'
  BY DEF IInv, FateAccounted, Grow
<1>9. DeadLetterRows'
  <2>1. t[1] \in Ids /\ t[1] <= Len(stream)
    BY <1>3 DEF IInv, Reasons, Deliveries
  <2>. QED  BY <2>1 DEF IInv, DeadLetterRows, Grow
<1>. QED  BY <1>4, <1>5, <1>6, <1>7, <1>8, <1>9 DEF IInv

\* Goto is such a step.
LEMMA GotoStep ==
  ASSUME IInv, NEW t \in Deliveries, Alive(t), NEW p \in PCs, Goto(t, p),
         UNCHANGED <<stream, js, num>>, Grow(t), disturbed \subseteq disturbed',
         p = "ack" => t[1] \in handled',
         p = "notify" => t[1] \in deadLetters',
         p = "drop" => t[1] \in given' \cup deadLetters' \cup lostRows',
         p = "nak" /\ UseDLQ /\ Kind[stream[t[1]]] = "good" => t[2] < MaxDeliver,
         p = "done" => t[1] \in disturbed' \/ Kind[stream[t[1]]] # "good"
  PROVE  IInv'
<1>1. task[t] \in TaskSet
  BY DEF IInv, Types, Alive, NoTask
<1>. DEFINE n == [task[t] EXCEPT !.pc = p]
<1>2. n \in TaskSet
  BY <1>1 DEF TaskSet
<1>3. n.pc = p
  BY <1>1 DEF TaskSet
<1>4. task' = [task EXCEPT ![t] = n]
  BY DEF Goto
<1>. HIDE DEF n
<1>5. PICK r \in TaskSet : r = n
  BY <1>2
<1>. QED  BY <1>3, <1>4, <1>5, TaskStep

-----------------------------------------------------------------------------
(* WorkerRuntime._process                                                  *)

LEMMA ProcessStep ==
  ASSUME IInv, NEW t \in Deliveries,
         \/ Decode(t) \/ HandlerReturns(t) \/ HandlerPermanent(t) \/ HandlerRaises(t)
         \/ Classify(t) \/ Persist(t) \/ PublishNotification(t) \/ FaultyStep(t)
  PROVE  IInv'
<1>0. t[1] \in Ids /\ t[2] \in Nat
  BY DEF Deliveries, Attempts
<1>1. CASE Decode(t)
  <2>1. Alive(t)
    BY <1>1 DEF Decode, Alive
  <2>2. UNCHANGED <<stream, js, num>> /\ disturbed' = disturbed /\ Grow(t)
    BY <1>1 DEF Decode, consumer, NoFault, Grow
  <2>3. CASE Kind[stream[t[1]]] = "unknown"
    <3>1. Goto(t, "drop") /\ t[1] \in given'
      BY <1>1, <2>3 DEF Decode, ParseMessage
    <3>. QED  BY <2>1, <2>2, <3>1, GotoStep DEF PCs
  <2>4. CASE Kind[stream[t[1]]] = "malformed"
    <3>1. Goto(t, "nak")
      BY <1>1, <2>4 DEF Decode, ParseMessage
    <3>. QED  BY <2>1, <2>2, <2>4, <3>1, GotoStep DEF PCs
  <2>5. CASE Kind[stream[t[1]]] = "badtenant"
    <3>1. Goto(t, "done")
      BY <1>1, <2>5 DEF Decode, ParseMessage
    <3>. QED  BY <2>1, <2>2, <2>5, <3>1, GotoStep DEF PCs
  <2>6. CASE Kind[stream[t[1]]] \notin {"unknown", "malformed", "badtenant"}
    <3>1. Goto(t, "run")
      BY <1>1, <2>6 DEF Decode, ParseMessage
    <3>. QED  BY <2>1, <2>2, <3>1, GotoStep DEF PCs
  <2>. QED  BY <2>3, <2>4, <2>5, <2>6
<1>2. CASE HandlerReturns(t)
  <2>1. Alive(t) /\ task[t].pc = "run"
    BY <1>2 DEF HandlerReturns, Alive
  <2>2. UNCHANGED <<stream, js, num>> /\ disturbed' = disturbed /\ Grow(t)
    BY <1>2 DEF HandlerReturns, consumer, NoFault, Grow
  <2>3. task[t] \in TaskSet
    BY <2>1, LivingTask DEF IInv, PCs
  <2>. DEFINE lastHandler == task[t].h + 1 = NumHandlers
              q == IF lastHandler THEN "ack" ELSE "run"
              n == [task[t] EXCEPT !.h = task[t].h + 1, !.pc = q]
  <2>4. task' = [task EXCEPT ![t] = n] /\ (lastHandler => t[1] \in handled')
    <3>1. task' = [task EXCEPT ![t] = n]
      BY <1>2, <2>3 DEF HandlerReturns, TaskSet
    <3>2. lastHandler => t[1] \in handled'
      BY <1>2 DEF HandlerReturns
    <3>. QED  BY <3>1, <3>2
  <2>5. q \in {"ack", "run"} /\ (q = "ack" => lastHandler)
    OBVIOUS
  <2>. HIDE DEF q, lastHandler
  <2>6. n \in TaskSet
    <3>1. task[t].h + 1 \in Nat
      BY <2>3 DEF TaskSet
    <3>. QED  BY <2>3, <2>5, <3>1 DEF TaskSet, PCs
  <2>7. n.pc = q
    BY <2>3 DEF TaskSet
  <2>. HIDE DEF n
  <2>8. PICK r \in TaskSet : r = n
    BY <2>6
  <2>9. r.pc \in {"ack", "run"} /\ (r.pc = "ack" => t[1] \in handled') /\ task' = [task EXCEPT ![t] = r]
    BY <2>4, <2>5, <2>7, <2>8
  <2>. QED  BY <2>1, <2>2, <2>9, TaskStep
<1>3. CASE HandlerPermanent(t)
  <2>1. Alive(t) /\ Goto(t, "drop") /\ t[1] \in given'
    BY <1>3 DEF HandlerPermanent, Alive
  <2>2. UNCHANGED <<stream, js, num>> /\ disturbed' = disturbed /\ Grow(t)
    BY <1>3 DEF HandlerPermanent, consumer, NoFault, Grow
  <2>. QED  BY <2>1, <2>2, GotoStep DEF PCs
<1>4. CASE HandlerRaises(t)
  <2>1. Alive(t) /\ Goto(t, "failed")
    BY <1>4 DEF HandlerRaises, Alive
  <2>2. UNCHANGED <<stream, js, num>> /\ disturbed' = disturbed /\ Grow(t)
    BY <1>4 DEF HandlerRaises, consumer, NoFault, Grow, history
  <2>. QED  BY <2>1, <2>2, GotoStep DEF PCs
<1>5. CASE Classify(t)
  <2>1. Alive(t)
    BY <1>5 DEF Classify, Alive
  <2>2. UNCHANGED <<stream, js, num>> /\ disturbed' = disturbed /\ Grow(t)
    BY <1>5 DEF Classify, consumer, NoFault, Grow, history
  <2>3. CASE UseDLQ /\ IsLastAttempt(t)
    <3>1. Goto(t, "persist")
      BY <1>5, <2>3 DEF Classify
    <3>. QED  BY <2>1, <2>2, <3>1, GotoStep DEF PCs
  <2>4. CASE ~(UseDLQ /\ IsLastAttempt(t))
    <3>1. Goto(t, "nak")
      BY <1>5, <2>4 DEF Classify
    <3>2. UseDLQ => t[2] < MaxDeliver
      BY <1>0, <2>4 DEF IsLastAttempt
    <3>. QED  BY <2>1, <2>2, <3>1, <3>2, GotoStep DEF PCs
  <2>. QED  BY <2>3, <2>4
<1>6. CASE Persist(t)
  <2>1. Alive(t) /\ Goto(t, "notify") /\ t[1] \in deadLetters'
    BY <1>6 DEF Persist, Alive
  <2>2. UNCHANGED <<stream, js, num>> /\ disturbed' = disturbed /\ Grow(t)
    BY <1>6 DEF Persist, consumer, NoFault, Grow
  <2>. QED  BY <2>1, <2>2, GotoStep DEF PCs
<1>7. CASE PublishNotification(t)
  <2>1. Alive(t) /\ Goto(t, "drop") /\ t[1] \in deadLetters
    BY <1>7 DEF PublishNotification, Alive, IInv, Reasons
  <2>2. UNCHANGED <<stream, js, num>> /\ disturbed' = disturbed /\ Grow(t)
    BY <1>7 DEF PublishNotification, consumer, NoFault, Grow, history
  <2>3. t[1] \in given' \cup deadLetters' \cup lostRows'
    BY <2>1, <2>2 DEF Grow
  <2>. QED  BY <2>1, <2>2, <2>3, GotoStep DEF PCs
<1>8. CASE AckLost(t) \/ NakLost(t)
  <2>1. Alive(t) /\ Goto(t, "done")
    BY <1>8 DEF AckLost, NakLost, Acks, Alive
  <2>2. UNCHANGED <<stream, js, num>> /\ disturbed' = disturbed \cup {t[1]} /\ Grow(t)
    BY <1>8 DEF AckLost, NakLost, consumer, Fault, Grow, history
  <2>. QED  BY <2>1, <2>2, GotoStep DEF PCs
<1>9. CASE AckRaises(t)
  <2>1. Alive(t) /\ (Goto(t, "failed") \/ Goto(t, "done"))
    BY <1>9 DEF AckRaises, Acks, Alive
  <2>2. UNCHANGED <<stream, js, num>> /\ disturbed' = disturbed \cup {t[1]} /\ Grow(t)
    BY <1>9 DEF AckRaises, consumer, Fault, Grow, history
  <2>3. CASE Goto(t, "failed")
    BY <2>1, <2>2, <2>3, GotoStep DEF PCs
  <2>4. CASE Goto(t, "done")
    BY <2>1, <2>2, <2>4, GotoStep DEF PCs
  <2>. QED  BY <2>1, <2>3, <2>4
<1>10. CASE PersistFails(t)
  <2>1. Alive(t) /\ Goto(t, "drop") /\ t[1] \in lostRows'
    BY <1>10 DEF PersistFails, Alive
  <2>2. UNCHANGED <<stream, js, num>> /\ disturbed \subseteq disturbed' /\ Grow(t)
    BY <1>10 DEF PersistFails, consumer, Fault, Grow
  <2>. QED  BY <2>1, <2>2, GotoStep DEF PCs
<1>. QED  BY <1>1, <1>2, <1>3, <1>4, <1>5, <1>6, <1>7, <1>8, <1>9, <1>10 DEF FaultyStep

\* A task has the consumer settle or requeue its message, and ends.
LEMMA AnswerStep ==
  ASSUME IInv, NEW t \in Deliveries, Alive(t), Goto(t, "done"), UNCHANGED <<stream, num, history, disturbed>>,
         NEW s \in ConsumerStates, js' = [js EXCEPT ![t[1]] = s],
         s = "absent" <=> js[t[1]] = "absent",
         s = "ready" => num[t[1]] < MaxDeliver,
         s = "outstanding" => js[t[1]] = "outstanding" /\ t[2] # num[t[1]],
         s = "acked" => t[1] \in handled \cup given \cup deadLetters \cup lostRows,
         s = "dead" => js[t[1]] = "dead" \/ (UseDLQ /\ Kind[stream[t[1]]] = "good" => t[1] \in disturbed)
  PROVE  IInv'
<1>1. t[1] \in Ids /\ js \in [Ids -> ConsumerStates] /\ task \in [Deliveries -> TaskSet \cup {NoTask}]
  BY DEF Deliveries, IInv, Types
<1>2. task[t] \in TaskSet
  BY DEF IInv, Types, Alive, NoTask
<1>. DEFINE n == [task[t] EXCEPT !.pc = "done"]
<1>3. n \in TaskSet /\ n.pc = "done" /\ task' = [task EXCEPT ![t] = n]
  BY <1>2 DEF TaskSet, PCs, Goto
<1>. HIDE DEF n
<1>4. task' \in [Deliveries -> TaskSet \cup {NoTask}] /\ task'[t] = n /\ \A u \in Deliveries \ {t} : task'[u] = task[u]
  BY <1>1, <1>3
<1>5. js' \in [Ids -> ConsumerStates] /\ js'[t[1]] = s /\ \A m \in Ids \ {t[1]} : js'[m] = js[m]
  BY <1>1
<1>6. Types' /\ Counted'
  <2>1. Types'
    BY <1>4, <1>5 DEF IInv, Types
  <2>2. Counted'
    BY <1>1, <1>5 DEF IInv, Counted
  <2>. QED  BY <2>1, <2>2
<1>7. Reasons'
  <2>1. SUFFICES ASSUME NEW u \in Deliveries
                 PROVE  /\ task'[u] # NoTask => u[1] <= Len(stream)
                        /\ task'[u].pc = "ack" => u[1] \in handled
                        /\ task'[u].pc = "notify" => u[1] \in deadLetters
                        /\ task'[u].pc = "drop" => u[1] \in given \cup deadLetters \cup lostRows
                        /\ task'[u].pc = "nak" /\ UseDLQ /\ Kind[stream[u[1]]] = "good" => u[2] < MaxDeliver
    BY DEF Reasons, history
  <2>2. CASE u = t
    <3>1. task[t] # NoTask
      BY DEF Alive, NoTask
    <3>2. task'[u].pc = "done"
      BY <1>3, <1>4, <2>2
    <3>. QED  BY <2>2, <3>1, <3>2 DEF IInv, Reasons
  <2>3. CASE u # t
    BY <1>4, <2>3 DEF IInv, Reasons
  <2>. QED  BY <2>2, <2>3
<1>8. Current'
  <2>1. SUFFICES ASSUME NEW u \in Deliveries, Alive(u)', u[1] \notin disturbed
                 PROVE  u[2] = num[u[1]] /\ js'[u[1]] = "outstanding"
    BY DEF Current
  <2>2. u # t /\ Alive(u)
    BY <1>3, <1>4, <2>1 DEF Alive
  <2>3. u[2] = num[u[1]] /\ js[u[1]] = "outstanding"
    BY <2>1, <2>2 DEF IInv, Current
  <2>4. CASE u[1] = t[1]
    <3>1. t[2] = num[t[1]]
      BY <2>1, <2>4 DEF IInv, Current
    <3>2. u = t
      BY <2>3, <2>4, <3>1 DEF Deliveries
    <3>. QED  BY <2>2, <3>2
  <2>5. CASE u[1] # t[1]
    BY <1>5, <2>3, <2>5 DEF Deliveries
  <2>. QED  BY <2>4, <2>5
<1>9. Held'
  <2>1. SUFFICES ASSUME NEW m \in Ids, m \notin disturbed, js'[m] = "outstanding", Kind[stream[m]] = "good"
                 PROVE  Alive(<<m, num[m]>>)'
    BY DEF Held
  <2>2. js[m] = "outstanding" /\ (m = t[1] => t[2] # num[m])
    BY <1>5, <2>1
  <2>3. num[m] \in Attempts
    BY <2>2 DEF IInv, Types, Counted, Attempts
  <2>4. PICK u \in Deliveries : u = <<m, num[m]>>
    BY <2>3 DEF Deliveries
  <2>5. u # t
    BY <2>2, <2>4
  <2>6. Alive(u)
    BY <2>1, <2>2, <2>4 DEF IInv, Held
  <2>7. Alive(u)'
    BY <1>4, <2>5, <2>6 DEF Alive
  <2>. QED  BY <2>4, <2>7
<1>10. FateAccounted' /\ DeadLetterRows'
  BY <1>1, <1>5 DEF IInv, FateAccounted, DeadLetterRows, history
<1>. QED  BY <1>6, <1>7, <1>8, <1>9, <1>10 DEF IInv

LEMMA AckStep ==
  ASSUME IInv, NEW t \in Deliveries, Ack(t)
  PROVE  IInv'
<1>1. t[1] \in Ids /\ js[t[1]] \in ConsumerStates
  BY DEF Deliveries, IInv, Types
<1>2. Alive(t) /\ Goto(t, "done") /\ UNCHANGED <<stream, num, history, disturbed>>
  BY DEF Ack, Acks, Alive, NoFault
<1>3. t[1] \in handled \cup given \cup deadLetters \cup lostRows
  BY DEF Ack, Acks, IInv, Reasons
<1>. DEFINE n == IF js[t[1]] \in {"ready", "outstanding"} THEN "acked" ELSE js[t[1]]
<1>4. js' = [js EXCEPT ![t[1]] = n]
  BY DEF Ack, ServerAck
<1>5. /\ n \in ConsumerStates /\ n # "ready" /\ n # "outstanding" /\ (n = "absent" <=> js[t[1]] = "absent")
      /\ n = "dead" => js[t[1]] = "dead"
  BY <1>1 DEF ConsumerStates
<1>. HIDE DEF n
<1>6. PICK s \in ConsumerStates : s = n
  BY <1>5
<1>. QED  BY <1>2, <1>3, <1>4, <1>5, <1>6, AnswerStep

LEMMA NakStep ==
  ASSUME IInv, NEW t \in Deliveries, Nak(t)
  PROVE  IInv'
<1>1. t[1] \in Ids /\ js[t[1]] \in ConsumerStates /\ js \in [Ids -> ConsumerStates] /\ num[t[1]] \in Nat
  BY DEF Deliveries, IInv, Types
<1>2. Alive(t) /\ Goto(t, "done") /\ UNCHANGED <<stream, num, history, disturbed>> /\ task[t].pc = "nak"
  BY DEF Nak, Alive, NoFault
<1>3. js[t[1]] = "acked" => t[1] \in handled \cup given \cup deadLetters \cup lostRows
  BY <1>1 DEF IInv, FateAccounted
<1>4. js[t[1]] = "ready" => num[t[1]] < MaxDeliver
  BY <1>1 DEF IInv, Counted
<1>5. CASE js' = [js EXCEPT ![t[1]] = IF @ = "outstanding" THEN AfterRefusal(t[1]) ELSE @]
  <2>. DEFINE n == IF js[t[1]] = "outstanding" THEN AfterRefusal(t[1]) ELSE js[t[1]]
  <2>1. js' = [js EXCEPT ![t[1]] = n]
    BY <1>5
  <2>2. /\ n \in ConsumerStates /\ n # "outstanding" /\ (n = "absent" <=> js[t[1]] = "absent")
        /\ n = "ready" => num[t[1]] < MaxDeliver
        /\ n = "acked" => js[t[1]] = "acked"
        /\ n = "dead" /\ js[t[1]] # "dead" => num[t[1]] >= MaxDeliver
    BY <1>1, <1>4 DEF ConsumerStates, AfterRefusal
  <2>. HIDE DEF n
  <2>3. num[t[1]] >= MaxDeliver /\ UseDLQ /\ Kind[stream[t[1]]] = "good" => t[1] \in disturbed
    <3>1. SUFFICES ASSUME num[t[1]] >= MaxDeliver, UseDLQ, Kind[stream[t[1]]] = "good", t[1] \notin disturbed
                   PROVE  FALSE
      OBVIOUS
    <3>2. t[2] = num[t[1]]
      BY <1>2, <3>1 DEF IInv, Current
    <3>3. t[2] < MaxDeliver
      BY <1>2, <3>1 DEF IInv, Reasons
    <3>. QED  BY <1>1, <3>1, <3>2, <3>3
  <2>4. PICK s \in ConsumerStates : s = n
    BY <2>2
  <2>. QED  BY <1>2, <1>3, <2>1, <2>2, <2>3, <2>4, AnswerStep
<1>6. CASE t[2] # num[t[1]] /\ UNCHANGED js
  <2>1. PICK s \in ConsumerStates : s = js[t[1]]
    BY <1>1
  <2>2. js' = [js EXCEPT ![t[1]] = s]
    BY <1>1, <1>6, <2>1
  <2>. QED  BY <1>2, <1>3, <1>4, <1>6, <2>1, <2>2, AnswerStep
<1>. QED  BY <1>5, <1>6 DEF Nak, ServerNak

-----------------------------------------------------------------------------
(* The consumer and the workers                                            *)

\* A message is published: it is new, and what was published stays.
LEMMA AppendStep ==
  ASSUME IInv, NEW e \in Events, Append1(e)
  PROVE  IInv'
<1>1. /\ stream \in Seq(Events) /\ Len(stream) \in Nat /\ Len(stream) < MaxMessages
      /\ js \in [Ids -> ConsumerStates] /\ UNCHANGED <<num, task, history, disturbed>>
  BY DEF IInv, Types, Append1, NoFault
<1>2. /\ stream' \in Seq(Events) /\ Len(stream') = Len(stream) + 1
      /\ \A m \in 1 .. Len(stream) : stream'[m] = stream[m]
  BY <1>1 DEF Append1
<1>3. PICK n \in Ids : n = Len(stream) + 1
  BY <1>1 DEF Ids
<1>4. js' = [js EXCEPT ![n] = "ready"]
  BY <1>3 DEF Append1
<1>5. js' \in [Ids -> ConsumerStates] /\ js'[n] = "ready" /\ \A m \in Ids \ {n} : js'[m] = js[m]
  BY <1>1, <1>4 DEF ConsumerStates
<1>6. js[n] = "absent" /\ num[n] = 0
  BY <1>1, <1>3 DEF IInv, Counted
<1>7. Types'
  BY <1>1, <1>2, <1>5 DEF IInv, Types
<1>8. Counted'
  <2>1. SUFFICES ASSUME NEW m \in Ids
                 PROVE  /\ num[m] <= MaxDeliver
                        /\ js'[m] = "absent" <=> m > Len(stream')
                        /\ js'[m] = "absent" => num[m] = 0
                        /\ js'[m] = "ready" => num[m] < MaxDeliver
                        /\ js'[m] = "outstanding" => num[m] >= 1
    BY <1>1 DEF Counted
  <2>2. m \in Nat
    BY DEF Ids
  <2>3. CASE m = n
    BY <1>1, <1>2, <1>3, <1>5, <1>6, <2>3
  <2>4. CASE m # n
    <3>1. m > Len(stream') <=> m > Len(stream)
      BY <1>1, <1>2, <1>3, <2>2, <2>4
    <3>. QED  BY <1>5, <2>4, <3>1 DEF IInv, Counted
  <2>. QED  BY <2>3, <2>4
<1>9. \A t \in Deliveries : task[t] # NoTask => t[1] <= Len(stream') /\ stream'[t[1]] = stream[t[1]]
  <2>1. SUFFICES ASSUME NEW t \in Deliveries, task[t] # NoTask  PROVE t[1] <= Len(stream') /\ stream'[t[1]] = stream[t[1]]
    OBVIOUS
  <2>2. t[1] <= Len(stream) /\ t[1] \in Nat /\ t[1] >= 1
    BY <2>1 DEF IInv, Reasons, Deliveries, Ids
  <2>3. t[1] \in 1 .. Len(stream)
    BY <1>1, <2>2
  <2>. QED  BY <1>1, <1>2, <2>2, <2>3
<1>10. Reasons'
  <2>1. SUFFICES ASSUME NEW t \in Deliveries
                 PROVE  /\ task[t] # NoTask => t[1] <= Len(stream')
                        /\ task[t].pc = "ack" => t[1] \in handled
                        /\ task[t].pc = "notify" => t[1] \in deadLetters
                        /\ task[t].pc = "drop" => t[1] \in given \cup deadLetters \cup lostRows
                        /\ task[t].pc = "nak" /\ UseDLQ /\ Kind[stream'[t[1]]] = "good" => t[2] < MaxDeliver
    BY <1>1 DEF Reasons, history
  <2>2. task[t].pc = "nak" => task[t] # NoTask
    BY DEF NoTask
  <2>. QED  BY <1>9, <2>2 DEF IInv, Reasons
<1>11. Current'
  <2>1. SUFFICES ASSUME NEW t \in Deliveries, Alive(t), t[1] \notin disturbed
                 PROVE  t[2] = num[t[1]] /\ js'[t[1]] = "outstanding"
    BY <1>1 DEF Current, Alive
  <2>2. t[2] = num[t[1]] /\ js[t[1]] = "outstanding" /\ t[1] \in Ids
    BY <2>1 DEF IInv, Current, Deliveries
  <2>. QED  BY <1>5, <1>6, <2>2
<1>12. \A m \in Ids : js'[m] \notin {"absent", "ready"} => js[m] = js'[m] /\ stream'[m] = stream[m]
  <2>1. SUFFICES ASSUME NEW m \in Ids, js'[m] \notin {"absent", "ready"}  PROVE js[m] = js'[m] /\ stream'[m] = stream[m]
    OBVIOUS
  <2>2. js[m] = js'[m]
    BY <1>5, <2>1
  <2>3. ~(m > Len(stream)) /\ m \in Nat /\ m >= 1
    BY <2>1, <2>2 DEF IInv, Counted, Ids
  <2>4. m \in 1 .. Len(stream)
    BY <1>1, <2>3
  <2>. QED  BY <1>2, <2>2, <2>4
<1>13. Held'
  BY <1>1, <1>12 DEF IInv, Held, Alive
<1>14. FateAccounted' /\ DeadLetterRows'
  <2>1. FateAccounted'
    BY <1>1, <1>12 DEF IInv, FateAccounted, history
  <2>2. \A m \in Ids : m <= Len(stream) => m <= Len(stream')
    BY <1>1, <1>2 DEF Ids
  <2>3. DeadLetterRows'
    BY <1>1, <2>2 DEF IInv, DeadLetterRows, history
  <2>. QED  BY <2>1, <2>3
<1>. QED  BY <1>7, <1>8, <1>10, <1>11, <1>13, <1>14 DEF IInv

\* ack_wait passes: the delivery is refused, of an undisturbed message only when no task
\* is left for it.
LEMMA AckWaitStep ==
  ASSUME IInv, NEW m \in Ids, AckWait(m) \/ AckWaitLate(m)
  PROVE  IInv'
<1>1. /\ js[m] = "outstanding" /\ js' = [js EXCEPT ![m] = AfterRefusal(m)]
      /\ UNCHANGED <<stream, num, task, history>> /\ disturbed \subseteq disturbed'
      /\ Alive(<<m, num[m]>>) => m \in disturbed'
  BY DEF AckWait, AckWaitLate, NoFault, Fault
<1>2. js \in [Ids -> ConsumerStates] /\ num[m] \in Nat /\ num[m] >= 1 /\ num[m] <= MaxDeliver
  BY <1>1 DEF IInv, Types, Counted
<1>3. AfterRefusal(m) \in {"ready", "dead"} /\ (AfterRefusal(m) = "ready" => num[m] < MaxDeliver)
  BY DEF AfterRefusal
<1>4. /\ js' \in [Ids -> ConsumerStates] /\ js'[m] = AfterRefusal(m)
      /\ \A k \in Ids \ {m} : js'[k] = js[k]
  BY <1>1, <1>2, <1>3 DEF ConsumerStates
<1>5. Types' /\ Counted' /\ Reasons'
  <2>1. Types'
    BY <1>1, <1>4 DEF IInv, Types
  <2>2. Counted'
    BY <1>1, <1>3, <1>4 DEF IInv, Counted
  <2>3. Reasons'
    BY <1>1 DEF IInv, Reasons, history
  <2>. QED  BY <2>1, <2>2, <2>3
<1>6. Current'
  <2>1. SUFFICES ASSUME NEW t \in Deliveries, Alive(t), t[1] \notin disturbed'
                 PROVE  t[2] = num[t[1]] /\ js'[t[1]] = "outstanding"
    BY <1>1 DEF Current, Alive
  <2>2. t[2] = num[t[1]] /\ js[t[1]] = "outstanding" /\ t[1] \in Ids
    BY <1>1, <2>1 DEF IInv, Current, Deliveries
  <2>3. t[1] # m
    <3>1. SUFFICES ASSUME t[1] = m  PROVE FALSE
      OBVIOUS
    <3>2. t = <<m, num[m]>>
      BY <2>2, <3>1 DEF Deliveries
    <3>. QED  BY <1>1, <2>1, <3>1, <3>2
  <2>. QED  BY <1>4, <2>2, <2>3
<1>7. Held'
  <2>1. SUFFICES ASSUME NEW k \in Ids, k \notin disturbed', js'[k] = "outstanding", Kind[stream[k]] = "good"
                 PROVE  Alive(<<k, num[k]>>)
    BY <1>1 DEF Held, Alive
  <2>2. k # m /\ js[k] = "outstanding"
    BY <1>3, <1>4, <2>1
  <2>. QED  BY <1>1, <2>1, <2>2 DEF IInv, Held
<1>8. FateAccounted' /\ DeadLetterRows'
  <2>1. Kind[stream[m]] = "good" => m \in disturbed'
    BY <1>1 DEF IInv, Held
  <2>2. FateAccounted'
    BY <1>1, <1>3, <1>4, <2>1 DEF IInv, FateAccounted, history
  <2>. QED  BY <1>1, <2>2 DEF IInv, DeadLetterRows, history
<1>. QED  BY <1>5, <1>6, <1>7, <1>8 DEF IInv

\* A batch is delivered, with a new task for each message or a fault on each.
LEMMA DeliverStep ==
  ASSUME IInv, NEW w \in Workers, NEW M \in Batches(w), Deliver(M), UNCHANGED <<stream, history>>,
         \/ /\ task' = [t \in Deliveries |-> IF t[1] \in M /\ t[2] = num[t[1]] + 1
                                               THEN [pc |-> "decode", worker |-> w, h |-> 0] ELSE task[t]]
            /\ disturbed' = disturbed
         \/ task' = task /\ disturbed' = disturbed \cup M
  PROVE  IInv'
<1>1. /\ M \subseteq Ids /\ \A m \in M : js[m] = "ready"
      /\ js \in [Ids -> ConsumerStates] /\ num \in [Ids -> Nat] /\ task \in [Deliveries -> TaskSet \cup {NoTask}]
  BY DEF Batches, IInv, Types
<1>2. /\ js' \in [Ids -> ConsumerStates] /\ num' \in [Ids -> Nat]
      /\ \A m \in M : js'[m] = "outstanding" /\ num'[m] = num[m] + 1
      /\ \A m \in Ids \ M : js'[m] = js[m] /\ num'[m] = num[m]
  BY <1>1 DEF Deliver, ConsumerStates
<1>. DEFINE new == [pc |-> "decode", worker |-> w, h |-> 0]
            Fresh(t) == t[1] \in M /\ t[2] = num[t[1]] + 1
<1>3. new \in TaskSet /\ new.pc = "decode"
  BY DEF TaskSet, PCs
<1>4. /\ task' \in [Deliveries -> TaskSet \cup {NoTask}]
      /\ \A t \in Deliveries : task'[t] = task[t] \/ (Fresh(t) /\ task'[t] = new)
  <2>0. task \in [Deliveries -> TaskSet \cup {NoTask}] /\ new \in TaskSet
    BY <1>1, <1>3
  <2>1. CASE task' = task
    BY <2>0, <2>1, Zenon
  <2>2. CASE task' = [t \in Deliveries |-> IF Fresh(t) THEN new ELSE task[t]]
    <3>. HIDE DEF new, Fresh
    <3>1. \A t \in Deliveries : task'[t] = IF Fresh(t) THEN new ELSE task[t]
      BY <2>2, Zenon
    <3>2. \A t \in Deliveries : task'[t] \in TaskSet \cup {NoTask}
      BY <2>0, <3>1
    <3>3. task' \in [Deliveries -> TaskSet \cup {NoTask}]
      BY <2>2, <3>1, <3>2, Zenon
    <3>. QED  BY <3>1, <3>3
  <2>. QED  BY <2>1, <2>2
<1>6. (\A t \in Deliveries : Fresh(t) => task'[t] = new) \/ M \subseteq disturbed'
  OBVIOUS
<1>7. disturbed \subseteq disturbed'
  OBVIOUS
<1>. HIDE DEF new
<1>8. \A m \in M : num[m] < MaxDeliver /\ m <= Len(stream)
  <2>1. SUFFICES ASSUME NEW m \in M  PROVE num[m] < MaxDeliver /\ m <= Len(stream)
    OBVIOUS
  <2>2. num[m] < MaxDeliver /\ ~(m > Len(stream))
    BY <1>1 DEF IInv, Counted
  <2>3. m \in Nat /\ Len(stream) \in Nat
    BY <1>1 DEF IInv, Types, Ids
  <2>. QED  BY <2>2, <2>3
<1>9. Types'
  BY <1>2, <1>4 DEF IInv, Types
<1>10. Counted'
  <2>1. SUFFICES ASSUME NEW m \in Ids
                 PROVE  /\ num'[m] <= MaxDeliver
                        /\ js'[m] = "absent" <=> m > Len(stream)
                        /\ js'[m] = "absent" => num'[m] = 0
                        /\ js'[m] = "ready" => num'[m] < MaxDeliver
                        /\ js'[m] = "outstanding" => num'[m] >= 1
    BY DEF Counted
  <2>2. CASE m \in M
    <3>1. num[m] \in Nat /\ num[m] < MaxDeliver /\ num'[m] = num[m] + 1 /\ js'[m] = "outstanding" /\ ~(m > Len(stream))
      BY <1>1, <1>2, <1>8, <2>2 DEF IInv, Counted
    <3>. QED  BY <3>1
  <2>3. CASE m \notin M
    BY <1>2, <2>3 DEF IInv, Counted
  <2>. QED  BY <2>2, <2>3
<1>11. Reasons'
  <2>1. SUFFICES ASSUME NEW t \in Deliveries
                 PROVE  /\ task'[t] # NoTask => t[1] <= Len(stream)
                        /\ task'[t].pc = "ack" => t[1] \in handled
                        /\ task'[t].pc = "notify" => t[1] \in deadLetters
                        /\ task'[t].pc = "drop" => t[1] \in given \cup deadLetters \cup lostRows
                        /\ task'[t].pc = "nak" /\ UseDLQ /\ Kind[stream[t[1]]] = "good" => t[2] < MaxDeliver
    BY DEF Reasons, history
  <2>2. CASE task'[t] = task[t]
    BY <2>2 DEF IInv, Reasons
  <2>3. CASE Fresh(t) /\ task'[t] = new
    BY <1>3, <1>8, <2>3
  <2>. QED  BY <1>4, <2>2, <2>3
<1>12. Current'
  <2>1. SUFFICES ASSUME NEW t \in Deliveries, Alive(t)', t[1] \notin disturbed'
                 PROVE  t[2] = num'[t[1]] /\ js'[t[1]] = "outstanding"
    BY DEF Current
  <2>2. t[1] \in Ids
    BY DEF Deliveries
  <2>3. CASE Fresh(t)
    BY <1>2, <2>3
  <2>4. CASE ~Fresh(t)
    <3>1. Alive(t)
      BY <1>4, <2>1, <2>4 DEF Alive
    <3>2. t[2] = num[t[1]] /\ js[t[1]] = "outstanding"
      BY <1>7, <2>1, <3>1 DEF IInv, Current
    <3>3. t[1] \notin M
      BY <1>1, <3>2
    <3>. QED  BY <1>2, <2>2, <3>2, <3>3
  <2>. QED  BY <2>3, <2>4
<1>13. Held'
  <2>1. SUFFICES ASSUME NEW m \in Ids, m \notin disturbed', js'[m] = "outstanding", Kind[stream[m]] = "good"
                 PROVE  Alive(<<m, num[m]>>)'
    BY DEF Held
  <2>2. num'[m] \in Attempts
    BY <1>2, <1>10, <2>1 DEF Counted, Attempts
  <2>3. PICK u \in Deliveries : u = <<m, num'[m]>>
    BY <2>2 DEF Deliveries
  <2>4. CASE m \in M
    <3>1. Fresh(u)
      BY <1>2, <2>3, <2>4
    <3>2. task'[u] = new
      BY <1>6, <2>1, <2>4, <3>1
    <3>3. Alive(u)'
      BY <1>3, <3>2 DEF Alive
    <3>. QED  BY <2>3, <3>3 DEF Alive
  <2>5. CASE m \notin M
    <3>1. js[m] = "outstanding" /\ num'[m] = num[m]
      BY <1>2, <2>1, <2>5
    <3>2. Alive(u)
      BY <1>7, <2>1, <2>3, <3>1 DEF IInv, Held
    <3>3. Alive(u)'
      BY <1>3, <1>4, <3>2 DEF Alive
    <3>. QED  BY <2>3, <3>3 DEF Alive
  <2>. QED  BY <2>4, <2>5
<1>14. FateAccounted' /\ DeadLetterRows'
  BY <1>2, <1>7 DEF IInv, FateAccounted, DeadLetterRows, history
<1>. QED  BY <1>9, <1>10, <1>11, <1>12, <1>13, <1>14 DEF IInv

\* A worker dies with its tasks, which is a fault for their messages.
LEMMA CrashStep ==
  ASSUME IInv, NEW w \in Workers, Crash(w)
  PROVE  IInv'
<1>1. /\ task \in [Deliveries -> TaskSet \cup {NoTask}]
      /\ UNCHANGED <<stream, js, num, history>>
      /\ disturbed' = disturbed \cup {t[1] : t \in Inflight(w)}
      /\ task' = [t \in Deliveries |-> IF t \in Inflight(w) THEN [task[t] EXCEPT !.pc = "done"] ELSE task[t]]
  BY DEF Crash, Fault, IInv, Types, consumer
<1>2. \A t \in Deliveries : Alive(t) => task[t] \in TaskSet /\ task[t] # NoTask
  BY <1>1 DEF Alive, NoTask
<1>3. ASSUME NEW t \in Deliveries
      PROVE  \/ task'[t] = task[t]
             \/ t[1] \in disturbed' /\ Alive(t) /\ task'[t] \in TaskSet /\ task'[t].pc = "done"
  <2>1. CASE t \in Inflight(w)
    <3>1. Alive(t) /\ task[t] \in TaskSet /\ t[1] \in disturbed' /\ task'[t] = [task[t] EXCEPT !.pc = "done"]
      BY <1>1, <1>2, <2>1 DEF Inflight
    <3>2. [task[t] EXCEPT !.pc = "done"] \in TaskSet /\ [task[t] EXCEPT !.pc = "done"].pc = "done"
      BY <3>1 DEF TaskSet, PCs
    <3>. QED  BY <3>1, <3>2
  <2>2. CASE t \notin Inflight(w)
    BY <1>1, <2>2
  <2>. QED  BY <2>1, <2>2
<1>4. task' \in [Deliveries -> TaskSet \cup {NoTask}]
  <2>1. \A t \in Deliveries : task'[t] \in TaskSet \cup {NoTask}
    BY <1>1, <1>3
  <2>2. task' = [t \in Deliveries |-> task'[t]]
    BY <1>1
  <2>. QED  BY <2>1, <2>2
<1>5. Types' /\ Counted'
  BY <1>1, <1>4 DEF IInv, Types, Counted
<1>6. Reasons'
  <2>1. SUFFICES ASSUME NEW t \in Deliveries
                 PROVE  /\ task'[t] # NoTask => t[1] <= Len(stream)
                        /\ task'[t].pc = "ack" => t[1] \in handled
                        /\ task'[t].pc = "notify" => t[1] \in deadLetters
                        /\ task'[t].pc = "drop" => t[1] \in given \cup deadLetters \cup lostRows
                        /\ task'[t].pc = "nak" /\ UseDLQ /\ Kind[stream[t[1]]] = "good" => t[2] < MaxDeliver
    BY <1>1 DEF Reasons, history
  <2>2. CASE task'[t] = task[t]
    BY <2>2 DEF IInv, Reasons
  <2>3. CASE Alive(t) /\ task'[t].pc = "done"
    BY <1>2, <2>3 DEF IInv, Reasons
  <2>. QED  BY <1>3, <2>2, <2>3
<1>7. \A t \in Deliveries : Alive(t)' => Alive(t)
  BY <1>3 DEF Alive
<1>8. \A t \in Deliveries : Alive(t) /\ t[1] \notin disturbed' => Alive(t)'
  BY <1>3 DEF Alive
<1>9. Current'
  BY <1>1, <1>7 DEF IInv, Current
<1>10. Held'
  <2>1. SUFFICES ASSUME NEW m \in Ids, m \notin disturbed', js[m] = "outstanding", Kind[stream[m]] = "good"
                 PROVE  Alive(<<m, num[m]>>)'
    BY <1>1 DEF Held
  <2>2. num[m] \in Attempts
    BY <2>1 DEF IInv, Types, Counted, Attempts
  <2>3. PICK u \in Deliveries : u = <<m, num[m]>>
    BY <2>2 DEF Deliveries
  <2>4. Alive(u) /\ u[1] = m
    BY <1>1, <2>1, <2>3 DEF IInv, Held
  <2>5. Alive(u)'
    BY <1>8, <2>1, <2>4
  <2>. QED  BY <1>1, <2>3, <2>5 DEF Alive
<1>11. FateAccounted' /\ DeadLetterRows'
  BY <1>1 DEF IInv, FateAccounted, DeadLetterRows, history
<1>. QED  BY <1>5, <1>6, <1>9, <1>10, <1>11 DEF IInv

-----------------------------------------------------------------------------
(* The theorems                                                            *)

\* At the start nothing is published.
LEMMA InitInv == Init => IInv
<1>. SUFFICES ASSUME Init  PROVE IInv
  OBVIOUS
<1>1. \A t \in Deliveries : task[t] = NoTask /\ task[t].pc = "none"
  BY DEF Init, NoTask, Deliveries
<1>2. Types
  BY DEF Init, Types, ConsumerStates, Deliveries
<1>3. Counted
  BY DEF Init, Counted, Ids
<1>4. Reasons /\ Current
  BY <1>1 DEF Reasons, Current, Alive
<1>5. Held /\ FateAccounted /\ DeadLetterRows
  BY DEF Init, Held, FateAccounted, DeadLetterRows
<1>. QED  BY <1>2, <1>3, <1>4, <1>5 DEF IInv

\* Every step preserves the invariant.
LEMMA NextInv == IInv /\ [Next]_vars => IInv'
<1>. SUFFICES ASSUME IInv, [Next]_vars  PROVE IInv'
  OBVIOUS
<1>1. ASSUME UNCHANGED <<stream, js, num, task, history, disturbed>>  PROVE IInv'
  BY <1>1 DEF IInv, Types, Counted, Reasons, DeadLetterRows, Current, Held, FateAccounted, Alive, history
<1>2. ASSUME NEW e \in Events, Publish(e)  PROVE IInv'
  BY <1>2, AppendStep DEF Publish
<1>3. ASSUME NEW m \in Ids, Replay(m)  PROVE IInv'
  <2>1. stream \in Seq(Events) /\ Len(stream) \in Nat /\ m \in Nat /\ m >= 1 /\ m <= Len(stream)
    BY <1>3 DEF Replay, IInv, Types, DeadLetterRows, Ids
  <2>2. PICK e \in Events : e = stream[m]
    BY <2>1
  <2>3. Append1(e)
    BY <1>3, <2>2 DEF Replay
  <2>. QED  BY <2>3, AppendStep
<1>4. ASSUME NEW m \in Ids, AckWait(m) \/ AckWaitLate(m)  PROVE IInv'
  BY <1>4, AckWaitStep
<1>5. ASSUME NEW w \in Workers,
             \/ Subscribe(w) \/ SubscribeFails(w) \/ BeginFetch(w) \/ Busy(w) \/ FetchTimeout(w)
             \/ Stop(w) \/ BeginDrain(w) \/ Drained(w) \/ Restart(w)
      PROVE  IInv'
  <2>1. UNCHANGED <<stream, js, num, task, history, disturbed>>
    BY <1>5 DEF Subscribe, SubscribeFails, BeginFetch, Busy, FetchTimeout, Stop, BeginDrain, Drained, Restart,
                consumer, NoFault, Fault, vars, history
  <2>. QED  BY <1>1, <2>1
<1>6. ASSUME NEW w \in Workers, FetchReturns(w)  PROVE IInv'
  <2>1. DOMAIN task = Deliveries
    BY DEF IInv, Types
  <2>2. PICK M \in Batches(w) :
          /\ Deliver(M)
          /\ task' = [t \in DOMAIN task |-> IF t[1] \in M /\ t[2] = num[t[1]] + 1
                                             THEN [pc |-> "decode", worker |-> w, h |-> 0] ELSE task[t]]
    BY <1>6 DEF FetchReturns
  <2>3. UNCHANGED <<stream, history, disturbed>>
    BY <1>6 DEF FetchReturns, NoFault
  <2>. QED  BY <2>1, <2>2, <2>3, DeliverStep
<1>7. ASSUME NEW w \in Workers, FetchLost(w)  PROVE IInv'
  <2>1. PICK M \in Batches(w) : Deliver(M) /\ disturbed' = disturbed \cup M
    BY <1>7 DEF FetchLost, Fault
  <2>2. UNCHANGED <<stream, history, task>>
    BY <1>7 DEF FetchLost
  <2>. QED  BY <2>1, <2>2, DeliverStep
<1>8. ASSUME NEW w \in Workers, Crash(w)  PROVE IInv'
  BY <1>8, CrashStep
<1>9. ASSUME NEW t \in Ids \X Attempts, Step(t) \/ FaultyStep(t)  PROVE IInv'
  BY <1>9, ProcessStep, AckStep, NakStep DEF Step, Deliveries
<1>10. CASE UNCHANGED vars
  BY <1>1, <1>10 DEF vars, history
<1>. QED  BY <1>2, <1>3, <1>4, <1>5, <1>6, <1>7, <1>8, <1>9, <1>10 DEF Next

\* What the consumer counts, the tasks and the histories fit each other in every reachable state.
THEOREM Invariance == Spec => []IInv
  BY InitInv, NextInv, PTL DEF Spec

\* WorkerRuntime._process and the durable consumer: no message is settled without a reason on
\* record, and a well-formed one is abandoned only after a fault.
THEOREM FateIsAccounted == Spec => []FateAccounted
<1>1. IInv => FateAccounted
  BY DEF IInv
<1>. QED  BY <1>1, Invariance, PTL

\* Tasks of one message: two are alive at the same time only after a fault.
THEOREM TasksExclude == Spec => []ExclusiveUnlessDisturbed
<1>1. IInv => ExclusiveUnlessDisturbed
  <2>. SUFFICES ASSUME IInv, NEW m \in Ids, m \notin disturbed, NEW i \in Attempts, NEW j \in Attempts,
                       Alive(<<m, i>>), Alive(<<m, j>>)
                PROVE  i = j
    BY DEF ExclusiveUnlessDisturbed
  <2>1. <<m, i>> \in Deliveries /\ <<m, j>> \in Deliveries
    BY DEF Deliveries
  <2>2. \A t \in Deliveries : Alive(t) /\ t[1] \notin disturbed => t[2] = num[t[1]]
    BY DEF IInv, Current
  <2>3. i = num[m] /\ j = num[m]
    BY <2>1, <2>2
  <2>. QED  BY <2>3
<1>. QED  BY <1>1, Invariance, PTL

-----------------------------------------------------------------------------
(* Projections: read models and their checkpoints                          *)

ProjectionTypes ==
  /\ length \in [Aggregates -> 0 .. MaxLength] /\ checkpoint \in [Projections -> Nat]
  /\ model \in [Projections -> SUBSET Rows] /\ spoiled \in SUBSET Projections
  /\ overtaken \in [Projections -> SUBSET Rows]
  /\ pc \in [Runners -> RunPCs] /\ current \in [Runners -> DOMAIN Registered]
  /\ rebuilding \in [Runners -> BOOLEAN] /\ last \in [Runners -> Nat]
  /\ batch \in [Runners -> Seq(Rows)] /\ done \in [Runners -> Nat]
  /\ written \in [Runners -> [Projections -> Nat \cup {NoWrite}]]

\* A run that has not begun has written nothing; a rebuild reads no checkpoint and writes its own.
RunShape(r) ==
  /\ pc[r] = "idle" => ~rebuilding[r] /\ written[r] = NoWrites
  /\ rebuilding[r] =>
       /\ pc[r] \notin {"idle", "get"}
       /\ \A p \in Projections : p # Running(r) => written[r][p] = NoWrite
       /\ pc[r] # "zero" => written[r][Running(r)] # NoWrite

\* A rebuild that nothing has spoiled overlaps at most other rebuilds.
Alone ==
  \A r, q \in Runners :
    rebuilding[r] /\ Running(r) \notin spoiled /\ q # r => pc[q] = "idle" \/ rebuilding[q]

\* A cursor stands before the log or at one of its numbers.
Arrived(n) == n = 0 \/ \E v \in LogRows : v.sequence = n

\* A batch is made of rows of the log, and the position in it is within its bounds.
CursorsArrived(r) ==
  /\ \A p \in Projections : written[r][p] # NoWrite => Arrived(written[r][p])
  /\ pc[r] = "select" => Arrived(last[r])
  /\ pc[r] \in {"apply", "save"} =>
       /\ Len(batch[r]) > 0 /\ \A j \in 1 .. Len(batch[r]) : batch[r][j] \in LogRows
       /\ pc[r] = "apply" => done[r] < Len(batch[r])
       /\ pc[r] = "save" => done[r] = Len(batch[r])

\* A projection has every row up to n, or the row was overtaken.
Covered(p, n) == \A w \in LogRows : w.sequence <= n => w \in model[p] \cup overtaken[p]

\* A projection has every row up to the end of the batch, but those still to be applied.
CoveredByBatch(r) ==
  \A w \in LogRows : w.sequence <= Last(batch[r]).sequence =>
    \/ w \in model[Running(r)] \cup overtaken[Running(r)]
    \/ \E j \in 1 .. Len(batch[r]) : j > done[r] /\ batch[r][j] = w

\* What a runner has written and what it works on is covered.
WorkCovered(r) ==
  /\ \A p \in Projections \ spoiled : written[r][p] # NoWrite => Covered(p, written[r][p])
  /\ Running(r) \notin spoiled =>
       /\ pc[r] = "select" => Covered(Running(r), last[r])
       /\ pc[r] \in {"apply", "save"} => CoveredByBatch(r)

RunnerOK(r) == RunShape(r) /\ CursorsArrived(r) /\ WorkCovered(r)

\* What is committed is covered, but during a rebuild, whose commit replaces the checkpoint.
CheckpointCovered ==
  \A p \in Projections \ spoiled :
    (\A r \in Runners : rebuilding[r] => Running(r) # p) => Covered(p, checkpoint[p])

CheckpointArrived == \A p \in Projections : Arrived(checkpoint[p])

\* Only an event of another aggregate overtakes.
OvertakenByOthers ==
  \A p \in Projections : \A w \in overtaken[p] : \E v \in LogRows : v.agg # w.agg /\ v.sequence >= w.sequence

ProjectionInv ==
  /\ ProjectionTypes /\ Alone /\ CheckpointCovered /\ CheckpointArrived /\ OvertakenByOthers
  /\ \A r \in Runners : RunnerOK(r)

\* A set of naturals has a least element: the induction that the proofs below use.
LEMMA LeastNatural ==
  ASSUME NEW S \in SUBSET Nat, NEW n \in S
  PROVE  \E m \in S : \A k \in S : m <= k
<1>. DEFINE R == {ss \in Nat \X Nat : ss[1] < ss[2]}
<1>1. IsWellFoundedOn(OpToRel(<, Nat), Nat)
  BY NatLessThanWellFounded
<1>2. OpToRel(<, Nat) = R
  BY DEF OpToRel
<1>3. IsWellFoundedOn(R, Nat)
  BY <1>1, <1>2
<1>. HIDE DEF R
<1>4. PICK m \in S : \A k \in S : ~(<<k, m>> \in R)
  BY <1>3, WFMin
<1>5. ASSUME NEW k \in S PROVE m <= k
  <2>1. m \in Nat /\ k \in Nat
    OBVIOUS
  <2>2. k < m => <<k, m>> \in R
    BY <2>1 DEF R
  <2>. QED  BY <1>4, <2>1, <2>2
<1>. QED  BY <1>5

\* A set of naturals that is bounded and not empty has a greatest element.
LEMMA GreatestNatural ==
  ASSUME NEW S \in SUBSET Nat, NEW n \in S, NEW N \in Nat, \A k \in S : k <= N
  PROVE  \E m \in S : \A k \in S : m >= k
<1>. DEFINE U == {u \in Nat : \A k \in S : k <= u}
<1>1. U \in SUBSET Nat /\ N \in U
  OBVIOUS
<1>. HIDE DEF U
<1>2. PICK m \in U : \A k \in U : m <= k
  BY <1>1, LeastNatural
<1>3. m \in Nat /\ \A k \in S : k <= m
  BY <1>2 DEF U
<1>4. m \in S
  <2>. SUFFICES ASSUME m \notin S PROVE FALSE
    OBVIOUS
  <2>1. \A k \in S : k \in Nat /\ k < m
    BY <1>3
  <2>2. m >= 1 /\ m - 1 \in Nat
    BY <1>3, <2>1
  <2>3. \A k \in S : k <= m - 1
    BY <1>3, <2>1
  <2>4. m - 1 \in U
    BY <2>2, <2>3 DEF U
  <2>. QED  BY <1>2, <1>3, <2>4
<1>. QED  BY <1>3, <1>4

\* A row of the log is told by its aggregate and its number.
LEMMA LogRow ==
  ASSUME NEW w \in LogRows
  PROVE  /\ w \in Rows /\ w.agg \in Aggregates /\ w.sequence <= length[w.agg]
         /\ w.sequence \in Nat /\ w.sequence >= 1 /\ w.sequence <= MaxLength
         /\ w = EventRow(w.agg, w.sequence)
<1>1. w \in Rows /\ w.sequence <= length[w.agg] /\ MaxLength \in Nat
  BY ProjectionAssumption DEF LogRows
<1>2. w.sequence \in 1 .. MaxLength /\ w.agg \in Aggregates
  BY <1>1 DEF Rows
<1>3. w = EventRow(w.agg, w.sequence)
  BY <1>1 DEF Rows, EventRow
<1>. QED  BY <1>1, <1>2, <1>3

\* The SELECT of _run_projection leaves no row between the cursor and its last row
\* but those that LIMIT cuts.
LEMMA FetchedCovers ==
  ASSUME NEW from \in Nat, NEW b \in SeqOf(LogRows, BatchSize), Fetched(b, from)
  PROVE  /\ b \in Seq(Rows) /\ \A j \in 1 .. Len(b) : b[j] \in LogRows
         /\ b # <<>> => \A w \in LogRows : w.sequence <= Last(b).sequence =>
              w.sequence <= from \/ w \in CutTies(b) \/ \E j \in 1 .. Len(b) : b[j] = w
<1>1. PICK m \in 0 .. BatchSize : b \in [1 .. m -> LogRows]
  BY DEF SeqOf
<1>2. b \in Seq(LogRows) /\ m \in Nat /\ Len(b) = m /\ DOMAIN b = 1 .. m
  BY <1>1, ProjectionAssumption
<1>3. b \in Seq(Rows)
  BY <1>2 DEF LogRows
<1>4. ASSUME b # <<>>, NEW w \in LogRows, w.sequence <= Last(b).sequence
      PROVE  w.sequence <= from \/ w \in CutTies(b) \/ \E j \in 1 .. Len(b) : b[j] = w
  <2>1. m \in 1 .. m /\ Last(b) = b[m] /\ b[m] \in LogRows
    BY <1>2, <1>4 DEF Last
  <2>2. w.sequence \in Nat /\ b[m].sequence \in Nat
    BY <2>1, LogRow
  <2>3. CASE w.sequence > from /\ w.sequence < b[m].sequence
    <3>1. \E j \in 1 .. (m - 1) : b[j] = w
      BY <1>2, <2>1, <2>3 DEF Fetched
    <3>. QED  BY <1>2, <3>1
  <2>4. CASE w.sequence = b[m].sequence
    <3>1. w \in Range(b) => \E j \in 1 .. Len(b) : b[j] = w
      BY <1>2 DEF Range
    <3>2. w \notin Range(b) => w \in CutTies(b)
      BY <1>4, <2>1, <2>4 DEF CutTies
    <3>. QED  BY <3>1, <3>2
  <2>. QED  BY <1>4, <2>1, <2>2, <2>3, <2>4
<1>. QED  BY <1>2, <1>3, <1>4

LEMMA RunningType ==
  ASSUME ProjectionTypes, NEW r \in Runners
  PROVE  Running(r) \in Projections
  BY DEF ProjectionTypes, Running, Projections, Range

LEMMA ProjectionInits == ProjectionInit => ProjectionInv
<1>. SUFFICES ASSUME ProjectionInit PROVE ProjectionInv
  OBVIOUS
<1>1. MaxLength \in Nat /\ 1 \in DOMAIN Registered /\ NoWrite \notin Nat
  BY ProjectionAssumption
<1>2. NoWrites \in [Projections -> Nat \cup {NoWrite}] /\ \A p \in Projections : NoWrites[p] = NoWrite
  BY DEF NoWrites
<1>3. ProjectionTypes
  BY <1>1, <1>2 DEF ProjectionInit, ProjectionTypes, RunPCs
<1>4. Alone /\ \A r \in Runners : RunnerOK(r)
  BY <1>2 DEF ProjectionInit, Alone, RunnerOK, RunShape, CursorsArrived, WorkCovered
<1>5. LogRows = {}
  <2>1. \A w \in LogRows : FALSE
    BY LogRow DEF ProjectionInit
  <2>. QED  BY <2>1
<1>6. CheckpointCovered /\ CheckpointArrived /\ OvertakenByOthers
  BY <1>5 DEF ProjectionInit, CheckpointCovered, Covered, CheckpointArrived, Arrived, OvertakenByOthers
<1>. QED  BY <1>3, <1>4, <1>6 DEF ProjectionInv

\* What a step does not touch of a runner.
SameRun(q) ==
  /\ pc'[q] = pc[q] /\ current'[q] = current[q] /\ rebuilding'[q] = rebuilding[q] /\ last'[q] = last[q]
  /\ batch'[q] = batch[q] /\ done'[q] = done[q] /\ written'[q] = written[q]

\* A projection loses nothing that it has or that was overtaken.
Keeps(p) == model[p] \subseteq model'[p] /\ overtaken[p] \subseteq overtaken'[p]

\* A runner that a step leaves alone, while the log stays and no read model shrinks but
\* a spoiled one.
LEMMA OthersCovered ==
  ASSUME NEW q \in Runners, RunnerOK(q), SameRun(q), ProjectionTypes, length' = length,
         spoiled \subseteq spoiled', \A p \in Projections \ spoiled' : Keeps(p)
  PROVE  RunnerOK(q)'
<1>1. Running(q)' = Running(q) /\ Running(q) \in Projections /\ LogRows' = LogRows
  BY RunningType DEF Running, SameRun, LogRows
<1>2. RunShape(q)'
  BY <1>1 DEF RunnerOK, RunShape, SameRun
<1>3. CursorsArrived(q)'
  BY <1>1 DEF RunnerOK, CursorsArrived, Arrived, SameRun
<1>4. WorkCovered(q)'
  <2>1. ASSUME NEW p \in Projections \ spoiled', written'[q][p] # NoWrite PROVE Covered(p, written[q][p])'
    <3>1. Covered(p, written[q][p]) /\ written'[q][p] = written[q][p] /\ Keeps(p)
      BY <2>1 DEF RunnerOK, WorkCovered, SameRun
    <3>. QED  BY <1>1, <3>1 DEF Covered, Keeps
  <2>2. ASSUME Running(q) \notin spoiled', pc'[q] = "select" PROVE Covered(Running(q), last[q])'
    <3>1. Covered(Running(q), last[q]) /\ last'[q] = last[q] /\ Keeps(Running(q))
      BY <1>1, <2>2 DEF RunnerOK, WorkCovered, SameRun
    <3>. QED  BY <1>1, <3>1 DEF Covered, Keeps
  <2>3. ASSUME Running(q) \notin spoiled', pc'[q] \in {"apply", "save"} PROVE CoveredByBatch(q)'
    <3>1. CoveredByBatch(q) /\ batch'[q] = batch[q] /\ done'[q] = done[q] /\ Keeps(Running(q))
      BY <1>1, <2>3 DEF RunnerOK, WorkCovered, SameRun
    <3>. QED  BY <1>1, <3>1 DEF CoveredByBatch, Keeps
  <2>. QED  BY <1>1, <2>1, <2>2, <2>3 DEF WorkCovered
<1>. QED  BY <1>2, <1>3, <1>4 DEF RunnerOK

\* What no step changes as long as the log stays.
LEMMA LogStays ==
  ASSUME length' = length
  PROVE  LogRows' = LogRows
  BY DEF LogRows

\* A step of one runner in the middle of its run.
LEMMA WorkStep ==
  ASSUME ProjectionInv, ProjectionTypes', NEW r \in Runners, RunnerOK(r)', OvertakenByOthers',
         UNCHANGED <<length, checkpoint, rebuilding, spoiled>>,
         \A p \in Projections : Keeps(p),
         \A q \in Runners : q # r => SameRun(q),
         pc[r] # "idle", rebuilding[r] => current'[r] = current[r]
  PROVE  ProjectionInv'
<1>1. LogRows' = LogRows
  BY LogStays
<1>2. \A q \in Runners : RunnerOK(q)'
  BY OthersCovered DEF ProjectionInv
<1>3. \A q \in Runners : rebuilding[q] => Running(q)' = Running(q)
  BY DEF SameRun, Running
<1>4. Alone'
  BY <1>3 DEF ProjectionInv, Alone, SameRun
<1>5. CheckpointCovered'
  <2>. SUFFICES ASSUME NEW p \in Projections \ spoiled', \A q \in Runners : rebuilding'[q] => Running(q)' # p
                PROVE  Covered(p, checkpoint[p])'
    BY DEF CheckpointCovered
  <2>1. Covered(p, checkpoint[p]) /\ Keeps(p)
    BY <1>3 DEF ProjectionInv, CheckpointCovered
  <2>. QED  BY <1>1, <2>1 DEF Covered, Keeps
<1>6. CheckpointArrived'
  BY <1>1 DEF ProjectionInv, CheckpointArrived, Arrived
<1>. QED  BY <1>2, <1>4, <1>5, <1>6 DEF ProjectionInv

LEMMA RebuildZeroStep ==
  ASSUME ProjectionInv, NEW r \in Runners, RebuildZero(r)
  PROVE  ProjectionInv'
<1>. DEFINE p == Running(r)
<1>1. /\ pc[r] = "zero" /\ written' = [written EXCEPT ![r][p] = 0] /\ last' = [last EXCEPT ![r] = 0]
      /\ pc' = [pc EXCEPT ![r] = "select"]
      /\ UNCHANGED <<length, checkpoint, model, current, rebuilding, batch, done, spoiled, overtaken>>
  BY DEF RebuildZero
<1>2. ProjectionTypes /\ RunnerOK(r) /\ p \in Projections /\ LogRows' = LogRows
  BY <1>1, RunningType, LogStays DEF ProjectionInv
<1>3. /\ written' \in [Runners -> [Projections -> Nat \cup {NoWrite}]] /\ written'[r][p] = 0
      /\ \A q \in Projections : q # p => written'[r][q] = written[r][q]
      /\ \A u \in Runners : u # r => written'[u] = written[u]
  BY <1>1, <1>2 DEF ProjectionTypes
<1>4. ProjectionTypes'
  BY <1>1, <1>2, <1>3 DEF ProjectionTypes, RunPCs
<1>5. /\ pc'[r] = "select" /\ last'[r] = 0 /\ Running(r)' = p
      /\ \A u \in Runners : u # r => pc'[u] = pc[u] /\ last'[u] = last[u]
  BY <1>1, <1>2 DEF ProjectionTypes, Running
<1>6. RunShape(r)'
  BY <1>1, <1>2, <1>3, <1>5, ProjectionAssumption DEF RunnerOK, RunShape
<1>7. CursorsArrived(r)'
  <2>1. ASSUME NEW q \in Projections, written'[r][q] # NoWrite PROVE Arrived(written[r][q])'
    BY <1>2, <1>3, <2>1 DEF RunnerOK, CursorsArrived, Arrived
  <2>. QED  BY <1>5, <2>1 DEF CursorsArrived, Arrived
<1>8. WorkCovered(r)'
  <2>1. ASSUME NEW q PROVE Covered(q, 0)'
    BY <1>2, LogRow DEF Covered
  <2>2. ASSUME NEW q \in Projections \ spoiled', written'[r][q] # NoWrite PROVE Covered(q, written[r][q])'
    <3>1. CASE q = p
      BY <1>3, <2>1, <3>1 DEF Covered
    <3>2. CASE q # p
      BY <1>1, <1>2, <1>3, <2>2, <3>2 DEF RunnerOK, WorkCovered, Covered
    <3>. QED  BY <3>1, <3>2
  <2>3. Covered(Running(r), last[r])'
    BY <1>5, <2>1 DEF Covered
  <2>. QED  BY <1>5, <2>2, <2>3 DEF WorkCovered
<1>9. RunnerOK(r)'
  BY <1>6, <1>7, <1>8 DEF RunnerOK
<1>10. (\A q \in Runners : q # r => SameRun(q)) /\ \A q \in Projections : Keeps(q)
  BY <1>1, <1>3, <1>5 DEF SameRun, Keeps
<1>11. OvertakenByOthers'
  BY <1>1, <1>2 DEF ProjectionInv, OvertakenByOthers
<1>. QED  BY <1>1, <1>4, <1>9, <1>10, <1>11, WorkStep

LEMMA GetCheckpointStep ==
  ASSUME ProjectionInv, NEW r \in Runners, GetCheckpoint(r)
  PROVE  ProjectionInv'
<1>. DEFINE p == Running(r)
<1>1. /\ pc[r] = "get" /\ last' = [last EXCEPT ![r] = checkpoint[p]] /\ pc' = [pc EXCEPT ![r] = "select"]
      /\ UNCHANGED <<length, checkpoint, model, current, rebuilding, batch, done, written, spoiled, overtaken>>
  BY DEF GetCheckpoint
<1>2. /\ ProjectionTypes /\ RunnerOK(r) /\ p \in Projections /\ checkpoint[p] \in Nat
      /\ LogRows' = LogRows /\ Arrived(checkpoint[p])
  BY <1>1, RunningType, LogStays DEF ProjectionInv, ProjectionTypes, CheckpointArrived
<1>3. ProjectionTypes'
  BY <1>1, <1>2 DEF ProjectionTypes, RunPCs
<1>4. /\ pc'[r] = "select" /\ last'[r] = checkpoint[p] /\ Running(r)' = p
      /\ \A u \in Runners : u # r => pc'[u] = pc[u] /\ last'[u] = last[u]
  BY <1>1, <1>2 DEF ProjectionTypes, Running
<1>5. ~rebuilding[r]
  BY <1>1, <1>2 DEF RunnerOK, RunShape
<1>6. p \notin spoiled => Covered(p, checkpoint[p])
  <2>1. ASSUME p \notin spoiled, NEW q \in Runners, rebuilding[q] PROVE Running(q) # p
    BY <1>1, <1>5, <2>1 DEF ProjectionInv, Alone
  <2>. QED  BY <1>2, <2>1 DEF ProjectionInv, CheckpointCovered
<1>7. RunShape(r)'
  BY <1>1, <1>4, <1>5 DEF RunShape
<1>8. CursorsArrived(r)'
  BY <1>1, <1>2, <1>4 DEF RunnerOK, CursorsArrived, Arrived
<1>9. WorkCovered(r)'
  <2>1. ASSUME NEW q \in Projections \ spoiled', written'[r][q] # NoWrite PROVE Covered(q, written[r][q])'
    BY <1>1, <1>2, <2>1 DEF RunnerOK, WorkCovered, Covered
  <2>2. Running(r)' \notin spoiled' => Covered(Running(r), last[r])'
    BY <1>1, <1>2, <1>4, <1>6 DEF Covered
  <2>. QED  BY <1>4, <2>1, <2>2 DEF WorkCovered
<1>10. RunnerOK(r)'
  BY <1>7, <1>8, <1>9 DEF RunnerOK
<1>11. (\A q \in Runners : q # r => SameRun(q)) /\ \A q \in Projections : Keeps(q)
  BY <1>1, <1>4 DEF SameRun, Keeps
<1>12. OvertakenByOthers'
  BY <1>1, <1>2 DEF ProjectionInv, OvertakenByOthers
<1>. QED  BY <1>1, <1>3, <1>10, <1>11, <1>12, WorkStep

\* What Onward leads to.
LEMMA OnwardGoes ==
  ASSUME ProjectionTypes, NEW r \in Runners, Onward(r)
  PROVE  /\ pc' \in [Runners -> RunPCs] /\ current' \in [Runners -> DOMAIN Registered]
         /\ pc'[r] \in {"get", "commit"} /\ (rebuilding[r] => pc'[r] = "commit" /\ current'[r] = current[r])
         /\ \A q \in Runners : q # r => pc'[q] = pc[q] /\ current'[q] = current[q]
<1>1. pc \in [Runners -> RunPCs] /\ current \in [Runners -> DOMAIN Registered]
  BY DEF ProjectionTypes
<1>2. CASE rebuilding[r] \/ current[r] = Len(Registered)
  BY <1>1, <1>2 DEF Onward, RunPCs
<1>3. CASE ~(rebuilding[r] \/ current[r] = Len(Registered))
  <2>1. pc' = [pc EXCEPT ![r] = "get"] /\ current' = [current EXCEPT ![r] = current[r] + 1]
    BY <1>3 DEF Onward
  <2>2. current[r] + 1 \in DOMAIN Registered
    BY <1>1, <1>3, ProjectionAssumption
  <2>. QED  BY <1>1, <1>3, <2>1, <2>2 DEF RunPCs
<1>. QED  BY <1>2, <1>3

LEMMA SelectStep ==
  ASSUME ProjectionInv, NEW r \in Runners, Select(r)
  PROVE  ProjectionInv'
<1>. DEFINE p == Running(r)
<1>1. PICK b \in SeqOf(LogRows, BatchSize) :
        /\ Fetched(b, last[r]) /\ batch' = [batch EXCEPT ![r] = b]
        /\ overtaken' = [overtaken EXCEPT ![p] = @ \cup CutTies(b)]
        /\ IF b = <<>> THEN Onward(r) ELSE pc' = [pc EXCEPT ![r] = "apply"] /\ UNCHANGED current
  BY DEF Select
<1>2. /\ pc[r] = "select" /\ done' = [done EXCEPT ![r] = 0]
      /\ UNCHANGED <<length, checkpoint, model, rebuilding, last, written, spoiled>>
  BY DEF Select
<1>3. ProjectionTypes /\ RunnerOK(r) /\ last[r] \in Nat /\ p \in Projections /\ LogRows' = LogRows
  BY <1>2, RunningType, LogStays DEF ProjectionInv, ProjectionTypes
<1>4. /\ b \in Seq(Rows) /\ \A j \in 1 .. Len(b) : b[j] \in LogRows
      /\ b # <<>> => \A w \in LogRows : w.sequence <= Last(b).sequence =>
           w.sequence <= last[r] \/ w \in CutTies(b) \/ \E j \in 1 .. Len(b) : b[j] = w
  BY <1>1, <1>3, FetchedCovers
<1>5. /\ overtaken' \in [Projections -> SUBSET Rows] /\ overtaken'[p] = overtaken[p] \cup CutTies(b)
      /\ \A q \in Projections : q # p => overtaken'[q] = overtaken[q]
  BY <1>1, <1>3 DEF ProjectionTypes, CutTies, LogRows
<1>6. \A q \in Projections : Keeps(q)
  BY <1>2, <1>5 DEF Keeps
<1>7. OvertakenByOthers'
  <2>1. ASSUME NEW w \in CutTies(b) PROVE \E v \in LogRows : v.agg # w.agg /\ v.sequence >= w.sequence
    <3>. DEFINE v == Last(b)
    <3>1. b # <<>> /\ w \in LogRows \ Range(b) /\ w.sequence = v.sequence
      BY DEF CutTies
    <3>2. Len(b) \in 1 .. Len(b) /\ v = b[Len(b)] /\ DOMAIN b = 1 .. Len(b)
      BY <1>4, <3>1 DEF Last
    <3>3. v \in LogRows /\ v # w
      BY <1>4, <3>1, <3>2 DEF Range
    <3>. HIDE DEF v
    <3>4. v = EventRow(v.agg, v.sequence) /\ w = EventRow(w.agg, w.sequence) /\ w.sequence \in Nat
      BY <3>1, <3>3, LogRow
    <3>5. v.agg # w.agg /\ v.sequence >= w.sequence
      BY <3>1, <3>3, <3>4
    <3>. QED  BY <3>3, <3>5
  <2>2. ASSUME NEW q \in Projections, NEW w \in overtaken'[q]
        PROVE  \E v \in LogRows : v.agg # w.agg /\ v.sequence >= w.sequence
    BY <1>5, <2>1, <2>2 DEF ProjectionInv, OvertakenByOthers
  <2>. QED  BY <1>3, <2>2 DEF OvertakenByOthers
<1>8. ASSUME NEW q \in Projections \ spoiled', written'[r][q] # NoWrite PROVE Covered(q, written[r][q])'
  BY <1>2, <1>3, <1>6, <1>8 DEF RunnerOK, WorkCovered, Covered, Keeps
<1>9. CASE b = <<>>
  <2>1. Onward(r)
    BY <1>1, <1>9
  <2>2. /\ pc' \in [Runners -> RunPCs] /\ current' \in [Runners -> DOMAIN Registered]
        /\ pc'[r] \in {"get", "commit"} /\ (rebuilding[r] => pc'[r] = "commit" /\ current'[r] = current[r])
        /\ \A q \in Runners : q # r => pc'[q] = pc[q] /\ current'[q] = current[q]
    BY <1>3, <2>1, OnwardGoes
  <2>3. ProjectionTypes'
    BY <1>1, <1>2, <1>3, <1>4, <1>5, <2>2 DEF ProjectionTypes
  <2>4. \A q \in Runners : q # r => SameRun(q)
    BY <1>1, <1>2, <1>3, <2>2 DEF SameRun, ProjectionTypes
  <2>5. RunShape(r)'
    BY <1>2, <1>3, <2>2 DEF RunnerOK, RunShape, Running
  <2>6. CursorsArrived(r)'
    BY <1>2, <1>3, <2>2 DEF RunnerOK, CursorsArrived, Arrived
  <2>7. WorkCovered(r)'
    BY <1>8, <2>2 DEF WorkCovered
  <2>8. RunnerOK(r)'
    BY <2>5, <2>6, <2>7 DEF RunnerOK
  <2>. QED  BY <1>2, <1>6, <1>7, <2>2, <2>3, <2>4, <2>8, WorkStep
<1>10. CASE b # <<>>
  <2>1. pc' = [pc EXCEPT ![r] = "apply"] /\ UNCHANGED current
    BY <1>1, <1>10
  <2>2. ProjectionTypes'
    BY <1>1, <1>2, <1>3, <1>4, <1>5, <2>1 DEF ProjectionTypes, RunPCs
  <2>3. \A q \in Runners : q # r => SameRun(q)
    BY <1>1, <1>2, <1>3, <2>1 DEF SameRun, ProjectionTypes
  <2>4. pc'[r] = "apply" /\ batch'[r] = b /\ done'[r] = 0 /\ Running(r)' = p
    BY <1>1, <1>2, <1>3, <2>1 DEF ProjectionTypes, Running
  <2>5. RunShape(r)'
    BY <1>2, <1>3, <2>4 DEF RunnerOK, RunShape
  <2>6. Len(b) \in Nat /\ Len(b) > 0
    BY <1>4, <1>10
  <2>7. CursorsArrived(r)'
    <3>1. \A q \in Projections : written'[r][q] # NoWrite => Arrived(written[r][q])'
      BY <1>2, <1>3 DEF RunnerOK, CursorsArrived, Arrived
    <3>. QED  BY <1>3, <1>4, <2>4, <2>6, <3>1 DEF CursorsArrived
  <2>8. p \notin spoiled => CoveredByBatch(r)'
    <3>. SUFFICES ASSUME p \notin spoiled, NEW w \in LogRows, w.sequence <= Last(b).sequence
                  PROVE  w \in model[p] \cup overtaken'[p] \/ \E j \in 1 .. Len(b) : j > 0 /\ b[j] = w
      BY <1>2, <1>3, <2>4 DEF CoveredByBatch
    <3>1. Covered(p, last[r])
      BY <1>2, <1>3 DEF RunnerOK, WorkCovered
    <3>2. CASE w.sequence <= last[r]
      BY <1>5, <3>1, <3>2 DEF Covered
    <3>3. CASE w \in CutTies(b)
      BY <1>5, <3>3
    <3>4. CASE \E j \in 1 .. Len(b) : b[j] = w
      BY <2>6, <3>4
    <3>. QED  BY <1>4, <1>10, <3>2, <3>3, <3>4
  <2>9. WorkCovered(r)'
    BY <1>2, <1>8, <2>4, <2>8 DEF WorkCovered
  <2>10. RunnerOK(r)'
    BY <2>5, <2>7, <2>9 DEF RunnerOK
  <2>. QED  BY <1>2, <1>6, <1>7, <2>1, <2>2, <2>3, <2>10, WorkStep
<1>. QED  BY <1>9, <1>10

LEMMA ApplyStep ==
  ASSUME ProjectionInv, NEW r \in Runners, Apply(r)
  PROVE  ProjectionInv'
<1>. DEFINE p == Running(r)
            k == done[r] + 1
            w == batch[r][k]
<1>1. /\ pc[r] = "apply" /\ model' = [model EXCEPT ![p] = @ \cup {w}] /\ done' = [done EXCEPT ![r] = @ + 1]
      /\ pc' = [pc EXCEPT ![r] = IF done[r] + 1 = Len(batch[r]) THEN "save" ELSE "apply"]
      /\ UNCHANGED <<length, checkpoint, current, rebuilding, last, batch, written, spoiled, overtaken>>
  BY DEF Apply
<1>2. /\ ProjectionTypes /\ RunnerOK(r) /\ p \in Projections /\ LogRows' = LogRows
      /\ done[r] \in Nat /\ batch[r] \in Seq(Rows) /\ Len(batch[r]) \in Nat
  BY <1>1, RunningType, LogStays DEF ProjectionInv, ProjectionTypes
<1>3. /\ Len(batch[r]) > 0 /\ \A j \in 1 .. Len(batch[r]) : batch[r][j] \in LogRows
      /\ done[r] < Len(batch[r])
  BY <1>1, <1>2 DEF RunnerOK, CursorsArrived
<1>4. k \in 1 .. Len(batch[r]) /\ w \in Rows
  BY <1>2, <1>3
<1>. HIDE DEF w
<1>5. /\ model' \in [Projections -> SUBSET Rows] /\ model'[p] = model[p] \cup {w}
      /\ \A q \in Projections : Keeps(q)
  BY <1>1, <1>2, <1>4 DEF ProjectionTypes, Keeps
<1>6. /\ done'[r] = k /\ pc'[r] = (IF k = Len(batch[r]) THEN "save" ELSE "apply")
      /\ Running(r)' = p
  BY <1>1, <1>2 DEF ProjectionTypes, Running
<1>7. ProjectionTypes'
  BY <1>1, <1>2, <1>5 DEF ProjectionTypes, RunPCs
<1>8. \A q \in Runners : q # r => SameRun(q)
  BY <1>1, <1>2 DEF SameRun, ProjectionTypes
<1>9. RunShape(r)'
  BY <1>1, <1>2, <1>6 DEF RunnerOK, RunShape
<1>10. CursorsArrived(r)'
  <2>1. \A q \in Projections : written'[r][q] # NoWrite => Arrived(written[r][q])'
    BY <1>1, <1>2 DEF RunnerOK, CursorsArrived, Arrived
  <2>2. pc'[r] = "apply" => done'[r] < Len(batch'[r])
    BY <1>1, <1>2, <1>3, <1>6
  <2>. QED  BY <1>1, <1>2, <1>3, <1>6, <2>1, <2>2 DEF CursorsArrived
<1>11. WorkCovered(r)'
  <2>1. ASSUME NEW q \in Projections \ spoiled', written'[r][q] # NoWrite PROVE Covered(q, written[r][q])'
    BY <1>1, <1>2, <1>5, <2>1 DEF RunnerOK, WorkCovered, Covered, Keeps
  <2>2. p \notin spoiled => CoveredByBatch(r)'
    <3>. SUFFICES ASSUME p \notin spoiled, NEW v \in LogRows, v.sequence <= Last(batch[r]).sequence
                  PROVE  \/ v \in model'[p] \cup overtaken[p]
                         \/ \E j \in 1 .. Len(batch[r]) : j > k /\ batch[r][j] = v
      BY <1>1, <1>2, <1>6 DEF CoveredByBatch
    <3>1. \/ v \in model[p] \cup overtaken[p]
          \/ \E j \in 1 .. Len(batch[r]) : j > done[r] /\ batch[r][j] = v
      BY <1>1, <1>2 DEF RunnerOK, WorkCovered, CoveredByBatch
    <3>2. ASSUME NEW j \in 1 .. Len(batch[r]), j > done[r], batch[r][j] = v
          PROVE  v \in model'[p] \/ j > k
      <4>1. CASE j = k
        BY <1>5, <3>2, <4>1 DEF w
      <4>2. CASE j # k
        BY <1>2, <3>2, <4>2
      <4>. QED  BY <4>1, <4>2
    <3>. QED  BY <1>5, <3>1, <3>2
  <2>3. pc'[r] \in {"apply", "save"}
    BY <1>6
  <2>. QED  BY <1>1, <1>6, <2>1, <2>2, <2>3 DEF WorkCovered
<1>12. RunnerOK(r)'
  BY <1>9, <1>10, <1>11 DEF RunnerOK
<1>13. OvertakenByOthers'
  BY <1>1, <1>2 DEF ProjectionInv, OvertakenByOthers
<1>. QED  BY <1>1, <1>5, <1>7, <1>8, <1>12, <1>13, WorkStep

LEMMA SetCheckpointStep ==
  ASSUME ProjectionInv, NEW r \in Runners, SetCheckpoint(r)
  PROVE  ProjectionInv'
<1>. DEFINE p == Running(r)
            v == Last(batch[r])
            n == NewCheckpoint(r)
<1>1. /\ pc[r] = "save" /\ written' = [written EXCEPT ![r][p] = n]
      /\ batch' = [batch EXCEPT ![r] = <<>>] /\ done' = [done EXCEPT ![r] = 0] /\ last' = [last EXCEPT ![r] = 0]
      /\ Onward(r) /\ UNCHANGED <<length, checkpoint, model, rebuilding, spoiled, overtaken>>
  BY DEF SetCheckpoint
<1>2. /\ ProjectionTypes /\ RunnerOK(r) /\ p \in Projections /\ LogRows' = LogRows
      /\ done[r] \in Nat /\ batch[r] \in Seq(Rows) /\ Len(batch[r]) \in Nat
  BY <1>1, RunningType, LogStays DEF ProjectionInv, ProjectionTypes
<1>3. /\ Len(batch[r]) > 0 /\ \A j \in 1 .. Len(batch[r]) : batch[r][j] \in LogRows
      /\ done[r] = Len(batch[r])
  BY <1>1, <1>2 DEF RunnerOK, CursorsArrived
<1>4. v \in LogRows /\ n = v.sequence /\ n \in Nat /\ n # NoWrite
  <2>1. Len(batch[r]) \in 1 .. Len(batch[r]) /\ v = batch[r][Len(batch[r])]
    BY <1>2, <1>3 DEF Last
  <2>2. v \in LogRows
    BY <1>3, <2>1
  <2>. QED  BY <2>2, LogRow, ProjectionAssumption DEF NewCheckpoint
<1>. HIDE DEF n, v
<1>5. /\ written' \in [Runners -> [Projections -> Nat \cup {NoWrite}]] /\ written'[r][p] = n
      /\ \A q \in Projections : q # p => written'[r][q] = written[r][q]
      /\ \A u \in Runners : u # r => written'[u] = written[u]
  BY <1>1, <1>2, <1>4 DEF ProjectionTypes
<1>6. /\ pc' \in [Runners -> RunPCs] /\ current' \in [Runners -> DOMAIN Registered]
      /\ pc'[r] \in {"get", "commit"} /\ (rebuilding[r] => pc'[r] = "commit" /\ current'[r] = current[r])
      /\ \A q \in Runners : q # r => pc'[q] = pc[q] /\ current'[q] = current[q]
  BY <1>1, <1>2, OnwardGoes
<1>7. ProjectionTypes'
  BY <1>1, <1>2, <1>5, <1>6 DEF ProjectionTypes
<1>8. (\A q \in Runners : q # r => SameRun(q)) /\ \A q \in Projections : Keeps(q)
  BY <1>1, <1>2, <1>5, <1>6 DEF SameRun, ProjectionTypes, Keeps
<1>9. RunShape(r)'
  <2>1. rebuilding[r] => Running(r)' = p
    BY <1>6 DEF Running
  <2>. QED  BY <1>1, <1>2, <1>4, <1>5, <1>6, <2>1 DEF RunnerOK, RunShape
<1>10. CursorsArrived(r)'
  <2>1. ASSUME NEW q \in Projections, written'[r][q] # NoWrite PROVE Arrived(written[r][q])'
    BY <1>2, <1>4, <1>5, <2>1 DEF RunnerOK, CursorsArrived, Arrived
  <2>. QED  BY <1>6, <2>1 DEF CursorsArrived
<1>11. WorkCovered(r)'
  <2>1. ASSUME NEW q \in Projections \ spoiled', written'[r][q] # NoWrite PROVE Covered(q, written[r][q])'
    <3>1. CASE q = p
      <4>1. CoveredByBatch(r)
        BY <1>1, <1>2, <2>1, <3>1 DEF RunnerOK, WorkCovered
      <4>2. \A j \in 1 .. Len(batch[r]) : ~(j > done[r])
        BY <1>2, <1>3
      <4>3. Covered(p, n)
        BY <1>4, <4>1, <4>2 DEF CoveredByBatch, Covered, v
      <4>. QED  BY <1>1, <1>2, <1>5, <3>1, <4>3 DEF Covered
    <3>2. CASE q # p
      BY <1>1, <1>2, <1>5, <2>1, <3>2 DEF RunnerOK, WorkCovered, Covered
    <3>. QED  BY <3>1, <3>2
  <2>. QED  BY <1>6, <2>1 DEF WorkCovered
<1>12. RunnerOK(r)'
  BY <1>9, <1>10, <1>11 DEF RunnerOK
<1>13. OvertakenByOthers'
  BY <1>1, <1>2 DEF ProjectionInv, OvertakenByOthers
<1>. QED  BY <1>1, <1>6, <1>7, <1>8, <1>12, <1>13, WorkStep

\* The end of a run: its locals and its uncommitted checkpoints are gone.
LEMMA EndRunGoes ==
  ASSUME ProjectionTypes, NEW r \in Runners, EndRun(r), checkpoint' \in [Projections -> Nat],
         spoiled' \in SUBSET Projections
  PROVE  /\ ProjectionTypes' /\ pc'[r] = "idle" /\ ~rebuilding'[r] /\ written'[r] = NoWrites
         /\ \A q \in Runners : q # r => SameRun(q)
<1>1. NoWrites \in [Projections -> Nat \cup {NoWrite}] /\ 1 \in DOMAIN Registered
  BY ProjectionAssumption DEF NoWrites
<1>. QED  BY <1>1 DEF EndRun, ProjectionTypes, RunPCs, SameRun

LEMMA IdleOK ==
  ASSUME NEW r \in Runners, ProjectionTypes', pc'[r] = "idle", ~rebuilding'[r], written'[r] = NoWrites
  PROVE  RunnerOK(r)'
  BY DEF RunnerOK, RunShape, CursorsArrived, WorkCovered, NoWrites

LEMMA CommitStep ==
  ASSUME ProjectionInv, NEW r \in Runners, Commit(r)
  PROVE  ProjectionInv'
<1>1. /\ pc[r] = "commit" /\ EndRun(r) /\ UNCHANGED <<spoiled, length, model, overtaken>>
      /\ checkpoint' = [p \in Projections |-> IF written[r][p] = NoWrite THEN checkpoint[p] ELSE written[r][p]]
  BY DEF Commit, EndRun
<1>2. ProjectionTypes /\ RunnerOK(r) /\ LogRows' = LogRows
  BY <1>1, LogStays DEF ProjectionInv
<1>3. checkpoint' \in [Projections -> Nat] /\ spoiled' \in SUBSET Projections
  BY <1>1, <1>2 DEF ProjectionTypes
<1>4. /\ ProjectionTypes' /\ pc'[r] = "idle" /\ ~rebuilding'[r] /\ written'[r] = NoWrites
      /\ \A q \in Runners : q # r => SameRun(q)
  BY <1>1, <1>2, <1>3, EndRunGoes
<1>5. \A q \in Runners : RunnerOK(q)'
  <2>1. \A p \in Projections : Keeps(p)
    BY <1>1 DEF Keeps
  <2>. QED  BY <1>1, <1>2, <1>4, <2>1, IdleOK, OthersCovered DEF ProjectionInv
<1>6. \A q \in Runners : q # r => Running(q)' = Running(q)
  BY <1>4 DEF SameRun, Running
<1>7. Alone'
  BY <1>1, <1>4, <1>6 DEF ProjectionInv, Alone, SameRun
<1>8. CheckpointCovered'
  <2>. SUFFICES ASSUME NEW p \in Projections \ spoiled', \A q \in Runners : rebuilding'[q] => Running(q)' # p
                PROVE  Covered(p, checkpoint[p])'
    BY DEF CheckpointCovered
  <2>1. CASE written[r][p] # NoWrite
    <3>1. Covered(p, written[r][p]) /\ checkpoint'[p] = written[r][p]
      BY <1>1, <1>2, <2>1 DEF RunnerOK, WorkCovered
    <3>. QED  BY <1>1, <1>2, <3>1 DEF Covered
  <2>2. CASE written[r][p] = NoWrite
    <3>1. \A q \in Runners : rebuilding[q] => Running(q) # p
      BY <1>1, <1>2, <1>4, <1>6, <2>2 DEF RunnerOK, RunShape, SameRun
    <3>2. Covered(p, checkpoint[p]) /\ checkpoint'[p] = checkpoint[p]
      BY <1>1, <2>2, <3>1 DEF ProjectionInv, CheckpointCovered
    <3>. QED  BY <1>1, <1>2, <3>2 DEF Covered
  <2>. QED  BY <2>1, <2>2
<1>9. CheckpointArrived'
  BY <1>1, <1>2 DEF ProjectionInv, CheckpointArrived, RunnerOK, CursorsArrived, Arrived
<1>10. OvertakenByOthers'
  BY <1>1, <1>2 DEF ProjectionInv, OvertakenByOthers
<1>. QED  BY <1>4, <1>5, <1>7, <1>8, <1>9, <1>10 DEF ProjectionInv

LEMMA RollbackStep ==
  ASSUME ProjectionInv, NEW r \in Runners, Rollback(r)
  PROVE  ProjectionInv'
<1>1. /\ EndRun(r) /\ UNCHANGED <<checkpoint, length, model, overtaken>>
      /\ spoiled' = IF rebuilding[r] THEN spoiled \cup {Running(r)} ELSE spoiled
  BY DEF Rollback, EndRun
<1>2. ProjectionTypes /\ LogRows' = LogRows /\ Running(r) \in Projections
  BY <1>1, LogStays, RunningType DEF ProjectionInv
<1>3. checkpoint' \in [Projections -> Nat] /\ spoiled' \in SUBSET Projections /\ spoiled \subseteq spoiled'
  BY <1>1, <1>2 DEF ProjectionTypes
<1>4. /\ ProjectionTypes' /\ pc'[r] = "idle" /\ ~rebuilding'[r] /\ written'[r] = NoWrites
      /\ \A q \in Runners : q # r => SameRun(q)
  BY <1>1, <1>2, <1>3, EndRunGoes
<1>5. \A q \in Runners : RunnerOK(q)'
  <2>1. \A p \in Projections : Keeps(p)
    BY <1>1 DEF Keeps
  <2>. QED  BY <1>1, <1>2, <1>3, <1>4, <2>1, IdleOK, OthersCovered DEF ProjectionInv
<1>6. \A q \in Runners : q # r => Running(q)' = Running(q)
  BY <1>4 DEF SameRun, Running
<1>7. Alone'
  BY <1>3, <1>4, <1>6 DEF ProjectionInv, Alone, SameRun
<1>8. CheckpointCovered'
  <2>. SUFFICES ASSUME NEW p \in Projections \ spoiled', \A q \in Runners : rebuilding'[q] => Running(q)' # p
                PROVE  Covered(p, checkpoint[p])'
    BY DEF CheckpointCovered
  <2>1. \A q \in Runners : rebuilding[q] => Running(q) # p
    BY <1>1, <1>4, <1>6 DEF SameRun
  <2>2. Covered(p, checkpoint[p])
    BY <1>3, <2>1 DEF ProjectionInv, CheckpointCovered
  <2>. QED  BY <1>1, <1>2, <2>2 DEF Covered
<1>9. CheckpointArrived' /\ OvertakenByOthers'
  BY <1>1, <1>2 DEF ProjectionInv, CheckpointArrived, Arrived, OvertakenByOthers
<1>. QED  BY <1>4, <1>5, <1>7, <1>8, <1>9 DEF ProjectionInv

\* A step that leaves the log, every run and every read model alone.
LEMMA NoRunStep ==
  ASSUME ProjectionInv, ProjectionTypes', UNCHANGED <<length, run, model, spoiled, overtaken>>,
         \A p \in Projections : checkpoint'[p] = checkpoint[p] \/ checkpoint'[p] = 0
  PROVE  ProjectionInv'
<1>1. ProjectionTypes /\ LogRows' = LogRows /\ \A q \in Runners : SameRun(q) /\ RunnerOK(q)
  BY LogStays DEF ProjectionInv, SameRun, run
<1>2. \A p \in Projections : Keeps(p)
  BY DEF Keeps
<1>3. \A q \in Runners : RunnerOK(q)'
  BY <1>1, <1>2, OthersCovered
<1>4. Alone'
  BY DEF ProjectionInv, Alone, run, Running
<1>5. CheckpointCovered'
  <2>. SUFFICES ASSUME NEW p \in Projections \ spoiled', \A q \in Runners : rebuilding'[q] => Running(q)' # p
                PROVE  Covered(p, checkpoint[p])'
    BY DEF CheckpointCovered
  <2>1. Covered(p, checkpoint[p])
    BY DEF ProjectionInv, CheckpointCovered, run, Running
  <2>2. Covered(p, 0)
    BY LogRow DEF Covered
  <2>. QED  BY <1>1, <2>1, <2>2 DEF Covered
<1>6. CheckpointArrived' /\ OvertakenByOthers'
  BY <1>1 DEF ProjectionInv, CheckpointArrived, Arrived, OvertakenByOthers
<1>. QED  BY <1>3, <1>4, <1>5, <1>6 DEF ProjectionInv

\* An event is committed: the cursors that are past it have overtaken it.
LEMMA AppendEventStep ==
  ASSUME ProjectionInv, NEW a \in Aggregates, AppendEvent(a)
  PROVE  ProjectionInv'
<1>. DEFINE n == length[a] + 1
            w == EventRow(a, n)
            passed(p) == IF \E m \in Reached(p) : n <= m THEN {w} ELSE {}
<1>1. /\ length[a] < MaxLength /\ length' = [length EXCEPT ![a] = n]
      /\ overtaken' = [p \in Projections |-> overtaken[p] \cup passed(p)]
      /\ UNCHANGED <<checkpoint, run, model, spoiled>>
  BY DEF AppendEvent
<1>2. ProjectionTypes /\ MaxLength \in Nat /\ length[a] \in Nat
  BY ProjectionAssumption DEF ProjectionInv, ProjectionTypes
<1>3. n \in 1 .. MaxLength /\ w \in Rows /\ w.agg = a /\ w.sequence = n
  BY <1>1, <1>2 DEF Rows, EventRow
<1>. HIDE DEF n, w
<1>4. /\ length' \in [Aggregates -> 0 .. MaxLength] /\ length'[a] = n
      /\ \A c \in Aggregates : c # a => length'[c] = length[c]
  BY <1>1, <1>2, <1>3 DEF ProjectionTypes
<1>5. LogRows \subseteq LogRows' /\ \A v \in LogRows' : v \in LogRows \/ v = w
  <2>1. ASSUME NEW v \in LogRows PROVE v \in LogRows'
    <3>1. v \in Rows /\ v.agg \in Aggregates /\ v.sequence \in Nat /\ v.sequence <= length[v.agg]
      BY LogRow
    <3>2. v.sequence <= length'[v.agg]
      BY <1>2, <1>4, <3>1 DEF n
    <3>. QED  BY <3>1, <3>2 DEF LogRows
  <2>2. ASSUME NEW v \in LogRows', v \notin LogRows PROVE v = w
    <3>1. v \in Rows /\ v.sequence <= length'[v.agg] /\ ~(v.sequence <= length[v.agg])
      BY <2>2 DEF LogRows
    <3>2. v.agg \in Aggregates /\ v.sequence \in Nat /\ v = EventRow(v.agg, v.sequence)
      BY <3>1 DEF Rows, EventRow
    <3>3. v.agg = a /\ v.sequence <= n /\ ~(v.sequence <= length[a])
      BY <1>4, <3>1, <3>2
    <3>4. v.sequence = n
      BY <1>2, <3>2, <3>3 DEF n
    <3>. QED  BY <3>2, <3>3, <3>4 DEF w
  <2>. QED  BY <2>1, <2>2
<1>6. overtaken' \in [Projections -> SUBSET Rows] /\ \A p \in Projections : overtaken'[p] = overtaken[p] \cup passed(p)
  BY <1>1, <1>2, <1>3 DEF ProjectionTypes
<1>7. ProjectionTypes'
  BY <1>1, <1>2, <1>4, <1>6 DEF ProjectionTypes, run
<1>8. ASSUME NEW m, Arrived(m) PROVE Arrived(m)'
  BY <1>5, <1>8 DEF Arrived
<1>9. ASSUME NEW p \in Projections, NEW m \in Reached(p), Covered(p, m) PROVE Covered(p, m)'
  BY <1>1, <1>3, <1>5, <1>6, <1>9 DEF Covered
<1>10. ASSUME NEW p \in Projections, NEW m \in Reached(p) PROVE Arrived(m)
  <2>1. CASE m = checkpoint[p]
    BY <2>1 DEF ProjectionInv, CheckpointArrived
  <2>2. CASE \E r \in Runners : m = written[r][p] /\ m # NoWrite
    BY <2>2 DEF ProjectionInv, RunnerOK, CursorsArrived
  <2>3. CASE \E r \in Runners : m = last[r] /\ pc[r] = "select"
    BY <2>3 DEF ProjectionInv, RunnerOK, CursorsArrived
  <2>4. ASSUME NEW r \in Runners, pc[r] \in {"apply", "save"}, m = Last(batch[r]).sequence PROVE Arrived(m)
    <3>1. Len(batch[r]) > 0 /\ \A j \in 1 .. Len(batch[r]) : batch[r][j] \in LogRows
      BY <2>4 DEF ProjectionInv, RunnerOK, CursorsArrived
    <3>2. batch[r] \in Seq(Rows)
      BY <1>2 DEF ProjectionTypes
    <3>3. Len(batch[r]) \in 1 .. Len(batch[r]) /\ Last(batch[r]) = batch[r][Len(batch[r])]
      BY <3>1, <3>2 DEF Last
    <3>. QED  BY <2>4, <3>1, <3>3 DEF Arrived
  <2>. QED  BY <2>1, <2>2, <2>3, <2>4 DEF Reached
<1>11. OvertakenByOthers'
  <2>. SUFFICES ASSUME NEW p \in Projections, NEW u \in overtaken'[p]
                PROVE  \E v \in LogRows' : v.agg # u.agg /\ v.sequence >= u.sequence
    BY DEF OvertakenByOthers
  <2>1. CASE u \in overtaken[p]
    BY <1>5, <2>1 DEF ProjectionInv, OvertakenByOthers
  <2>2. CASE u \notin overtaken[p]
    <3>1. u = w /\ \E m \in Reached(p) : n <= m
      BY <1>6, <2>2
    <3>2. PICK m \in Reached(p) : n <= m
      BY <3>1
    <3>3. Arrived(m)
      BY <1>10
    <3>4. PICK v \in LogRows : v.sequence = m
      BY <1>3, <3>2, <3>3 DEF Arrived
    <3>5. v.sequence \in Nat /\ v.agg \in Aggregates /\ v.sequence <= length[v.agg]
      BY <3>4, LogRow
    <3>6. v.agg # a
      BY <1>2, <3>2, <3>4, <3>5 DEF n
    <3>. QED  BY <1>3, <1>5, <3>1, <3>2, <3>4, <3>5, <3>6
  <2>. QED  BY <2>1, <2>2
<1>12. CheckpointArrived'
  BY <1>1, <1>8 DEF ProjectionInv, CheckpointArrived
<1>13. CheckpointCovered'
  <2>. SUFFICES ASSUME NEW p \in Projections \ spoiled', \A q \in Runners : rebuilding'[q] => Running(q)' # p
                PROVE  Covered(p, checkpoint[p])'
    BY DEF CheckpointCovered
  <2>1. Covered(p, checkpoint[p])
    BY <1>1 DEF ProjectionInv, CheckpointCovered, run, Running
  <2>2. checkpoint[p] \in Reached(p) /\ checkpoint'[p] = checkpoint[p]
    BY <1>1 DEF Reached
  <2>3. \A m \in Reached(p) : Covered(p, m) => Covered(p, m)'
    BY <1>9
  <2>. QED  BY <2>1, <2>2, <2>3 DEF Covered
<1>14. Alone'
  BY <1>1 DEF ProjectionInv, Alone, run, Running
<1>15. ASSUME NEW r \in Runners PROVE RunnerOK(r)'
  <2>1. RunnerOK(r) /\ SameRun(r) /\ Running(r)' = Running(r) /\ Running(r) \in Projections
    BY <1>1, <1>2, RunningType DEF ProjectionInv, SameRun, run, Running
  <2>2. RunShape(r)'
    BY <2>1 DEF RunnerOK, RunShape, SameRun
  <2>3. CursorsArrived(r)'
    <3>1. \A p \in Projections : written'[r][p] # NoWrite => Arrived(written[r][p])'
      BY <1>8, <2>1 DEF RunnerOK, CursorsArrived, SameRun, Arrived
    <3>2. pc'[r] = "select" => Arrived(last[r])'
      BY <1>8, <2>1 DEF RunnerOK, CursorsArrived, SameRun, Arrived
    <3>. QED  BY <1>5, <2>1, <3>1, <3>2 DEF RunnerOK, CursorsArrived, SameRun
  <2>4. ASSUME NEW p \in Projections \ spoiled', written'[r][p] # NoWrite PROVE Covered(p, written[r][p])'
    <3>1. Covered(p, written[r][p]) /\ written'[r][p] = written[r][p] /\ written[r][p] # NoWrite
      BY <1>1, <2>1, <2>4 DEF RunnerOK, WorkCovered, SameRun
    <3>2. written[r][p] \in Reached(p)
      BY <3>1 DEF Reached
    <3>3. \A m \in Reached(p) : Covered(p, m) => Covered(p, m)'
      BY <1>9
    <3>. QED  BY <3>1, <3>2, <3>3 DEF Covered
  <2>5. ASSUME Running(r)' \notin spoiled', pc'[r] = "select" PROVE Covered(Running(r), last[r])'
    <3>1. Covered(Running(r), last[r]) /\ last'[r] = last[r] /\ pc[r] = "select"
      BY <1>1, <2>1, <2>5 DEF RunnerOK, WorkCovered, SameRun
    <3>2. last[r] \in Reached(Running(r))
      BY <3>1 DEF Reached
    <3>3. \A m \in Reached(Running(r)) : Covered(Running(r), m) => \A v \in LogRows' :
            v.sequence <= m => v \in model'[Running(r)] \cup overtaken'[Running(r)]
      BY <1>9, <2>1 DEF Covered
    <3>. QED  BY <2>1, <3>1, <3>2, <3>3 DEF Covered
  <2>6. ASSUME Running(r)' \notin spoiled', pc'[r] \in {"apply", "save"} PROVE CoveredByBatch(r)'
    <3>1. /\ CoveredByBatch(r) /\ batch'[r] = batch[r] /\ done'[r] = done[r] /\ pc[r] \in {"apply", "save"}
      BY <1>1, <2>1, <2>6 DEF RunnerOK, WorkCovered, SameRun
    <3>2. Last(batch[r]).sequence \in Reached(Running(r))
      BY <3>1 DEF Reached
    <3>3. w.sequence <= Last(batch[r]).sequence => w \in overtaken'[Running(r)]
      BY <1>3, <1>6, <2>1, <3>2
    <3>4. model' = model /\ overtaken[Running(r)] \subseteq overtaken'[Running(r)]
      BY <1>1, <1>6, <2>1
    <3>. QED  BY <1>5, <2>1, <3>1, <3>3, <3>4 DEF CoveredByBatch
  <2>. QED  BY <2>2, <2>3, <2>4, <2>5, <2>6 DEF RunnerOK, WorkCovered
<1>. QED  BY <1>7, <1>11, <1>12, <1>13, <1>14, <1>15 DEF ProjectionInv

LEMMA CliResetStep ==
  ASSUME ProjectionInv, NEW p \in Projections, CliReset(p)
  PROVE  ProjectionInv'
<1>1. UNCHANGED <<length, run, model, spoiled, overtaken>> /\ checkpoint' = [checkpoint EXCEPT ![p] = 0]
  BY DEF CliReset
<1>2. /\ checkpoint' \in [Projections -> Nat]
      /\ \A q \in Projections : checkpoint'[q] = checkpoint[q] \/ checkpoint'[q] = 0
  BY <1>1 DEF ProjectionInv, ProjectionTypes
<1>3. ProjectionTypes'
  BY <1>1, <1>2 DEF ProjectionInv, ProjectionTypes, run
<1>. QED  BY <1>1, <1>2, <1>3, NoRunStep

LEMMA RunOnceStep ==
  ASSUME ProjectionInv, NEW r \in Runners, RunOnce(r)
  PROVE  ProjectionInv'
<1>1. /\ pc[r] = "idle" /\ pc' = [pc EXCEPT ![r] = "get"]
      /\ spoiled' = spoiled \cup {Running(q) : q \in {q \in Runners : rebuilding[q]}}
      /\ UNCHANGED <<length, checkpoint, model, current, rebuilding, last, batch, done, written, overtaken>>
  BY DEF RunOnce
<1>2. /\ ProjectionTypes /\ RunnerOK(r) /\ LogRows' = LogRows
      /\ \A q \in Runners : Running(q) \in Projections /\ Running(q)' = Running(q)
  BY <1>1, LogStays, RunningType DEF ProjectionInv, Running
<1>3. /\ pc' \in [Runners -> RunPCs] /\ pc'[r] = "get"
      /\ \A q \in Runners : q # r => pc'[q] = pc[q]
  BY <1>1, <1>2 DEF ProjectionTypes, RunPCs
<1>4. spoiled' \in SUBSET Projections /\ spoiled \subseteq spoiled'
  BY <1>1, <1>2 DEF ProjectionTypes
<1>5. ProjectionTypes'
  BY <1>1, <1>2, <1>3, <1>4 DEF ProjectionTypes
<1>6. (\A q \in Runners : q # r => SameRun(q)) /\ \A p \in Projections : Keeps(p)
  BY <1>1, <1>3 DEF SameRun, Keeps
<1>7. ~rebuilding[r] /\ \A q \in Projections : written[r][q] = NoWrite
  BY <1>1, <1>2 DEF RunnerOK, RunShape, NoWrites
<1>8. RunnerOK(r)'
  BY <1>1, <1>3, <1>7 DEF RunnerOK, RunShape, CursorsArrived, WorkCovered
<1>9. \A q \in Runners : RunnerOK(q)'
  BY <1>1, <1>2, <1>4, <1>6, <1>8, OthersCovered DEF ProjectionInv
<1>10. Alone'
  <2>1. \A q \in Runners : rebuilding'[q] => Running(q)' \in spoiled'
    BY <1>1, <1>2
  <2>. QED  BY <2>1 DEF Alone
<1>11. CheckpointCovered'
  BY <1>1, <1>2, <1>4 DEF ProjectionInv, CheckpointCovered, Covered
<1>12. CheckpointArrived' /\ OvertakenByOthers'
  BY <1>1, <1>2 DEF ProjectionInv, CheckpointArrived, Arrived, OvertakenByOthers
<1>. QED  BY <1>5, <1>9, <1>10, <1>11, <1>12 DEF ProjectionInv

LEMMA RebuildStep ==
  ASSUME ProjectionInv, NEW r \in Runners, NEW i \in DOMAIN Registered, Rebuild(r, i)
  PROVE  ProjectionInv'
<1>. DEFINE p == Registered[i]
<1>1. /\ pc[r] = "idle" /\ model' = [model EXCEPT ![p] = {}] /\ current' = [current EXCEPT ![r] = i]
      /\ rebuilding' = [rebuilding EXCEPT ![r] = TRUE] /\ pc' = [pc EXCEPT ![r] = "zero"]
      /\ spoiled' = IF \E q \in Runners : pc[q] # "idle" THEN spoiled \cup {p} ELSE spoiled
      /\ UNCHANGED <<length, checkpoint, last, batch, done, written, overtaken>>
  BY DEF Rebuild
<1>2. p \in Projections
  BY DEF Projections, Range
<1>. HIDE DEF p
<1>3. ProjectionTypes /\ RunnerOK(r) /\ LogRows' = LogRows
  BY <1>1, LogStays DEF ProjectionInv
<1>4. /\ model' \in [Projections -> SUBSET Rows] /\ \A q \in Projections : q # p => model'[q] = model[q] /\ Keeps(q)
  BY <1>1, <1>2, <1>3 DEF ProjectionTypes, Keeps
<1>5. spoiled' \in SUBSET Projections /\ spoiled \subseteq spoiled'
  BY <1>1, <1>2, <1>3 DEF ProjectionTypes
<1>6. /\ pc'[r] = "zero" /\ current'[r] = i /\ rebuilding'[r] = TRUE
      /\ \A q \in Runners : q # r => pc'[q] = pc[q] /\ current'[q] = current[q] /\ rebuilding'[q] = rebuilding[q]
  BY <1>1, <1>3 DEF ProjectionTypes
<1>7. ProjectionTypes'
  BY <1>1, <1>3, <1>4, <1>5 DEF ProjectionTypes, RunPCs
<1>8. Running(r)' = p /\ \A q \in Runners : q # r => SameRun(q) /\ Running(q)' = Running(q)
  BY <1>1, <1>6 DEF SameRun, Running, p
<1>9. ~rebuilding[r] /\ \A q \in Projections : written'[r][q] = NoWrite
  BY <1>1, <1>3 DEF RunnerOK, RunShape, NoWrites
<1>10. RunnerOK(r)'
  BY <1>6, <1>9 DEF RunnerOK, RunShape, CursorsArrived, WorkCovered
<1>11. CheckpointCovered'
  <2>. SUFFICES ASSUME NEW z \in Projections \ spoiled', \A q \in Runners : rebuilding'[q] => Running(q)' # z
                PROVE  Covered(z, checkpoint[z])'
    BY DEF CheckpointCovered
  <2>1. z # p /\ \A q \in Runners : rebuilding[q] => Running(q) # z
    BY <1>6, <1>8, <1>9
  <2>2. Covered(z, checkpoint[z])
    BY <1>5, <2>1 DEF ProjectionInv, CheckpointCovered
  <2>. QED  BY <1>1, <1>3, <1>4, <2>1, <2>2 DEF Covered
<1>12. CheckpointArrived' /\ OvertakenByOthers'
  BY <1>1, <1>3 DEF ProjectionInv, CheckpointArrived, Arrived, OvertakenByOthers
<1>13. CASE \E q \in Runners : pc[q] # "idle"
  <2>1. spoiled' = spoiled \cup {p}
    BY <1>1, <1>13
  <2>2. \A q \in Projections \ spoiled' : Keeps(q)
    BY <1>4, <2>1
  <2>3. \A q \in Runners : q # r => RunnerOK(q)'
    BY <1>1, <1>3, <1>5, <1>8, <2>2, OthersCovered DEF ProjectionInv
  <2>4. Alone'
    BY <1>5, <1>6, <1>8, <2>1 DEF ProjectionInv, Alone
  <2>. QED  BY <1>7, <1>10, <1>11, <1>12, <2>3, <2>4 DEF ProjectionInv
<1>14. CASE \A q \in Runners : pc[q] = "idle"
  <2>1. \A q \in Runners : q # r => pc'[q] = "idle" /\ ~rebuilding'[q] /\ written'[q] = NoWrites
    BY <1>1, <1>6, <1>14 DEF ProjectionInv, RunnerOK, RunShape
  <2>2. \A q \in Runners : q # r => RunnerOK(q)'
    BY <1>7, <2>1, IdleOK
  <2>3. Alone'
    BY <2>1 DEF Alone
  <2>. QED  BY <1>7, <1>10, <1>11, <1>12, <2>2, <2>3 DEF ProjectionInv
<1>. QED  BY <1>13, <1>14

LEMMA ProjectionNextStep == ProjectionInv /\ [ProjectionNext]_projectionVars => ProjectionInv'
<1>. SUFFICES ASSUME ProjectionInv, [ProjectionNext]_projectionVars PROVE ProjectionInv'
  OBVIOUS
<1>1. CASE UNCHANGED projectionVars
  <2>1. UNCHANGED <<length, run, model, spoiled, overtaken>> /\ checkpoint' = checkpoint /\ ProjectionTypes'
    BY <1>1 DEF projectionVars, run, ProjectionInv, ProjectionTypes
  <2>. QED  BY <2>1, NoRunStep
<1>2. ASSUME NEW c \in Aggregates, AppendEvent(c) PROVE ProjectionInv'
  BY <1>2, AppendEventStep
<1>3. ASSUME NEW r \in Runners, RunStep(r) PROVE ProjectionInv'
  <2>1. CASE RunOnce(r)
    BY <2>1, RunOnceStep
  <2>2. CASE GetCheckpoint(r)
    BY <2>2, GetCheckpointStep
  <2>3. CASE Select(r)
    BY <2>3, SelectStep
  <2>4. CASE Apply(r)
    BY <2>4, ApplyStep
  <2>5. CASE SetCheckpoint(r)
    BY <2>5, SetCheckpointStep
  <2>6. CASE Commit(r)
    BY <2>6, CommitStep
  <2>7. CASE ApplyRaises(r)
    BY <2>7, RollbackStep DEF ApplyRaises
  <2>8. CASE RebuildZero(r)
    BY <2>8, RebuildZeroStep
  <2>. QED  BY <1>3, <2>1, <2>2, <2>3, <2>4, <2>5, <2>6, <2>7, <2>8 DEF RunStep
<1>4. ASSUME NEW r \in Runners, Fail(r) PROVE ProjectionInv'
  BY <1>4, RollbackStep DEF Fail
<1>5. ASSUME NEW r \in Runners, NEW i \in DOMAIN Registered, Rebuild(r, i) PROVE ProjectionInv'
  BY <1>5, RebuildStep
<1>6. ASSUME NEW p \in Projections, CliReset(p) PROVE ProjectionInv'
  BY <1>6, CliResetStep
<1>. QED  BY <1>1, <1>2, <1>3, <1>4, <1>5, <1>6 DEF ProjectionNext

\* The lag that the status command reports reaches every row of the log.
LEMMA LagReaches ==
  ASSUME ProjectionTypes, NEW p \in Projections, Arrived(checkpoint[p])
  PROVE  \E m \in Nat : /\ Lag(p) = m - checkpoint[p] /\ checkpoint[p] <= m
                        /\ \A w \in LogRows : w.sequence <= m
<1>. DEFINE sequences == {0} \cup {w.sequence : w \in LogRows}
            m == CHOOSE x \in sequences : \A y \in sequences : x >= y
<1>1. MaxLength \in Nat /\ sequences \in SUBSET Nat /\ 0 \in sequences /\ \A s \in sequences : s <= MaxLength
  BY LogRow, ProjectionAssumption
<1>2. \A w \in LogRows : w.sequence \in sequences
  OBVIOUS
<1>3. Lag(p) = m - checkpoint[p]
  BY DEF Lag, Max
<1>4. checkpoint[p] \in sequences
  BY DEF Arrived
<1>. HIDE DEF sequences
<1>5. \E x \in sequences : \A y \in sequences : x >= y
  BY <1>1, GreatestNatural
<1>6. m \in sequences /\ \A y \in sequences : m >= y
  BY <1>5
<1>. HIDE DEF m
<1>7. m \in Nat /\ checkpoint[p] <= m /\ \A w \in LogRows : w.sequence <= m
  BY <1>1, <1>2, <1>4, <1>6
<1>. QED  BY <1>3, <1>7

LEMMA NothingIsSkipped == ProjectionInv => NoSkip
<1>. SUFFICES ASSUME ProjectionInv, NEW p \in Projections,
                     p \notin spoiled, \A r \in Runners : ~(rebuilding[r] /\ Running(r) = p)
              PROVE  /\ {w \in LogRows : w.sequence <= checkpoint[p]} \subseteq model[p] \cup overtaken[p]
                     /\ \A a \in Aggregates : Cardinality(Behind(p, a)) <= Lag(p)
  BY DEF NoSkip, ProjectionInv, OvertakenByOthers
<1>1. ProjectionTypes /\ Covered(p, checkpoint[p]) /\ Arrived(checkpoint[p]) /\ checkpoint[p] \in Nat
  BY DEF ProjectionInv, CheckpointCovered, CheckpointArrived, ProjectionTypes
<1>2. {w \in LogRows : w.sequence <= checkpoint[p]} \subseteq model[p] \cup overtaken[p]
  BY <1>1 DEF Covered
<1>3. PICK m \in Nat : /\ Lag(p) = m - checkpoint[p] /\ checkpoint[p] <= m
                       /\ \A w \in LogRows : w.sequence <= m
  BY <1>1, LagReaches
<1>4. ASSUME NEW a \in Aggregates PROVE Cardinality(Behind(p, a)) <= Lag(p)
  <2>. DEFINE missing == Behind(p, a)
              c == checkpoint[p]
              f == [w \in missing |-> w.sequence]
              above == (c + 1) .. m
  <2>1. \A w \in missing : w \in LogRows /\ w.agg = a /\ ~(w.sequence <= c)
    BY <1>2 DEF Behind
  <2>2. c \in Nat
    BY <1>1
  <2>. HIDE DEF missing, c
  <2>3. \A w \in missing : w.sequence \in above
    BY <1>3, <2>1, <2>2, LogRow
  <2>4. \A v, w \in missing : v.sequence = w.sequence => v = w
    BY <2>1, LogRow
  <2>. HIDE DEF above
  <2>5. f \in Injection(missing, above)
    BY <2>3, <2>4 DEF Injection, IsInjective
  <2>6. c + 1 \in Int /\ m \in Int
    BY <2>2
  <2>7. IsFiniteSet(above) /\ Cardinality(above) = IF c + 1 > m THEN 0 ELSE m - (c + 1) + 1
    BY <2>6, FS_Interval DEF above
  <2>8. Cardinality(above) = m - c
    BY <1>3, <2>2, <2>7 DEF c
  <2>. HIDE DEF f
  <2>9. Cardinality(missing) <= Cardinality(above)
    BY <2>5, <2>7, FS_Injection
  <2>. QED  BY <1>3, <2>8, <2>9 DEF missing, c
<1>. QED  BY <1>2, <1>4

\* Whatever runners overlap, fail or are reset, and however many aggregates there are: no
\* row at or below a committed checkpoint is missing from its read model unless a row of
\* another aggregate has overtaken it, and the lag that the status command reports covers
\* what is missing of each stream.
THEOREM ProjectionsSkipNothing == ProjectionSpec => []NoSkip
<1>1. ProjectionInit => ProjectionInv
  BY ProjectionInits
<1>2. ProjectionInv /\ [ProjectionNext]_projectionVars => ProjectionInv'
  BY ProjectionNextStep
<1>3. ProjectionInv => NoSkip
  BY NothingIsSkipped
<1>. QED  BY <1>1, <1>2, <1>3, PTL DEF ProjectionSpec
=============================================================================
