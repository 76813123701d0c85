-------------------------- MODULE ApplicationProofs --------------------------
(***************************************************************************)
(* What an application is wired with and what it answers.                  *)
(*                                                                         *)
(* For any number of orders, clients and application processes, whatever   *)
(* fails: the stream of an order is one of the five legal ones, and every  *)
(* answer is backed by it.                                                 *)
(*                                                                         *)
(* For any registrations, containers, request scopes, tasks, overrides and *)
(* closings: a container shares one instance of a singleton, a scope makes *)
(* at most one instance of a key for each task that resolved it, and an    *)
(* instance that its home no longer has a disposer for was disposed of, or *)
(* came while its home was closing.                                        *)
(*                                                                         *)
(* For any aggregates, events and callers, whatever fails: the event store *)
(* is the append-only log it promises, and an aggregate rebuilt from it,   *)
(* with or without its snapshot, is the replay of the events it read.      *)
(***************************************************************************)
EXTENDS OrderService, Container, EventStore, FiniteSetTheorems, SequenceTheorems,
        WellFoundedInduction, TLAPS

-----------------------------------------------------------------------------
(* The order service                                                       *)

Kinds == {"confirmed", "cancelled"}
Events == {"placed"} \cup Kinds

\* An order is placed, decided once, and cancelled behind a confirmation at most.
Streams ==
  {s \in Seq(Events) :
     \/ Len(s) = 0
     \/ Len(s) = 1 /\ s[1] = "placed"
     \/ Len(s) = 2 /\ s[1] = "placed" /\ s[2] \in Kinds
     \/ Len(s) = 3 /\ s[1] = "placed" /\ s[2] = "confirmed" /\ s[3] = "cancelled"}

Answers == {"none", "ok", "NotFoundError", "DomainError", "InfrastructureError", "pending"} \cup Kinds

CmdSet ==
  [pc : {"idle", "load", "append", "commit", "done"}, kind : {"none", "placed", "get"} \cup Kinds,
   order : Orders, seen : Nat, answer : Answers]

\* The order has, or has had, the status.
Reported(o, status) ==
  \/ status = "pending" /\ log[o] # <<>>
  \/ status \in Kinds /\ \E n \in 1 .. Len(log[o]) : log[o][n] = status

\* A command that has loaded the stream may extend what it has seen, holds the next position
\* from its INSERT to its COMMIT, and its answer is backed by the stream.
Good(c) ==
  /\ c.pc \in {"load", "append", "commit"} => c.kind \in Kinds
  /\ c.pc \in {"append", "commit"} =>
       /\ c.seen \in 1 .. Len(log[c.order])
       /\ c.seen = Len(log[c.order]) => Append(log[c.order], c.kind) \in Streams
  /\ c.pc = "commit" => c.seen = Len(log[c.order])
  /\ c.pc = "done" /\ c.kind \in Kinds /\ c.answer = "ok" => Len(log[c.order]) > c.seen
  /\ c.pc = "done" /\ c.kind = "get" => c.answer = "NotFoundError" \/ Reported(c.order, c.answer)

\* One command at a time waits for the commit of its event.
OneCommit ==
  \A s, t \in Slots : cmd[s].pc = "commit" /\ cmd[t].pc = "commit" /\ cmd[s].order = cmd[t].order => s = t

CommandPart ==
  cmd \in [Slots -> CmdSet] /\ (\A s \in Slots : Good(cmd[s])) /\ OneCommit

\* A pass works on rows of the event table.
Rows == Nat \X Orders
PassSet == [rows : SUBSET Rows, left : SUBSET Rows]

GoodPass(p) == \A w \in p.left : w[1] \in 1 .. Len(log[w[2]])

\* The read model shows only what the order had reported.
ViewPart ==
  /\ summary \in [Orders -> {"none", "pending"} \cup Kinds]
  /\ \A o \in Orders : summary[o] = "none" \/ Reported(o, summary[o])
  /\ run \in [Runners -> PassSet] /\ \A r \in Runners : GoodPass(run[r])

\* The inductive invariant.
IInv == log \in [Orders -> Streams] /\ CommandPart /\ ViewPart

USE OrderAssumption

-----------------------------------------------------------------------------
(* Streams                                                                 *)

\* The four cases of a legal stream.
LEMMA StreamCases ==
  ASSUME NEW s \in Streams
  PROVE  /\ s \in Seq(Events) /\ (s = <<>> <=> Len(s) = 0)
         /\ \/ Len(s) = 0
            \/ Len(s) = 1 /\ s[1] = "placed"
            \/ Len(s) = 2 /\ s[1] = "placed" /\ s[2] \in Kinds
            \/ Len(s) = 3 /\ s[1] = "placed" /\ s[2] = "confirmed" /\ s[3] = "cancelled"
  BY DEF Streams

LEMMA FirstIsPlaced ==
  ASSUME NEW s \in Streams, Len(s) = 1
  PROVE  s[1] = "placed"
  BY StreamCases

\* The status of a legal stream is its last event, but for the first.
LEMMA StatusIsLast ==
  ASSUME NEW s \in Streams
  PROVE  /\ Len(s) = 1 => StatusOf(s) = "pending"
         /\ Len(s) = 2 => StatusOf(s) = s[2]
         /\ Len(s) = 3 => StatusOf(s) = "cancelled"
<1>1. ASSUME Len(s) = 1  PROVE StatusOf(s) = "pending"
  <2>1. s[1] = "placed" /\ 1 .. Len(s) = {1} /\ s # <<>>
    BY <1>1, StreamCases
  <2>2. ~Contains(s, "cancelled") /\ ~Contains(s, "confirmed")
    BY <2>1 DEF Contains
  <2>. QED  BY <2>1, <2>2 DEF StatusOf
<1>2. ASSUME Len(s) = 2  PROVE StatusOf(s) = s[2]
  <2>1. s[1] = "placed" /\ s[2] \in Kinds /\ 1 .. Len(s) = {1, 2} /\ s # <<>>
    BY <1>2, StreamCases
  <2>2. Contains(s, s[2]) /\ (s[2] = "confirmed" => ~Contains(s, "cancelled"))
    BY <2>1 DEF Contains
  <2>. QED  BY <2>1, <2>2 DEF StatusOf, Kinds
<1>3. ASSUME Len(s) = 3  PROVE StatusOf(s) = "cancelled"
  <2>1. s[3] = "cancelled" /\ 1 .. Len(s) = {1, 2, 3} /\ s # <<>>
    BY <1>3, StreamCases
  <2>2. Contains(s, "cancelled")
    BY <2>1 DEF Contains
  <2>. QED  BY <2>1, <2>2 DEF StatusOf
<1>. QED  BY <1>1, <1>2, <1>3

\* What a command decides on a stream may be appended to it.
LEMMA DecideLegal ==
  ASSUME NEW s \in Streams, s # <<>>, NEW k \in Kinds, Decide(k, StatusOf(s)) = "ok"
  PROVE  Append(s, k) \in Streams
<1>. DEFINE t == Append(s, k)
<1>1. s \in Seq(Events) /\ k \in Events
  BY StreamCases DEF Events
<1>2. t \in Seq(Events)
  BY <1>1, AppendProperties
<1>3. Len(t) = Len(s) + 1 /\ (\A i \in 1 .. Len(s) : t[i] = s[i]) /\ t[Len(s) + 1] = k
  BY <1>1, AppendProperties
<1>. HIDE DEF t
<1>4. CASE Len(s) = 1
  <2>1. s[1] = "placed"
    BY <1>4, StreamCases
  <2>2. Len(t) = 2 /\ t[1] = "placed" /\ t[2] = k
    BY <1>3, <1>4, <2>1
  <2>3. t \in Streams
    BY <1>2, <2>2 DEF Streams
  <2>. QED  BY <2>3 DEF t
<1>5. CASE Len(s) = 2
  <2>1. s[1] = "placed" /\ s[2] \in Kinds /\ StatusOf(s) = s[2]
    BY <1>5, StreamCases, StatusIsLast
  <2>2. s[2] = "confirmed" /\ k = "cancelled"
    BY <2>1 DEF Decide, Confirm, Cancel, Kinds
  <2>3. Len(t) = 3 /\ t[1] = s[1] /\ t[2] = s[2] /\ t[3] = k
    BY <1>3, <1>5
  <2>4. t \in Streams
    BY <1>2, <2>1, <2>2, <2>3 DEF Streams
  <2>. QED  BY <2>4 DEF t
<1>6. CASE Len(s) = 3
  <2>1. StatusOf(s) = "cancelled"
    BY <1>6, StatusIsLast
  <2>. QED  BY <2>1 DEF Decide, Confirm, Cancel, Kinds
<1>. QED  BY <1>4, <1>5, <1>6, StreamCases

\* A legal stream is a prefix of one of the two histories.
LEMMA StreamsAreLegal ==
  ASSUME NEW s \in Streams
  PROVE  \E history \in {<<"placed", "confirmed", "cancelled">>, <<"placed", "cancelled">>} : IsPrefix(s, history)
<1>1. \A h \in Seq(Events) : Len(s) <= Len(h) /\ (\A i \in 1 .. Len(s) : s[i] = h[i]) => IsPrefix(s, h)
  <2>1. SUFFICES ASSUME NEW h \in Seq(Events), Len(s) <= Len(h), \A i \in 1 .. Len(s) : s[i] = h[i]
                 PROVE  SubSeq(s, 1, Len(s)) = SubSeq(h, 1, Len(s))
    BY DEF IsPrefix
  <2>2. s \in Seq(Events)
    BY StreamCases
  <2>3. \A i \in 1 .. Len(s) : s[i] \in Events /\ h[i] \in Events
    BY <2>1, <2>2
  <2>4. /\ SubSeq(s, 1, Len(s)) \in Seq(Events) /\ Len(SubSeq(s, 1, Len(s))) = Len(s)
        /\ \A i \in 1 .. Len(s) : SubSeq(s, 1, Len(s))[i] = s[i]
    BY <2>2, <2>3, SubSeqProperties
  <2>5. /\ SubSeq(h, 1, Len(s)) \in Seq(Events) /\ Len(SubSeq(h, 1, Len(s))) = Len(s)
        /\ \A i \in 1 .. Len(s) : SubSeq(h, 1, Len(s))[i] = h[i]
    BY <2>2, <2>3, SubSeqProperties
  <2>. QED  BY <2>1, <2>4, <2>5, SeqEqual
<1>. DEFINE h3 == <<"placed", "confirmed", "cancelled">>
            h2 == <<"placed", "cancelled">>
<1>2. /\ h3 \in Seq(Events) /\ Len(h3) = 3 /\ h3[1] = "placed" /\ h3[2] = "confirmed" /\ h3[3] = "cancelled"
      /\ h2 \in Seq(Events) /\ Len(h2) = 2 /\ h2[1] = "placed" /\ h2[2] = "cancelled"
  BY DEF Events, Kinds
<1>. HIDE DEF h2, h3
<1>3. CASE Len(s) = 2 /\ s[2] = "cancelled"
  <2>1. Len(s) <= Len(h2) /\ \A i \in 1 .. Len(s) : s[i] = h2[i]
    BY <1>2, <1>3, StreamCases
  <2>2. IsPrefix(s, h2)
    BY <1>1, <1>2, <2>1
  <2>. QED  BY <2>2 DEF h2
<1>4. CASE ~(Len(s) = 2 /\ s[2] = "cancelled")
  <2>1. Len(s) <= Len(h3) /\ \A i \in 1 .. Len(s) : s[i] = h3[i]
    <3>1. CASE Len(s) = 0
      BY <1>2, <3>1
    <3>2. CASE Len(s) = 1
      BY <1>2, <3>2, StreamCases
    <3>3. CASE Len(s) = 2
      <4>1. s[1] = "placed" /\ s[2] = "confirmed"
        BY <1>4, <3>3, StreamCases DEF Kinds
      <4>. QED  BY <1>2, <3>3, <4>1
    <3>4. CASE Len(s) = 3
      BY <1>2, <3>4, StreamCases
    <3>. QED  BY <3>1, <3>2, <3>3, <3>4, StreamCases
  <2>2. IsPrefix(s, h3)
    BY <1>1, <1>2, <2>1
  <2>. QED  BY <2>2 DEF h3
<1>. QED  BY <1>3, <1>4

\* A prefix of a legal stream is one.
LEMMA PrefixIsLegal ==
  ASSUME NEW s \in Streams, NEW n \in 1 .. Len(s)
  PROVE  /\ SubSeq(s, 1, n) \in Streams
         /\ Len(SubSeq(s, 1, n)) = n /\ SubSeq(s, 1, n)[n] = s[n]
<1>1. s \in Seq(Events) /\ n \in Int
  BY StreamCases
<1>2. \A i \in 1 .. n : s[i] \in Events
  BY <1>1
<1>. DEFINE t == SubSeq(s, 1, n)
<1>3. t \in Seq(Events)
  BY <1>1, <1>2, SubSeqProperties
<1>4. Len(t) = n /\ \A i \in 1 .. n : t[i] = s[i]
  BY <1>1, <1>2, SubSeqProperties
<1>. HIDE DEF t
<1>5. CASE n = 1
  <2>1. Len(t) = 1 /\ t[1] = s[1] /\ s[1] = "placed"
    BY <1>4, <1>5, StreamCases
  <2>. QED  BY <1>3, <1>5, <2>1 DEF Streams, t
<1>6. CASE n = 2
  <2>1. Len(t) = 2 /\ t[1] = s[1] /\ t[2] = s[2] /\ s[1] = "placed" /\ s[2] \in Kinds
    BY <1>4, <1>6, StreamCases DEF Kinds
  <2>. QED  BY <1>3, <1>6, <2>1 DEF Streams, t
<1>7. CASE n = 3
  <2>1. /\ Len(t) = 3 /\ t[1] = s[1] /\ t[2] = s[2] /\ t[3] = s[3]
        /\ s[1] = "placed" /\ s[2] = "confirmed" /\ s[3] = "cancelled"
    BY <1>4, <1>7, StreamCases
  <2>. QED  BY <1>3, <1>7, <2>1 DEF Streams, t
<1>8. Len(s) = 0 \/ Len(s) = 1 \/ Len(s) = 2 \/ Len(s) = 3
  BY StreamCases
<1>9. n = 1 \/ n = 2 \/ n = 3
  <2>1. n \in 1 .. 0 \/ n \in 1 .. 1 \/ n \in 1 .. 2 \/ n \in 1 .. 3
    BY <1>8, Zenon
  <2>. QED  BY <2>1
<1>. QED  BY <1>5, <1>6, <1>7, <1>9

\* The statuses an order has had are those of the prefixes of its stream.
LEMMA StatusOfPrefix ==
  ASSUME NEW o \in Orders, log[o] \in Streams, NEW status, Reported(o, status)
  PROVE  \E n \in 1 .. Len(log[o]) : status = StatusOf(SubSeq(log[o], 1, n))
<1>1. CASE status = "pending" /\ log[o] # <<>>
  <2>1. 1 \in 1 .. Len(log[o])
    BY <1>1, StreamCases
  <2>2. StatusOf(SubSeq(log[o], 1, 1)) = "pending"
    BY <2>1, PrefixIsLegal, StatusIsLast
  <2>. QED  BY <1>1, <2>1, <2>2
<1>2. CASE status \in Kinds /\ \E n \in 1 .. Len(log[o]) : log[o][n] = status
  <2>1. PICK n \in 1 .. Len(log[o]) : log[o][n] = status
    BY <1>2
  <2>. DEFINE t == SubSeq(log[o], 1, n)
  <2>2. t \in Streams /\ Len(t) = n /\ t[n] = status
    BY <2>1, PrefixIsLegal
  <2>. HIDE DEF t
  <2>3. StatusOf(t) = status
    <3>1. CASE n = 1
      <4>1. status = "placed"
        <5>1. Len(t) = 1 /\ t[1] = status
          BY <2>2, <3>1
        <5>2. t \in Streams
          BY <2>2
        <5>. QED  BY <5>1, <5>2, FirstIsPlaced
      <4>. QED  BY <1>2, <4>1 DEF Kinds
    <3>2. CASE n = 2
      BY <2>2, <3>2, StatusIsLast
    <3>3. CASE n = 3
      <4>1. status = "cancelled"
        BY <2>2, <3>3, StreamCases
      <4>. QED  BY <2>2, <3>3, <4>1, StatusIsLast
    <3>4. Len(t) = 0 \/ n = 1 \/ n = 2 \/ n = 3
      BY <2>2, StreamCases
    <3>. QED  BY <2>2, <3>1, <3>2, <3>3, <3>4
  <2>. QED  BY <2>3 DEF t
<1>. QED  BY <1>1, <1>2 DEF Reported

-----------------------------------------------------------------------------
(* A stream grows                                                          *)

\* The stream keeps what it has.
Grows(o) ==
  /\ Len(log'[o]) >= Len(log[o])
  /\ Len(log'[o]) = Len(log[o]) => log'[o] = log[o]
  /\ \A n \in 1 .. Len(log[o]) : log'[o][n] = log[o][n]

\* What was reported stays reported.
LEMMA ReportStays ==
  ASSUME NEW o \in Orders, log[o] \in Streams, log'[o] \in Streams, Grows(o), NEW status, Reported(o, status)
  PROVE  Reported(o, status)'
<1>1. Len(log[o]) \in Nat /\ Len(log'[o]) \in Nat /\ Len(log'[o]) >= Len(log[o])
  BY StreamCases DEF Grows
<1>2. log[o] # <<>> => log'[o] # <<>>
  BY <1>1, StreamCases
<1>3. \A n \in 1 .. Len(log[o]) : n \in 1 .. Len(log'[o]) /\ log'[o][n] = log[o][n]
  BY <1>1 DEF Grows
<1>. QED  BY <1>2, <1>3 DEF Reported

\* A command stays good while its stream grows, unless it is about to commit.
LEMMA GoodStays ==
  ASSUME NEW c \in CmdSet, log[c.order] \in Streams, log'[c.order] \in Streams, Grows(c.order), Good(c),
         c.pc = "commit" => log'[c.order] = log[c.order]
  PROVE  Good(c)'
<1>1. Len(log[c.order]) \in Nat /\ Len(log'[c.order]) \in Nat /\ Len(log'[c.order]) >= Len(log[c.order])
  BY StreamCases DEF Grows
<1>2. c.order \in Orders /\ c.seen \in Nat
  BY DEF CmdSet
<1>3. c.pc \in {"append", "commit"} =>
        /\ c.seen \in 1 .. Len(log'[c.order])
        /\ c.seen = Len(log'[c.order]) => Append(log'[c.order], c.kind) \in Streams
  <2>1. SUFFICES ASSUME c.pc \in {"append", "commit"}
                 PROVE  /\ c.seen \in 1 .. Len(log'[c.order])
                        /\ c.seen = Len(log'[c.order]) => Append(log'[c.order], c.kind) \in Streams
    OBVIOUS
  <2>2. c.seen >= 1 /\ c.seen <= Len(log[c.order])
    BY <1>1, <2>1 DEF Good
  <2>3. c.seen \in 1 .. Len(log'[c.order])
    BY <1>1, <1>2, <2>2
  <2>4. c.seen = Len(log'[c.order]) => log'[c.order] = log[c.order] /\ c.seen = Len(log[c.order])
    BY <1>1, <1>2, <2>2 DEF Grows
  <2>5. c.seen = Len(log[c.order]) => Append(log[c.order], c.kind) \in Streams
    BY <2>1 DEF Good
  <2>. QED  BY <2>3, <2>4, <2>5
<1>4. c.pc = "done" /\ c.kind \in Kinds /\ c.answer = "ok" => Len(log'[c.order]) > c.seen
  BY <1>1, <1>2 DEF Good
<1>5. c.pc = "done" /\ c.kind = "get" => c.answer = "NotFoundError" \/ Reported(c.order, c.answer)'
  BY <1>2, ReportStays DEF Good
<1>. QED  BY <1>3, <1>4, <1>5 DEF Good

\* One command changes.
LEMMA OneCommand ==
  ASSUME log \in [Orders -> Streams], log' \in [Orders -> Streams], \A o \in Orders : Grows(o),
         CommandPart, NEW s \in Slots, NEW c \in CmdSet, Set(s, c), Good(c)',
         \A t \in Slots \ {s} : cmd[t].pc = "commit" =>
            log'[cmd[t].order] = log[cmd[t].order] /\ ~(c.pc = "commit" /\ c.order = cmd[t].order)
  PROVE  CommandPart'
<1>1. cmd \in [Slots -> CmdSet] /\ cmd' = [cmd EXCEPT ![s] = c]
  BY DEF CommandPart, Set
<1>2. cmd' \in [Slots -> CmdSet] /\ cmd'[s] = c /\ \A t \in Slots \ {s} : cmd'[t] = cmd[t]
  BY <1>1
<1>3. ASSUME NEW t \in Slots  PROVE Good(cmd[t])'
  <2>1. CASE t = s
    BY <1>2, <2>1 DEF Good, Reported
  <2>2. CASE t # s
    <3>1. PICK d \in CmdSet : d = cmd[t]
      BY <1>1
    <3>2. d.order \in Orders
      BY DEF CmdSet
    <3>3. Good(d)
      BY <3>1 DEF CommandPart
    <3>4. d.pc = "commit" => log'[d.order] = log[d.order]
      BY <2>2, <3>1
    <3>5. Good(d)'
      BY <3>2, <3>3, <3>4, GoodStays
    <3>6. cmd'[t] = d
      BY <1>2, <2>2, <3>1
    <3>. QED  BY <3>5, <3>6 DEF Good, Reported
  <2>. QED  BY <2>1, <2>2
<1>4. OneCommit'
  <2>1. SUFFICES ASSUME NEW t \in Slots, NEW u \in Slots, t # u,
                        cmd'[t].pc = "commit", cmd'[u].pc = "commit", cmd'[t].order = cmd'[u].order
                 PROVE  FALSE
    BY DEF OneCommit
  <2>2. CASE t # s /\ u # s
    BY <1>2, <2>1, <2>2 DEF CommandPart, OneCommit
  <2>3. CASE t = s
    BY <1>2, <2>1, <2>3
  <2>4. CASE u = s
    BY <1>2, <2>1, <2>4
  <2>. QED  BY <2>2, <2>3, <2>4
<1>. QED  BY <1>2, <1>3, <1>4 DEF CommandPart

\* The read model stays right while the streams grow.
LEMMA ViewStays ==
  ASSUME log \in [Orders -> Streams], log' \in [Orders -> Streams], \A o \in Orders : Grows(o),
         ViewPart, UNCHANGED <<summary, run>>
  PROVE  ViewPart'
<1>1. ASSUME NEW o \in Orders  PROVE (summary[o] = "none" \/ Reported(o, summary[o]))'
  <2>1. PICK status : status = summary[o]
    OBVIOUS
  <2>2. status = "none" \/ Reported(o, status)
    BY <2>1 DEF ViewPart
  <2>3. status = "none" \/ Reported(o, status)'
    BY <2>2, ReportStays
  <2>. QED  BY <2>1, <2>3 DEF Reported
<1>2. ASSUME NEW r \in Runners  PROVE GoodPass(run[r])'
  <2>1. run[r] \in PassSet /\ GoodPass(run[r])
    BY DEF ViewPart
  <2>2. SUFFICES ASSUME NEW w \in run[r].left  PROVE w[1] \in 1 .. Len(log'[w[2]])
    BY <2>1 DEF GoodPass
  <2>3. w[1] \in Nat /\ w[2] \in Orders
    BY <2>1 DEF PassSet, Rows
  <2>4. w[1] \in 1 .. Len(log[w[2]])
    BY <2>1, <2>2 DEF GoodPass
  <2>5. PICK o \in Orders : o = w[2]
    BY <2>3
  <2>6. Len(log[o]) \in Nat /\ Len(log'[o]) \in Nat /\ Len(log'[o]) >= Len(log[o])
    BY StreamCases DEF Grows
  <2>. QED  BY <2>3, <2>4, <2>5, <2>6
<1>. QED  BY <1>1, <1>2 DEF ViewPart

-----------------------------------------------------------------------------
(* The steps                                                               *)

\* A step that leaves the event table alone and changes one command.
LEMMA CommandStep ==
  ASSUME IInv, NEW s \in Slots, NEW c \in CmdSet, Set(s, c), UNCHANGED <<log, view>>, Good(c),
         c.pc = "commit" => \A t \in Slots : ~(cmd[t].pc = "commit" /\ cmd[t].order = c.order)
  PROVE  IInv'
<1>1. log \in [Orders -> Streams] /\ log' = log
  BY DEF IInv
<1>2. \A o \in Orders : Grows(o)
  BY <1>1, StreamCases DEF Grows
<1>3. Good(c)'
  BY <1>1 DEF Good, Reported
<1>4. CommandPart'
  BY <1>1, <1>2, <1>3, OneCommand DEF IInv
<1>5. ViewPart'
  BY <1>1, <1>2, ViewStays DEF IInv, view
<1>. QED  BY <1>1, <1>4, <1>5 DEF IInv

\* A step that leaves the commands and the event table alone.
LEMMA ViewStep ==
  ASSUME IInv, UNCHANGED <<log, cmd>>, ViewPart'
  PROVE  IInv'
  BY DEF IInv, CommandPart, OneCommit, Good, Reported

\* An idle command is good, and so is one that has just been sent.
LEMMA IdleIsGood == Idle \in CmdSet /\ Good(Idle)
<1>1. (CHOOSE o \in Orders : TRUE) \in Orders
  BY DEF OrderAssumption
<1>. QED  BY <1>1 DEF Idle, CmdSet, Good, Answers

LEMMA SentIsGood ==
  ASSUME IInv, NEW s \in Slots, NEW o \in Orders, NEW kind \in Kinds,
         Set(s, [Idle EXCEPT !.pc = "load", !.kind = kind, !.order = o]), UNCHANGED <<log, view>>
  PROVE  IInv'
<1>. DEFINE c == [Idle EXCEPT !.pc = "load", !.kind = kind, !.order = o]
<1>1. c \in CmdSet
  BY IdleIsGood DEF CmdSet
<1>2. c.pc = "load" /\ c.kind \in Kinds
  BY IdleIsGood DEF CmdSet
<1>. HIDE DEF c
<1>3. Good(c)
  BY <1>2 DEF Good
<1>4. PICK d \in CmdSet : d = c
  BY <1>1
<1>5. Set(s, d) /\ Good(d) /\ d.pc # "commit"
  BY <1>2, <1>3, <1>4 DEF c
<1>. QED  BY <1>5, CommandStep

\* A command ends without a success.
LEMMA FailedAnswer ==
  ASSUME IInv, NEW s \in Slots, cmd[s].pc \in {"load", "append", "commit"},
         NEW a \in {"NotFoundError", "DomainError", "InfrastructureError"}, Set(s, Answer(s, a)), UNCHANGED <<log, view>>
  PROVE  IInv'
<1>1. cmd[s] \in CmdSet /\ Good(cmd[s])
  BY DEF IInv, CommandPart
<1>. DEFINE c == Answer(s, a)
<1>2. c \in CmdSet
  BY <1>1 DEF Answer, CmdSet, Answers
<1>3. c.pc = "done" /\ c.kind = cmd[s].kind /\ c.answer = a
  BY <1>1 DEF Answer, CmdSet
<1>4. cmd[s].kind \in Kinds
  BY <1>1 DEF Good
<1>. HIDE DEF c
<1>5. Good(c)
  BY <1>3, <1>4 DEF Good, Kinds
<1>6. PICK d \in CmdSet : d = c
  BY <1>2
<1>7. Set(s, d) /\ Good(d) /\ d.pc # "commit"
  BY <1>3, <1>5, <1>6 DEF c
<1>. QED  BY <1>7, CommandStep

\* PlaceOrder: a new stream, which no command has seen.
LEMMA PlaceOrderStep ==
  ASSUME IInv, NEW a \in Clients, NEW o \in Orders, PlaceOrder(a, o)
  PROVE  IInv'
<1>0. a \in Slots
  BY DEF Slots
<1>1. PICK b \in Baskets :
        /\ Set(a, [Idle EXCEPT !.pc = "done", !.kind = "placed", !.order = o, !.answer = Place(b)])
        /\ log' = IF Place(b) = "ok" THEN [log EXCEPT ![o] = <<"placed">>] ELSE log
  BY DEF PlaceOrder
<1>. DEFINE c == [Idle EXCEPT !.pc = "done", !.kind = "placed", !.order = o, !.answer = Place(b)]
<1>2. c \in CmdSet
  <2>1. Place(b) \in Answers
    BY DEF Place, Answers
  <2>. QED  BY <2>1, IdleIsGood DEF CmdSet
<1>3. c.pc = "done" /\ c.kind = "placed"
  BY IdleIsGood DEF CmdSet
<1>4. PICK d \in CmdSet : d = c
  BY <1>2
<1>. HIDE DEF c
<1>5. Set(a, d) /\ Good(d) /\ Good(d)' /\ d.pc # "commit"
  BY <1>1, <1>3, <1>4 DEF c, Good, Kinds
<1>6. UNCHANGED view
  BY DEF PlaceOrder
<1>7. CASE Place(b) # "ok"
  BY <1>0, <1>1, <1>5, <1>6, <1>7, CommandStep
<1>8. CASE Place(b) = "ok"
  <2>1. log \in [Orders -> Streams] /\ log[o] = <<>> /\ log' = [log EXCEPT ![o] = <<"placed">>]
    BY <1>1, <1>8 DEF IInv, PlaceOrder
  <2>2. <<"placed">> \in Streams
    BY DEF Streams, Events
  <2>3. log' \in [Orders -> Streams] /\ log'[o] = <<"placed">> /\ \A q \in Orders \ {o} : log'[q] = log[q]
    BY <2>1, <2>2
  <2>4. ASSUME NEW q \in Orders  PROVE Grows(q)
    <3>1. CASE q = o
      BY <2>1, <2>3, <3>1 DEF Grows
    <3>2. CASE q # o
      BY <2>1, <2>3, <3>2, StreamCases DEF Grows
    <3>. QED  BY <3>1, <3>2
  <2>5. ASSUME NEW t \in Slots, cmd[t].pc = "commit"  PROVE log'[cmd[t].order] = log[cmd[t].order]
    <3>1. cmd[t] \in CmdSet /\ Good(cmd[t])
      BY DEF IInv, CommandPart
    <3>2. cmd[t].order \in Orders
      BY <3>1 DEF CmdSet
    <3>3. cmd[t].seen \in 1 .. Len(log[cmd[t].order])
      BY <2>5, <3>1 DEF Good
    <3>4. cmd[t].order # o
      BY <2>1, <3>3
    <3>. QED  BY <2>3, <3>2, <3>4
  <2>6. CommandPart'
    BY <1>0, <1>5, <2>1, <2>3, <2>4, <2>5, OneCommand DEF IInv
  <2>7. ViewPart'
    BY <1>6, <2>1, <2>3, <2>4, ViewStays DEF IInv, view
  <2>. QED  BY <2>3, <2>6, <2>7 DEF IInv
<1>. QED  BY <1>7, <1>8

\* GetOrder answers what the read model shows.
LEMMA GetOrderStep ==
  ASSUME IInv, NEW a \in Clients, NEW o \in Orders, GetOrder(a, o)
  PROVE  IInv'
<1>. DEFINE x == IF summary[o] = "none" THEN "NotFoundError" ELSE summary[o]
            c == [Idle EXCEPT !.pc = "done", !.kind = "get", !.order = o, !.answer = x]
<1>1. x \in Answers /\ (x = "NotFoundError" \/ Reported(o, x))
  BY DEF IInv, ViewPart, Answers
<1>2. a \in Slots /\ Set(a, c) /\ UNCHANGED <<log, view>>
  BY DEF GetOrder, Slots
<1>. HIDE DEF x
<1>3. c \in CmdSet
  BY <1>1, IdleIsGood DEF CmdSet
<1>4. c.pc = "done" /\ c.kind = "get" /\ c.order = o /\ c.answer = x
  BY <1>1, IdleIsGood DEF CmdSet
<1>5. PICK d \in CmdSet : d = c
  BY <1>3
<1>. HIDE DEF c
<1>6. Set(a, d) /\ Good(d) /\ d.pc # "commit"
  BY <1>1, <1>2, <1>4, <1>5 DEF Good, Kinds
<1>. QED  BY <1>2, <1>6, CommandStep

\* Load decides on a stream, which the command may then extend.
LEMMA LoadStep ==
  ASSUME IInv, NEW s \in Slots, Load(s)
  PROVE  IInv'
<1>1. cmd[s] \in CmdSet /\ Good(cmd[s]) /\ cmd[s].pc = "load" /\ UNCHANGED <<log, view>>
  BY DEF IInv, CommandPart, Load
<1>2. cmd[s].order \in Orders /\ cmd[s].kind \in Kinds
  BY <1>1 DEF Good, CmdSet
<1>. DEFINE stream == log[cmd[s].order]
            result == IF stream = <<>> THEN "NotFoundError" ELSE Decide(cmd[s].kind, StatusOf(stream))
            c == [cmd[s] EXCEPT !.pc = "append", !.seen = Len(stream)]
<1>3. stream \in Streams /\ Len(stream) \in Nat /\ (stream # <<>> => Len(stream) >= 1)
  BY <1>2, StreamCases DEF IInv
<1>4. CASE result = "ok"
  <2>1. stream # <<>> /\ Decide(cmd[s].kind, StatusOf(stream)) = "ok"
    BY <1>4
  <2>2. Append(stream, cmd[s].kind) \in Streams
    BY <1>2, <1>3, <2>1, DecideLegal
  <2>3. c \in CmdSet
    BY <1>1, <1>3 DEF CmdSet
  <2>4. c.pc = "append" /\ c.kind = cmd[s].kind /\ c.order = cmd[s].order /\ c.seen = Len(stream)
    BY <1>1, <1>3 DEF CmdSet
  <2>5. Set(s, c)
    BY <1>4 DEF Load
  <2>6. PICK d \in CmdSet : d = c
    BY <2>3
  <2>. HIDE DEF c
  <2>7. Len(log[d.order]) \in Nat /\ d.seen = Len(log[d.order]) /\ d.seen >= 1
    BY <1>3, <2>1, <2>4, <2>6
  <2>8. Good(d)
    BY <1>2, <2>2, <2>4, <2>6, <2>7 DEF Good
  <2>. QED  BY <1>1, <2>4, <2>5, <2>6, <2>8, CommandStep
<1>5. CASE result # "ok"
  <2>1. result \in {"NotFoundError", "DomainError"}
    BY <1>5 DEF Decide, Confirm, Cancel
  <2>2. Set(s, Answer(s, result))
    BY <1>5 DEF Load
  <2>. HIDE DEF result
  <2>3. PICK a \in {"NotFoundError", "DomainError"} : a = result
    BY <2>1
  <2>4. Set(s, Answer(s, a))
    BY <2>2, <2>3
  <2>. QED  BY <1>1, <2>4, FailedAnswer
<1>. QED  BY <1>4, <1>5

\* The INSERT takes the next position, or meets an event that took it.
LEMMA AppendStep ==
  ASSUME IInv, NEW s \in Slots, AppendEvent(s)
  PROVE  IInv'
<1>1. /\ cmd[s] \in CmdSet /\ Good(cmd[s]) /\ cmd[s].pc = "append" /\ UNCHANGED <<log, view>>
      /\ \A t \in Slots : ~(cmd[t].pc = "commit" /\ cmd[t].order = cmd[s].order)
  BY DEF IInv, CommandPart, AppendEvent
<1>2. cmd[s].order \in Orders /\ cmd[s].seen \in Nat /\ cmd[s].kind \in Kinds
  BY <1>1 DEF Good, CmdSet
<1>3. Len(log[cmd[s].order]) \in Nat /\ cmd[s].seen >= 1 /\ cmd[s].seen <= Len(log[cmd[s].order])
  BY <1>1, <1>2, StreamCases DEF IInv, Good
<1>4. CASE Free(s)
  <2>. DEFINE c == [cmd[s] EXCEPT !.pc = "commit"]
  <2>1. c \in CmdSet
    BY <1>1 DEF CmdSet
  <2>2. c.pc = "commit" /\ c.kind = cmd[s].kind /\ c.order = cmd[s].order /\ c.seen = cmd[s].seen
    BY <1>1 DEF CmdSet
  <2>3. Set(s, c)
    BY <1>4 DEF AppendEvent
  <2>4. PICK d \in CmdSet : d = c
    BY <2>1
  <2>. HIDE DEF c
  <2>5. d.seen = Len(log[d.order]) /\ d.seen \in 1 .. Len(log[d.order])
    BY <1>2, <1>3, <1>4, <2>2, <2>4 DEF Free
  <2>6. Append(log[d.order], d.kind) \in Streams
    BY <1>1, <2>2, <2>4, <2>5 DEF Good
  <2>7. Good(d)
    BY <1>2, <2>2, <2>4, <2>5, <2>6 DEF Good
  <2>. QED  BY <1>1, <2>2, <2>3, <2>4, <2>7, CommandStep
<1>5. CASE ~Free(s)
  <2>. DEFINE c == Answer(s, "ok")
  <2>1. c \in CmdSet
    BY <1>1 DEF Answer, CmdSet, Answers
  <2>2. c.pc = "done" /\ c.kind = cmd[s].kind /\ c.order = cmd[s].order /\ c.seen = cmd[s].seen
    BY <1>1 DEF Answer, CmdSet
  <2>3. Set(s, c)
    BY <1>5 DEF AppendEvent
  <2>4. PICK d \in CmdSet : d = c
    BY <2>1
  <2>. HIDE DEF c
  <2>5. Len(log[d.order]) > d.seen
    BY <1>2, <1>3, <1>5, <2>2, <2>4 DEF Free
  <2>6. Good(d)
    BY <1>2, <2>2, <2>4, <2>5 DEF Good, Kinds
  <2>. QED  BY <1>1, <2>2, <2>3, <2>4, <2>6, CommandStep
<1>. QED  BY <1>4, <1>5

\* The COMMIT extends the stream the command has seen.
LEMMA CommitStep ==
  ASSUME IInv, NEW s \in Slots, Commit(s)
  PROVE  IInv'
<1>1. /\ cmd[s] \in CmdSet /\ Good(cmd[s]) /\ cmd[s].pc = "commit" /\ UNCHANGED view
      /\ log \in [Orders -> Streams] /\ log' = [log EXCEPT ![cmd[s].order] = Append(@, cmd[s].kind)]
  BY DEF IInv, CommandPart, Commit
<1>2. PICK o \in Orders : o = cmd[s].order
  BY <1>1 DEF CmdSet
<1>3. PICK k \in Kinds : k = cmd[s].kind
  BY <1>1 DEF Good
<1>4. Append(log[o], k) \in Streams /\ cmd[s].seen = Len(log[o])
  BY <1>1, <1>2, <1>3 DEF Good
<1>5. /\ log' \in [Orders -> Streams] /\ log'[o] = Append(log[o], k)
      /\ \A q \in Orders \ {o} : log'[q] = log[q]
  BY <1>1, <1>2, <1>3, <1>4
<1>6. log[o] \in Seq(Events) /\ k \in Events
  BY <1>1, StreamCases DEF Events
<1>7. Len(log[o]) \in Nat /\ Len(log'[o]) = Len(log[o]) + 1 /\ \A i \in 1 .. Len(log[o]) : log'[o][i] = log[o][i]
  BY <1>5, <1>6, AppendProperties
<1>8. ASSUME NEW q \in Orders  PROVE Grows(q)
  <2>1. CASE q = o
    BY <1>7, <2>1 DEF Grows
  <2>2. CASE q # o
    BY <1>1, <1>5, <2>2, StreamCases DEF Grows
  <2>. QED  BY <2>1, <2>2
<1>. DEFINE c == Answer(s, "ok")
<1>9. c \in CmdSet
  BY <1>1 DEF Answer, CmdSet, Answers
<1>10. c.pc = "done" /\ c.kind = k /\ c.order = o /\ c.seen = Len(log[o])
  BY <1>1, <1>2, <1>3, <1>4 DEF Answer, CmdSet
<1>11. PICK d \in CmdSet : d = c
  BY <1>9
<1>12. Set(s, d)
  BY <1>11 DEF Commit
<1>. HIDE DEF c
<1>13. Good(d)'
  <2>1. d.seen = Len(log[o]) /\ d.order = o /\ d.pc = "done" /\ d.kind = k
    BY <1>10, <1>11
  <2>2. Len(log'[d.order]) > d.seen
    BY <1>7, <2>1
  <2>. QED  BY <2>1, <2>2 DEF Good, Kinds
<1>14. ASSUME NEW t \in Slots \ {s}, cmd[t].pc = "commit"  PROVE log'[cmd[t].order] = log[cmd[t].order]
  <2>1. cmd[t].order \in Orders
    BY DEF IInv, CommandPart, CmdSet
  <2>2. cmd[t].order # o
    BY <1>1, <1>2, <1>14 DEF IInv, CommandPart, OneCommit
  <2>. QED  BY <1>5, <2>1, <2>2
<1>15. CommandPart'
  BY <1>1, <1>5, <1>8, <1>10, <1>11, <1>12, <1>13, <1>14, OneCommand DEF IInv
<1>16. ViewPart'
  BY <1>1, <1>5, <1>8, ViewStays DEF IInv, view
<1>. QED  BY <1>5, <1>15, <1>16 DEF IInv

\* The saga's task is idle again.
LEMMA IdleStep ==
  ASSUME IInv, NEW s \in Slots, Set(s, Idle), UNCHANGED <<log, view>>
  PROVE  IInv'
<1>1. PICK d \in CmdSet : d = Idle
  BY IdleIsGood
<1>2. Set(s, d) /\ Good(d) /\ d.pc # "commit"
  BY <1>1, IdleIsGood DEF Idle
<1>. QED  BY <1>2, CommandStep

\* One pass changes.
LEMMA OnePass ==
  ASSUME IInv, NEW r \in Runners, NEW p \in PassSet, run' = [run EXCEPT ![r] = p], GoodPass(p),
         UNCHANGED <<log, cmd>>, summary' \in [Orders -> {"none", "pending"} \cup Kinds],
         \A o \in Orders : (summary[o] = "none" \/ Reported(o, summary[o]))'
  PROVE  IInv'
<1>1. run \in [Runners -> PassSet] /\ \A i \in Runners : GoodPass(run[i])
  BY DEF IInv, ViewPart
<1>2. run' \in [Runners -> PassSet]
  BY <1>1
<1>3. \A i \in Runners : GoodPass(run[i])'
  BY <1>1 DEF GoodPass
<1>. QED  BY <1>2, <1>3, ViewStep DEF ViewPart

\* RunOnce fetches rows that are in the event table.
LEMMA RunOnceStep ==
  ASSUME IInv, NEW r \in Runners, RunOnce(r)
  PROVE  IInv'
<1>. DEFINE new == {w \in Positions : w[1] > checkpoint /\ w[1] <= Len(log[w[2]])}
            p == [rows |-> new, left |-> new]
<1>1. run' = [run EXCEPT ![r] = p] /\ UNCHANGED <<log, cmd, summary>>
  BY DEF RunOnce
<1>2. new \subseteq Rows /\ \A w \in new : w[1] \in 1 .. 3 /\ w[2] \in Orders /\ w[1] <= Len(log[w[2]])
  BY DEF Positions, Rows
<1>. HIDE DEF new
<1>3. p \in PassSet
  BY <1>2 DEF PassSet
<1>4. \A w \in new : w[1] \in 1 .. Len(log[w[2]])
  <2>1. SUFFICES ASSUME NEW w \in new  PROVE w[1] \in 1 .. Len(log[w[2]])
    OBVIOUS
  <2>2. log[w[2]] \in Seq(Events)
    BY <1>2, StreamCases DEF IInv
  <2>3. Len(log[w[2]]) \in Nat
    BY <2>2
  <2>. QED  BY <1>2, <2>3
<1>5. GoodPass(p)
  BY <1>4 DEF GoodPass
<1>6. PICK q \in PassSet : q = p
  BY <1>3
<1>7. run' = [run EXCEPT ![r] = q] /\ GoodPass(q)
  BY <1>1, <1>5, <1>6
<1>8. summary' \in [Orders -> {"none", "pending"} \cup Kinds] /\ \A o \in Orders : (summary[o] = "none" \/ Reported(o, summary[o]))'
  BY <1>1 DEF IInv, ViewPart, Reported
<1>. QED  BY <1>1, <1>7, <1>8, OnePass

\* Project writes a status the order has reported.
LEMMA ProjectStep ==
  ASSUME IInv, NEW r \in Runners, Project(r)
  PROVE  IInv'
<1>1. /\ run[r] \in PassSet /\ GoodPass(run[r])
      /\ run \in [Runners -> PassSet] /\ UNCHANGED <<log, cmd>>
  BY DEF IInv, ViewPart, Project
<1>2. PICK w \in run[r].left :
        /\ summary' = [summary EXCEPT ![w[2]] = Applied(@, log[w[2]][w[1]])]
        /\ run' = [run EXCEPT ![r].left = @ \ {w}]
  BY DEF Project
<1>5. w[2] \in Orders /\ w[1] \in 1 .. Len(log[w[2]])
  BY <1>1, <1>2 DEF GoodPass, PassSet, Rows
<1>6. PICK o \in Orders : o = w[2]
  BY <1>5
<1>7. log[o] \in Streams /\ log[o] \in Seq(Events)
  BY StreamCases DEF IInv
<1>8. PICK e \in Events : e = log[o][w[1]]
  BY <1>5, <1>6, <1>7
<1>9. summary' = [summary EXCEPT ![o] = Applied(summary[o], e)]
  BY <1>2, <1>6, <1>8
<1>10. log[o] # <<>>
  BY <1>5, <1>6
<1>11. e \in Kinds => Reported(o, e)
  BY <1>5, <1>6, <1>8 DEF Reported
<1>12. Reported(o, "pending")
  BY <1>10 DEF Reported
<1>13. PICK x : x = Applied(summary[o], e)
  OBVIOUS
<1>14. summary \in [Orders -> {"none", "pending"} \cup Kinds] /\ \A q \in Orders : summary[q] = "none" \/ Reported(q, summary[q])
  BY DEF IInv, ViewPart
<1>15. x \in {"none", "pending"} \cup Kinds /\ (x = "none" \/ Reported(o, x))
  BY <1>11, <1>12, <1>13, <1>14 DEF Applied, Events
<1>16. summary' \in [Orders -> {"none", "pending"} \cup Kinds] /\ summary'[o] = x /\ \A q \in Orders \ {o} : summary'[q] = summary[q]
  BY <1>9, <1>13, <1>14, <1>15
<1>17. \A q \in Orders : (summary[q] = "none" \/ Reported(q, summary[q]))'
  BY <1>1, <1>14, <1>15, <1>16 DEF Reported
<1>. DEFINE p == [run[r] EXCEPT !.left = run[r].left \ {w}]
<1>18. run' = [run EXCEPT ![r] = p]
  BY <1>2
<1>19. p \in PassSet /\ p.left \subseteq run[r].left
  BY <1>1 DEF PassSet
<1>20. PICK q \in PassSet : q = p
  BY <1>19
<1>. HIDE DEF p
<1>21. GoodPass(q)
  BY <1>1, <1>19, <1>20 DEF GoodPass
<1>. QED  BY <1>1, <1>16, <1>17, <1>18, <1>20, <1>21, OnePass

\* A pass ends.
LEMMA PassEnds ==
  ASSUME IInv, NEW r \in Runners, run' = [run EXCEPT ![r] = NoPass], UNCHANGED <<log, cmd, summary>>
  PROVE  IInv'
<1>1. NoPass \in PassSet
  BY DEF NoPass, PassSet
<1>2. PICK q \in PassSet : q = NoPass
  BY <1>1
<1>3. GoodPass(q)
  BY <1>2 DEF GoodPass, NoPass
<1>4. summary' \in [Orders -> {"none", "pending"} \cup Kinds] /\ \A o \in Orders : (summary[o] = "none" \/ Reported(o, summary[o]))'
  BY DEF IInv, ViewPart, Reported
<1>. QED  BY <1>2, <1>3, <1>4, OnePass

-----------------------------------------------------------------------------
(* The theorems                                                            *)

\* At the start no order is placed, no command runs and the read model is empty.
LEMMA InitInv == Init => IInv
<1>. SUFFICES ASSUME Init  PROVE IInv
  OBVIOUS
<1>1. log \in [Orders -> Streams]
  <2>1. <<>> \in Streams
    BY DEF Streams
  <2>. QED  BY <2>1 DEF Init
<1>2. CommandPart
  BY IdleIsGood DEF Init, CommandPart, OneCommit, Idle
<1>3. ViewPart
  BY DEF Init, ViewPart, NoPass, PassSet, GoodPass
<1>. QED  BY <1>1, <1>2, <1>3 DEF IInv

\* Every step preserves the invariant.
LEMMA NextInv == IInv /\ [Next]_vars => IInv'
<1>. SUFFICES ASSUME IInv, [Next]_vars  PROVE IInv'
  OBVIOUS
<1>0. Consumer \in Slots /\ Ticker \in Slots /\ Clients \subseteq Slots
  BY DEF Slots
<1>1. ASSUME NEW c \in Clients, NEW o \in Orders, PlaceOrder(c, o)  PROVE IInv'
  BY <1>1, PlaceOrderStep
<1>2. ASSUME NEW c \in Clients, NEW o \in Orders, GetOrder(c, o)  PROVE IInv'
  BY <1>2, GetOrderStep
<1>3. ASSUME NEW c \in Clients, NEW o \in Orders, NEW kind \in {"confirmed", "cancelled"}, Send(c, o, kind)  PROVE IInv'
  BY <1>0, <1>3, SentIsGood DEF Send, Kinds
<1>4. ASSUME NEW s \in Slots, Handle(s)  PROVE IInv'
  BY <1>4, LoadStep, AppendStep, CommitStep DEF Handle
<1>5. ASSUME NEW s \in Slots, HandlerFails(s)  PROVE IInv'
  BY <1>5, FailedAnswer DEF HandlerFails
<1>6. ASSUME NEW s \in Slots, SagaFails(s) \/ SaveSaga(s)  PROVE IInv'
  BY <1>6, IdleStep DEF SagaFails, SaveSaga
<1>7. ASSUME NEW o \in Orders, OnOrderPlaced(o)  PROVE IInv'
  BY <1>0, <1>7, SentIsGood DEF OnOrderPlaced, Kinds
<1>8. ASSUME NEW o \in Orders, OnTimeout(o)  PROVE IInv'
  BY <1>0, <1>8, SentIsGood DEF OnTimeout, Kinds
<1>9. ASSUME UNCHANGED <<log, cmd, summary, run>>  PROVE IInv'
  BY <1>9, ViewStep DEF IInv, ViewPart, GoodPass, Reported
<1>10. ASSUME LoadTimedOut \/ \E o \in Orders : TimePasses(o)  PROVE IInv'
  BY <1>9, <1>10 DEF LoadTimedOut, TimePasses, view
<1>11. ASSUME NEW r \in Runners, Loop(r)  PROVE IInv'
  BY <1>11, RunOnceStep, ProjectStep, PassEnds DEF Loop, SaveCheckpoint
<1>12. ASSUME NEW r \in Runners, PassFails(r)  PROVE IInv'
  BY <1>12, PassEnds DEF PassFails
<1>13. CASE UNCHANGED vars
  BY <1>9, <1>13 DEF vars, view
<1>. QED
  BY <1>0, <1>1, <1>2, <1>3, <1>4, <1>5, <1>6, <1>7, <1>8, <1>10, <1>11, <1>12, <1>13 DEF Next, Consume, Tick

\* The streams, the commands in flight and the read model fit each other in every reachable
\* state, with any number of orders, clients and application processes.
THEOREM Invariance == Spec => []IInv
  BY InitInv, NextInv, PTL DEF Spec

\* Order, ConfirmOrderHandler, CancelOrderHandler: whatever clients, the saga and its timeout
\* do at the same time, an order is placed, then confirmed at most once, then cancelled at most
\* once, with nothing behind the cancellation.
THEOREM StreamsStayLegal == Spec => []StreamIsLegal
<1>1. IInv => StreamIsLegal
  BY StreamsAreLegal DEF IInv, StreamIsLegal
<1>. QED  BY <1>1, Invariance, PTL

\* The answers of the HTTP handlers: a success has an event behind it at the position the
\* command wanted, and a status that was read is one the order had.
THEOREM AnswersAreBacked == Spec => []AnswersBacked
<1>1. IInv => AnswersBacked
  <2>. SUFFICES ASSUME IInv, NEW c \in Clients, cmd[c].pc = "done"
                PROVE  LET stream == log[cmd[c].order] IN
                       /\ cmd[c].kind \in {"confirmed", "cancelled"} /\ cmd[c].answer = "ok" => Len(stream) > cmd[c].seen
                       /\ cmd[c].kind = "get" => \/ cmd[c].answer = "NotFoundError"
                                                 \/ \E n \in 1..Len(stream) : cmd[c].answer = StatusOf(SubSeq(stream, 1, n))
    BY DEF AnswersBacked
  <2>1. cmd[c] \in CmdSet /\ Good(cmd[c])
    BY DEF IInv, CommandPart, Slots
  <2>2. cmd[c].order \in Orders /\ log[cmd[c].order] \in Streams
    BY <2>1 DEF CmdSet, IInv
  <2>3. cmd[c].kind = "get" => cmd[c].answer = "NotFoundError" \/ Reported(cmd[c].order, cmd[c].answer)
    BY <2>1 DEF Good
  <2>4. cmd[c].kind \in Kinds /\ cmd[c].answer = "ok" => Len(log[cmd[c].order]) > cmd[c].seen
    BY <2>1 DEF Good
  <2>5. Reported(cmd[c].order, cmd[c].answer) =>
          \E n \in 1 .. Len(log[cmd[c].order]) : cmd[c].answer = StatusOf(SubSeq(log[cmd[c].order], 1, n))
    BY <2>2, StatusOfPrefix
  <2>. QED  BY <2>3, <2>4, <2>5 DEF Kinds
<1>. QED  BY <1>1, Invariance, PTL

-----------------------------------------------------------------------------
(* The container: shared instances and their disposal                      *)

Homes == Containers \cup Scopes
Frames ==
  [key : Keys, scope : Scopes \cup {None}, prov : Providers \cup {None}, owner : Containers, next : Nat \ {0},
   at : {"produce", "lock", "call", "store", "raise", "fail"}]
SavedSet == [at : Containers, key : Keys, provider : Providers \cup {None}, single : Nat \cup {None}]

RegistryTypes ==
  /\ provider \in [Containers -> [Keys -> Providers \cup {None}]]
  /\ override \in [Containers -> [Keys -> Providers \cup {None}]]
  /\ saved \in SavedSet \cup {None}

CacheTypes ==
  /\ single \in [Containers -> [Keys -> Nat \cup {None}]] /\ cache \in [Scopes -> [Keys -> Nat \cup {None}]]
  /\ served \in SUBSET (Homes \X Keys \X Nat \X Tasks)
  /\ lock \in [Containers -> Tasks \cup {None}]

HomeTypes ==
  /\ disposers \in [Homes -> Seq(Nat)] /\ left \in [Homes -> Nat]
  /\ phase \in [Homes -> {"new", "open", "closing", "closed"}]
  /\ insts \in Seq([key : Keys, home : Homes \cup {None}])

TaskTypes ==
  /\ stack \in [Tasks -> Seq(Frames)]
  /\ task \in [Tasks -> [state : {"idle", "resolving", "value", "error"}, self : Containers, sync : BOOLEAN]]

ContainerTypes == RegistryTypes /\ CacheTypes /\ HomeTypes /\ TaskTypes

Depth(t) == 1 .. Len(stack[t])

\* Only the frame on top is not inside its factory, only a singleton waits for a lock, and no two
\* frames of a task produce one key.
StackShape ==
  \A t \in Tasks : \A i \in Depth(t) :
    /\ stack[t][i].at \notin {"raise", "fail"} => stack[t][i].prov # None
    /\ stack[t][i].at = "lock" => stack[t][i].prov.life = "singleton"
    /\ i < Len(stack[t]) => stack[t][i].at = "call"
    /\ \A j \in Depth(t) : i # j /\ stack[t][i].at \notin {"raise", "fail"} /\ stack[t][j].at \notin {"raise", "fail"} =>
         stack[t][i].key # stack[t][j].key

\* A frame that produces a singleton has its owner's lock for itself, and the instance is missing
\* unless somebody changed the cache.
Holding(f) == f.at \in {"call", "store"} /\ f.prov.life = "singleton"
LockKept ==
  \A t \in Tasks : \A i \in Depth(t) : Holding(stack[t][i]) =>
    /\ lock[stack[t][i].owner] = t
    /\ single[stack[t][i].owner][stack[t][i].key] = None \/ <<stack[t][i].owner, stack[t][i].key>> \in reset
    /\ \A j \in Depth(t) : j # i /\ Holding(stack[t][j]) => stack[t][j].owner # stack[t][i].owner

\* What was served of a singleton is what the container has, unless somebody changed the cache.
SingleServed ==
  /\ \A x \in served : x[1] \in Containers /\ <<x[1], x[2]>> \notin reset => x[3] = single[x[1]][x[2]]
  /\ saved # None => <<saved.at, saved.key>> \in reset

\* The instances that a scope served of a key were built by as many tasks, which build no other
\* before the scope is closed.
Building(f, s, k) == f.at \in {"call", "store"} /\ f.prov.life = "scoped" /\ f.scope = s /\ f.key = k
Builds(t, s, k) == \E i \in Depth(t) : Building(stack[t][i], s, k)
Builders(s, k, f) ==
  /\ f \in [Instances(s, k) -> Tasks] /\ \A i, j \in Instances(s, k) : f[i] = f[j] => i = j
  /\ \A i \in Instances(s, k) : <<s, k, i, f[i]>> \in served
  /\ phase[s] \in {"new", "open"} => \A i \in Instances(s, k) : ~Builds(f[i], s, k)
ScopeServed(s, k) ==
  /\ cache[s][k] # None => cache[s][k] \in Instances(s, k)
  /\ phase[s] \in {"new", "open"} /\ cache[s][k] = None => Instances(s, k) = {}
  /\ \E f \in [Instances(s, k) -> Tasks] : Builders(s, k, f)
ScopesServed == \A s \in Scopes, k \in Keys : ScopeServed(s, k)

\* The disposers that the closing has passed ran, or came late.
ClosingDone ==
  \A h \in Homes : phase[h] = "closing" =>
    /\ left[h] <= Len(disposers[h])
    /\ \A n \in 1 .. Len(disposers[h]) : n > left[h] => disposers[h][n] \in disposed \cup late

ContainerInv ==
  ContainerTypes /\ StackShape /\ LockKept /\ SingleServed /\ ScopesServed /\ ClosingDone /\ DisposedUnlessLate

LEMMA SeqExcept ==
  ASSUME NEW S, NEW s \in Seq(S), NEW m \in 1 .. Len(s), NEW g \in S, NEW r, r = [s EXCEPT ![m] = g]
  PROVE  /\ r \in Seq(S) /\ Len(r) = Len(s) /\ r[m] = g
         /\ \A i \in 1 .. Len(s) : i # m => r[i] = s[i]
  OBVIOUS

\* What popping the top leaves.
LEMMA Popped ==
  ASSUME NEW t \in Tasks, TaskTypes, stack[t] # <<>>
  PROVE  /\ Len(stack[t]) \in Nat /\ Len(stack[t]) > 0 /\ Top(t) = stack[t][Len(stack[t])] /\ Top(t) \in Frames
         /\ Pop(t) \in Seq(Frames) /\ Len(Pop(t)) = Len(stack[t]) - 1
         /\ \A i \in 1 .. (Len(stack[t]) - 1) : Pop(t)[i] = stack[t][i]
<1>1. stack[t] \in Seq(Frames)
  BY DEF TaskTypes
<1>2. Len(stack[t]) \in Nat /\ Len(stack[t]) > 0
  BY <1>1
<1>3. Top(t) = stack[t][Len(stack[t])] /\ Top(t) \in Frames
  BY <1>1, <1>2 DEF Top
<1>. QED  BY <1>1, <1>2, <1>3 DEF Pop

\* The frames of t that a step keeps, of which only the last one may have changed its place.
Reframe(t) ==
  /\ stack' \in [Tasks -> Seq(Frames)] /\ \A u \in Tasks : u # t => stack'[u] = stack[u]
  /\ Len(stack'[t]) <= Len(stack[t])
  /\ \A i \in 1 .. Len(stack'[t]) :
       /\ stack'[t][i].key = stack[t][i].key /\ stack'[t][i].scope = stack[t][i].scope
       /\ stack'[t][i].prov = stack[t][i].prov /\ stack'[t][i].owner = stack[t][i].owner
       /\ i < Len(stack'[t]) => stack'[t][i].at = stack[t][i].at

Works(f) == f.at \in {"call", "store"}

\* ... in which no frame has begun to work, or recovered from an exception.
NoneBegins(t) ==
  \A i \in 1 .. Len(stack'[t]) :
    /\ Works(stack'[t][i]) => Works(stack[t][i])
    /\ stack'[t][i].at \notin {"raise", "fail"} => stack[t][i].at \notin {"raise", "fail"}
    /\ stack'[t][i].at = "lock" => stack[t][i].at = "lock" \/ stack[t][i].prov.life = "singleton"

LEMMA SetTopReframes ==
  ASSUME NEW t \in Tasks, TaskTypes, stack[t] # <<>>, NEW f \in Frames, SetTop(t, f),
         f.key = Top(t).key, f.scope = Top(t).scope, f.prov = Top(t).prov, f.owner = Top(t).owner
  PROVE  /\ Reframe(t) /\ Len(stack'[t]) = Len(stack[t]) /\ stack'[t][Len(stack[t])] = f
         /\ \A i \in 1 .. Len(stack[t]) : i # Len(stack[t]) => stack'[t][i] = stack[t][i]
<1>. DEFINE n == Len(stack[t])
            s == Append(Pop(t), f)
<1>1. /\ n \in Nat /\ n > 0 /\ Top(t) = stack[t][n]
      /\ Pop(t) \in Seq(Frames) /\ Len(Pop(t)) = n - 1 /\ \A i \in 1 .. (n - 1) : Pop(t)[i] = stack[t][i]
  BY Popped
<1>2. s \in Seq(Frames) /\ Len(s) = n /\ s[n] = f /\ \A i \in 1 .. (n - 1) : s[i] = Pop(t)[i]
  BY <1>1
<1>3. stack' = [stack EXCEPT ![t] = s] /\ stack \in [Tasks -> Seq(Frames)]
  BY DEF SetTop, TaskTypes
<1>. HIDE DEF s
<1>4. stack' \in [Tasks -> Seq(Frames)] /\ stack'[t] = s /\ \A u \in Tasks : u # t => stack'[u] = stack[u]
  BY <1>2, <1>3
<1>5. \A i \in 1 .. n : i # n => stack'[t][i] = stack[t][i]
  BY <1>1, <1>2, <1>4
<1>. QED  BY <1>1, <1>2, <1>4, <1>5 DEF Reframe

\* A stack whose last frame is popped, and the one below is at another parameter or raises.
LEMMA PopReframes ==
  ASSUME NEW t \in Tasks, TaskTypes, stack[t] # <<>>, Pop(t) # <<>>,
         NEW g \in Frames, stack' = [stack EXCEPT ![t] = [Pop(t) EXCEPT ![Len(Pop(t))] = g]],
         NEW old, old = Pop(t)[Len(Pop(t))],
         g.key = old.key, g.scope = old.scope, g.prov = old.prov, g.owner = old.owner
  PROVE  /\ Reframe(t) /\ Len(stack'[t]) = Len(stack[t]) - 1 /\ stack'[t][Len(stack'[t])].at = g.at
         /\ Len(stack[t]) - 1 \in 1 .. Len(stack[t]) /\ old = stack[t][Len(stack[t]) - 1]
<1>. DEFINE n == Len(stack[t])
            m == Len(Pop(t))
            s == [Pop(t) EXCEPT ![m] = g]
<1>1. /\ n \in Nat /\ n > 0
      /\ Pop(t) \in Seq(Frames) /\ m = n - 1 /\ \A i \in 1 .. (n - 1) : Pop(t)[i] = stack[t][i]
  BY Popped
<1>2. m \in Nat /\ m \in 1 .. m
  BY <1>1
<1>3. s \in Seq(Frames) /\ Len(s) = m /\ s[m] = g /\ \A i \in 1 .. m : i # m => s[i] = Pop(t)[i]
  BY <1>1, <1>2, SeqExcept
<1>4. stack' = [stack EXCEPT ![t] = s] /\ stack \in [Tasks -> Seq(Frames)]
  BY DEF TaskTypes
<1>. HIDE DEF s
<1>5. stack' \in [Tasks -> Seq(Frames)] /\ stack'[t] = s /\ \A u \in Tasks : u # t => stack'[u] = stack[u]
  BY <1>3, <1>4
<1>6. \A i \in 1 .. m : i # m => stack'[t][i] = stack[t][i]
  BY <1>1, <1>3, <1>5
<1>7. old = stack[t][m]
  BY <1>1, <1>2
<1>. HIDE DEF m
<1>. QED  BY <1>1, <1>2, <1>3, <1>5, <1>6, <1>7 DEF Reframe

LEMMA EmptyReframes ==
  ASSUME NEW t \in Tasks, TaskTypes, stack' = [stack EXCEPT ![t] = <<>>]
  PROVE  Reframe(t) /\ NoneBegins(t) /\ Len(stack'[t]) = 0
<1>1. stack \in [Tasks -> Seq(Frames)] /\ Len(stack[t]) \in Nat
  BY DEF TaskTypes
<1>2. stack' \in [Tasks -> Seq(Frames)] /\ stack'[t] = <<>> /\ \A u \in Tasks : u # t => stack'[u] = stack[u]
  BY <1>1
<1>. QED  BY <1>1, <1>2 DEF Reframe, NoneBegins

\* The frame on top returns.
LEMMA Returns ==
  ASSUME NEW t \in Tasks, TaskTypes, stack[t] # <<>>, Return(t)
  PROVE  Reframe(t) /\ NoneBegins(t) /\ Len(stack'[t]) = Len(stack[t]) - 1 /\ TaskTypes'
<1>1. /\ Len(stack[t]) \in Nat /\ Len(stack[t]) > 0
      /\ Pop(t) \in Seq(Frames) /\ Len(Pop(t)) = Len(stack[t]) - 1
  BY Popped
<1>2. CASE Pop(t) = <<>>
  <2>1. stack' = [stack EXCEPT ![t] = <<>>] /\ task' = [task EXCEPT ![t].state = "value"]
    BY <1>2 DEF Return
  <2>2. Reframe(t) /\ NoneBegins(t) /\ Len(stack'[t]) = 0
    BY <2>1, EmptyReframes
  <2>3. TaskTypes'
    BY <2>1, <2>2 DEF TaskTypes, Reframe
  <2>. QED  BY <1>1, <1>2, <2>2, <2>3
<1>3. CASE Pop(t) # <<>>
  <2>. DEFINE m == Len(Pop(t))
              old == Pop(t)[m]
              g == [old EXCEPT !.next = old.next + 1]
  <2>1. stack' = [stack EXCEPT ![t] = [Pop(t) EXCEPT ![m] = g]] /\ task' = task
    BY <1>3 DEF Return
  <2>2. old \in Frames
    BY <1>1, <1>3
  <2>3. g \in Frames /\ g.key = old.key /\ g.scope = old.scope /\ g.prov = old.prov /\ g.owner = old.owner /\ g.at = old.at
    BY <2>2 DEF Frames
  <2>. HIDE DEF g, old
  <2>4. /\ Reframe(t) /\ Len(stack'[t]) = Len(stack[t]) - 1 /\ stack'[t][Len(stack'[t])].at = g.at
        /\ Len(stack[t]) - 1 \in 1 .. Len(stack[t]) /\ old = stack[t][Len(stack[t]) - 1]
    BY <1>3, <2>1, <2>3, PopReframes DEF old
  <2>5. \A i \in 1 .. Len(stack'[t]) : stack'[t][i].at = stack[t][i].at
    BY <1>1, <2>3, <2>4 DEF Reframe
  <2>6. NoneBegins(t)
    BY <2>5 DEF NoneBegins, Works
  <2>7. TaskTypes'
    BY <2>1, <2>4 DEF TaskTypes, Reframe
  <2>. QED  BY <2>4, <2>6, <2>7
<1>. QED  BY <1>2, <1>3

\* No frame recovers from an exception.
NoneRecovers(t) ==
  \A i \in 1 .. Len(stack'[t]) :
    /\ stack'[t][i].at \notin {"raise", "fail"} => stack[t][i].at \notin {"raise", "fail"}
    /\ stack'[t][i].at = "lock" => stack[t][i].at = "lock" \/ stack[t][i].prov.life = "singleton"

LEMMA ReframedShape ==
  ASSUME NEW t \in Tasks, TaskTypes, StackShape, Reframe(t), NoneRecovers(t)
  PROVE  StackShape'
<1>. SUFFICES ASSUME NEW u \in Tasks, NEW i \in 1 .. Len(stack'[u])
              PROVE  /\ stack'[u][i].at \notin {"raise", "fail"} => stack'[u][i].prov # None
                     /\ stack'[u][i].at = "lock" => stack'[u][i].prov.life = "singleton"
                     /\ i < Len(stack'[u]) => stack'[u][i].at = "call"
                     /\ \A j \in 1 .. Len(stack'[u]) :
                          i # j /\ stack'[u][i].at \notin {"raise", "fail"} /\ stack'[u][j].at \notin {"raise", "fail"} =>
                            stack'[u][i].key # stack'[u][j].key
  BY DEF StackShape, Depth
<1>1. CASE u # t
  BY <1>1 DEF Reframe, StackShape, Depth
<1>2. CASE u = t
  <2>1. Len(stack'[t]) \in Nat /\ Len(stack[t]) \in Nat /\ Len(stack'[t]) <= Len(stack[t])
    BY DEF Reframe, TaskTypes
  <2>2. \A j \in 1 .. Len(stack'[t]) : j \in Depth(t) /\ (j < Len(stack'[t]) => j < Len(stack[t]))
    BY <2>1 DEF Depth
  <2>3. \A j \in 1 .. Len(stack'[t]) :
          /\ stack'[t][j].key = stack[t][j].key /\ stack'[t][j].prov = stack[t][j].prov
          /\ j < Len(stack'[t]) => stack'[t][j].at = stack[t][j].at
          /\ stack'[t][j].at \notin {"raise", "fail"} => stack[t][j].at \notin {"raise", "fail"}
          /\ stack'[t][j].at = "lock" => stack[t][j].at = "lock" \/ stack[t][j].prov.life = "singleton"
    BY DEF Reframe, NoneRecovers
  <2>. QED  BY <1>2, <2>2, <2>3 DEF StackShape
<1>. QED  BY <1>1, <1>2

\* A frame that works after a step and worked before it.
Carried(u, i) ==
  /\ i \in Depth(u) /\ Works(stack[u][i])
  /\ stack'[u][i].key = stack[u][i].key /\ stack'[u][i].scope = stack[u][i].scope
  /\ stack'[u][i].prov = stack[u][i].prov /\ stack'[u][i].owner = stack[u][i].owner

NewWork == \E u \in Tasks : \E i \in 1 .. Len(stack'[u]) : Works(stack'[u][i]) /\ ~Carried(u, i)

LEMMA WorkCarried ==
  ASSUME NEW t \in Tasks, TaskTypes, Reframe(t), NoneBegins(t)
  PROVE  ~NewWork
<1>. SUFFICES ASSUME NEW u \in Tasks, NEW i \in 1 .. Len(stack'[u]), Works(stack'[u][i]) PROVE Carried(u, i)
  BY DEF NewWork
<1>1. CASE u # t
  BY <1>1 DEF Reframe, Carried, Depth
<1>2. CASE u = t
  <2>1. Len(stack'[t]) \in Nat /\ Len(stack[t]) \in Nat /\ Len(stack'[t]) <= Len(stack[t])
    BY DEF Reframe, TaskTypes
  <2>2. i \in Depth(t)
    BY <1>2, <2>1 DEF Depth
  <2>. QED  BY <1>2, <2>2 DEF Reframe, NoneBegins, Carried
<1>. QED  BY <1>1, <1>2

LEMMA LocksStay ==
  ASSUME LockKept, ~NewWork, reset \subseteq reset',
         \A u \in Tasks : \A i \in 1 .. Len(stack'[u]) : Holding(stack[u][i]) /\ i \in Depth(u) =>
           /\ lock'[stack[u][i].owner] = u
           /\ \/ single'[stack[u][i].owner][stack[u][i].key] = single[stack[u][i].owner][stack[u][i].key]
              \/ <<stack[u][i].owner, stack[u][i].key>> \in reset'
  PROVE  LockKept'
<1>1. ASSUME NEW u \in Tasks, NEW i \in 1 .. Len(stack'[u]), Holding(stack'[u][i])
      PROVE  /\ i \in Depth(u) /\ Holding(stack[u][i])
             /\ stack'[u][i].key = stack[u][i].key /\ stack'[u][i].owner = stack[u][i].owner
  <2>1. Works(stack'[u][i])
    BY <1>1 DEF Holding, Works
  <2>2. Carried(u, i)
    BY <2>1 DEF NewWork
  <2>. QED  BY <1>1, <2>2 DEF Carried, Holding, Works
<1>2. ASSUME NEW u \in Tasks, NEW i \in 1 .. Len(stack'[u]), Holding(stack'[u][i])
      PROVE  /\ lock'[stack'[u][i].owner] = u
             /\ single'[stack'[u][i].owner][stack'[u][i].key] = None \/ <<stack'[u][i].owner, stack'[u][i].key>> \in reset'
             /\ \A j \in 1 .. Len(stack'[u]) : j # i /\ Holding(stack'[u][j]) => stack'[u][j].owner # stack'[u][i].owner
  <2>1. /\ i \in Depth(u) /\ Holding(stack[u][i])
        /\ stack'[u][i].key = stack[u][i].key /\ stack'[u][i].owner = stack[u][i].owner
    BY <1>1, <1>2
  <2>2. /\ single[stack[u][i].owner][stack[u][i].key] = None \/ <<stack[u][i].owner, stack[u][i].key>> \in reset
        /\ \A j \in Depth(u) : j # i /\ Holding(stack[u][j]) => stack[u][j].owner # stack[u][i].owner
    BY <2>1 DEF LockKept
  <2>3. \A j \in 1 .. Len(stack'[u]) : j # i /\ Holding(stack'[u][j]) => stack'[u][j].owner # stack'[u][i].owner
    BY <1>1, <2>1, <2>2
  <2>. QED  BY <2>1, <2>2, <2>3
<1>. QED  BY <1>2 DEF LockKept, Depth

\* No step but that of a frame that begins makes a task build what it did not build.
LEMMA BuildsStay ==
  ASSUME ~NewWork, NEW u \in Tasks, NEW s, NEW k, Builds(u, s, k)'
  PROVE  Builds(u, s, k)
<1>1. PICK i \in 1 .. Len(stack'[u]) : Building(stack'[u][i], s, k)
  BY DEF Builds, Depth
<1>2. Works(stack'[u][i])
  BY <1>1 DEF Building, Works
<1>3. Carried(u, i)
  BY <1>2 DEF NewWork
<1>. QED  BY <1>1, <1>3 DEF Carried, Building, Builds, Works

\* What a scope served stays true while no new instance is stored in it.
ScopeSame(s, k) ==
  /\ Instances(s, k)' = Instances(s, k) /\ cache'[s][k] \in {None, cache[s][k]}
  /\ phase'[s] \in {"new", "open"} =>
       /\ phase[s] \in {"new", "open"} /\ cache'[s][k] = cache[s][k]
       /\ \A u \in Tasks : Builds(u, s, k)' => Builds(u, s, k) \/ cache[s][k] = None

LEMMA ScopeStays ==
  ASSUME NEW s, NEW k, ScopeServed(s, k), ScopeSame(s, k), served \subseteq served'
  PROVE  ScopeServed(s, k)'
<1>. DEFINE I == Instances(s, k)
<1>1. ScopeServed(s, k) /\ ScopeSame(s, k)
  OBVIOUS
<1>2. Instances(s, k)' = I /\ cache'[s][k] \in {None, cache[s][k]}
  BY <1>1 DEF ScopeSame
<1>3. PICK f \in [I -> Tasks] : Builders(s, k, f)
  BY <1>1 DEF ScopeServed
<1>4. /\ \A i, j \in I : f[i] = f[j] => i = j
      /\ \A i \in I : <<s, k, i, f[i]>> \in served
      /\ phase[s] \in {"new", "open"} => \A i \in I : ~Builds(f[i], s, k)
  BY <1>3 DEF Builders
<1>5. cache'[s][k] # None => cache'[s][k] \in I
  BY <1>1, <1>2 DEF ScopeServed
<1>6. phase'[s] \in {"new", "open"} /\ cache'[s][k] = None => I = {}
  BY <1>1 DEF ScopeServed, ScopeSame
<1>. HIDE DEF I
<1>7. ASSUME phase'[s] \in {"new", "open"}, NEW i \in I PROVE ~Builds(f[i], s, k)'
  <2>1. phase[s] \in {"new", "open"} /\ cache'[s][k] # None
    BY <1>1, <1>6, <1>7 DEF ScopeSame
  <2>2. ~Builds(f[i], s, k) /\ f[i] \in Tasks
    BY <1>4, <1>7, <2>1
  <2>. QED  BY <1>1, <1>7, <2>1, <2>2 DEF ScopeSame
<1>8. Builders(s, k, f)'
  BY <1>2, <1>3, <1>4, <1>7 DEF Builders
<1>. QED  BY <1>2, <1>5, <1>6, <1>8 DEF ScopeServed

LEMMA ScopesStay ==
  ASSUME ScopesServed, served \subseteq served', \A s \in Scopes, k \in Keys : ScopeSame(s, k)
  PROVE  ScopesServed'
  BY ScopeStays DEF ScopesServed

\* What a container served stays true while its cache is not changed without a record.
LEMMA SinglesStay ==
  ASSUME SingleServed, reset \subseteq reset', CacheTypes',
         \A c \in Containers, k \in Keys : <<c, k>> \notin reset' => single'[c][k] = single[c][k],
         \A x \in served' : x \in served \/ (x[1] \in Containers => x[3] = single'[x[1]][x[2]]),
         saved' = saved \/ saved' = None \/ <<saved'.at, saved'.key>> \in reset'
  PROVE  SingleServed'
<1>1. ASSUME NEW x \in served', x[1] \in Containers, <<x[1], x[2]>> \notin reset' PROVE x[3] = single'[x[1]][x[2]]
  <2>1. x[2] \in Keys
    BY <1>1 DEF CacheTypes
  <2>. QED  BY <1>1, <2>1 DEF SingleServed
<1>2. saved' # None => <<saved'.at, saved'.key>> \in reset'
  BY DEF SingleServed
<1>. QED  BY <1>1, <1>2 DEF SingleServed

\* Steps that leave the homes alone, but for what a caller owns.
LEMMA HomesStay ==
  ASSUME HomeTypes, HomeTypes', ClosingDone, DisposedUnlessLate, UNCHANGED <<disposers, left, disposed, late>>,
         \A h \in Homes : phase'[h] = "closing" => phase[h] = "closing",
         \/ insts' = insts
         \/ \E k : insts' = Append(insts, [key |-> k, home |-> None])
  PROVE  ClosingDone' /\ DisposedUnlessLate'
<1>1. ClosingDone'
  BY DEF ClosingDone
<1>2. \A i \in DOMAIN insts' : insts'[i].home # None => i \in DOMAIN insts /\ insts'[i] = insts[i]
  <2>1. CASE insts' = insts
    BY <2>1
  <2>2. CASE \E k : insts' = Append(insts, [key |-> k, home |-> None])
    <3>1. PICK k : insts' = Append(insts, [key |-> k, home |-> None])
      BY <2>2
    <3>. DEFINE new == [key |-> k, home |-> None]
    <3>2. new.home = None
      OBVIOUS
    <3>3. insts' = Append(insts, new)
      BY <3>1
    <3>. HIDE DEF new
    <3>4. /\ DOMAIN insts' = 1 .. (Len(insts) + 1) /\ DOMAIN insts = 1 .. Len(insts) /\ Len(insts) \in Nat
          /\ insts'[Len(insts) + 1] = new /\ \A i \in 1 .. Len(insts) : insts'[i] = insts[i]
      BY <3>3 DEF HomeTypes
    <3>. QED  BY <3>2, <3>4
  <2>. QED  BY <2>1, <2>2
<1>3. DisposedUnlessLate'
  BY <1>2 DEF DisposedUnlessLate
<1>. QED  BY <1>1, <1>3

-----------------------------------------------------------------------------

\* An answer from a cache, or none.
Serves(t) ==
  \/ served' = served
  \/ \E h \in Homes, k \in Keys, i \in Nat :
       /\ served' = served \cup {<<h, k, i, t>>}
       /\ h \in Containers => i = single[h][k]
       /\ h \in Scopes => i = cache[h][k]

LocksHeld ==
  \A u \in Tasks : \A i \in 1 .. Len(stack'[u]) :
    i \in Depth(u) /\ Holding(stack[u][i]) => lock'[stack[u][i].owner] = u

LEMMA InstancesGrow ==
  ASSUME NEW h, NEW k, NEW i, NEW t, served' = served \cup {<<h, k, i, t>>}, NEW s, NEW j
  PROVE  /\ s = h /\ j = k => Instances(s, j)' = Instances(s, j) \cup {i}
         /\ ~(s = h /\ j = k) => Instances(s, j)' = Instances(s, j)
<1>. DEFINE x == <<h, k, i, t>>
<1>1. x[1] = h /\ x[2] = k /\ x[3] = i
  OBVIOUS
<1>2. served' = served \cup {x}
  OBVIOUS
<1>. HIDE DEF x
<1>. QED  BY <1>1, <1>2 DEF Instances

LEMMA InstancesSame ==
  ASSUME NEW h, NEW k, NEW i, NEW t, served' = served \cup {<<h, k, i, t>>}, NEW s, NEW j, s # h \/ j # k
  PROVE  Instances(s, j)' = Instances(s, j)
<1>1. ~(s = h /\ j = k) => Instances(s, j)' = Instances(s, j)
  BY InstancesGrow
<1>. QED  BY <1>1

LEMMA CachedServed ==
  ASSUME NEW t \in Tasks, ScopesServed, Serves(t), NEW s \in Scopes, NEW k \in Keys
  PROVE  Instances(s, k)' = Instances(s, k) /\ served \subseteq served'
<1>1. CASE served' = served
  BY <1>1 DEF Instances
<1>2. ASSUME NEW h \in Homes, NEW j \in Keys, NEW i \in Nat, served' = served \cup {<<h, j, i, t>>},
             h \in Scopes => i = cache[h][j]
      PROVE  Instances(s, k)' = Instances(s, k) /\ served \subseteq served'
  <2>1. CASE s = h /\ k = j
    <3>1. i \in Instances(s, k)
      BY <1>2, <2>1, ContainerAssumption DEF ScopesServed, ScopeServed
    <3>. QED  BY <1>2, <2>1, <3>1, InstancesGrow
  <2>2. CASE ~(s = h /\ k = j)
    <3>1. Instances(s, k)' = Instances(s, k)
      BY <1>2, <2>2, InstancesGrow
    <3>. QED  BY <1>2, <3>1
  <2>. QED  BY <2>1, <2>2
<1>. QED  BY <1>1, <1>2 DEF Serves

LEMMA ServedTypes ==
  ASSUME NEW t \in Tasks, CacheTypes, Serves(t), UNCHANGED <<single, cache>>, lock' \in [Containers -> Tasks \cup {None}]
  PROVE  CacheTypes'
<1>1. served' \in SUBSET (Homes \X Keys \X Nat \X Tasks)
  BY DEF Serves, CacheTypes
<1>. QED  BY <1>1 DEF CacheTypes

LEMMA SingleServes ==
  ASSUME NEW t \in Tasks, SingleServed, CacheTypes', Serves(t), UNCHANGED <<single, reset, saved>>
  PROVE  SingleServed'
<1>1. \A x \in served' : x \in served \/ (x[1] \in Containers => x[3] = single'[x[1]][x[2]])
  <2>. SUFFICES ASSUME NEW x \in served', x \notin served, x[1] \in Containers PROVE x[3] = single[x[1]][x[2]]
    OBVIOUS
  <2>1. PICK h \in Homes, k \in Keys, i \in Nat : x = <<h, k, i, t>> /\ (h \in Containers => i = single[h][k])
    BY DEF Serves
  <2>. QED  BY <2>1
<1>. QED  BY <1>1, SinglesStay

\* No home is closed, or opened again.
Opens ==
  /\ phase' \in [Homes -> {"new", "open", "closing", "closed"}]
  /\ \A h \in Homes :
       /\ phase'[h] = "closing" => phase[h] = "closing"
       /\ phase'[h] \in {"new", "open"} => phase[h] \in {"new", "open"}

\* A step of a resolution in which no frame begins to work.
LEMMA WorkStays ==
  ASSUME ContainerInv, NEW t \in Tasks, ~NewWork, StackShape', TaskTypes', Serves(t), LocksHeld, Opens,
         lock' \in [Containers -> Tasks \cup {None}],
         UNCHANGED <<registry, single, cache, disposers, left, disposed, insts, late, reset>>
  PROVE  ContainerInv'
<1>1. ContainerTypes /\ TaskTypes /\ CacheTypes /\ HomeTypes
  BY DEF ContainerInv, ContainerTypes
<1>2. CacheTypes'
  BY <1>1, ServedTypes
<1>3. RegistryTypes' /\ HomeTypes'
  BY <1>1 DEF ContainerTypes, RegistryTypes, HomeTypes, registry, Opens
<1>4. LockKept'
  BY LocksStay DEF ContainerInv, LocksHeld
<1>5. SingleServed'
  BY <1>2, SingleServes DEF ContainerInv, registry
<1>6. ScopesServed'
  <2>1. ASSUME NEW s \in Scopes, NEW k \in Keys PROVE ScopeSame(s, k)
    <3>1. Instances(s, k)' = Instances(s, k)
      BY CachedServed DEF ContainerInv
    <3>2. phase'[s] \in {"new", "open"} => phase[s] \in {"new", "open"}
      BY DEF Opens, Homes
    <3>3. \A u \in Tasks : Builds(u, s, k)' => Builds(u, s, k)
      BY BuildsStay
    <3>. QED  BY <3>1, <3>2, <3>3 DEF ScopeSame
  <2>2. served \subseteq served'
    BY DEF Serves
  <2>. QED  BY <2>1, <2>2, ScopesStay DEF ContainerInv
<1>7. ClosingDone' /\ DisposedUnlessLate'
  <2>1. \A h \in Homes : phase'[h] = "closing" => phase[h] = "closing"
    BY DEF Opens
  <2>2. ClosingDone /\ DisposedUnlessLate
    BY DEF ContainerInv
  <2>. QED  BY <1>1, <1>3, <2>1, <2>2, HomesStay
<1>. QED  BY <1>2, <1>3, <1>4, <1>5, <1>6, <1>7 DEF ContainerInv, ContainerTypes

LEMMA TaskStep ==
  ASSUME ContainerInv, NEW t \in Tasks, Reframe(t), NoneBegins(t), TaskTypes', Serves(t), LocksHeld,
         lock' \in [Containers -> Tasks \cup {None}],
         UNCHANGED <<registry, single, cache, homes, insts, late, reset>>
  PROVE  ContainerInv'
<1>1. TaskTypes /\ HomeTypes
  BY DEF ContainerInv, ContainerTypes
<1>2. ~NewWork
  BY <1>1, WorkCarried
<1>3. NoneRecovers(t)
  BY DEF NoneBegins, NoneRecovers
<1>4. StackShape'
  BY <1>1, <1>3, ReframedShape DEF ContainerInv
<1>5. Opens
  BY <1>1 DEF Opens, homes, HomeTypes
<1>6. UNCHANGED <<disposers, left, disposed>>
  BY DEF homes
<1>. QED  BY <1>2, <1>4, <1>5, <1>6, WorkStays

\* The locks that a stack needs are still there when no lock changes.
LEMMA LocksUnchanged ==
  ASSUME ContainerInv, UNCHANGED lock
  PROVE  LocksHeld /\ lock' \in [Containers -> Tasks \cup {None}]
  BY DEF ContainerInv, ContainerTypes, CacheTypes, LockKept, LocksHeld

\* The frame on top goes to another place, at which it does no work that it did not do before.
LEMMA TopGoes ==
  ASSUME ContainerInv, NEW t \in Tasks, stack[t] # <<>>, NEW where,
         where \in {"produce", "lock", "call", "store", "raise", "fail"}, SetTop(t, [Top(t) EXCEPT !.at = where]),
         where \in {"call", "store"} => Works(Top(t)), where \notin {"raise", "fail"} => Top(t).at \notin {"raise", "fail"},
         where = "lock" => Top(t).prov.life = "singleton",
         UNCHANGED <<registry, single, lock, cache, homes, insts, late, reset, served, task>>
  PROVE  ContainerInv'
<1>. DEFINE f == [Top(t) EXCEPT !.at = where]
<1>1. TaskTypes
  BY DEF ContainerInv, ContainerTypes
<1>2. Top(t) \in Frames /\ Top(t) = stack[t][Len(stack[t])] /\ Len(stack[t]) \in Nat /\ Len(stack[t]) > 0
  BY <1>1, Popped
<1>3. /\ f \in Frames /\ f.key = Top(t).key /\ f.scope = Top(t).scope /\ f.prov = Top(t).prov
      /\ f.owner = Top(t).owner /\ f.at = where
  BY <1>2 DEF Frames
<1>4. SetTop(t, f)
  OBVIOUS
<1>. HIDE DEF f
<1>5. /\ Reframe(t) /\ Len(stack'[t]) = Len(stack[t]) /\ stack'[t][Len(stack[t])] = f
      /\ \A i \in 1 .. Len(stack[t]) : i # Len(stack[t]) => stack'[t][i] = stack[t][i]
  BY <1>1, <1>3, <1>4, SetTopReframes
<1>6. NoneBegins(t)
  BY <1>2, <1>3, <1>5 DEF NoneBegins, Works
<1>7. TaskTypes'
  BY <1>1, <1>5 DEF TaskTypes, Reframe
<1>8. Serves(t)
  BY DEF Serves
<1>. QED  BY <1>5, <1>6, <1>7, <1>8, LocksUnchanged, TaskStep

\* The frame on top and what it produces.
LEMMA TopFrame ==
  ASSUME ContainerInv, NEW t \in Tasks, stack[t] # <<>>, Top(t).at \notin {"raise", "fail"}
  PROVE  /\ Top(t) \in Frames /\ Top(t).key \in Keys /\ Top(t).owner \in Containers
         /\ Top(t).scope \in Scopes \cup {None} /\ Top(t).prov \in Providers /\ Top(t).prov.life \in Lifetimes
         /\ Len(stack[t]) \in Depth(t) /\ stack[t][Len(stack[t])] = Top(t)
<1>1. TaskTypes
  BY DEF ContainerInv, ContainerTypes
<1>2. Top(t) \in Frames /\ Top(t) = stack[t][Len(stack[t])] /\ Len(stack[t]) \in Nat /\ Len(stack[t]) > 0
  BY <1>1, Popped
<1>3. Len(stack[t]) \in Depth(t)
  BY <1>2 DEF Depth
<1>4. Top(t).prov # None
  BY <1>2, <1>3 DEF ContainerInv, StackShape
<1>5. /\ Top(t).key \in Keys /\ Top(t).owner \in Containers /\ Top(t).scope \in Scopes \cup {None}
      /\ Top(t).prov \in Providers
  BY <1>2, <1>4 DEF Frames
<1>6. Top(t).prov.life \in Lifetimes
  BY <1>5 DEF Providers
<1>. QED  BY <1>2, <1>3, <1>5, <1>6

LEMMA HomeOf ==
  ASSUME NEW f, f.prov.life \in Lifetimes
  PROVE  /\ f.prov.life = "singleton" => Home(f) = f.owner
         /\ f.prov.life = "scoped" => Home(f) = f.scope
         /\ f.prov.life = "transient" => Home(f) = None
  BY DEF Home, Lifetimes

\* A cached instance is the answer.
LEMMA HitStep ==
  ASSUME ContainerInv, NEW t \in Tasks, stack[t] # <<>>, Top(t).at \notin {"raise", "fail"}, NEW hit, hit # None,
         \/ Top(t).prov.life = "singleton" /\ hit = single[Top(t).owner][Top(t).key]
         \/ Top(t).prov.life = "scoped" /\ Top(t).scope # None /\ hit = cache[Top(t).scope][Top(t).key],
         Return(t), Serve(t, hit), UNCHANGED <<registry, single, lock, cache, homes, insts, late, reset>>
  PROVE  ContainerInv'
<1>. DEFINE f == Top(t)
<1>1. /\ f.key \in Keys /\ f.owner \in Containers /\ f.scope \in Scopes \cup {None}
      /\ f.prov.life \in Lifetimes
  BY TopFrame
<1>2. TaskTypes /\ CacheTypes
  BY DEF ContainerInv, ContainerTypes
<1>3. Reframe(t) /\ NoneBegins(t) /\ TaskTypes'
  BY <1>2, Returns
<1>. HIDE DEF f
<1>4. Serves(t)
  <2>1. CASE f.prov.life = "singleton"
    <3>1. Home(f) = f.owner /\ f.owner # None /\ f.owner \in Homes /\ f.owner \notin Scopes
      BY <1>1, <2>1, HomeOf, ContainerAssumption DEF Homes
    <3>2. hit = single[f.owner][f.key] /\ hit \in Nat
      BY <1>1, <1>2, <2>1 DEF CacheTypes, f
    <3>3. served' = served \cup {<<f.owner, f.key, hit, t>>}
      BY <3>1 DEF Serve, f
    <3>. QED  BY <1>1, <3>1, <3>2, <3>3 DEF Serves
  <2>2. CASE f.prov.life = "scoped"
    <3>1. Home(f) = f.scope /\ f.scope # None /\ f.scope \in Scopes /\ f.scope \in Homes /\ f.scope \notin Containers
      BY <1>1, <2>2, HomeOf, ContainerAssumption DEF Homes, f
    <3>2. hit = cache[f.scope][f.key] /\ hit \in Nat
      BY <1>1, <1>2, <2>2, <3>1 DEF CacheTypes, f
    <3>3. served' = served \cup {<<f.scope, f.key, hit, t>>}
      BY <3>1 DEF Serve, f
    <3>. QED  BY <1>1, <3>1, <3>2, <3>3 DEF Serves
  <2>. QED  BY <2>1, <2>2 DEF f
<1>. QED  BY <1>3, <1>4, LocksUnchanged, TaskStep

\* The frame on top begins to work: a scoped or transient one, for which nothing is cached, or a
\* singleton under its owner's lock.
LEMMA BeginStep ==
  ASSUME ContainerInv, NEW t \in Tasks, stack[t] # <<>>, Top(t).at \notin {"raise", "fail", "call", "store"},
         SetTop(t, [Top(t) EXCEPT !.at = "call"]),
         \/ Top(t).prov.life # "singleton" /\ UNCHANGED lock
         \/ /\ Top(t).prov.life = "singleton" /\ lock[Top(t).owner] = None
            /\ single[Top(t).owner][Top(t).key] = None /\ lock' = [lock EXCEPT ![Top(t).owner] = t],
         Top(t).prov.life = "scoped" => cache[Top(t).scope][Top(t).key] = None,
         UNCHANGED <<registry, single, cache, homes, insts, late, reset, served, task>>
  PROVE  ContainerInv'
<1>. DEFINE f == [Top(t) EXCEPT !.at = "call"]
            n == Len(stack[t])
<1>1. TaskTypes /\ CacheTypes /\ RegistryTypes /\ HomeTypes
  BY DEF ContainerInv, ContainerTypes
<1>2. /\ Top(t) \in Frames /\ Top(t).key \in Keys /\ Top(t).owner \in Containers /\ n \in Depth(t)
      /\ stack[t][n] = Top(t) /\ Top(t).prov # None
  BY TopFrame DEF ContainerInv, StackShape
<1>3. /\ f \in Frames /\ f.key = Top(t).key /\ f.scope = Top(t).scope /\ f.prov = Top(t).prov
      /\ f.owner = Top(t).owner /\ f.at = "call"
  BY <1>2 DEF Frames
<1>4. SetTop(t, f)
  OBVIOUS
<1>. HIDE DEF f
<1>5. /\ Reframe(t) /\ Len(stack'[t]) = n /\ stack'[t][n] = f
      /\ \A i \in 1 .. n : i # n => stack'[t][i] = stack[t][i]
  BY <1>1, <1>3, <1>4, SetTopReframes
<1>6. \A u \in Tasks : u # t => stack'[u] = stack[u]
  BY <1>5 DEF Reframe
<1>7. NoneRecovers(t)
  BY <1>2, <1>3, <1>5 DEF NoneRecovers
<1>8. StackShape'
  BY <1>1, <1>5, <1>7, ReframedShape DEF ContainerInv
<1>. HIDE DEF n
<1>9. TaskTypes'
  BY <1>1, <1>5 DEF TaskTypes, Reframe
<1>10. CacheTypes'
  BY <1>1, <1>2 DEF CacheTypes
<1>11. RegistryTypes' /\ HomeTypes'
  BY <1>1 DEF RegistryTypes, HomeTypes, registry, homes
<1>12. ASSUME NEW u \in Tasks, NEW i \in 1 .. Len(stack'[u]), ~(u = t /\ i = n)
       PROVE  i \in Depth(u) /\ stack'[u][i] = stack[u][i]
  BY <1>5, <1>6, <1>12 DEF Depth, n
<1>13. LockKept'
  <2>1. CASE Top(t).prov.life # "singleton" /\ UNCHANGED lock
    <3>1. ~Holding(f)
      BY <1>3, <2>1 DEF Holding
    <3>2. ASSUME NEW u \in Tasks, NEW i \in 1 .. Len(stack'[u]), Holding(stack'[u][i])
          PROVE  i \in Depth(u) /\ stack'[u][i] = stack[u][i]
      BY <1>5, <1>12, <3>1, <3>2
    <3>. QED  BY <2>1, <3>2 DEF LockKept, ContainerInv, Depth
  <2>2. CASE /\ Top(t).prov.life = "singleton" /\ lock[Top(t).owner] = None
             /\ single[Top(t).owner][Top(t).key] = None /\ lock' = [lock EXCEPT ![Top(t).owner] = t]
    <3>1. ASSUME NEW u \in Tasks, NEW i \in Depth(u), Holding(stack[u][i])
          PROVE  stack[u][i].owner # f.owner
      <4>1. lock[stack[u][i].owner] = u
        BY <3>1 DEF ContainerInv, LockKept
      <4>. QED  BY <1>3, <2>2, <4>1, ContainerAssumption
    <3>2. lock'[f.owner] = t /\ \A c \in Containers : c # f.owner => lock'[c] = lock[c]
      BY <1>1, <1>2, <1>3, <2>2 DEF CacheTypes
    <3>3. ASSUME NEW u \in Tasks, NEW i \in 1 .. Len(stack'[u]), Holding(stack'[u][i])
          PROVE  /\ lock'[stack'[u][i].owner] = u
                 /\ \/ single'[stack'[u][i].owner][stack'[u][i].key] = None
                    \/ <<stack'[u][i].owner, stack'[u][i].key>> \in reset'
                 /\ \A j \in 1 .. Len(stack'[u]) : j # i /\ Holding(stack'[u][j]) => stack'[u][j].owner # stack'[u][i].owner
      <4>1. CASE u = t /\ i = n
        <5>1. stack'[u][i] = f
          BY <1>5, <4>1
        <5>2. \A j \in 1 .. Len(stack'[u]) : j # i /\ Holding(stack'[u][j]) => stack'[u][j].owner # stack'[u][i].owner
          BY <1>12, <3>1, <4>1, <5>1
        <5>. QED  BY <1>3, <2>2, <3>2, <4>1, <5>1, <5>2
      <4>2. CASE ~(u = t /\ i = n)
        <5>1. i \in Depth(u) /\ stack'[u][i] = stack[u][i]
          BY <1>12, <4>2
        <5>2. stack[u][i].owner # f.owner /\ stack[u][i].owner \in Containers
          <6>1. stack[u][i] \in Frames
            BY <1>1, <5>1 DEF TaskTypes, Depth
          <6>. QED  BY <3>1, <3>3, <5>1, <6>1 DEF Frames
        <5>3. /\ lock[stack[u][i].owner] = u
              /\ single[stack[u][i].owner][stack[u][i].key] = None \/ <<stack[u][i].owner, stack[u][i].key>> \in reset
              /\ \A j \in Depth(u) : j # i /\ Holding(stack[u][j]) => stack[u][j].owner # stack[u][i].owner
          BY <3>3, <5>1 DEF ContainerInv, LockKept
        <5>4. \A j \in 1 .. Len(stack'[u]) : j # i /\ Holding(stack'[u][j]) => stack'[u][j].owner # stack'[u][i].owner
          <6>. SUFFICES ASSUME NEW j \in 1 .. Len(stack'[u]), j # i, Holding(stack'[u][j])
                        PROVE  stack'[u][j].owner # stack'[u][i].owner
            OBVIOUS
          <6>1. CASE u = t /\ j = n
            BY <1>5, <5>1, <5>2, <6>1
          <6>2. CASE ~(u = t /\ j = n)
            <7>1. j \in Depth(u) /\ stack'[u][j] = stack[u][j]
              BY <1>12, <6>2
            <7>. QED  BY <5>1, <5>3, <7>1
          <6>. QED  BY <6>1, <6>2
        <5>. QED  BY <3>2, <5>1, <5>2, <5>3, <5>4
      <4>. QED  BY <4>1, <4>2
    <3>. QED  BY <3>3 DEF LockKept, Depth
  <2>. QED  BY <2>1, <2>2
<1>14. SingleServed'
  BY DEF ContainerInv, SingleServed, registry
<1>15. ScopesServed'
  <2>1. ASSUME NEW s \in Scopes, NEW k \in Keys, NEW u \in Tasks, Builds(u, s, k)'
        PROVE  Builds(u, s, k) \/ cache[s][k] = None
    <3>1. PICK i \in 1 .. Len(stack'[u]) : Building(stack'[u][i], s, k)
      BY <2>1 DEF Builds, Depth
    <3>2. CASE u = t /\ i = n
      BY <1>3, <1>5, <3>1, <3>2 DEF Building
    <3>3. CASE ~(u = t /\ i = n)
      BY <1>12, <3>1, <3>3 DEF Builds
    <3>. QED  BY <3>2, <3>3
  <2>2. \A s \in Scopes, k \in Keys : ScopeSame(s, k)
    BY <2>1 DEF ScopeSame, homes, Instances
  <2>. QED  BY <2>2, ScopesStay DEF ContainerInv
<1>16. ClosingDone' /\ DisposedUnlessLate'
  BY <1>1, <1>11, HomesStay DEF ContainerInv, homes
<1>. QED  BY <1>8, <1>9, <1>10, <1>11, <1>13, <1>14, <1>15, <1>16 DEF ContainerInv, ContainerTypes

LEMMA ProduceStep ==
  ASSUME ContainerInv, NEW t \in Tasks, Produce(t)
  PROVE  ContainerInv'
<1>. DEFINE f == Top(t)
            hit == CASE f.prov.life = "singleton" -> single[f.owner][f.key]
                     [] f.prov.life = "scoped" /\ f.scope # None -> cache[f.scope][f.key]
                     [] OTHER -> None
            where == CASE f.prov.life = "singleton" -> "lock"
                       [] f.prov.life = "scoped" /\ f.scope = None -> "raise"
                       [] OTHER -> "call"
<1>1. stack[t] # <<>> /\ f.at = "produce"
  BY DEF Produce, At, MayRun
<1>2. f.prov.life \in Lifetimes
  BY <1>1, TopFrame
<1>3. UNCHANGED <<registry, single, lock, cache, homes, insts, late, reset>>
  BY DEF Produce
<1>4. CASE hit # None
  <2>1. Return(t) /\ Serve(t, hit)
    BY <1>4 DEF Produce
  <2>2. \/ f.prov.life = "singleton" /\ hit = single[f.owner][f.key]
        \/ f.prov.life = "scoped" /\ f.scope # None /\ hit = cache[f.scope][f.key]
    BY <1>2, <1>4 DEF Lifetimes
  <2>. HIDE DEF hit
  <2>. QED  BY <1>1, <1>3, <1>4, <2>1, <2>2, HitStep
<1>5. CASE hit = None
  <2>1. SetTop(t, [f EXCEPT !.at = where]) /\ UNCHANGED <<task, served>>
    BY <1>5 DEF Produce
  <2>2. CASE where = "call"
    <3>1. f.prov.life # "singleton" /\ (f.prov.life = "scoped" => f.scope # None)
      BY <1>2, <2>2 DEF Lifetimes
    <3>2. f.prov.life = "scoped" => cache[f.scope][f.key] = None
      BY <1>5, <3>1
    <3>3. SetTop(t, [f EXCEPT !.at = "call"])
      BY <2>1, <2>2
    <3>. QED  BY <1>1, <1>3, <2>1, <3>1, <3>2, <3>3, BeginStep
  <2>3. CASE where # "call"
    <3>1. where \in {"lock", "raise"} /\ (where = "lock" => f.prov.life = "singleton")
      BY <1>2, <2>3 DEF Lifetimes
    <3>. HIDE DEF where
    <3>2. where \in {"produce", "lock", "call", "store", "raise", "fail"} /\ where \notin {"call", "store"}
      BY <3>1
    <3>. QED  BY <1>1, <1>3, <2>1, <3>1, <3>2, TopGoes
  <2>. QED  BY <2>2, <2>3
<1>. QED  BY <1>4, <1>5

\* A step that changes neither a stack nor anything the invariant is about.
LEMMA QuietStep ==
  ASSUME ContainerInv, UNCHANGED <<registry, single, lock, cache, homes, insts, ghosts, stack>>, TaskTypes'
  PROVE  ContainerInv'
<1>1. ContainerTypes'
  BY DEF ContainerInv, ContainerTypes, RegistryTypes, CacheTypes, HomeTypes, registry, homes, ghosts
<1>2. StackShape' /\ LockKept' /\ SingleServed'
  BY DEF ContainerInv, StackShape, LockKept, SingleServed, Depth, registry, ghosts
<1>3. ScopesServed'
  <2>1. \A s \in Scopes, k \in Keys : ScopeSame(s, k)
    BY DEF ScopeSame, Instances, Builds, Depth, homes, ghosts
  <2>. QED  BY <2>1, ScopesStay DEF ContainerInv, ghosts
<1>4. ClosingDone' /\ DisposedUnlessLate'
  BY DEF ContainerInv, ClosingDone, DisposedUnlessLate, homes, ghosts
<1>. QED  BY <1>1, <1>2, <1>3, <1>4 DEF ContainerInv

LEMMA WaitStep ==
  ASSUME ContainerInv, NEW t \in Tasks, Wait(t)
  PROVE  ContainerInv'
  BY QuietStep DEF Wait, ContainerInv, ContainerTypes, TaskTypes

LEMMA SyncSuspendsStep ==
  ASSUME ContainerInv, NEW t \in Tasks, SyncSuspends(t)
  PROVE  ContainerInv'
<1>1. /\ stack[t] # <<>> /\ SetTop(t, [Top(t) EXCEPT !.at = "fail"])
      /\ UNCHANGED <<registry, single, lock, cache, homes, insts, late, reset, served, task>>
  BY DEF SyncSuspends, At, MayRun, ghosts
<1>. QED  BY <1>1, TopGoes

LEMMA StoreRefusedStep ==
  ASSUME ContainerInv, NEW t \in Tasks, StoreRefused(t)
  PROVE  ContainerInv'
<1>1. /\ stack[t] # <<>> /\ SetTop(t, [Top(t) EXCEPT !.at = "fail"])
      /\ UNCHANGED <<registry, single, lock, cache, homes, insts, late, reset, served, task>>
  BY DEF StoreRefused, At, MayRun, ghosts
<1>. QED  BY <1>1, TopGoes

LEMMA CallFactoryStep ==
  ASSUME ContainerInv, NEW t \in Tasks, CallFactory(t)
  PROVE  ContainerInv'
<1>1. /\ stack[t] # <<>> /\ SetTop(t, [Top(t) EXCEPT !.at = "store"]) /\ Top(t).at = "call"
      /\ UNCHANGED <<registry, single, lock, cache, homes, insts, late, reset, served, task>>
  BY DEF CallFactory, At, MayRun, ghosts
<1>2. Works(Top(t))
  BY <1>1 DEF Works
<1>. QED  BY <1>1, <1>2, TopGoes

LEMMA FactoryRaisesStep ==
  ASSUME ContainerInv, NEW t \in Tasks, FactoryRaises(t)
  PROVE  ContainerInv'
<1>1. PICK how \in {"raise", "fail"} : SetTop(t, [Top(t) EXCEPT !.at = how])
  BY DEF FactoryRaises
<1>2. stack[t] # <<>> /\ UNCHANGED <<registry, single, lock, cache, homes, insts, late, reset, served, task>>
  BY DEF FactoryRaises, At, MayRun, ghosts
<1>. QED  BY <1>1, <1>2, TopGoes

LEMMA AcquireStep ==
  ASSUME ContainerInv, NEW t \in Tasks, Acquire(t)
  PROVE  ContainerInv'
<1>. DEFINE f == Top(t)
            hit == single[f.owner][f.key]
<1>1. stack[t] # <<>> /\ f.at = "lock" /\ lock[f.owner] = None
  BY DEF Acquire, At, MayRun
<1>2. UNCHANGED <<registry, single, cache, homes, insts, late, reset>>
  BY DEF Acquire
<1>. f.prov.life = "singleton"
  BY <1>1, TopFrame DEF ContainerInv, StackShape
<1>3. CASE hit # None
  <2>1. Return(t) /\ Serve(t, hit) /\ UNCHANGED lock
    BY <1>3 DEF Acquire, SecondLook
  <2>. QED  BY <1>1, <1>2, <1>3, <2>1, HitStep
<1>4. CASE hit = None
  <2>1. /\ lock' = [lock EXCEPT ![f.owner] = t] /\ SetTop(t, [f EXCEPT !.at = "call"])
        /\ UNCHANGED <<task, served>>
    BY <1>4 DEF Acquire, SecondLook
  <2>. QED  BY <1>1, <1>2, <1>4, <2>1, BeginStep
<1>. QED  BY <1>3, <1>4

LEMMA RaiseStep ==
  ASSUME ContainerInv, NEW t \in Tasks, Raise(t)
  PROVE  ContainerInv'
<1>. DEFINE rest == Pop(t)
            n == Len(stack[t])
<1>1. /\ stack[t] # <<>> /\ lock' = ReleasedByRaise(t, rest)
      /\ UNCHANGED <<registry, single, cache, homes, insts, late, reset, served>>
  BY DEF Raise, At, MayRun, ghosts
<1>2. TaskTypes /\ CacheTypes
  BY DEF ContainerInv, ContainerTypes
<1>3. /\ n \in Nat /\ n > 0
      /\ rest \in Seq(Frames) /\ Len(rest) = n - 1 /\ \A i \in 1 .. (n - 1) : rest[i] = stack[t][i]
  BY <1>1, <1>2, Popped
<1>4. Reframe(t) /\ NoneBegins(t) /\ TaskTypes' /\ Len(stack'[t]) = n - 1
  <2>1. CASE rest = <<>>
    <3>1. stack' = [stack EXCEPT ![t] = <<>>] /\ task' = [task EXCEPT ![t].state = "error"]
      BY <2>1 DEF Raise
    <3>2. Reframe(t) /\ NoneBegins(t) /\ Len(stack'[t]) = 0
      BY <1>2, <3>1, EmptyReframes
    <3>3. TaskTypes'
      BY <1>2, <3>1, <3>2 DEF TaskTypes, Reframe
    <3>. QED  BY <1>3, <2>1, <3>2, <3>3
  <2>2. CASE rest # <<>>
    <3>. DEFINE m == Len(rest)
                g == rest[m]
                how == Top(t).at
                new == IF how = "raise" /\ g.next \in g.prov.opt THEN [g EXCEPT !.next = g.next + 1]
                       ELSE [g EXCEPT !.at = how]
    <3>0. how \in {"raise", "fail"}
      BY DEF Raise
    <3>1. stack' = [stack EXCEPT ![t] = [rest EXCEPT ![m] = new]] /\ task' = task
      BY <2>2 DEF Raise
    <3>2. g \in Frames
      BY <1>3, <2>2
    <3>3. /\ new \in Frames /\ new.key = g.key /\ new.scope = g.scope /\ new.prov = g.prov /\ new.owner = g.owner
          /\ new.at \in {g.at, "raise", "fail"}
      BY <3>0, <3>2 DEF Frames
    <3>. HIDE DEF new, g, how
    <3>4. /\ Reframe(t) /\ Len(stack'[t]) = n - 1 /\ stack'[t][Len(stack'[t])].at = new.at
          /\ n - 1 \in 1 .. n /\ g = stack[t][n - 1]
      BY <1>1, <1>2, <2>2, <3>1, <3>3, PopReframes DEF g
    <3>5. \A i \in 1 .. Len(stack'[t]) : stack'[t][i].at \in {stack[t][i].at, "raise", "fail"}
      BY <1>3, <3>3, <3>4 DEF Reframe
    <3>6. NoneBegins(t)
      BY <3>5 DEF NoneBegins, Works
    <3>7. TaskTypes'
      BY <1>2, <3>1, <3>4 DEF TaskTypes, Reframe
    <3>. QED  BY <3>4, <3>6, <3>7
  <2>. QED  BY <2>1, <2>2
<1>5. lock' \in [Containers -> Tasks \cup {None}]
  BY <1>1, <1>2 DEF ReleasedByRaise, CacheTypes
<1>6. LocksHeld
  <2>. SUFFICES ASSUME NEW u \in Tasks, NEW i \in 1 .. Len(stack'[u]), i \in Depth(u), Holding(stack[u][i])
                PROVE  lock'[stack[u][i].owner] = u
    BY DEF LocksHeld
  <2>. DEFINE c == stack[u][i].owner
  <2>1. lock[c] = u
    BY DEF ContainerInv, LockKept
  <2>2. c \in Containers
    <3>1. stack[u][i] \in Frames
      BY <1>2 DEF TaskTypes, Depth
    <3>. QED  BY <3>1 DEF Frames
  <2>3. CASE u # t
    BY <1>1, <2>1, <2>2, <2>3 DEF ReleasedByRaise
  <2>4. CASE u = t
    <3>1. i \in 1 .. (n - 1) /\ i < n /\ i \in DOMAIN rest /\ rest[i] = stack[t][i]
      BY <1>3, <1>4, <2>4
    <3>2. stack[t][i].at = "call" /\ stack[t][i].prov.life = "singleton"
      BY <2>4, <3>1 DEF ContainerInv, StackShape, Holding
    <3>. QED  BY <1>1, <2>1, <2>2, <2>4, <3>1, <3>2 DEF ReleasedByRaise
  <2>. QED  BY <2>3, <2>4
<1>7. Serves(t)
  BY <1>1 DEF Serves
<1>. QED  BY <1>1, <1>4, <1>5, <1>6, <1>7, TaskStep

-----------------------------------------------------------------------------

LEMMA FoundProvider ==
  ASSUME RegistryTypes, NEW c \in Containers, NEW k \in Keys
  PROVE  /\ FindProviderWithOwner(c, k).prov \in Providers \cup {None}
         /\ FindProviderWithOwner(c, k).owner \in Containers
<1>1. \A d \in Containers : Own(d, k) \in Providers \cup {None}
  BY DEF RegistryTypes, Own
<1>2. Parent[c] # None => Parent[c] \in Containers
  BY DEF Parent, Containers
<1>3. k \in DOMAIN Classes => Classes[k] \in Providers
  BY ContainerAssumption
<1>4. CASE Own(c, k) # None
  BY <1>1, <1>4 DEF FindProviderWithOwner
<1>5. CASE Own(c, k) = None /\ Parent[c] # None /\ Own(Parent[c], k) # None
  BY <1>1, <1>2, <1>5 DEF FindProviderWithOwner
<1>6. CASE Own(c, k) = None /\ ~(Parent[c] # None /\ Own(Parent[c], k) # None)
  BY <1>3, <1>6 DEF FindProviderWithOwner
<1>. QED  BY <1>4, <1>5, <1>6

\* A frame that _resolve begins with: it does no work, and unless it raises its key is not in flight.
Fresh(t, f) ==
  /\ f \in Frames /\ f.at \in {"produce", "raise"}
  /\ f.at \notin {"raise", "fail"} => f.prov # None /\ \A i \in Depth(t) : stack[t][i].key # f.key

LEMMA NewFrameIsFresh ==
  ASSUME RegistryTypes, TaskTypes, NEW t \in Tasks, NEW c \in Containers, NEW k \in Keys, NEW s \in Scopes \cup {None}
  PROVE  Fresh(t, NewFrame(t, c, k, s))
<1>. DEFINE found == FindProviderWithOwner(c, k)
            where == IF k \in InFlight(t) \/ found.prov = None THEN "raise" ELSE "produce"
            f == [key |-> k, scope |-> s, prov |-> found.prov, owner |-> found.owner, next |-> 1, at |-> where]
<1>1. found.prov \in Providers \cup {None} /\ found.owner \in Containers
  BY FoundProvider
<1>2. NewFrame(t, c, k, s) = f
  BY DEF NewFrame
<1>3. /\ where \in {"produce", "raise"}
      /\ where \notin {"raise", "fail"} => found.prov # None /\ k \notin InFlight(t)
  OBVIOUS
<1>4. \A i \in Depth(t) : stack[t][i].key \in InFlight(t)
  BY DEF InFlight, Depth, TaskTypes
<1>. HIDE DEF found, where
<1>5. f \in Frames /\ f.at = where /\ f.key = k /\ f.prov = found.prov
  BY <1>1, <1>3 DEF Frames
<1>. HIDE DEF f
<1>6. f.at \notin {"raise", "fail"} => f.prov # None /\ \A i \in Depth(t) : stack[t][i].key # f.key
  BY <1>3, <1>4, <1>5
<1>7. Fresh(t, f)
  BY <1>3, <1>5, <1>6 DEF Fresh
<1>. QED  BY <1>2, <1>7

LEMMA NextDepStep ==
  ASSUME ContainerInv, NEW t \in Tasks, NextDep(t)
  PROVE  ContainerInv'
<1>. DEFINE f == Top(t)
            n == Len(stack[t])
            new == NewFrame(t, task[t].self, f.prov.deps[f.next], PassedScope(f))
<1>1. /\ stack[t] # <<>> /\ f.at = "call" /\ f.next <= Len(f.prov.deps)
      /\ stack' = [stack EXCEPT ![t] = Append(stack[t], new)]
      /\ UNCHANGED <<registry, single, lock, cache, homes, insts, late, reset, served, task>>
  BY DEF NextDep, At, MayRun, ghosts
<1>2. TaskTypes /\ RegistryTypes /\ HomeTypes /\ task[t].self \in Containers
  BY DEF ContainerInv, ContainerTypes, TaskTypes
<1>3. /\ f \in Frames /\ f.prov \in Providers /\ f.scope \in Scopes \cup {None}
      /\ n \in Depth(t) /\ stack[t][n] = f
  BY <1>1, TopFrame
<1>. HIDE DEF f
<1>4. Fresh(t, new)
  <2>1. f.prov.deps \in Seq(Keys) /\ f.next \in Nat \ {0}
    BY <1>3 DEF Frames, Providers
  <2>2. f.prov.deps[f.next] \in Keys
    BY <1>1, <2>1
  <2>3. PassedScope(f) \in Scopes \cup {None}
    BY <1>3 DEF PassedScope
  <2>. QED  BY <1>2, <2>2, <2>3, NewFrameIsFresh
<1>. HIDE DEF new
<1>5. stack \in [Tasks -> Seq(Frames)] /\ stack[t] \in Seq(Frames) /\ n \in Nat /\ new \in Frames
  BY <1>2, <1>4 DEF TaskTypes, Fresh
<1>6. /\ stack' \in [Tasks -> Seq(Frames)] /\ \A u \in Tasks : u # t => stack'[u] = stack[u]
      /\ Len(stack'[t]) = n + 1 /\ stack'[t][n + 1] = new /\ \A i \in 1 .. n : stack'[t][i] = stack[t][i]
  BY <1>1, <1>5
<1>7. \A i \in 1 .. Len(stack'[t]) : i # n + 1 => i \in Depth(t) /\ stack'[t][i] = stack[t][i]
  BY <1>5, <1>6 DEF Depth
<1>8. \A i \in Depth(t) : stack[t][i].at = "call"
  BY <1>1, <1>3, <1>5 DEF ContainerInv, StackShape, Depth
<1>. HIDE DEF n
<1>9. StackShape'
  <2>. SUFFICES ASSUME NEW u \in Tasks, NEW i \in 1 .. Len(stack'[u])
                PROVE  /\ stack'[u][i].at \notin {"raise", "fail"} => stack'[u][i].prov # None
                       /\ stack'[u][i].at = "lock" => stack'[u][i].prov.life = "singleton"
                       /\ i < Len(stack'[u]) => stack'[u][i].at = "call"
                       /\ \A j \in 1 .. Len(stack'[u]) :
                            i # j /\ stack'[u][i].at \notin {"raise", "fail"} /\ stack'[u][j].at \notin {"raise", "fail"} =>
                              stack'[u][i].key # stack'[u][j].key
    BY DEF StackShape, Depth
  <2>1. CASE u # t
    BY <1>6, <2>1 DEF ContainerInv, StackShape, Depth
  <2>2. CASE u = t
    <3>1. CASE i = n + 1
      <4>1. stack'[u][i] = new /\ ~(i < Len(stack'[u]))
        BY <1>5, <1>6, <2>2, <3>1
      <4>. QED  BY <1>4, <1>7, <2>2, <3>1, <4>1 DEF Fresh
    <3>2. CASE i # n + 1
      <4>1. i \in Depth(t) /\ stack'[t][i] = stack[t][i]
        BY <1>7, <2>2, <3>2
      <4>2. ASSUME NEW j \in 1 .. Len(stack'[t]), i # j, stack'[t][i].at \notin {"raise", "fail"}, stack'[t][j].at \notin {"raise", "fail"}
            PROVE  stack'[t][i].key # stack'[t][j].key
        <5>1. CASE j = n + 1
          BY <1>4, <1>6, <4>1, <4>2, <5>1 DEF Fresh
        <5>2. CASE j # n + 1
          BY <1>7, <4>1, <4>2, <5>2 DEF ContainerInv, StackShape
        <5>. QED  BY <5>1, <5>2
      <4>. QED  BY <1>8, <2>2, <4>1, <4>2 DEF ContainerInv, StackShape
    <3>. QED  BY <3>1, <3>2
  <2>. QED  BY <2>1, <2>2
<1>10. ~NewWork
  <2>. SUFFICES ASSUME NEW u \in Tasks, NEW i \in 1 .. Len(stack'[u]), Works(stack'[u][i]) PROVE Carried(u, i)
    BY DEF NewWork
  <2>1. ~(u = t /\ i = n + 1)
    BY <1>4, <1>6 DEF Fresh, Works
  <2>2. i \in Depth(u) /\ stack'[u][i] = stack[u][i]
    BY <1>6, <1>7, <2>1 DEF Depth
  <2>. QED  BY <2>2 DEF Carried
<1>11. TaskTypes'
  BY <1>1, <1>2, <1>6 DEF TaskTypes
<1>12. Serves(t) /\ Opens /\ UNCHANGED <<disposers, left, disposed>>
  BY <1>1, <1>2 DEF Serves, Opens, homes, HomeTypes
<1>. QED  BY <1>1, <1>9, <1>10, <1>11, <1>12, LocksUnchanged, WorkStays

\* A resolution begins.
LEMMA ResolveStep ==
  ASSUME ContainerInv, NEW t \in Tasks, NEW c \in Containers, NEW k \in Keys, NEW s \in Scopes \cup {None},
         Resolve(t, c, k, s) \/ ResolveSync(t, c, k, s)
  PROVE  ContainerInv'
<1>. DEFINE new == NewFrame(t, c, k, s)
<1>1. /\ OpenScope(s)
      /\ UNCHANGED <<registry, single, lock, cache, disposers, left, disposed, insts, late, reset, served>>
      /\ \/ /\ \E sync \in BOOLEAN : task' = [task EXCEPT ![t] = [state |-> "resolving", self |-> c, sync |-> sync]]
            /\ stack' = [stack EXCEPT ![t] = <<new>>]
         \/ task' = [task EXCEPT ![t].state = "error"] /\ UNCHANGED stack
  BY DEF Resolve, ResolveSync, ghosts
<1>2. TaskTypes /\ RegistryTypes /\ HomeTypes
  BY DEF ContainerInv, ContainerTypes
<1>3. Fresh(t, new)
  BY <1>2, NewFrameIsFresh
<1>. HIDE DEF new
<1>4. Opens
  BY <1>1, <1>2 DEF OpenScope, Opens, HomeTypes, Homes
<1>5. Serves(t)
  BY <1>1 DEF Serves
<1>6. CASE task' = [task EXCEPT ![t].state = "error"] /\ UNCHANGED stack
  <2>1. TaskTypes'
    BY <1>2, <1>6 DEF TaskTypes
  <2>2. StackShape' /\ ~NewWork
    BY <1>6 DEF ContainerInv, StackShape, Depth, NewWork, Carried
  <2>. QED  BY <1>1, <1>4, <1>5, <2>1, <2>2, LocksUnchanged, WorkStays
<1>7. CASE /\ \E sync \in BOOLEAN : task' = [task EXCEPT ![t] = [state |-> "resolving", self |-> c, sync |-> sync]]
           /\ stack' = [stack EXCEPT ![t] = <<new>>]
  <2>1. new \in Frames /\ stack \in [Tasks -> Seq(Frames)]
    BY <1>2, <1>3 DEF Fresh, TaskTypes
  <2>2. /\ stack' \in [Tasks -> Seq(Frames)] /\ \A u \in Tasks : u # t => stack'[u] = stack[u]
        /\ Len(stack'[t]) = 1 /\ stack'[t][1] = new
    BY <1>7, <2>1
  <2>3. task' \in [Tasks -> [state : {"idle", "resolving", "value", "error"}, self : Containers, sync : BOOLEAN]]
    BY <1>2, <1>7 DEF TaskTypes
  <2>4. TaskTypes'
    BY <2>2, <2>3 DEF TaskTypes
  <2>5. \A u \in Tasks : \A i \in 1 .. Len(stack'[u]) :
          IF u = t THEN i = 1 /\ stack'[u][i] = new ELSE i \in Depth(u) /\ stack'[u][i] = stack[u][i]
    BY <2>2 DEF Depth
  <2>6. StackShape'
    BY <1>3, <2>2, <2>5 DEF ContainerInv, StackShape, Depth, Fresh
  <2>7. ~NewWork
    BY <1>3, <2>5 DEF NewWork, Carried, Works, Fresh
  <2>. QED  BY <1>1, <1>4, <1>5, <2>4, <2>6, <2>7, LocksUnchanged, WorkStays
<1>. QED  BY <1>1, <1>6, <1>7

-----------------------------------------------------------------------------
(* The value is stored                                                     *)

\* What Store adds to a home.
Stores(h, i, k) ==
  /\ insts' = insts \/ (insts' = Append(insts, [key |-> k, home |-> h]) /\ i = Len(insts) + 1)
  /\ disposers' = IF h = None THEN disposers ELSE [disposers EXCEPT ![h] = Append(@, i)]
  /\ late' = IF h # None /\ phase[h] = "closing" THEN late \cup {i} ELSE late
  /\ UNCHANGED <<phase, left, disposed>>

LEMMA StoredHomes ==
  ASSUME HomeTypes, ClosingDone, DisposedUnlessLate, NEW h \in Homes \cup {None}, NEW i \in Nat, NEW k \in Keys,
         Stores(h, i, k)
  PROVE  HomeTypes' /\ ClosingDone' /\ DisposedUnlessLate'
<1>. DEFINE new == [key |-> k, home |-> h]
            R == [key : Keys, home : Homes \cup {None}]
<1>1. new \in R /\ new.home = h /\ \A x \in R : x.home \in Homes \cup {None}
  OBVIOUS
<1>2. insts' = insts \/ (insts' = Append(insts, new) /\ i = Len(insts) + 1)
  BY DEF Stores
<1>3. insts \in Seq(R) /\ Len(insts) \in Nat /\ DOMAIN insts = 1 .. Len(insts)
  BY DEF HomeTypes
<1>. HIDE DEF new, R
<1>4. insts' \in Seq(R)
  BY <1>1, <1>2, <1>3
<1>5. \A j \in DOMAIN insts' : (j \in DOMAIN insts /\ insts'[j] = insts[j]) \/ (j = i /\ insts'[j] = new)
  BY <1>2, <1>3
<1>6. CASE h = None
  <2>1. UNCHANGED <<disposers, left, disposed, late, phase>>
    BY <1>6 DEF Stores
  <2>2. HomeTypes'
    BY <1>4, <2>1 DEF HomeTypes, R
  <2>3. ClosingDone'
    BY <2>1 DEF ClosingDone
  <2>4. DisposedUnlessLate'
    BY <1>1, <1>5, <1>6, <2>1 DEF DisposedUnlessLate
  <2>. QED  BY <2>2, <2>3, <2>4
<1>7. CASE h # None
  <2>. DEFINE d == Append(disposers[h], i)
  <2>1. /\ disposers' = [disposers EXCEPT ![h] = d] /\ late' = (IF phase[h] = "closing" THEN late \cup {i} ELSE late)
        /\ UNCHANGED <<left, disposed, phase>> /\ h \in Homes
    BY <1>7 DEF Stores
  <2>2. disposers \in [Homes -> Seq(Nat)] /\ left \in [Homes -> Nat]
    BY DEF HomeTypes
  <2>3. /\ Len(disposers[h]) \in Nat /\ d \in Seq(Nat) /\ Len(d) = Len(disposers[h]) + 1
        /\ d[Len(disposers[h]) + 1] = i /\ \A n \in 1 .. Len(disposers[h]) : d[n] = disposers[h][n]
        /\ DOMAIN d = 1 .. (Len(disposers[h]) + 1) /\ DOMAIN disposers[h] = 1 .. Len(disposers[h])
    BY <2>1, <2>2
  <2>. HIDE DEF d
  <2>4. disposers' \in [Homes -> Seq(Nat)] /\ disposers'[h] = d /\ \A g \in Homes : g # h => disposers'[g] = disposers[g]
    BY <2>1, <2>2, <2>3
  <2>5. HomeTypes'
    BY <1>4, <2>1, <2>4 DEF HomeTypes, R
  <2>6. ClosingDone'
    <3>. SUFFICES ASSUME NEW g \in Homes, phase[g] = "closing"
                  PROVE  /\ left[g] <= Len(disposers'[g])
                         /\ \A n \in 1 .. Len(disposers'[g]) : n > left[g] => disposers'[g][n] \in disposed \cup late'
      BY <2>1 DEF ClosingDone
    <3>1. /\ left[g] <= Len(disposers[g]) /\ left[g] \in Nat
          /\ \A n \in 1 .. Len(disposers[g]) : n > left[g] => disposers[g][n] \in disposed \cup late
      BY <2>2 DEF ClosingDone
    <3>2. CASE g # h
      BY <2>1, <2>4, <3>1, <3>2
    <3>3. CASE g = h
      <4>1. i \in late' /\ late \subseteq late'
        BY <2>1, <3>3
      <4>2. left[g] <= Len(d)
        BY <2>3, <3>1, <3>3
      <4>3. ASSUME NEW n \in 1 .. Len(d), n > left[g] PROVE d[n] \in disposed \cup late'
        <5>1. n = Len(disposers[h]) + 1 \/ n \in 1 .. Len(disposers[h])
          BY <2>3
        <5>. QED  BY <2>3, <3>1, <3>3, <4>1, <4>3, <5>1
      <4>. QED  BY <2>4, <3>3, <4>2, <4>3
    <3>. QED  BY <3>2, <3>3
  <2>7. \A g \in Homes : \A x \in Nat :
          (\A n \in DOMAIN disposers'[g] : disposers'[g][n] # x) =>
            /\ \A n \in DOMAIN disposers[g] : disposers[g][n] # x
            /\ g = h => x # i
    <3>. SUFFICES ASSUME NEW g \in Homes, NEW x \in Nat, \A n \in DOMAIN disposers'[g] : disposers'[g][n] # x
                  PROVE  (\A n \in DOMAIN disposers[g] : disposers[g][n] # x) /\ (g = h => x # i)
      OBVIOUS
    <3>1. CASE g # h
      BY <2>4, <3>1
    <3>2. CASE g = h
      <4>1. \A n \in DOMAIN d : d[n] # x
        BY <2>4, <3>2
      <4>2. Len(disposers[h]) + 1 \in DOMAIN d /\ \A n \in DOMAIN disposers[h] : n \in DOMAIN d
        BY <2>3
      <4>. QED  BY <2>3, <3>2, <4>1, <4>2
    <3>. QED  BY <3>1, <3>2
  <2>8. DisposedUnlessLate'
    <3>. SUFFICES ASSUME NEW j \in DOMAIN insts', insts'[j].home # None,
                         \A n \in DOMAIN disposers'[insts'[j].home] : disposers'[insts'[j].home][n] # j
                  PROVE  j \in disposed' \cup late'
      BY DEF DisposedUnlessLate
    <3>1. j \in Nat /\ insts'[j].home \in Homes
      <4>1. insts'[j] \in R /\ j \in Nat
        BY <1>4
      <4>. QED  BY <1>1, <4>1
    <3>2. CASE j = i /\ insts'[j] = new
      BY <1>1, <2>7, <3>1, <3>2
    <3>3. CASE j \in DOMAIN insts /\ insts'[j] = insts[j]
      <4>1. \A n \in DOMAIN disposers[insts[j].home] : disposers[insts[j].home][n] # j
        BY <2>7, <3>1, <3>3
      <4>2. j \in disposed \cup late
        BY <3>3, <4>1 DEF DisposedUnlessLate
      <4>. QED  BY <2>1, <4>2
    <3>. QED  BY <1>5, <3>2, <3>3
  <2>. QED  BY <2>5, <2>6, <2>8
<1>. QED  BY <1>6, <1>7

\* A task stores in a scope that is open the one instance it builds of a key.
LEMMA StoredInScope ==
  ASSUME NEW t \in Tasks, NEW s \in Scopes, NEW k \in Keys, NEW i \in Nat, ScopeServed(s, k),
         served' = served \cup {<<s, k, i, t>>}, cache'[s][k] = i, phase[s] = "open", phase' = phase,
         Builds(t, s, k), ~Builds(t, s, k)', \A u \in Tasks : Builds(u, s, k)' => Builds(u, s, k)
  PROVE  ScopeServed(s, k)'
<1>1. PICK I : I = Instances(s, k)
  OBVIOUS
<1>2. i # None
  BY ContainerAssumption
<1>3. Instances(s, k)' = I \cup {i}
  BY <1>1, InstancesGrow
<1>4. PICK f \in [I -> Tasks] : Builders(s, k, f)
  BY <1>1 DEF ScopeServed
<1>5. /\ \A j, n \in I : f[j] = f[n] => j = n
      /\ \A j \in I : <<s, k, j, f[j]>> \in served
      /\ \A j \in I : ~Builds(f[j], s, k)
  BY <1>1, <1>4 DEF Builders
<1>6. PICK g \in [I \cup {i} -> Tasks] : \A j \in I \cup {i} : g[j] = IF j \in I THEN f[j] ELSE t
  <2>. DEFINE h == [j \in I \cup {i} |-> IF j \in I THEN f[j] ELSE t]
  <2>1. h \in [I \cup {i} -> Tasks] /\ \A j \in I \cup {i} : h[j] = IF j \in I THEN f[j] ELSE t
    BY <1>4
  <2>. QED  BY <2>1
<1>7. (i \notin I => g[i] = t) /\ \A j \in I : g[j] = f[j]
  BY <1>6
<1>8. \A j \in I : f[j] # t
  BY <1>5
<1>9. \A j, n \in I \cup {i} : g[j] = g[n] => j = n
  BY <1>5, <1>6, <1>7, <1>8
<1>10. \A j \in I \cup {i} : <<s, k, j, g[j]>> \in served'
  BY <1>5, <1>6, <1>7
<1>11. \A j \in I \cup {i} : ~Builds(g[j], s, k)'
  <2>. SUFFICES ASSUME NEW j \in I \cup {i} PROVE ~Builds(g[j], s, k)'
    OBVIOUS
  <2>1. CASE j \in I
    <3>1. ~Builds(f[j], s, k) /\ f[j] \in Tasks /\ g[j] = f[j]
      BY <1>4, <1>5, <1>7, <2>1
    <3>2. ~Builds(f[j], s, k)'
      BY <3>1
    <3>. QED  BY <3>1, <3>2
  <2>2. CASE j \notin I
    <3>1. g[j] = t
      BY <1>7, <2>2
    <3>. QED  BY <3>1
  <2>. QED  BY <2>1, <2>2
<1>12. Builders(s, k, g)'
  BY <1>3, <1>6, <1>9, <1>10, <1>11 DEF Builders
<1>. QED  BY <1>2, <1>3, <1>6, <1>12 DEF ScopeServed

LEMMA StoreStep ==
  ASSUME ContainerInv, NEW t \in Tasks, Store(t)
  PROVE  ContainerInv'
<1>. DEFINE f == Top(t)
            n == Len(stack[t])
            i == IF f.prov.instance # None THEN f.prov.instance ELSE Len(insts) + 1
            h == Home(f)
<1>1. stack[t] # <<>> /\ f.at = "store"
  BY DEF Store, At, MayRun
<1>2. /\ h \in Scopes => phase[h] = "open"
      /\ single' = IF f.prov.life = "singleton" THEN [single EXCEPT ![f.owner][f.key] = i] ELSE single
      /\ cache' = IF f.prov.life = "scoped" THEN [cache EXCEPT ![f.scope][f.key] = i] ELSE cache
      /\ lock' = [lock EXCEPT ![f.owner] = IF f.prov.life = "singleton" THEN None ELSE @]
      /\ Serve(t, i) /\ Return(t) /\ UNCHANGED <<registry, phase, left, disposed, reset>>
  BY DEF Store, Release
<1>3. Stores(h, i, f.key)
  <2>1. insts' = insts \/ (insts' = Append(insts, [key |-> f.key, home |-> h]) /\ i = Len(insts) + 1)
    BY DEF Store
  <2>2. disposers' = IF h = None THEN disposers ELSE [disposers EXCEPT ![h] = Append(@, i)]
    BY DEF Store, RegisterDisposer
  <2>3. late' = IF h # None /\ phase[h] = "closing" THEN late \cup {i} ELSE late
    BY DEF Store
  <2>. QED  BY <1>2, <2>1, <2>2, <2>3 DEF Stores
<1>4. RegistryTypes /\ CacheTypes /\ HomeTypes /\ TaskTypes
  BY DEF ContainerInv, ContainerTypes
<1>5. /\ f \in Frames /\ f.key \in Keys /\ f.owner \in Containers /\ f.scope \in Scopes \cup {None}
      /\ f.prov \in Providers /\ f.prov.life \in Lifetimes /\ n \in Depth(t) /\ stack[t][n] = f
  BY <1>1, TopFrame
<1>6. i \in Nat /\ i # None
  <2>1. f.prov.instance \in Nat \cup {None} /\ Len(insts) \in Nat
    BY <1>4, <1>5 DEF Providers, HomeTypes
  <2>2. i \in Nat
    BY <2>1
  <2>. QED  BY <2>2, ContainerAssumption
<1>. HIDE DEF i
<1>7. /\ f.prov.life = "singleton" => h = f.owner
      /\ f.prov.life = "scoped" => h = f.scope
      /\ f.prov.life = "transient" => h = None
  BY <1>5, HomeOf
<1>8. h \in Homes \cup {None}
  BY <1>5, <1>7 DEF Homes, Lifetimes
<1>9. served' = IF h = None THEN served ELSE served \cup {<<h, f.key, i, t>>}
  BY <1>2 DEF Serve
<1>. HIDE DEF h, f
<1>10. Reframe(t) /\ NoneBegins(t) /\ Len(stack'[t]) = n - 1 /\ TaskTypes'
  BY <1>1, <1>2, <1>4, Returns
<1>11. ~NewWork /\ StackShape'
  <2>1. NoneRecovers(t)
    BY <1>10 DEF NoneBegins, NoneRecovers
  <2>. QED  BY <1>4, <1>10, <2>1, WorkCarried, ReframedShape DEF ContainerInv
<1>12. HomeTypes' /\ ClosingDone' /\ DisposedUnlessLate'
  BY <1>3, <1>4, <1>5, <1>6, <1>8, StoredHomes DEF ContainerInv
<1>13. RegistryTypes'
  BY <1>2, <1>4 DEF RegistryTypes, registry
<1>14. CacheTypes'
  <2>1. single' \in [Containers -> [Keys -> Nat \cup {None}]]
    BY <1>2, <1>4, <1>5, <1>6 DEF CacheTypes
  <2>2. cache' \in [Scopes -> [Keys -> Nat \cup {None}]]
    BY <1>2, <1>4, <1>5, <1>6 DEF CacheTypes
  <2>3. lock' \in [Containers -> Tasks \cup {None}]
    BY <1>2, <1>4, <1>5 DEF CacheTypes
  <2>4. served' \in SUBSET (Homes \X Keys \X Nat \X Tasks)
    BY <1>4, <1>5, <1>6, <1>8, <1>9 DEF CacheTypes
  <2>. QED  BY <2>1, <2>2, <2>3, <2>4 DEF CacheTypes
<1>15. \A j \in 1 .. Len(stack'[t]) : j # n
  BY <1>5, <1>10 DEF Depth
<1>16. served \subseteq served'
  BY <1>9
<1>17. LockKept' /\ SingleServed'
  <2>1. CASE f.prov.life = "singleton"
    <3>1. Holding(f)
      BY <1>1, <2>1 DEF Holding, f
    <3>2. /\ lock[f.owner] = t /\ (single[f.owner][f.key] = None \/ <<f.owner, f.key>> \in reset)
          /\ \A j \in Depth(t) : j # n /\ Holding(stack[t][j]) => stack[t][j].owner # f.owner
      BY <1>5, <3>1 DEF ContainerInv, LockKept
    <3>3. /\ single'[f.owner][f.key] = i /\ \A c \in Containers : c # f.owner => single'[c] = single[c] /\ lock'[c] = lock[c]
          /\ \A k \in Keys : k # f.key => single'[f.owner][k] = single[f.owner][k]
      BY <1>2, <1>4, <1>5, <2>1 DEF CacheTypes
    <3>4. ASSUME NEW u \in Tasks, NEW j \in 1 .. Len(stack'[u]), j \in Depth(u), Holding(stack[u][j])
          PROVE  /\ lock'[stack[u][j].owner] = u
                 /\ \/ single'[stack[u][j].owner][stack[u][j].key] = single[stack[u][j].owner][stack[u][j].key]
                    \/ <<stack[u][j].owner, stack[u][j].key>> \in reset'
      <4>1. lock[stack[u][j].owner] = u
        BY <3>4 DEF ContainerInv, LockKept
      <4>2. stack[u][j].owner \in Containers
        <5>1. stack[u][j] \in Frames
          BY <1>4, <3>4 DEF TaskTypes, Depth
        <5>. QED  BY <5>1 DEF Frames
      <4>3. stack[u][j].owner # f.owner
        BY <1>15, <3>2, <3>4, <4>1
      <4>. QED  BY <3>3, <4>1, <4>2, <4>3
    <3>5. LockKept'
      BY <1>2, <1>11, <3>4, LocksStay DEF ContainerInv
    <3>6. ASSUME NEW x \in served', x[1] \in Containers, <<x[1], x[2]>> \notin reset' PROVE x[3] = single'[x[1]][x[2]]
      <4>1. x[2] \in Keys /\ x[3] \in Nat
        BY <1>14, <3>6 DEF CacheTypes
      <4>2. CASE x \in served
        <5>1. x[3] = single[x[1]][x[2]]
          BY <1>2, <3>6, <4>2 DEF ContainerInv, SingleServed
        <5>2. x[1] # f.owner \/ x[2] # f.key
          BY <1>2, <3>2, <3>6, <4>1, <5>1, ContainerAssumption
        <5>. QED  BY <3>3, <3>6, <4>1, <5>1, <5>2
      <4>3. CASE x = <<h, f.key, i, t>>
        <5>1. x[1] = h /\ x[2] = f.key /\ x[3] = i
          BY <4>3
        <5>. QED  BY <1>7, <2>1, <3>3, <5>1
      <4>. QED  BY <1>9, <4>2, <4>3
    <3>7. SingleServed'
      BY <1>2, <3>6 DEF ContainerInv, SingleServed, registry
    <3>. QED  BY <3>5, <3>7
  <2>2. CASE f.prov.life # "singleton"
    <3>1. single' = single /\ lock' = lock
      BY <1>2, <1>4, <2>2 DEF CacheTypes
    <3>2. LockKept'
      BY <1>2, <1>11, <3>1, LocksStay DEF ContainerInv, LockKept
    <3>3. h \notin Containers
      BY <1>5, <1>7, <2>2, ContainerAssumption DEF Lifetimes
    <3>4. \A x \in served' : x \in served \/ (x[1] \in Containers => x[3] = single'[x[1]][x[2]])
      <4>. SUFFICES ASSUME NEW x \in served', x \notin served PROVE x[1] \notin Containers
        OBVIOUS
      <4>1. x = <<h, f.key, i, t>>
        BY <1>9
      <4>2. x[1] = h
        BY <4>1
      <4>. QED  BY <3>3, <4>2
    <3>5. SingleServed'
      BY <1>2, <1>14, <3>1, <3>4, SinglesStay DEF ContainerInv, registry
    <3>. QED  BY <3>2, <3>5
  <2>. QED  BY <2>1, <2>2
<1>18. ScopesServed'
  <2>. SUFFICES ASSUME NEW s \in Scopes, NEW k \in Keys PROVE ScopeServed(s, k)'
    BY DEF ScopesServed
  <2>1. ScopeServed(s, k) /\ \A u \in Tasks : Builds(u, s, k)' => Builds(u, s, k)
    BY <1>11, BuildsStay DEF ContainerInv, ScopesServed
  <2>2. CASE f.prov.life = "scoped" /\ s = f.scope /\ k = f.key
    <3>1. h = s /\ h # None /\ phase[s] = "open"
      BY <1>2, <1>7, <2>2, ContainerAssumption
    <3>2. served' = served \cup {<<s, k, i, t>>} /\ cache'[s][k] = i
      BY <1>2, <1>4, <1>9, <2>2, <3>1 DEF CacheTypes
    <3>3. Builds(t, s, k)
      <4>1. Building(f, s, k)
        BY <1>1, <2>2 DEF Building, f
      <4>. QED  BY <1>5, <4>1 DEF Builds
    <3>4. ~Builds(t, s, k)'
      <4>. SUFFICES ASSUME NEW j \in 1 .. Len(stack'[t]), Building(stack'[t][j], s, k) PROVE FALSE
        BY DEF Builds, Depth
      <4>1. Works(stack'[t][j])
        BY DEF Building, Works
      <4>2. Carried(t, j)
        BY <1>11, <4>1 DEF NewWork
      <4>3. j \in Depth(t) /\ j # n /\ stack[t][j].key = k /\ stack[t][j].at \notin {"raise", "fail"}
        BY <1>15, <4>2 DEF Carried, Building, Works
      <4>4. f.at \notin {"raise", "fail"}
        BY <1>1 DEF f
      <4>. QED  BY <1>5, <2>2, <4>3, <4>4 DEF ContainerInv, StackShape
    <3>. QED  BY <1>2, <1>6, <2>1, <3>1, <3>2, <3>3, <3>4, StoredInScope
  <2>3. CASE ~(f.prov.life = "scoped" /\ s = f.scope /\ k = f.key)
    <3>1. cache'[s][k] = cache[s][k]
      BY <1>2, <1>4, <2>3 DEF CacheTypes
    <3>2. ~(h = s /\ k = f.key)
      BY <1>5, <1>7, <2>3, ContainerAssumption DEF Lifetimes
    <3>3. Instances(s, k)' = Instances(s, k)
      <4>1. CASE h = None
        BY <1>9, <4>1 DEF Instances
      <4>2. CASE h # None
        <5>1. PICK g, j, x : g = h /\ j = f.key /\ x = i
          OBVIOUS
        <5>2. served' = served \cup {<<g, j, x, t>>}
          BY <1>9, <4>2, <5>1
        <5>3. s # g \/ k # j
          BY <3>2, <5>1
        <5>. QED  BY <5>2, <5>3, InstancesSame
      <4>. QED  BY <4>1, <4>2
    <3>4. ScopeSame(s, k)
      BY <1>2, <2>1, <3>1, <3>3 DEF ScopeSame
    <3>. QED  BY <1>16, <2>1, <3>4, ScopeStays
  <2>. QED  BY <2>2, <2>3
<1>. QED  BY <1>10, <1>11, <1>12, <1>13, <1>14, <1>17, <1>18 DEF ContainerInv, ContainerTypes

-----------------------------------------------------------------------------
(* Registration, overrides, closing                                        *)

\* A step between two awaits: no task moves, and a cached singleton changes only on record.
LEMMA HousekeepingStep ==
  ASSUME ContainerInv, UNCHANGED <<stack, task, lock, served>>, reset \subseteq reset',
         RegistryTypes', HomeTypes', CacheTypes', ClosingDone', DisposedUnlessLate',
         \A c \in Containers, k \in Keys : single'[c][k] = single[c][k] \/ <<c, k>> \in reset',
         saved' = saved \/ saved' = None \/ <<saved'.at, saved'.key>> \in reset',
         \A s \in Scopes : cache'[s] = cache[s] \/ (phase'[s] = "closed" /\ \A k \in Keys : cache'[s][k] = None),
         \A s \in Scopes : phase'[s] \in {"new", "open"} => phase[s] \in {"new", "open"}
  PROVE  ContainerInv'
<1>1. TaskTypes /\ TaskTypes' /\ StackShape'
  BY DEF ContainerInv, ContainerTypes, TaskTypes, StackShape, Depth
<1>2. ~NewWork
  BY DEF NewWork, Carried, Depth
<1>3. LockKept'
  <2>1. ASSUME NEW u \in Tasks, NEW i \in 1 .. Len(stack'[u]), i \in Depth(u), Holding(stack[u][i])
        PROVE  /\ lock'[stack[u][i].owner] = u
               /\ \/ single'[stack[u][i].owner][stack[u][i].key] = single[stack[u][i].owner][stack[u][i].key]
                  \/ <<stack[u][i].owner, stack[u][i].key>> \in reset'
    <3>1. stack[u][i] \in Frames
      BY <1>1, <2>1 DEF TaskTypes, Depth
    <3>2. stack[u][i].owner \in Containers /\ stack[u][i].key \in Keys
      BY <3>1 DEF Frames
    <3>3. lock[stack[u][i].owner] = u
      BY <2>1 DEF ContainerInv, LockKept
    <3>. QED  BY <3>2, <3>3
  <2>. QED  BY <1>2, <2>1, LocksStay DEF ContainerInv
<1>4. SingleServed'
  BY SinglesStay DEF ContainerInv
<1>5. ScopesServed'
  <2>1. ASSUME NEW s \in Scopes, NEW k \in Keys PROVE ScopeSame(s, k)
    BY DEF ScopeSame, Instances, Builds, Depth
  <2>. QED  BY <2>1, ScopesStay DEF ContainerInv
<1>. QED  BY <1>1, <1>3, <1>4, <1>5 DEF ContainerInv, ContainerTypes

LEMMA MadeProvider ==
  ASSUME NEW impl \in Providers \cup {None}, NEW life \in Lifetimes, NEW i \in Nat, NEW p \in MakeProvider(impl, life, i)
  PROVE  p \in Providers
<1>1. CASE impl # None
  BY <1>1 DEF MakeProvider, Providers
<1>2. CASE impl = None
  <2>1. p = InstanceProvider(i)
    BY <1>2 DEF MakeProvider
  <2>. QED  BY <2>1 DEF InstanceProvider, Providers, Lifetimes
<1>. QED  BY <1>1, <1>2

\* What a caller passes in leaves the homes as they are.
LEMMA GivenHomes ==
  ASSUME ContainerInv, NEW k \in Keys, NEW impl, Given(k, impl), UNCHANGED <<homes, late>>
  PROVE  HomeTypes' /\ ClosingDone' /\ DisposedUnlessLate'
<1>. DEFINE new == [key |-> k, home |-> None]
            R == [key : Keys, home : Homes \cup {None}]
<1>1. HomeTypes /\ insts \in Seq(R) /\ new \in R
  BY DEF ContainerInv, ContainerTypes, HomeTypes
<1>2. insts' = insts \/ insts' = Append(insts, new)
  BY DEF Given
<1>. HIDE DEF new, R
<1>3. insts' \in Seq(R)
  BY <1>1, <1>2
<1>4. HomeTypes'
  BY <1>1, <1>3 DEF HomeTypes, homes, R
<1>5. insts' = insts \/ \E j : insts' = Append(insts, [key |-> j, home |-> None])
  BY <1>2 DEF new
<1>. QED  BY <1>1, <1>4, <1>5, HomesStay DEF ContainerInv, homes

LEMMA RegisterStep ==
  ASSUME ContainerInv, NEW c \in Containers, NEW k \in Keys, NEW impl \in Providers \cup {None},
         NEW life \in Lifetimes, Register(c, k, impl, life)
  PROVE  ContainerInv'
<1>1. /\ \E p \in MakeProvider(impl, life, Len(insts) + 1) : provider' = [provider EXCEPT ![c][k] = p]
      /\ Given(k, impl)
      /\ UNCHANGED <<override, saved, single, cache, homes, late, reset, stack, task, lock, served>>
  BY DEF Register
<1>2. RegistryTypes /\ CacheTypes /\ Len(insts) + 1 \in Nat
  BY DEF ContainerInv, ContainerTypes, HomeTypes
<1>3. PICK p \in Providers : provider' = [provider EXCEPT ![c][k] = p]
  BY <1>1, <1>2, MadeProvider
<1>4. RegistryTypes'
  BY <1>1, <1>2, <1>3 DEF RegistryTypes
<1>5. CacheTypes'
  BY <1>1, <1>2 DEF CacheTypes
<1>6. HomeTypes' /\ ClosingDone' /\ DisposedUnlessLate' /\ phase' = phase
  BY <1>1, GivenHomes DEF homes
<1>. QED  BY <1>1, <1>4, <1>5, <1>6, HousekeepingStep

LEMMA RegisterInstanceStep ==
  ASSUME ContainerInv, NEW c \in Containers, NEW k \in Keys, RegisterInstance(c, k)
  PROVE  ContainerInv'
<1>. DEFINE i == Len(insts) + 1
<1>1. /\ provider' = [provider EXCEPT ![c][k] = InstanceProvider(i)] /\ single' = [single EXCEPT ![c][k] = i]
      /\ Given(k, None) /\ reset' = reset \cup {<<c, k>>}
      /\ UNCHANGED <<override, saved, cache, homes, late, stack, task, lock, served>>
  BY DEF RegisterInstance
<1>2. RegistryTypes /\ CacheTypes /\ i \in Nat
  BY DEF ContainerInv, ContainerTypes, HomeTypes
<1>. HIDE DEF i
<1>3. InstanceProvider(i) \in Providers
  BY <1>2 DEF InstanceProvider, Providers, Lifetimes
<1>4. RegistryTypes'
  BY <1>1, <1>2, <1>3 DEF RegistryTypes
<1>5. CacheTypes' /\ \A d \in Containers, j \in Keys : single'[d][j] = single[d][j] \/ <<d, j>> \in reset'
  BY <1>1, <1>2 DEF CacheTypes
<1>6. HomeTypes' /\ ClosingDone' /\ DisposedUnlessLate' /\ phase' = phase
  BY <1>1, GivenHomes DEF homes
<1>. QED  BY <1>1, <1>4, <1>5, <1>6, HousekeepingStep

\* Steps that leave the homes alone.
LEMMA SameHomes ==
  ASSUME ContainerInv, UNCHANGED <<homes, late, insts>>
  PROVE  HomeTypes' /\ ClosingDone' /\ DisposedUnlessLate' /\ phase' = phase
  BY DEF ContainerInv, ContainerTypes, HomeTypes, ClosingDone, DisposedUnlessLate, homes

LEMMA ScanStep ==
  ASSUME ContainerInv, NEW c \in Containers, Scan(c)
  PROVE  ContainerInv'
<1>. DEFINE row == [k \in Keys |-> IF \E e \in Extra : e[1] = k THEN (CHOOSE e \in Extra : e[1] = k)[2] ELSE provider[c][k]]
<1>1. /\ provider' = [provider EXCEPT ![c] = row]
      /\ UNCHANGED <<override, saved, single, cache, homes, late, reset, stack, task, lock, served, insts>>
  BY DEF Scan, NoTaskMoves
<1>2. RegistryTypes /\ CacheTypes
  BY DEF ContainerInv, ContainerTypes
<1>3. row \in [Keys -> Providers \cup {None}]
  <2>. SUFFICES ASSUME NEW k \in Keys
                PROVE  (IF \E e \in Extra : e[1] = k THEN (CHOOSE e \in Extra : e[1] = k)[2] ELSE provider[c][k])
                         \in Providers \cup {None}
    OBVIOUS
  <2>1. provider[c][k] \in Providers \cup {None}
    BY <1>2 DEF RegistryTypes
  <2>2. ASSUME \E e \in Extra : e[1] = k PROVE (CHOOSE e \in Extra : e[1] = k)[2] \in Providers
    BY <2>2, ContainerAssumption
  <2>. QED  BY <2>1, <2>2
<1>. HIDE DEF row
<1>4. RegistryTypes'
  BY <1>1, <1>2, <1>3 DEF RegistryTypes
<1>5. CacheTypes'
  BY <1>1, <1>2 DEF CacheTypes
<1>6. HomeTypes' /\ ClosingDone' /\ DisposedUnlessLate' /\ phase' = phase
  BY <1>1, SameHomes
<1>. QED  BY <1>1, <1>4, <1>5, <1>6, HousekeepingStep

LEMMA OverrideEnterStep ==
  ASSUME ContainerInv, NEW c \in Containers, NEW k \in Keys, NEW impl \in Providers \cup {None},
         NEW life \in Lifetimes, OverrideEnter(c, k, impl, life)
  PROVE  ContainerInv'
<1>. DEFINE rec == [at |-> c, key |-> k, provider |-> override[c][k], single |-> single[c][k]]
<1>1. /\ saved' = rec /\ single' = [single EXCEPT ![c][k] = None]
      /\ \E p \in MakeProvider(impl, life, Len(insts) + 1) : override' = [override EXCEPT ![c][k] = p]
      /\ Given(k, impl) /\ reset' = reset \cup {<<c, k>>}
      /\ UNCHANGED <<provider, cache, homes, late, stack, task, lock, served>>
  BY DEF OverrideEnter
<1>2. RegistryTypes /\ CacheTypes /\ Len(insts) + 1 \in Nat
  BY DEF ContainerInv, ContainerTypes, HomeTypes
<1>3. PICK p \in Providers : override' = [override EXCEPT ![c][k] = p]
  BY <1>1, <1>2, MadeProvider
<1>4. rec \in SavedSet /\ rec.at = c /\ rec.key = k
  <2>1. override[c][k] \in Providers \cup {None} /\ single[c][k] \in Nat \cup {None}
    BY <1>2 DEF RegistryTypes, CacheTypes
  <2>. QED  BY <2>1 DEF SavedSet
<1>. HIDE DEF rec
<1>5. RegistryTypes'
  BY <1>1, <1>2, <1>3, <1>4 DEF RegistryTypes
<1>6. CacheTypes' /\ \A d \in Containers, j \in Keys : single'[d][j] = single[d][j] \/ <<d, j>> \in reset'
  BY <1>1, <1>2 DEF CacheTypes
<1>7. HomeTypes' /\ ClosingDone' /\ DisposedUnlessLate' /\ phase' = phase
  BY <1>1, GivenHomes DEF homes
<1>8. <<saved'.at, saved'.key>> \in reset'
  BY <1>1, <1>4
<1>. QED  BY <1>1, <1>5, <1>6, <1>7, <1>8, HousekeepingStep

LEMMA OverrideExitStep ==
  ASSUME ContainerInv, OverrideExit
  PROVE  ContainerInv'
<1>1. /\ saved # None /\ saved' = None
      /\ override' = [override EXCEPT ![saved.at][saved.key] = saved.provider]
      /\ single' = [single EXCEPT ![saved.at][saved.key] = saved.single]
      /\ UNCHANGED <<provider, cache, homes, late, reset, stack, task, lock, served, insts>>
  BY DEF OverrideExit, NoTaskMoves
<1>2. RegistryTypes /\ CacheTypes
  BY DEF ContainerInv, ContainerTypes
<1>3. saved \in SavedSet
  BY <1>1, <1>2 DEF RegistryTypes
<1>4. PICK c \in Containers, k \in Keys, p \in Providers \cup {None}, i \in Nat \cup {None} :
        saved.at = c /\ saved.key = k /\ saved.provider = p /\ saved.single = i
  BY <1>3 DEF SavedSet
<1>5. <<c, k>> \in reset
  BY <1>1, <1>4 DEF ContainerInv, SingleServed
<1>6. RegistryTypes'
  BY <1>1, <1>2, <1>4 DEF RegistryTypes
<1>7. CacheTypes' /\ \A d \in Containers, j \in Keys : single'[d][j] = single[d][j] \/ <<d, j>> \in reset'
  BY <1>1, <1>2, <1>4, <1>5 DEF CacheTypes
<1>8. HomeTypes' /\ ClosingDone' /\ DisposedUnlessLate' /\ phase' = phase
  BY <1>1, SameHomes
<1>. QED  BY <1>1, <1>6, <1>7, <1>8, HousekeepingStep

LEMMA CloseBeginStep ==
  ASSUME ContainerInv, NEW h \in Homes, CloseBegin(h)
  PROVE  ContainerInv'
<1>1. /\ phase[h] = "open" /\ phase' = [phase EXCEPT ![h] = "closing"] /\ left' = [left EXCEPT ![h] = Len(disposers[h])]
      /\ UNCHANGED <<registry, single, cache, disposers, disposed, late, reset, stack, task, lock, served, insts>>
  BY DEF CloseBegin, NoTaskMoves
<1>2. RegistryTypes /\ CacheTypes /\ HomeTypes /\ disposers[h] \in Seq(Nat) /\ Len(disposers[h]) \in Nat
  BY DEF ContainerInv, ContainerTypes, HomeTypes
<1>3. RegistryTypes' /\ CacheTypes' /\ UNCHANGED saved
  BY <1>1, <1>2 DEF RegistryTypes, CacheTypes, registry
<1>4. HomeTypes' /\ phase'[h] = "closing" /\ left'[h] = Len(disposers[h])
      /\ \A g \in Homes : g # h => phase'[g] = phase[g] /\ left'[g] = left[g]
  BY <1>1, <1>2 DEF HomeTypes
<1>5. ClosingDone'
  <2>. SUFFICES ASSUME NEW g \in Homes, phase'[g] = "closing"
                PROVE  /\ left'[g] <= Len(disposers[g])
                       /\ \A n \in 1 .. Len(disposers[g]) : n > left'[g] => disposers[g][n] \in disposed \cup late
    BY <1>1 DEF ClosingDone
  <2>1. CASE g = h
    BY <1>2, <1>4, <2>1
  <2>2. CASE g # h
    BY <1>4, <2>2 DEF ContainerInv, ClosingDone
  <2>. QED  BY <2>1, <2>2
<1>6. DisposedUnlessLate'
  BY <1>1 DEF ContainerInv, DisposedUnlessLate
<1>7. \A s \in Scopes : phase'[s] \in {"new", "open"} => phase[s] \in {"new", "open"}
  BY <1>4 DEF Homes
<1>. QED  BY <1>1, <1>3, <1>4, <1>5, <1>6, <1>7, HousekeepingStep

LEMMA CloseStepStep ==
  ASSUME ContainerInv, NEW h \in Homes, CloseStep(h)
  PROVE  ContainerInv'
<1>1. /\ phase[h] = "closing" /\ left[h] > 0 /\ disposed' = disposed \cup {disposers[h][left[h]]}
      /\ left' = [left EXCEPT ![h] = left[h] - 1]
      /\ UNCHANGED <<registry, single, cache, disposers, phase, late, reset, stack, task, lock, served, insts>>
  BY DEF CloseStep, NoTaskMoves
<1>2. RegistryTypes /\ CacheTypes /\ HomeTypes /\ left[h] \in Nat
  BY DEF ContainerInv, ContainerTypes, HomeTypes
<1>3. RegistryTypes' /\ CacheTypes' /\ UNCHANGED saved
  BY <1>1, <1>2 DEF RegistryTypes, CacheTypes, registry
<1>4. HomeTypes' /\ left'[h] = left[h] - 1 /\ \A g \in Homes : g # h => left'[g] = left[g]
  BY <1>1, <1>2 DEF HomeTypes
<1>5. ClosingDone'
  <2>. SUFFICES ASSUME NEW g \in Homes, phase[g] = "closing"
                PROVE  /\ left'[g] <= Len(disposers[g])
                       /\ \A n \in 1 .. Len(disposers[g]) : n > left'[g] => disposers[g][n] \in disposed' \cup late
    BY <1>1 DEF ClosingDone
  <2>1. /\ left[g] <= Len(disposers[g]) /\ Len(disposers[g]) \in Nat
        /\ \A n \in 1 .. Len(disposers[g]) : n > left[g] => disposers[g][n] \in disposed \cup late
    BY <1>2 DEF ContainerInv, ClosingDone, HomeTypes
  <2>2. CASE g = h
    <3>1. ASSUME NEW n \in 1 .. Len(disposers[h]), n > left[h] - 1 PROVE disposers[h][n] \in disposed' \cup late
      <4>1. n = left[h] \/ n > left[h]
        BY <1>2, <3>1
      <4>. QED  BY <1>1, <2>1, <2>2, <4>1
    <3>. QED  BY <1>2, <1>4, <2>1, <2>2, <3>1
  <2>3. CASE g # h
    BY <1>1, <1>4, <2>1, <2>3
  <2>. QED  BY <2>2, <2>3
<1>6. DisposedUnlessLate'
  BY <1>1 DEF ContainerInv, DisposedUnlessLate
<1>. QED  BY <1>1, <1>3, <1>4, <1>5, <1>6, HousekeepingStep

LEMMA CloseEndStep ==
  ASSUME ContainerInv, NEW h \in Homes, CloseEnd(h)
  PROVE  ContainerInv'
<1>. DEFINE nothing == [k \in Keys |-> None]
<1>1. /\ phase[h] = "closing" /\ left[h] = 0 /\ disposers' = [disposers EXCEPT ![h] = <<>>]
      /\ UNCHANGED <<registry, left, disposed, late, stack, task, lock, served, insts>>
      /\ \/ /\ h \in Scopes /\ phase' = [phase EXCEPT ![h] = "closed"] /\ cache' = [cache EXCEPT ![h] = nothing]
            /\ UNCHANGED <<single, reset>>
         \/ /\ h \notin Scopes /\ phase' = [phase EXCEPT ![h] = "open"] /\ single' = [single EXCEPT ![h] = nothing]
            /\ reset' = reset \cup ({h} \X Keys) /\ UNCHANGED cache
  BY DEF CloseEnd, NoTaskMoves
<1>2. RegistryTypes /\ CacheTypes /\ HomeTypes
  BY DEF ContainerInv, ContainerTypes
<1>3. RegistryTypes' /\ UNCHANGED saved
  BY <1>1, <1>2 DEF RegistryTypes, registry
<1>4. nothing \in [Keys -> Nat \cup {None}] /\ \A k \in Keys : nothing[k] = None
  OBVIOUS
<1>. HIDE DEF nothing
<1>5. /\ CacheTypes' /\ reset \subseteq reset'
      /\ \A c \in Containers, k \in Keys : single'[c][k] = single[c][k] \/ <<c, k>> \in reset'
  <2>1. CASE h \in Scopes
    <3>1. cache' = [cache EXCEPT ![h] = nothing] /\ UNCHANGED <<single, reset>>
      BY <1>1, <2>1
    <3>. QED  BY <1>1, <1>2, <1>4, <2>1, <3>1 DEF CacheTypes
  <2>2. CASE h \notin Scopes
    <3>1. single' = [single EXCEPT ![h] = nothing] /\ reset' = reset \cup ({h} \X Keys) /\ UNCHANGED cache
      BY <1>1, <2>2
    <3>2. \A c \in Containers : c # h => single'[c] = single[c]
      BY <1>2, <3>1 DEF CacheTypes
    <3>3. CacheTypes'
      BY <1>1, <1>2, <1>4, <3>1 DEF CacheTypes
    <3>. QED  BY <3>1, <3>2, <3>3
  <2>. QED  BY <2>1, <2>2
<1>6. /\ phase' \in [Homes -> {"new", "open", "closing", "closed"}] /\ phase'[h] # "closing"
      /\ \A g \in Homes : g # h => phase'[g] = phase[g]
      /\ h \in Scopes => phase'[h] = "closed"
  BY <1>1, <1>2 DEF HomeTypes
<1>7. HomeTypes' /\ disposers'[h] = <<>> /\ \A g \in Homes : g # h => disposers'[g] = disposers[g]
  BY <1>1, <1>2, <1>6 DEF HomeTypes
<1>8. ClosingDone'
  BY <1>1, <1>6, <1>7 DEF ContainerInv, ClosingDone
<1>9. \A n \in DOMAIN disposers[h] : disposers[h][n] \in disposed \cup late
  <2>1. disposers[h] \in Seq(Nat)
    BY <1>2 DEF HomeTypes
  <2>2. \A n \in 1 .. Len(disposers[h]) : n > left[h] => disposers[h][n] \in disposed \cup late
    BY <1>1 DEF ContainerInv, ClosingDone
  <2>. QED  BY <1>1, <2>1, <2>2
<1>10. DisposedUnlessLate'
  <2>. SUFFICES ASSUME NEW i \in DOMAIN insts, insts[i].home # None,
                       \A n \in DOMAIN disposers'[insts[i].home] : disposers'[insts[i].home][n] # i
                PROVE  i \in disposed \cup late
    BY <1>1 DEF DisposedUnlessLate
  <2>. DEFINE R == [key : Keys, home : Homes \cup {None}]
  <2>1. insts[i].home \in Homes
    <3>1. insts \in Seq(R) /\ \A x \in R : x.home \in Homes \cup {None}
      BY <1>2 DEF HomeTypes
    <3>. HIDE DEF R
    <3>2. insts[i] \in R
      BY <3>1
    <3>. QED  BY <3>1, <3>2
  <2>2. CASE insts[i].home = h
    BY <1>9, <2>2 DEF ContainerInv, DisposedUnlessLate
  <2>3. CASE insts[i].home # h
    BY <1>7, <2>1, <2>3 DEF ContainerInv, DisposedUnlessLate
  <2>. QED  BY <2>2, <2>3
<1>11. \A s \in Scopes : cache'[s] = cache[s] \/ (phase'[s] = "closed" /\ \A k \in Keys : cache'[s][k] = None)
  BY <1>1, <1>2, <1>4, <1>6 DEF CacheTypes
<1>12. \A s \in Scopes : phase'[s] \in {"new", "open"} => phase[s] \in {"new", "open"}
  BY <1>6 DEF Homes
<1>. QED  BY <1>1, <1>3, <1>5, <1>7, <1>8, <1>10, <1>11, <1>12, HousekeepingStep

LEMMA ContainerInits ==
  ASSUME ContainerInit
  PROVE  ContainerInv
<1>1. /\ RegistryTypes /\ CacheTypes
  BY ContainerAssumption DEF ContainerInit, RegistryTypes, CacheTypes
<1>2. HomeTypes /\ TaskTypes
  BY DEF ContainerInit, HomeTypes, TaskTypes, Homes, Containers
<1>3. StackShape /\ LockKept /\ SingleServed
  BY DEF ContainerInit, StackShape, LockKept, SingleServed, Depth
<1>4. ScopesServed
  <2>. SUFFICES ASSUME NEW s \in Scopes, NEW k \in Keys PROVE ScopeServed(s, k)
    BY DEF ScopesServed
  <2>1. Instances(s, k) = {} /\ cache[s][k] = None
    BY DEF Instances, ContainerInit
  <2>2. PICK f : f = [i \in {} |-> 0]
    OBVIOUS
  <2>3. f \in [Instances(s, k) -> Tasks]
    BY <2>1, <2>2
  <2>4. Builders(s, k, f)
    BY <2>1, <2>3 DEF Builders
  <2>. QED  BY <2>1, <2>3, <2>4 DEF ScopeServed
<1>5. ClosingDone /\ DisposedUnlessLate
  BY DEF ContainerInit, ClosingDone, DisposedUnlessLate, Homes
<1>. QED  BY <1>1, <1>2, <1>3, <1>4, <1>5 DEF ContainerInv, ContainerTypes

LEMMA ContainerNextStep ==
  ASSUME ContainerInv, [ContainerNext]_containerVars
  PROVE  ContainerInv'
<1>1. CASE UNCHANGED containerVars
  <2>1. UNCHANGED <<registry, single, lock, cache, homes, insts, ghosts, stack, task>>
    BY <1>1 DEF containerVars, registry, homes, ghosts
  <2>2. TaskTypes'
    BY <2>1 DEF ContainerInv, ContainerTypes, TaskTypes
  <2>. QED  BY <2>1, <2>2, QuietStep
<1>2. ASSUME NEW t \in Tasks, Step(t) PROVE ContainerInv'
  <2>1. CASE Produce(t)
    BY <2>1, ProduceStep
  <2>2. CASE Wait(t)
    BY <2>2, WaitStep
  <2>3. CASE SyncSuspends(t)
    BY <2>3, SyncSuspendsStep
  <2>4. CASE Acquire(t)
    BY <2>4, AcquireStep
  <2>5. CASE NextDep(t)
    BY <2>5, NextDepStep
  <2>6. CASE CallFactory(t)
    BY <2>6, CallFactoryStep
  <2>7. CASE Store(t)
    BY <2>7, StoreStep
  <2>8. CASE StoreRefused(t)
    BY <2>8, StoreRefusedStep
  <2>9. CASE Raise(t)
    BY <2>9, RaiseStep
  <2>10. CASE FactoryRaises(t)
    BY <2>10, FactoryRaisesStep
  <2>. QED  BY <1>2, <2>1, <2>2, <2>3, <2>4, <2>5, <2>6, <2>7, <2>8, <2>9, <2>10 DEF Step
<1>3. ASSUME NEW t \in Tasks, NEW c \in Containers, NEW k \in Keys, NEW s \in Scopes \cup {None},
             Resolve(t, c, k, s) \/ ResolveSync(t, c, k, s)
      PROVE  ContainerInv'
  BY <1>3, ResolveStep
<1>4. ASSUME NEW c \in Containers, NEW e \in Extra, RegisterInstance(c, e[1]) PROVE ContainerInv'
  <2>1. e[1] \in Keys
    BY ContainerAssumption
  <2>. QED  BY <1>4, <2>1, RegisterInstanceStep
<1>5. ASSUME NEW c \in Containers, NEW e \in Extra, NEW impl \in {e[2], None},
             \/ \E life \in Lifetimes : Register(c, e[1], impl, life)
             \/ OverrideEnter(c, e[1], impl, "singleton")
      PROVE  ContainerInv'
  <2>1. e[1] \in Keys /\ impl \in Providers \cup {None} /\ "singleton" \in Lifetimes
    BY ContainerAssumption DEF Lifetimes
  <2>. QED  BY <1>5, <2>1, RegisterStep, OverrideEnterStep
<1>6. ASSUME NEW c \in Containers, Scan(c) PROVE ContainerInv'
  BY <1>6, ScanStep
<1>7. ASSUME OverrideExit PROVE ContainerInv'
  BY <1>7, OverrideExitStep
<1>8. ASSUME NEW h \in Containers \cup Scopes, CloseBegin(h) \/ Closing(h) PROVE ContainerInv'
  BY <1>8, CloseBeginStep, CloseStepStep, CloseEndStep DEF Closing, Homes
<1>. QED  BY <1>1, <1>2, <1>3, <1>4, <1>5, <1>6, <1>7, <1>8 DEF ContainerNext

LEMMA SharedByInv ==
  ASSUME ContainerInv
  PROVE  InstancesShared
<1>. SUFFICES ASSUME NEW k \in Keys
              PROVE  /\ \A c \in Containers : <<c, k>> \notin reset => Cardinality(Instances(c, k)) <= 1
                     /\ \A s \in Scopes : Cardinality(Instances(s, k)) <= Cardinality(Resolvers(s, k))
  BY DEF InstancesShared
<1>1. ASSUME NEW c \in Containers, <<c, k>> \notin reset PROVE Cardinality(Instances(c, k)) <= 1
  <2>. DEFINE one == {single[c][k]}
  <2>1. Instances(c, k) \subseteq one
    BY <1>1 DEF Instances, ContainerInv, SingleServed
  <2>2. IsFiniteSet(one) /\ Cardinality(one) = 1
    BY FS_Singleton
  <2>. HIDE DEF one
  <2>. QED  BY <2>1, <2>2, FS_Subset
<1>2. ASSUME NEW s \in Scopes PROVE Cardinality(Instances(s, k)) <= Cardinality(Resolvers(s, k))
  <2>. DEFINE I == Instances(s, k)
              R == Resolvers(s, k)
  <2>1. PICK f \in [I -> Tasks] : Builders(s, k, f)
    BY DEF ContainerInv, ScopesServed, ScopeServed
  <2>2. /\ \A i, j \in I : f[i] = f[j] => i = j
        /\ \A i \in I : <<s, k, i, f[i]>> \in served
    BY <2>1 DEF Builders
  <2>3. \A i \in I : f[i] \in R
    <3>. SUFFICES ASSUME NEW i \in I PROVE f[i] \in R
      OBVIOUS
    <3>. DEFINE x == <<s, k, i, f[i]>>
    <3>1. x \in served /\ x[1] = s /\ x[2] = k /\ x[4] = f[i]
      BY <2>2
    <3>. HIDE DEF x
    <3>. QED  BY <3>1 DEF Resolvers
  <2>4. R \subseteq Tasks
    BY DEF Resolvers, ContainerInv, ContainerTypes, CacheTypes
  <2>5. IsFiniteSet(R)
    BY <2>4, FS_Subset, ContainerAssumption
  <2>. HIDE DEF I, R
  <2>6. f \in Injection(I, R)
    BY <2>1, <2>2, <2>3 DEF Injection, IsInjective
  <2>7. Cardinality(I) <= Cardinality(R)
    BY <2>5, <2>6, FS_Injection
  <2>. QED  BY <2>7 DEF I, R
<1>. QED  BY <1>1, <1>2

\* The inductive invariant of the container holds in every reachable state.
THEOREM ContainerInvariance == ContainerSpec => []ContainerInv
<1>1. ContainerInit => ContainerInv
  BY ContainerInits
<1>2. ContainerInv /\ [ContainerNext]_containerVars => ContainerInv'
  BY ContainerNextStep
<1>. QED  BY <1>1, <1>2, PTL DEF ContainerSpec

\* Container._produce under its lock, and Scope: two resolutions get different instances of a
\* singleton only if its cached instance was taken away in between, and a scope serves no more
\* instances of a key than tasks share it, for every registration and any number of tasks.
THEOREM InstancesAreShared == ContainerSpec => []InstancesShared
<1>1. ContainerInv => InstancesShared
  BY SharedByInv
<1>. QED  BY <1>1, ContainerInvariance, PTL

\* Container.aclose and Scope.close: an instance whose home has dropped its disposer was disposed
\* of, unless it was stored while the closing awaited another disposer.
THEOREM StoredIsDisposed == ContainerSpec => []DisposedUnlessLate
<1>1. ContainerInv => DisposedUnlessLate
  BY DEF ContainerInv
<1>. QED  BY <1>1, ContainerInvariance, PTL

-----------------------------------------------------------------------------
(* The event store                                                         *)

HIDE OrderAssumption

\* A set of naturals has a least element: the induction that the proofs below use.
LEMMA LeastNatural ==
  ASSUME NEW S \in SUBSET Nat, NEW n \in S
  PROVE  \E m \in S : \A k \in S : m <= k
<1>. DEFINE R == {ss \in Nat \X Nat : ss[1] < ss[2]}
<1>1. IsWellFoundedOn(OpToRel(<, Nat), Nat)
  BY NatLessThanWellFounded
<1>2. OpToRel(<, Nat) = R
  BY DEF OpToRel
<1>3. IsWellFoundedOn(R, Nat)
  BY <1>1, <1>2
<1>. HIDE DEF R
<1>4. PICK m \in S : \A k \in S : ~(<<k, m>> \in R)
  BY <1>3, WFMin
<1>5. ASSUME NEW k \in S PROVE m <= k
  <2>1. m \in Nat /\ k \in Nat
    OBVIOUS
  <2>2. k < m => <<k, m>> \in R
    BY <2>1 DEF R
  <2>. QED  BY <1>4, <2>1, <2>2
<1>. QED  BY <1>5

\* The states of a replay, one behind each event: the function that Replay defines by recursion.
Replays(f, es, s, n) == f = [m \in 0 .. n |-> IF m = 0 THEN s ELSE ApplyEvent(f[m - 1], es[m])]

LEMMA ReplaysAre ==
  ASSUME NEW f, NEW es, NEW s, NEW n \in Nat, Replays(f, es, s, n)
  PROVE  DOMAIN f = 0 .. n /\ f[0] = s /\ \A m \in 1 .. n : f[m] = ApplyEvent(f[m - 1], es[m])
<1>. DEFINE g(m) == IF m = 0 THEN s ELSE ApplyEvent(f[m - 1], es[m])
<1>1. f = [m \in 0 .. n |-> g(m)]
  BY DEF Replays
<1>2. g(0) = s /\ \A m \in 1 .. n : g(m) = ApplyEvent(f[m - 1], es[m])
  OBVIOUS
<1>. HIDE DEF g
<1>3. DOMAIN f = 0 .. n /\ \A m \in 0 .. n : f[m] = g(m)
  BY <1>1
<1>. QED  BY <1>2, <1>3

\* There is one for every length.  The shortest without would extend the one before it.
LEMMA ReplaysExist ==
  ASSUME NEW es, NEW s, NEW n \in Nat
  PROVE  \E f : Replays(f, es, s, n)
<1>. DEFINE Without == {k \in Nat : ~\E f : Replays(f, es, s, k)}
<1>. SUFFICES ASSUME n \in Without PROVE FALSE
  OBVIOUS
<1>1. PICK k \in Without : \A j \in Without : k <= j
  <2>1. Without \in SUBSET Nat
    OBVIOUS
  <2>. HIDE DEF Without
  <2>. QED  BY <2>1, LeastNatural
<1>2. CASE k = 0
  <2>. DEFINE f == [m \in 0 .. 0 |-> s]
  <2>1. Replays(f, es, s, 0)
    BY DEF Replays
  <2>. QED  BY <1>2, <2>1
<1>3. CASE k # 0
  <2>1. k \in Nat /\ k - 1 \in Nat /\ ~(k - 1 \in Without)
    BY <1>1, <1>3
  <2>2. PICK f : Replays(f, es, s, k - 1)
    BY <2>1
  <2>3. DOMAIN f = 0 .. (k - 1) /\ f[0] = s /\ \A m \in 1 .. (k - 1) : f[m] = ApplyEvent(f[m - 1], es[m])
    BY <2>1, <2>2, ReplaysAre
  <2>4. PICK t : t = ApplyEvent(f[k - 1], es[k])
    OBVIOUS
  <2>. DEFINE g == [m \in 0 .. k |-> IF m = k THEN t ELSE f[m]]
              h(m) == IF m = 0 THEN s ELSE ApplyEvent(g[m - 1], es[m])
  <2>5. \A m \in 0 .. k : (m = k => g[m] = t) /\ (m # k => g[m] = f[m])
    OBVIOUS
  <2>6. g = [m \in 0 .. k |-> g[m]]
    OBVIOUS
  <2>. HIDE DEF g
  <2>7. \A m \in 0 .. k : g[m] = h(m)
    <3>. SUFFICES ASSUME NEW m \in 0 .. k PROVE g[m] = h(m)
      OBVIOUS
    <3>1. CASE m = 0
      BY <1>3, <2>3, <2>5, <3>1
    <3>2. CASE m # 0 /\ m = k
      <4>1. g[k] = t /\ g[k - 1] = f[k - 1]
        BY <2>1, <2>5
      <4>2. h(k) = ApplyEvent(f[k - 1], es[k])
        BY <3>2, <4>1
      <4>. QED  BY <2>4, <3>2, <4>1, <4>2
    <3>3. CASE m # 0 /\ m # k
      <4>1. m \in 1 .. (k - 1) /\ m - 1 \in 0 .. k /\ m - 1 # k
        BY <2>1, <3>3
      <4>2. g[m] = f[m] /\ g[m - 1] = f[m - 1]
        BY <2>5, <3>3, <4>1
      <4>3. f[m] = ApplyEvent(f[m - 1], es[m])
        BY <2>3, <4>1
      <4>. QED  BY <3>3, <4>2, <4>3
    <3>. QED  BY <3>1, <3>2, <3>3
  <2>. HIDE DEF h
  <2>8. g = [m \in 0 .. k |-> h(m)]
    BY <2>6, <2>7
  <2>9. Replays(g, es, s, k)
    BY <2>8 DEF Replays, h
  <2>. QED  BY <2>9
<1>. QED  BY <1>2, <1>3

\* What Replay computes is the last state of every such function.
LEMMA ReplayIsLast ==
  ASSUME NEW es, NEW s, Len(es) \in Nat
  PROVE  \E f : Replays(f, es, s, Len(es)) /\ Replay(es, s) = f[Len(es)]
<1>. DEFINE f == CHOOSE g : Replays(g, es, s, Len(es))
<1>1. \E g : Replays(g, es, s, Len(es))
  BY ReplaysExist
<1>2. Replays(f, es, s, Len(es))
  BY <1>1, Zenon
<1>3. Replay(es, s) = f[Len(es)]
  BY DEF Replay, Replays
<1>. QED  BY <1>2, <1>3

\* Two that start from the same state and apply the same events agree.
SameSteps(f, k, g, n) ==
  /\ f[k] = g[0]
  /\ \A m \in 1 .. n : \E e : f[k + m] = ApplyEvent(f[k + m - 1], e) /\ g[m] = ApplyEvent(g[m - 1], e)

LEMMA ReplaysAgree ==
  ASSUME NEW f, NEW g, NEW n \in Nat, NEW k \in Nat, SameSteps(f, k, g, n)
  PROVE  f[k + n] = g[n]
<1>. DEFINE Off == {m \in Nat : m <= n /\ f[k + m] # g[m]}
<1>. SUFFICES ASSUME n \in Off PROVE FALSE
  OBVIOUS
<1>1. PICK m \in Off : \A j \in Off : m <= j
  <2>1. Off \in SUBSET Nat
    OBVIOUS
  <2>. HIDE DEF Off
  <2>. QED  BY <2>1, LeastNatural
<1>2. m \in Nat /\ m <= n /\ f[k + m] # g[m]
  OBVIOUS
<1>3. m # 0
  BY <1>2 DEF SameSteps
<1>4. m \in 1 .. n /\ m - 1 \in Nat /\ m - 1 <= n /\ ~(m - 1 \in Off)
  BY <1>1, <1>2, <1>3
<1>5. f[k + (m - 1)] = g[m - 1]
  BY <1>4
<1>6. PICK e : f[k + m] = ApplyEvent(f[k + m - 1], e) /\ g[m] = ApplyEvent(g[m - 1], e)
  BY <1>4 DEF SameSteps
<1>7. k + m - 1 = k + (m - 1)
  BY <1>4
<1>. QED  BY <1>2, <1>5, <1>6, <1>7

\* Replaying one sequence behind another, as load() does with a snapshot and the tail.
LEMMA ReplayConcat ==
  ASSUME NEW S, NEW es \in Seq(S), NEW fs \in Seq(S), NEW s
  PROVE  Replay(es \o fs, s) = Replay(fs, Replay(es, s))
<1>. DEFINE n == Len(es)
            m == Len(fs)
            all == es \o fs
<1>1. n \in Nat /\ m \in Nat /\ Len(all) = n + m
  OBVIOUS
<1>2. (\A i \in 1 .. n : all[i] = es[i]) /\ (\A i \in 1 .. m : all[n + i] = fs[i])
  OBVIOUS
<1>. HIDE DEF n, m, all
<1>3. PICK f : Replays(f, es, s, n) /\ Replay(es, s) = f[n]
  BY <1>1, ReplayIsLast DEF n
<1>4. PICK g : Replays(g, fs, Replay(es, s), m) /\ Replay(fs, Replay(es, s)) = g[m]
  BY <1>1, ReplayIsLast DEF m
<1>5. PICK h : Replays(h, all, s, n + m) /\ Replay(all, s) = h[n + m]
  BY <1>1, ReplayIsLast
<1>6. f[0] = s /\ \A i \in 1 .. n : f[i] = ApplyEvent(f[i - 1], es[i])
  BY <1>1, <1>3, ReplaysAre
<1>7. g[0] = f[n] /\ \A i \in 1 .. m : g[i] = ApplyEvent(g[i - 1], fs[i])
  BY <1>1, <1>3, <1>4, ReplaysAre
<1>8. h[0] = s /\ \A i \in 1 .. (n + m) : h[i] = ApplyEvent(h[i - 1], all[i])
  <2>1. PICK k \in Nat : k = n + m
    BY <1>1
  <2>2. Replays(h, all, s, k)
    BY <1>5, <2>1
  <2>3. h[0] = s /\ \A i \in 1 .. k : h[i] = ApplyEvent(h[i - 1], all[i])
    BY <2>2, ReplaysAre
  <2>. QED  BY <2>1, <2>3
<1>9. h[n] = f[n]
  <2>1. \A i \in 1 .. n : \E e : h[0 + i] = ApplyEvent(h[0 + i - 1], e) /\ f[i] = ApplyEvent(f[i - 1], e)
    <3>. SUFFICES ASSUME NEW i \in 1 .. n
                  PROVE  h[0 + i] = ApplyEvent(h[0 + i - 1], es[i]) /\ f[i] = ApplyEvent(f[i - 1], es[i])
      OBVIOUS
    <3>1. 0 + i = i /\ 0 + i - 1 = i - 1 /\ i \in 1 .. (n + m)
      BY <1>1
    <3>2. h[i] = ApplyEvent(h[i - 1], es[i])
      BY <1>2, <1>8, <3>1
    <3>. QED  BY <1>6, <3>1, <3>2
  <2>2. SameSteps(h, 0, f, n)
    BY <1>6, <1>8, <2>1 DEF SameSteps
  <2>3. PICK z \in Nat : z = 0
    OBVIOUS
  <2>4. SameSteps(h, z, f, n)
    BY <2>2, <2>3
  <2>5. h[z + n] = f[n]
    BY <1>1, <2>4, ReplaysAgree
  <2>6. z + n = n
    BY <1>1, <2>3
  <2>. QED  BY <2>5, <2>6
<1>10. h[n + m] = g[m]
  <2>1. \A i \in 1 .. m : \E e : h[n + i] = ApplyEvent(h[n + i - 1], e) /\ g[i] = ApplyEvent(g[i - 1], e)
    <3>. SUFFICES ASSUME NEW i \in 1 .. m
                  PROVE  h[n + i] = ApplyEvent(h[n + i - 1], fs[i]) /\ g[i] = ApplyEvent(g[i - 1], fs[i])
      OBVIOUS
    <3>1. n + i \in 1 .. (n + m)
      BY <1>1
    <3>2. h[n + i] = ApplyEvent(h[n + i - 1], all[n + i])
      <4>1. n \in Int /\ i \in Int
        BY <1>1
      <4>. QED  BY <1>8, <3>1, <4>1
    <3>3. all[n + i] = fs[i]
      BY <1>2
    <3>4. h[n + i] = ApplyEvent(h[n + i - 1], fs[i])
      BY <3>2, <3>3
    <3>5. g[i] = ApplyEvent(g[i - 1], fs[i])
      BY <1>7
    <3>. QED  BY <3>4, <3>5
  <2>2. SameSteps(h, n, g, m)
    BY <1>7, <1>9, <2>1 DEF SameSteps
  <2>. QED  BY <1>1, <2>2, ReplaysAgree
<1>. QED  BY <1>4, <1>5, <1>10 DEF all

LEMMA ReplayNone ==
  ASSUME NEW s
  PROVE  Replay(<<>>, s) = s
<1>1. Len(<<>>) = 0
  OBVIOUS
<1>2. PICK f : Replays(f, <<>>, s, 0) /\ Replay(<<>>, s) = f[0]
  BY <1>1, ReplayIsLast
<1>. QED  BY <1>2, ReplaysAre

LEMMA ReplayAppend ==
  ASSUME NEW S, NEW es \in Seq(S), NEW e \in S, NEW s
  PROVE  Replay(Append(es, e), s) = ApplyEvent(Replay(es, s), e)
<1>. DEFINE t == Replay(es, s)
<1>1. <<e>> \in Seq(S) /\ Len(<<e>>) = 1 /\ <<e>>[1] = e /\ Append(es, e) = es \o <<e>>
  OBVIOUS
<1>2. Replay(Append(es, e), s) = Replay(<<e>>, t)
  <2>1. PICK fs \in Seq(S) : fs = <<e>>
    BY <1>1
  <2>2. Replay(es \o fs, s) = Replay(fs, Replay(es, s))
    BY <2>1, ReplayConcat
  <2>. QED  BY <1>1, <2>1, <2>2
<1>. HIDE DEF t
<1>3. PICK f : Replays(f, <<e>>, t, 1) /\ Replay(<<e>>, t) = f[1]
  BY <1>1, ReplayIsLast
<1>4. f[0] = t /\ f[1] = ApplyEvent(f[1 - 1], e)
  BY <1>1, <1>3, ReplaysAre
<1>. QED  BY <1>2, <1>3, <1>4 DEF t

Size(a) == Cardinality(Committed(a))

\* One row for each sequence number above lo up to hi, and no other.
Dense(R, lo, hi) ==
  /\ \A r \in R : r.sequence \in (lo + 1) .. hi
  /\ \A n \in (lo + 1) .. hi : \E r \in R : r.sequence = n
  /\ \A r, s \in R : r.sequence = s.sequence => r = s

\* A caller at p with the instance i and the transaction w.
WellFormed(p, i, w) ==
  /\ p \in PCs /\ i = [agg |-> i.agg, version |-> i.version, state |-> i.state, pending |-> i.pending, restored |-> i.restored]
  /\ i.version \in Nat /\ i.pending \in Seq(DomainEvents) /\ (p # "idle" => i.agg \in Aggregates)
  /\ w = [rows |-> w.rows, snapshot |-> w.snapshot]

StoreTypes ==
  /\ pc = [c \in Callers |-> pc[c]] /\ inst = [c \in Callers |-> inst[c]] /\ tx = [c \in Callers |-> tx[c]]
  /\ snapshot = [a \in Aggregates |-> snapshot[a]]
  /\ \A c \in Callers : WellFormed(pc[c], inst[c], tx[c])

\* The streams have no holes, and a snapshot does not run ahead of its stream.
StreamsDense == \A a \in Aggregates : Size(a) \in Nat /\ Dense(Committed(a), 0, Size(a))
SnapshotBehind ==
  \A a \in Aggregates : snapshot[a] # NoSnapshot => snapshot[a].version \in Nat /\ snapshot[a].version <= Size(a)

\* What a transaction has written continues the stream; a caller that has written nothing is not
\* ahead of it.
Continues(p, i, w) ==
  /\ p \in {"idle", "loading"} \/ w.rows = {} => w = EmptyTx
  /\ p \in {"loading", "ready"} /\ w.rows = {} => i.version <= Size(i.agg)
  /\ w.rows # {} =>
       /\ Size(i.agg) < i.version /\ Dense(w.rows, Size(i.agg), i.version)
       /\ \A r \in w.rows : r.agg = i.agg
  /\ w.snapshot # NoSnapshot => w.snapshot.version \in Nat /\ w.snapshot.version <= i.version
TxContinues == \A c \in Callers : Continues(pc[c], inst[c], tx[c])

\* One transaction at a time has rows for an aggregate.
OneAppender ==
  \A c, d \in Callers : tx[c].rows # {} /\ tx[d].rows # {} /\ inst[c].agg = inst[d].agg => c = d

StoreInv == StoreTypes /\ StreamsDense /\ SnapshotBehind /\ TxContinues /\ OneAppender

\* A dense set has as many rows as numbers.
LEMMA DenseCardinality ==
  ASSUME NEW R, NEW lo \in Nat, NEW hi \in Nat, lo <= hi, Dense(R, lo, hi)
  PROVE  IsFiniteSet(R) /\ Cardinality(R) = hi - lo
<1>. DEFINE I == (lo + 1) .. hi
            q == [r \in R |-> r.sequence]
<1>1. IsFiniteSet(I) /\ Cardinality(I) = hi - lo
  <2>. DEFINE from == lo + 1
  <2>1. from \in Int /\ hi \in Int
    OBVIOUS
  <2>. HIDE DEF from
  <2>2. IsFiniteSet(from .. hi) /\ Cardinality(from .. hi) = IF from > hi THEN 0 ELSE hi - from + 1
    BY <2>1, FS_Interval
  <2>. QED  BY <2>2 DEF from
<1>2. \A r \in R : r.sequence \in I
  BY DEF Dense
<1>3. \A n \in I : \E r \in R : r.sequence = n
  BY DEF Dense
<1>4. \A r, s \in R : r.sequence = s.sequence => r = s
  BY DEF Dense
<1>. HIDE DEF I
<1>5. q \in [R -> I] /\ \A r \in R : q[r] = r.sequence
  BY <1>2
<1>. HIDE DEF q
<1>6. q \in Injection(R, I)
  BY <1>4, <1>5 DEF Injection, IsInjective
<1>7. q \in Surjection(R, I)
  BY <1>3, <1>5 DEF Surjection
<1>8. q \in Bijection(R, I)
  BY <1>6, <1>7 DEF Bijection
<1>9. IsFiniteSet(R) /\ Cardinality(R) = Cardinality(I)
  <2>1. IsFiniteSet(R)
    BY <1>1, <1>6, FS_Injection
  <2>2. ExistsBijection(R, I)
    BY <1>8 DEF ExistsBijection
  <2>. QED  BY <2>1, <2>2, FS_Bijection
<1>. QED  BY <1>1, <1>9

LEMMA DenseUnion ==
  ASSUME NEW R, NEW S, NEW lo \in Nat, NEW mid \in Nat, NEW hi \in Nat, lo <= mid, mid <= hi,
         Dense(R, lo, mid), Dense(S, mid, hi)
  PROVE  Dense(R \cup S, lo, hi)
<1>1. \A r \in R : r.sequence \in (lo + 1) .. mid
  BY DEF Dense
<1>2. \A r \in S : r.sequence \in (mid + 1) .. hi
  BY DEF Dense
<1>3. \A r \in R \cup S : r.sequence \in (lo + 1) .. hi
  BY <1>1, <1>2
<1>4. \A n \in (lo + 1) .. hi : \E r \in R \cup S : r.sequence = n
  <2>. SUFFICES ASSUME NEW n \in (lo + 1) .. hi PROVE \E r \in R \cup S : r.sequence = n
    OBVIOUS
  <2>1. CASE n <= mid
    BY <2>1 DEF Dense
  <2>2. CASE n > mid
    BY <2>2 DEF Dense
  <2>. QED  BY <2>1, <2>2
<1>5. \A r, s \in R \cup S : r.sequence = s.sequence => r = s
  <2>1. \A r, s \in R : r.sequence = s.sequence => r = s
    BY DEF Dense
  <2>2. \A r, s \in S : r.sequence = s.sequence => r = s
    BY DEF Dense
  <2>3. \A r \in R, s \in S : r.sequence # s.sequence
    BY <1>1, <1>2
  <2>. QED  BY <2>1, <2>2, <2>3
<1>. QED  BY <1>3, <1>4, <1>5 DEF Dense

\* ORDER BY puts the rows of a dense set in the places of their numbers.
LEMMA DenseInOrder ==
  ASSUME NEW R, NEW lo \in Nat, NEW hi \in Nat, lo <= hi, Dense(R, lo, hi)
  PROVE  /\ InOrder(R) \in [1 .. (hi - lo) -> R]
         /\ \A i \in 1 .. (hi - lo) : InOrder(R)[i].sequence = lo + i
<1>1. Cardinality(R) = hi - lo
  BY DenseCardinality
<1>. DEFINE Below(n) == {s \in R : s.sequence < n}
            UpTo(n) == {s \in R : s.sequence <= n}
            P(r, i) == Cardinality(Below(r.sequence)) < i /\ Cardinality(UpTo(r.sequence)) >= i
<1>2. \A n \in (lo + 1) .. hi : Cardinality(Below(n)) = n - 1 - lo /\ Cardinality(UpTo(n)) = n - lo
  <2>. SUFFICES ASSUME NEW n \in (lo + 1) .. hi
                PROVE  Cardinality(Below(n)) = n - 1 - lo /\ Cardinality(UpTo(n)) = n - lo
    OBVIOUS
  <2>1. \A r \in R : r.sequence \in (lo + 1) .. hi
    BY DEF Dense
  <2>2. \A m \in (lo + 1) .. hi : \E r \in R : r.sequence = m
    BY DEF Dense
  <2>3. \A r, s \in R : r.sequence = s.sequence => r = s
    BY DEF Dense
  <2>4. Dense(Below(n), lo, n - 1)
    BY <2>1, <2>2, <2>3 DEF Dense
  <2>5. Dense(UpTo(n), lo, n)
    BY <2>1, <2>2, <2>3 DEF Dense
  <2>. HIDE DEF Below, UpTo
  <2>6. Cardinality(Below(n)) = n - 1 - lo
    BY <2>4, DenseCardinality
  <2>7. Cardinality(UpTo(n)) = n - lo
    <3>1. n \in Nat /\ lo <= n
      OBVIOUS
    <3>. QED  BY <2>5, <3>1, DenseCardinality
  <2>. QED  BY <2>6, <2>7
<1>3. InOrder(R) = [i \in 1 .. (hi - lo) |-> CHOOSE r \in R : P(r, i)]
  BY <1>1 DEF InOrder
<1>4. \A r \in R : r.sequence \in (lo + 1) .. hi
  BY DEF Dense
<1>5. \A i \in 1 .. (hi - lo), r \in R : P(r, i) <=> r.sequence = lo + i
  <2>. SUFFICES ASSUME NEW i \in 1 .. (hi - lo), NEW r \in R PROVE P(r, i) <=> r.sequence = lo + i
    OBVIOUS
  <2>. HIDE DEF Below, UpTo
  <2>1. /\ r.sequence \in (lo + 1) .. hi /\ Cardinality(Below(r.sequence)) = r.sequence - 1 - lo
        /\ Cardinality(UpTo(r.sequence)) = r.sequence - lo
    BY <1>2, <1>4
  <2>. QED  BY <2>1
<1>. HIDE DEF P
<1>6. ASSUME NEW i \in 1 .. (hi - lo)
      PROVE  (CHOOSE r \in R : P(r, i)) \in R /\ P(CHOOSE r \in R : P(r, i), i)
  <2>1. lo + i \in (lo + 1) .. hi
    OBVIOUS
  <2>2. \E r \in R : r.sequence = lo + i
    BY <2>1 DEF Dense
  <2>3. \E r \in R : P(r, i)
    BY <1>5, <2>2
  <2>. QED  BY <2>3, Zenon
<1>. DEFINE at(i) == CHOOSE r \in R : P(r, i)
<1>7. \A i \in 1 .. (hi - lo) : at(i) \in R /\ at(i).sequence = lo + i
  BY <1>5, <1>6
<1>8. InOrder(R) = [i \in 1 .. (hi - lo) |-> at(i)]
  BY <1>3
<1>. HIDE DEF at
<1>. QED  BY <1>7, <1>8

\* ... and their events into the stream.
LEMMA DenseEventsFrom ==
  ASSUME NEW R, NEW lo \in Nat, NEW hi \in Nat, lo <= hi, Dense(R, lo, hi)
  PROVE  /\ EventsOf(R) \in [1 .. (hi - lo) -> {r.event : r \in R}]
         /\ \A r \in R : EventsOf(R)[r.sequence - lo] = r.event
<1>. DEFINE n == hi - lo
<1>1. Cardinality(R) = n /\ n \in Nat
  <2>1. Cardinality(R) = hi - lo
    BY DenseCardinality
  <2>. QED  BY <2>1
<1>2. InOrder(R) \in [1 .. n -> R] /\ \A i \in 1 .. n : InOrder(R)[i].sequence = lo + i
  BY DenseInOrder
<1>3. EventsOf(R) = [i \in 1 .. n |-> InOrder(R)[i].event]
  BY <1>1 DEF EventsOf
<1>4. ASSUME NEW r \in R PROVE EventsOf(R)[r.sequence - lo] = r.event
  <2>1. r.sequence \in (lo + 1) .. hi
    BY DEF Dense
  <2>2. PICK k \in 1 .. n : k = r.sequence - lo /\ lo + k = r.sequence
    BY <2>1
  <2>3. InOrder(R)[k] \in R /\ InOrder(R)[k].sequence = r.sequence
    BY <1>2, <2>2
  <2>4. InOrder(R)[k] = r
    BY <2>3 DEF Dense
  <2>5. EventsOf(R)[k] = r.event
    BY <1>3, <2>4
  <2>. QED  BY <2>2, <2>5
<1>5. EventsOf(R) \in [1 .. n -> {r.event : r \in R}]
  BY <1>2, <1>3
<1>. QED  BY <1>4, <1>5

LEMMA DenseEvents ==
  ASSUME NEW R, NEW n \in Nat, Dense(R, 0, n)
  PROVE  /\ EventsOf(R) \in [1 .. n -> {r.event : r \in R}]
         /\ \A r \in R : EventsOf(R)[r.sequence] = r.event
<1>1. 0 <= n /\ n - 0 = n
  OBVIOUS
<1>2. EventsOf(R) \in [1 .. n -> {r.event : r \in R}] /\ \A r \in R : EventsOf(R)[r.sequence - 0] = r.event
  BY <1>1, DenseEventsFrom
<1>3. \A r \in R : r.sequence - 0 = r.sequence
  BY DEF Dense
<1>. QED  BY <1>2, <1>3

\* A step of one caller that commits nothing.
Moves(c, p, i, w) ==
  /\ pc' = [pc EXCEPT ![c] = p] /\ inst' = [inst EXCEPT ![c] = i] /\ tx' = [tx EXCEPT ![c] = w]
  /\ UNCHANGED <<rows, snapshot>>

LEMMA CallerMoves ==
  ASSUME StoreInv, NEW c \in Callers, NEW p, NEW i, NEW w, Moves(c, p, i, w), WellFormed(p, i, w), Continues(p, i, w),
         w.rows # {} => \A d \in Callers : d # c /\ tx[d].rows # {} => inst[d].agg # i.agg
  PROVE  StoreInv'
<1>1. /\ pc = [d \in Callers |-> pc[d]] /\ inst = [d \in Callers |-> inst[d]] /\ tx = [d \in Callers |-> tx[d]]
      /\ \A d \in Callers : WellFormed(pc[d], inst[d], tx[d])
  BY DEF StoreInv, StoreTypes
<1>2. /\ pc' = [d \in Callers |-> pc'[d]] /\ inst' = [d \in Callers |-> inst'[d]] /\ tx' = [d \in Callers |-> tx'[d]]
      /\ pc'[c] = p /\ inst'[c] = i /\ tx'[c] = w
      /\ \A d \in Callers : d # c => pc'[d] = pc[d] /\ inst'[d] = inst[d] /\ tx'[d] = tx[d]
  BY <1>1 DEF Moves
<1>3. UNCHANGED <<rows, snapshot>>
  BY DEF Moves
<1>4. StoreTypes'
  <2>1. \A d \in Callers : WellFormed(pc'[d], inst'[d], tx'[d])
    BY <1>1, <1>2
  <2>2. snapshot' = [a \in Aggregates |-> snapshot'[a]]
    BY <1>3 DEF StoreInv, StoreTypes
  <2>. QED  BY <1>2, <2>1, <2>2 DEF StoreTypes, WellFormed
<1>5. \A a : Committed(a)' = Committed(a) /\ Size(a)' = Size(a)
  BY <1>3 DEF Committed, Size
<1>6. StreamsDense' /\ SnapshotBehind'
  BY <1>3, <1>5 DEF StoreInv, StreamsDense, SnapshotBehind, Dense
<1>7. TxContinues'
  <2>. SUFFICES ASSUME NEW d \in Callers PROVE Continues(pc[d], inst[d], tx[d])'
    BY DEF TxContinues
  <2>1. Continues(pc'[d], inst'[d], tx'[d])
    BY <1>2 DEF StoreInv, TxContinues
  <2>. QED  BY <1>5, <2>1 DEF Continues, Dense, EmptyTx
<1>8. OneAppender'
  BY <1>2 DEF StoreInv, OneAppender
<1>. QED  BY <1>4, <1>6, <1>7, <1>8 DEF StoreInv

\* What the invariant says of one caller.
LEMMA CallerIs ==
  ASSUME StoreInv, NEW c \in Callers
  PROVE  /\ WellFormed(pc[c], inst[c], tx[c]) /\ Continues(pc[c], inst[c], tx[c])
         /\ pc = [pc EXCEPT ![c] = pc[c]] /\ inst = [inst EXCEPT ![c] = inst[c]] /\ tx = [tx EXCEPT ![c] = tx[c]]
         /\ tx[c].rows # {} => \A d \in Callers : d # c /\ tx[d].rows # {} => inst[d].agg # inst[c].agg
<1>1. /\ pc = [d \in Callers |-> pc[d]] /\ inst = [d \in Callers |-> inst[d]] /\ tx = [d \in Callers |-> tx[d]]
      /\ WellFormed(pc[c], inst[c], tx[c]) /\ Continues(pc[c], inst[c], tx[c])
  BY DEF StoreInv, StoreTypes, TxContinues
<1>2. pc = [pc EXCEPT ![c] = pc[c]]
  BY <1>1
<1>3. inst = [inst EXCEPT ![c] = inst[c]]
  BY <1>1
<1>4. tx = [tx EXCEPT ![c] = tx[c]]
  BY <1>1
<1>. QED  BY <1>1, <1>2, <1>3, <1>4 DEF StoreInv, OneAppender

LEMMA LoadSnapshotStep ==
  ASSUME StoreInv, NEW c \in Callers, NEW a \in Aggregates, LoadSnapshot(c, a)
  PROVE  StoreInv'
<1>. DEFINE v == snapshot[a].version
            old == Restored(a, snapshot[a])
<1>1. PICK i : i = IF snapshot[a] = NoSnapshot THEN NewInstance(a) ELSE old
  OBVIOUS
<1>2. Moves(c, "loading", i, tx[c]) /\ tx[c] = EmptyTx
  <2>1. pc[c] = "idle"
    BY DEF LoadSnapshot
  <2>2. tx[c] = EmptyTx
    BY <2>1, CallerIs DEF Continues
  <2>. QED  BY <1>1, <2>2, CallerIs DEF LoadSnapshot, Moves
<1>3. Size(a) \in Nat /\ (snapshot[a] # NoSnapshot => v \in Nat /\ v <= Size(a))
  BY DEF StoreInv, StreamsDense, SnapshotBehind
<1>4. /\ i = [agg |-> i.agg, version |-> i.version, state |-> i.state, pending |-> i.pending, restored |-> i.restored]
      /\ i.agg = a /\ i.version \in Nat /\ i.version <= Size(a) /\ i.pending = <<>>
  <2>. HIDE DEF v
  <2>1. CASE snapshot[a] = NoSnapshot
    BY <1>1, <1>3, <2>1 DEF NewInstance
  <2>2. CASE snapshot[a] # NoSnapshot
    BY <1>1, <1>3, <2>2 DEF Restored, v
  <2>. QED  BY <2>1, <2>2
<1>5. EmptyTx = [rows |-> EmptyTx.rows, snapshot |-> EmptyTx.snapshot] /\ EmptyTx.rows = {} /\ EmptyTx.snapshot = NoSnapshot
  BY DEF EmptyTx
<1>6. WellFormed("loading", i, tx[c])
  BY <1>2, <1>4, <1>5 DEF WellFormed, PCs
<1>7. Continues("loading", i, tx[c])
  BY <1>2, <1>4, <1>5 DEF Continues
<1>. QED  BY <1>2, <1>5, <1>6, <1>7, CallerMoves

LEMMA CallerFields ==
  ASSUME StoreInv, NEW c \in Callers
  PROVE  /\ inst[c].version \in Nat /\ inst[c].pending \in Seq(DomainEvents) /\ Len(inst[c].pending) \in Nat
         /\ pc[c] # "idle" => inst[c].agg \in Aggregates
<1>1. WellFormed(pc[c], inst[c], tx[c])
  BY CallerIs
<1>2. inst[c].version \in Nat /\ inst[c].pending \in Seq(DomainEvents) /\ (pc[c] # "idle" => inst[c].agg \in Aggregates)
  BY <1>1 DEF WellFormed
<1>. QED  BY <1>2

\* The rows behind a version the stream has.
LEMMA DenseTail ==
  ASSUME NEW R, NEW v \in Nat, NEW n \in Nat, v <= n, Dense(R, 0, n)
  PROVE  Dense({r \in R : r.sequence > v}, v, n)
<1>1. \A r \in R : r.sequence \in 1 .. n
  BY DEF Dense
<1>2. \A m \in 1 .. n : \E r \in R : r.sequence = m
  BY DEF Dense
<1>3. \A r, s \in R : r.sequence = s.sequence => r = s
  BY DEF Dense
<1>. QED  BY <1>1, <1>2, <1>3 DEF Dense

LEMMA ReplayedIs ==
  ASSUME NEW i, i = [agg |-> i.agg, version |-> i.version, state |-> i.state, pending |-> i.pending, restored |-> i.restored], NEW es, NEW v
  PROVE  LET r == Replayed(i, es, v) IN
         /\ r = [agg |-> r.agg, version |-> r.version, state |-> r.state, pending |-> r.pending, restored |-> r.restored]
         /\ r.agg = i.agg /\ r.version = v /\ r.pending = i.pending /\ r.state = Replay(es, i.state)
         /\ r.restored = i.restored
<1>1. Replayed(i, es, v) = [agg |-> i.agg, version |-> v, state |-> Replay(es, i.state), pending |-> i.pending, restored |-> i.restored]
  <2>. DEFINE s == Replay(es, i.state)
  <2>1. Replayed(i, es, v) = [i EXCEPT !.state = s, !.version = v]
    BY DEF Replayed
  <2>. HIDE DEF s
  <2>2. Replayed(i, es, v) = [agg |-> i.agg, version |-> v, state |-> s, pending |-> i.pending, restored |-> i.restored]
    BY <2>1
  <2>. QED  BY <2>2 DEF s
<1>. QED  BY <1>1

LEMMA RecordedIs ==
  ASSUME NEW i, i = [agg |-> i.agg, version |-> i.version, state |-> i.state, pending |-> i.pending, restored |-> i.restored],
         NEW q, NEW s, NEW r, r = [i EXCEPT !.pending = q, !.state = s]
  PROVE  r = [agg |-> i.agg, version |-> i.version, state |-> s, pending |-> q, restored |-> i.restored]
  OBVIOUS

\* load() ends at the end of the stream, whatever was committed after its first SELECT.
LEMMA LoadEventsLoads ==
  ASSUME StoreInv, NEW c \in Callers, LoadEvents(c)
  PROVE  /\ pc[c] = "loading" /\ tx[c] = EmptyTx
         /\ \E i : /\ Moves(c, "ready", i, tx[c]) /\ WellFormed("ready", i, tx[c])
                   /\ i.agg = inst[c].agg /\ i.agg \in Aggregates /\ i.version = Size(i.agg)
                   /\ IF inst[c].version = 0
                      THEN /\ i.pending = <<>> /\ i.restored = FALSE
                           /\ i.state = Replay(EventsOf(TailRows(i.agg, 0)), Blank)
                      ELSE /\ i.pending = inst[c].pending /\ i.restored = inst[c].restored
                           /\ i.state = Replay(EventsOf(TailRows(i.agg, inst[c].version)), inst[c].state)
<1>. DEFINE a == inst[c].agg
            v == inst[c].version
            tail == TailRows(a, v)
            new == IF tail = {} THEN v ELSE Last(InOrder(tail)).sequence
<1>1. pc[c] = "loading" /\ tx[c] = EmptyTx
  BY CallerIs DEF LoadEvents, Continues
<1>2. WellFormed(pc[c], inst[c], tx[c]) /\ a \in Aggregates /\ v \in Nat /\ v <= Size(a)
  BY <1>1, CallerIs DEF WellFormed, Continues, EmptyTx
<1>3. Size(a) \in Nat /\ Dense(Committed(a), 0, Size(a))
  BY <1>2 DEF StoreInv, StreamsDense
<1>4. Dense(tail, v, Size(a))
  <2>1. tail = {r \in Committed(a) : r.sequence > v}
    BY DEF TailRows, Committed
  <2>2. Dense({r \in Committed(a) : r.sequence > v}, v, Size(a))
    BY <1>2, <1>3, DenseTail
  <2>. QED  BY <2>1, <2>2
<1>5. new = Size(a)
  <2>. HIDE DEF a, v, tail
  <2>1. CASE tail = {}
    <3>1. \A n \in (v + 1) .. Size(a) : FALSE
      BY <1>4, <2>1 DEF Dense
    <3>. QED  BY <1>2, <1>3, <2>1, <3>1
  <2>2. CASE tail # {}
    <3>1. Size(a) > v
      BY <1>2, <1>3, <1>4, <2>2 DEF Dense
    <3>2. InOrder(tail) \in [1 .. (Size(a) - v) -> tail] /\ \A i \in 1 .. (Size(a) - v) : InOrder(tail)[i].sequence = v + i
      BY <1>2, <1>3, <1>4, DenseInOrder
    <3>3. Len(InOrder(tail)) = Size(a) - v
      BY <1>2, <1>3, <3>1, <3>2
    <3>4. Last(InOrder(tail)).sequence = Size(a)
      BY <1>2, <1>3, <3>1, <3>2, <3>3 DEF Last
    <3>. QED  BY <2>2, <3>4
  <2>. QED  BY <2>1, <2>2
<1>6. PICK es : es = EventsOf(tail)
  OBVIOUS
<1>7. PICK i : i = IF v = 0 THEN FromEvents(a, es, new) ELSE Replayed(inst[c], es, new)
  OBVIOUS
<1>8. inst' = [inst EXCEPT ![c] = i] /\ pc' = [pc EXCEPT ![c] = "ready"] /\ UNCHANGED <<rows, snapshot, tx>>
  BY <1>6, <1>7 DEF LoadEvents
<1>9. Moves(c, "ready", i, tx[c])
  BY <1>8, CallerIs DEF Moves
<1>10. /\ i = [agg |-> i.agg, version |-> i.version, state |-> i.state, pending |-> i.pending, restored |-> i.restored]
       /\ i.agg = a /\ i.version = Size(a) /\ i.pending \in Seq(DomainEvents)
       /\ v = 0 => i.pending = <<>> /\ i.restored = FALSE /\ i.state = Replay(es, Blank)
       /\ v # 0 => i.pending = inst[c].pending /\ i.restored = inst[c].restored /\ i.state = Replay(es, inst[c].state)
  <2>1. CASE v = 0
    <3>. DEFINE n == NewInstance(a)
    <3>1. /\ n = [agg |-> n.agg, version |-> n.version, state |-> n.state, pending |-> n.pending, restored |-> n.restored] /\ n.agg = a
          /\ n.pending = <<>> /\ n.state = Blank /\ n.restored = FALSE
      BY DEF NewInstance
    <3>2. i = Replayed(n, es, new)
      BY <1>7, <2>1 DEF FromEvents
    <3>. HIDE DEF n, new
    <3>3. i = [agg |-> i.agg, version |-> i.version, state |-> i.state, pending |-> i.pending, restored |-> i.restored] /\ i.agg = a
      BY <3>1, <3>2, ReplayedIs
    <3>4. i.version = new /\ i.pending = <<>> /\ i.restored = FALSE /\ i.state = Replay(es, Blank)
      BY <3>1, <3>2, ReplayedIs
    <3>. QED  BY <1>5, <2>1, <3>3, <3>4
  <2>2. CASE v # 0
    <3>1. i = Replayed(inst[c], es, new)
      BY <1>7, <2>2
    <3>. HIDE DEF new
    <3>2. inst[c] = [agg |-> inst[c].agg, version |-> inst[c].version, state |-> inst[c].state, pending |-> inst[c].pending, restored |-> inst[c].restored]
      BY <1>2 DEF WellFormed
    <3>3. i = [agg |-> i.agg, version |-> i.version, state |-> i.state, pending |-> i.pending, restored |-> i.restored] /\ i.agg = a
      BY <3>1, <3>2, ReplayedIs
    <3>4. i.version = new /\ i.pending = inst[c].pending /\ i.restored = inst[c].restored /\ i.state = Replay(es, inst[c].state)
      BY <3>1, <3>2, ReplayedIs
    <3>. QED  BY <1>5, <2>2, <3>3, <3>4, CallerFields
  <2>. QED  BY <2>1, <2>2
<1>11. WellFormed("ready", i, tx[c])
  BY <1>2, <1>3, <1>10 DEF WellFormed, PCs
<1>12. CASE v = 0
  <2>1. es = EventsOf(TailRows(i.agg, 0))
    BY <1>6, <1>10, <1>12
  <2>. QED  BY <1>1, <1>2, <1>9, <1>10, <1>11, <1>12, <2>1
<1>13. CASE v # 0
  <2>1. es = EventsOf(TailRows(i.agg, inst[c].version))
    BY <1>6, <1>10
  <2>. QED  BY <1>1, <1>2, <1>9, <1>10, <1>11, <1>13, <2>1
<1>. QED  BY <1>12, <1>13

LEMMA LoadEventsStep ==
  ASSUME StoreInv, NEW c \in Callers, LoadEvents(c)
  PROVE  StoreInv'
<1>1. tx[c] = EmptyTx
  BY LoadEventsLoads
<1>2. PICK i : /\ Moves(c, "ready", i, tx[c]) /\ WellFormed("ready", i, tx[c])
               /\ i.agg = inst[c].agg /\ i.agg \in Aggregates /\ i.version = Size(i.agg)
  BY LoadEventsLoads
<1>3. EmptyTx.rows = {} /\ EmptyTx.snapshot = NoSnapshot
  BY DEF EmptyTx
<1>4. i.version <= Size(i.agg)
  BY <1>2 DEF WellFormed
<1>5. Continues("ready", i, tx[c])
  BY <1>1, <1>3, <1>4 DEF Continues
<1>. QED  BY <1>1, <1>2, <1>3, <1>5, CallerMoves

LEMMA RecordEventStep ==
  ASSUME StoreInv, NEW c \in Callers, NEW e \in DomainEvents, RecordEvent(c, e)
  PROVE  /\ StoreInv'
         /\ \E i : /\ Moves(c, pc[c], i, tx[c]) /\ i.agg = inst[c].agg /\ i.version = inst[c].version
                   /\ i.pending = Append(inst[c].pending, e) /\ i.state = ApplyEvent(inst[c].state, e)
                   /\ i.restored = inst[c].restored
<1>1. PICK s : s = ApplyEvent(inst[c].state, e)
  OBVIOUS
<1>2. WellFormed(pc[c], inst[c], tx[c]) /\ Continues(pc[c], inst[c], tx[c])
  BY CallerIs
<1>. DEFINE i == [agg |-> inst[c].agg, version |-> inst[c].version, state |-> s,
                  pending |-> Append(inst[c].pending, e), restored |-> inst[c].restored]
<1>3. Moves(c, pc[c], i, tx[c])
  <2>1. inst' = [inst EXCEPT ![c].pending = Append(@, e), ![c].state = ApplyEvent(@, e)]
    BY DEF RecordEvent
  <2>2. inst[c] = [agg |-> inst[c].agg, version |-> inst[c].version, state |-> inst[c].state, pending |-> inst[c].pending, restored |-> inst[c].restored]
    BY <1>2 DEF WellFormed
  <2>3. inst' = [inst EXCEPT ![c] = i]
    <3>. DEFINE q == Append(inst[c].pending, e)
    <3>1. inst' = [inst EXCEPT ![c] = [inst[c] EXCEPT !.pending = q, !.state = s]]
      BY <1>1, <2>1, <2>2
    <3>. HIDE DEF q
    <3>2. PICK r : r = [inst[c] EXCEPT !.pending = q, !.state = s]
      OBVIOUS
    <3>3. r = [agg |-> inst[c].agg, version |-> inst[c].version, state |-> s, pending |-> q, restored |-> inst[c].restored]
      BY <2>2, <3>2, RecordedIs
    <3>. QED  BY <3>1, <3>2, <3>3 DEF q
  <2>. QED  BY <2>3, CallerIs DEF RecordEvent, Moves
<1>4. /\ i.pending \in Seq(DomainEvents) /\ i.agg = inst[c].agg /\ i.version = inst[c].version
      /\ i.pending = Append(inst[c].pending, e) /\ i.state = s /\ i.restored = inst[c].restored
  BY <1>2 DEF WellFormed
<1>5. WellFormed(pc[c], i, tx[c])
  <2>1. i = [agg |-> i.agg, version |-> i.version, state |-> i.state, pending |-> i.pending, restored |-> i.restored]
    OBVIOUS
  <2>. HIDE DEF i
  <2>. QED  BY <1>2, <1>4, <2>1 DEF WellFormed
<1>. HIDE DEF i
<1>6. Continues(pc[c], i, tx[c])
  BY <1>2, <1>4 DEF Continues
<1>7. tx[c].rows # {} => \A d \in Callers : d # c /\ tx[d].rows # {} => inst[d].agg # i.agg
  BY <1>4, CallerIs
<1>8. StoreInv'
  BY <1>3, <1>5, <1>6, <1>7, CallerMoves
<1>. QED  BY <1>1, <1>3, <1>4, <1>8

LEMMA NewRowsDense ==
  ASSUME StoreInv, NEW c \in Callers
  PROVE  /\ Dense(NewRows(c), inst[c].version, inst[c].version + Len(inst[c].pending))
         /\ \A r \in NewRows(c) : r.agg = inst[c].agg
<1>. DEFINE v == inst[c].version
            es == inst[c].pending
            a == inst[c].agg
<1>1. v \in Nat /\ es \in Seq(DomainEvents) /\ Len(es) \in Nat
  BY CallerFields
<1>2. NewRows(c) = {Row(a, v + i, es[i]) : i \in 1 .. Len(es)}
  BY DEF NewRows
<1>3. \A i \in 1 .. Len(es) : Row(a, v + i, es[i]).sequence = v + i /\ Row(a, v + i, es[i]).agg = a
  BY DEF Row
<1>. HIDE DEF v, es, a
<1>4. \A n \in (v + 1) .. (v + Len(es)) : n - v \in 1 .. Len(es) /\ v + (n - v) = n
  BY <1>1
<1>5. \A r \in NewRows(c) : \E i \in 1 .. Len(es) : r = Row(a, v + i, es[i]) /\ r.sequence = v + i /\ r.agg = a
  BY <1>2, <1>3
<1>6. \A i \in 1 .. Len(es) : \E r \in NewRows(c) : r.sequence = v + i
  BY <1>2, <1>3
<1>7. \A n \in (v + 1) .. (v + Len(es)) : \E r \in NewRows(c) : r.sequence = n
  <2>. SUFFICES ASSUME NEW n \in (v + 1) .. (v + Len(es)) PROVE \E r \in NewRows(c) : r.sequence = n
    OBVIOUS
  <2>1. PICK r \in NewRows(c) : r.sequence = v + (n - v)
    BY <1>4, <1>6
  <2>. QED  BY <1>4, <2>1
<1>8. \A r \in NewRows(c) : r.sequence \in (v + 1) .. (v + Len(es))
  BY <1>1, <1>5
<1>9. \A r, s \in NewRows(c) : r.sequence = s.sequence => r = s
  <2>. SUFFICES ASSUME NEW r \in NewRows(c), NEW s \in NewRows(c), r.sequence = s.sequence PROVE r = s
    OBVIOUS
  <2>1. PICK i \in 1 .. Len(es) : r = Row(a, v + i, es[i]) /\ r.sequence = v + i
    BY <1>5
  <2>2. PICK j \in 1 .. Len(es) : s = Row(a, v + j, es[j]) /\ s.sequence = v + j
    BY <1>5
  <2>3. i = j
    BY <1>1, <2>1, <2>2
  <2>. QED  BY <2>1, <2>2, <2>3
<1>10. Dense(NewRows(c), v, v + Len(es))
  BY <1>7, <1>8, <1>9 DEF Dense
<1>. QED  BY <1>5, <1>10 DEF v, es, a

LEMMA PulledIs ==
  ASSUME NEW i, i = [agg |-> i.agg, version |-> i.version, state |-> i.state, pending |-> i.pending, restored |-> i.restored],
         NEW v, NEW r, r = [PullEvents(i) EXCEPT !.version = v]
  PROVE  /\ r = [agg |-> i.agg, version |-> v, state |-> i.state, pending |-> <<>>, restored |-> i.restored]
         /\ PullEvents(i) = [agg |-> i.agg, version |-> i.version, state |-> i.state, pending |-> <<>>, restored |-> i.restored]
<1>1. PICK p : p = PullEvents(i)
  OBVIOUS
<1>2. p = [agg |-> i.agg, version |-> i.version, state |-> i.state, pending |-> <<>>, restored |-> i.restored]
  BY <1>1 DEF PullEvents
<1>3. r = [p EXCEPT !.version = v]
  BY <1>1
<1>. QED  BY <1>1, <1>2, <1>3

LEMMA WrittenIs ==
  ASSUME NEW w, w = [rows |-> w.rows, snapshot |-> w.snapshot], NEW R, NEW s,
         NEW r, r = [w EXCEPT !.rows = R, !.snapshot = s]
  PROVE  r = [rows |-> R, snapshot |-> s]
  OBVIOUS

\* The index lets nobody append who has not seen the end of the stream.
LEMMA AppendsAtTheEnd ==
  ASSUME StoreInv, NEW c \in Callers, pc[c] = "ready", inst[c].pending # <<>>,
         ~Waits(c), ~Clashes(rows \cup tx[c].rows, NewRows(c))
  PROVE  /\ tx[c].rows = {} => inst[c].version = Size(inst[c].agg)
         /\ \A d \in Callers : d # c /\ tx[d].rows # {} => inst[d].agg # inst[c].agg
<1>. DEFINE a == inst[c].agg
            v == inst[c].version
<1>1. /\ a \in Aggregates /\ v \in Nat /\ inst[c].pending \in Seq(DomainEvents) /\ Len(inst[c].pending) > 0
      /\ tx[c].rows = {} => v <= Size(a)
  <2>1. Continues(pc[c], inst[c], tx[c])
    BY CallerIs
  <2>2. tx[c].rows = {} => v <= Size(a)
    BY <2>1 DEF Continues
  <2>. QED  BY <2>2, CallerFields
<1>2. Size(a) \in Nat /\ Dense(Committed(a), 0, Size(a))
  BY <1>1 DEF StoreInv, StreamsDense
<1>3. \E n \in NewRows(c) : n.sequence = v + 1 /\ n.agg = a
  <2>1. v + 1 \in (v + 1) .. (v + Len(inst[c].pending))
    BY <1>1
  <2>2. Dense(NewRows(c), v, v + Len(inst[c].pending)) /\ \A r \in NewRows(c) : r.agg = a
    BY NewRowsDense
  <2>. HIDE DEF a, v
  <2>. QED  BY <2>1, <2>2 DEF Dense
<1>4. \A r \in rows : r.agg = a => r.sequence # v + 1
  BY <1>3 DEF Clashes
<1>5. ASSUME tx[c].rows = {} PROVE v = Size(a)
  <2>. SUFFICES ASSUME v < Size(a) PROVE FALSE
    BY <1>1, <1>2, <1>5
  <2>1. v + 1 \in 1 .. Size(a)
    BY <1>1, <1>2
  <2>2. PICK r \in Committed(a) : r.sequence = v + 1
    BY <1>2, <2>1 DEF Dense
  <2>. QED  BY <1>4, <2>2 DEF Committed
<1>6. ASSUME NEW d \in Callers, d # c, tx[d].rows # {}, inst[d].agg = a PROVE FALSE
  <2>1. tx[c].rows = {}
    BY <1>6 DEF StoreInv, OneAppender
  <2>2. v = Size(a)
    BY <1>5, <2>1
  <2>3. /\ v < inst[d].version /\ inst[d].version \in Nat /\ Dense(tx[d].rows, v, inst[d].version)
        /\ \A r \in tx[d].rows : r.agg = a
    <3>1. Continues(pc[d], inst[d], tx[d])
      BY CallerIs
    <3>2. Size(a) < inst[d].version /\ Dense(tx[d].rows, Size(a), inst[d].version) /\ \A r \in tx[d].rows : r.agg = a
      BY <1>6, <3>1 DEF Continues
    <3>. QED  BY <2>2, <3>2, CallerFields
  <2>4. v + 1 \in (v + 1) .. inst[d].version
    BY <1>1, <2>3
  <2>5. PICK r \in tx[d].rows : r.sequence = v + 1 /\ r.agg = a
    BY <2>3, <2>4 DEF Dense
  <2>6. Clashes(tx[d].rows, NewRows(c))
    BY <1>3, <2>5 DEF Clashes
  <2>. QED  BY <1>6, <2>6 DEF Waits
<1>. QED  BY <1>5, <1>6

LEMMA AppendEventsStep ==
  ASSUME StoreInv, NEW c \in Callers, AppendEvents(c)
  PROVE  /\ StoreInv' /\ pc[c] = "ready"
         /\ tx[c].rows = {} => inst[c].version = Size(inst[c].agg)
         /\ \E i, w : /\ Moves(c, pc[c], i, w) /\ i.agg = inst[c].agg /\ w.rows # {}
                      /\ WellFormed(pc[c], i, w) /\ Continues(pc[c], i, w)
                      /\ i.version = inst[c].version + Len(inst[c].pending) /\ i.pending = <<>> /\ i.state = inst[c].state
                      /\ i.restored = inst[c].restored
                      /\ w.rows = tx[c].rows \cup NewRows(c)
                      /\ w.snapshot = Snapshotted(c, i.version) \/ w.snapshot = tx[c].snapshot
<1>. DEFINE a == inst[c].agg
            v == inst[c].version
            new == v + Len(inst[c].pending)
<1>1. pc[c] = "ready" /\ inst[c].pending # <<>> /\ ~Waits(c) /\ ~Clashes(rows \cup tx[c].rows, NewRows(c))
  BY DEF AppendEvents
<1>2. /\ tx[c].rows = {} => v = Size(a)
      /\ \A d \in Callers : d # c /\ tx[d].rows # {} => inst[d].agg # a
  BY <1>1, AppendsAtTheEnd
<1>3. WellFormed(pc[c], inst[c], tx[c]) /\ Continues(pc[c], inst[c], tx[c])
  BY CallerIs
<1>4. a \in Aggregates /\ v \in Nat /\ Size(a) \in Nat /\ new \in Nat /\ v < new
  BY <1>1, <1>3 DEF WellFormed, StoreInv, StreamsDense
<1>5. PICK s : s = IF new % SnapshotEvery = 0 THEN Snapshotted(c, new) ELSE tx[c].snapshot
  OBVIOUS
<1>6. PICK R : R = tx[c].rows \cup NewRows(c)
  OBVIOUS
<1>7. PICK w : w = [tx[c] EXCEPT !.rows = R, !.snapshot = s]
  OBVIOUS
<1>8. PICK i : i = [PullEvents(inst[c]) EXCEPT !.version = new]
  OBVIOUS
<1>9. /\ tx' = [tx EXCEPT ![c].rows = @ \cup NewRows(c),
                          ![c].snapshot = IF new % SnapshotEvery = 0 THEN Snapshotted(c, new) ELSE @]
      /\ inst' = [inst EXCEPT ![c] = i] /\ UNCHANGED <<rows, snapshot, pc>>
  BY <1>8 DEF AppendEvents
<1>10. w = [rows |-> R, snapshot |-> s]
  BY <1>3, <1>7, WrittenIs DEF WellFormed
<1>11. i = [agg |-> a, version |-> new, state |-> inst[c].state, pending |-> <<>>,
             restored |-> inst[c].restored]
  BY <1>3, <1>8, PulledIs DEF WellFormed
<1>12. Moves(c, pc[c], i, w)
  <2>1. tx[c] = [rows |-> tx[c].rows, snapshot |-> tx[c].snapshot]
    BY <1>3 DEF WellFormed
  <2>. DEFINE add == NewRows(c)
              snap == Snapshotted(c, new)
              every == new % SnapshotEvery = 0
  <2>2. tx' = [tx EXCEPT ![c].rows = @ \cup add, ![c].snapshot = IF every THEN snap ELSE @]
    BY <1>9
  <2>3. R = tx[c].rows \cup add /\ s = IF every THEN snap ELSE tx[c].snapshot
    BY <1>5, <1>6
  <2>. HIDE DEF add, snap, every
  <2>4. tx' = [tx EXCEPT ![c] = w]
    BY <1>7, <2>1, <2>2, <2>3
  <2>. QED  BY <1>9, <2>4, CallerIs DEF Moves
<1>13. /\ i.agg = a /\ i.version = new /\ i.pending = <<>> /\ w.rows = R /\ w.snapshot = s
       /\ i.state = inst[c].state /\ i.restored = inst[c].restored
  BY <1>10, <1>11
<1>14. WellFormed(pc[c], i, w)
  BY <1>3, <1>4, <1>10, <1>11, <1>13 DEF WellFormed
<1>15. /\ Dense(NewRows(c), v, new) /\ NewRows(c) # {} /\ \A r \in NewRows(c) : r.agg = a
  <2>1. Dense(NewRows(c), v, new) /\ \A r \in NewRows(c) : r.agg = a
    BY NewRowsDense
  <2>2. v + 1 \in (v + 1) .. new
    BY <1>4
  <2>. HIDE DEF new, v, a
  <2>. QED  BY <2>1, <2>2 DEF Dense
<1>16. /\ Dense(R, Size(a), new) /\ Size(a) < new /\ \A r \in R : r.agg = a
  <2>. HIDE DEF new
  <2>1. CASE tx[c].rows = {}
    BY <1>2, <1>4, <1>6, <1>15, <2>1
  <2>2. CASE tx[c].rows # {}
    <3>1. Size(a) < v /\ Dense(tx[c].rows, Size(a), v) /\ \A r \in tx[c].rows : r.agg = a
      BY <1>3, <2>2 DEF Continues
    <3>. HIDE DEF a, v
    <3>2. Dense(R, Size(a), new)
      BY <1>4, <1>6, <1>15, <3>1, DenseUnion
    <3>. QED  BY <1>4, <1>6, <1>15, <3>1, <3>2
  <2>. QED  BY <2>1, <2>2
<1>17. s # NoSnapshot => s.version \in Nat /\ s.version <= new
  <2>1. CASE new % SnapshotEvery = 0
    <3>1. s.version = new
      BY <1>5, <2>1 DEF Snapshotted
    <3>. QED  BY <1>4, <3>1
  <2>2. CASE ~(new % SnapshotEvery = 0)
    <3>1. s = tx[c].snapshot
      BY <1>5, <2>2
    <3>2. s # NoSnapshot => s.version \in Nat /\ s.version <= v
      BY <1>3, <3>1 DEF Continues
    <3>. QED  BY <1>4, <3>2
  <2>. QED  BY <2>1, <2>2
<1>18. R # {}
  BY <1>6, <1>15
<1>. HIDE DEF a
<1>. HIDE DEF new
<1>19. Continues(pc[c], i, w)
  BY <1>1, <1>13, <1>16, <1>17, <1>18 DEF Continues
<1>20. StoreInv'
  BY <1>2, <1>12, <1>13, <1>14, <1>19, CallerMoves
<1>21. w.snapshot = Snapshotted(c, i.version) \/ w.snapshot = tx[c].snapshot
  BY <1>5, <1>13
<1>22. i.version = inst[c].version + Len(inst[c].pending)
  BY <1>13 DEF new
<1>. QED  BY <1>1, <1>2, <1>6, <1>12, <1>13, <1>14, <1>18, <1>19, <1>20, <1>21, <1>22 DEF a

LEMMA AppendConflictStep ==
  ASSUME StoreInv, NEW c \in Callers, AppendConflict(c)
  PROVE  StoreInv' /\ \E i : Moves(c, "aborted", i, tx[c])
<1>1. PICK i : i = PullEvents(inst[c])
  OBVIOUS
<1>2. Moves(c, "aborted", i, tx[c]) /\ pc[c] = "ready"
  BY <1>1, CallerIs DEF AppendConflict, Moves
<1>3. WellFormed(pc[c], inst[c], tx[c]) /\ Continues(pc[c], inst[c], tx[c])
  BY CallerIs
<1>4. i = [agg |-> inst[c].agg, version |-> inst[c].version, state |-> inst[c].state, pending |-> <<>>,
            restored |-> inst[c].restored]
  <2>1. inst[c] = [agg |-> inst[c].agg, version |-> inst[c].version, state |-> inst[c].state, pending |-> inst[c].pending, restored |-> inst[c].restored]
    BY <1>3 DEF WellFormed
  <2>. QED  BY <1>1, <2>1 DEF PullEvents
<1>5. i.agg = inst[c].agg /\ i.version = inst[c].version /\ i.pending = <<>>
  BY <1>4
<1>6. WellFormed("aborted", i, tx[c])
  BY <1>2, <1>3, <1>4, <1>5 DEF WellFormed, PCs
<1>7. Continues("aborted", i, tx[c])
  BY <1>3, <1>5 DEF Continues
<1>8. tx[c].rows # {} => \A d \in Callers : d # c /\ tx[d].rows # {} => inst[d].agg # i.agg
  BY <1>5, CallerIs
<1>. QED  BY <1>2, <1>6, <1>7, <1>8, CallerMoves

LEMMA EndStep ==
  ASSUME StoreInv, NEW c \in Callers, Rollback(c) \/ Discard(c)
  PROVE  StoreInv' /\ Moves(c, "idle", inst[c], EmptyTx)
<1>1. Moves(c, "idle", inst[c], EmptyTx)
  <2>1. CASE Rollback(c)
    BY <2>1, CallerIs DEF Rollback, Moves
  <2>2. CASE Discard(c)
    BY <2>2, CallerIs DEF Discard, Moves
  <2>. QED  BY <2>1, <2>2
<1>2. EmptyTx = [rows |-> EmptyTx.rows, snapshot |-> EmptyTx.snapshot] /\ EmptyTx.rows = {} /\ EmptyTx.snapshot = NoSnapshot
  BY DEF EmptyTx
<1>3. WellFormed(pc[c], inst[c], tx[c])
  BY CallerIs
<1>4. WellFormed("idle", inst[c], EmptyTx)
  BY <1>2, <1>3 DEF WellFormed, PCs
<1>5. Continues("idle", inst[c], EmptyTx)
  BY <1>2 DEF Continues
<1>. QED  BY <1>1, <1>2, <1>4, <1>5, CallerMoves

\* A commit extends one stream, at its end.
LEMMA CommitExtends ==
  ASSUME StoreInv, NEW c \in Callers, CommitTx(c)
  PROVE  /\ pc[c] = "ready" /\ tx[c].rows # {} /\ inst[c].agg \in Aggregates /\ Size(inst[c].agg) < inst[c].version
         /\ Committed(inst[c].agg)' = Committed(inst[c].agg) \cup tx[c].rows
         /\ \A a : a # inst[c].agg => Committed(a)' = Committed(a)
         /\ Dense(tx[c].rows, Size(inst[c].agg), inst[c].version)
         /\ Dense(Committed(inst[c].agg)', 0, inst[c].version) /\ Size(inst[c].agg)' = inst[c].version
<1>1. pc[c] = "ready" /\ tx[c] # EmptyTx /\ rows' = rows \cup tx[c].rows /\ UNCHANGED inst
  BY DEF CommitTx
<1>2. WellFormed(pc[c], inst[c], tx[c]) /\ Continues(pc[c], inst[c], tx[c])
  BY CallerIs
<1>3. tx[c].rows # {}
  BY <1>1, <1>2 DEF Continues
<1>4. PICK a : a = inst[c].agg
  OBVIOUS
<1>5. PICK v : v = inst[c].version
  OBVIOUS
<1>6. a \in Aggregates /\ v \in Nat
  BY <1>1, <1>4, <1>5, CallerFields
<1>7. Size(a) < v /\ Dense(tx[c].rows, Size(a), v) /\ \A r \in tx[c].rows : r.agg = a
  BY <1>2, <1>3, <1>4, <1>5 DEF Continues
<1>8. Size(a) \in Nat /\ Dense(Committed(a), 0, Size(a))
  BY <1>6 DEF StoreInv, StreamsDense
<1>9. Committed(a)' = Committed(a) \cup tx[c].rows
  BY <1>1, <1>7 DEF Committed
<1>10. \A b : b # a => Committed(b)' = Committed(b)
  BY <1>1, <1>7 DEF Committed
<1>11. Dense(Committed(a) \cup tx[c].rows, 0, v)
  BY <1>6, <1>7, <1>8, DenseUnion
<1>12. Size(a)' = v
  <2>1. Cardinality(Committed(a) \cup tx[c].rows) = v
    BY <1>6, <1>11, DenseCardinality
  <2>. QED  BY <1>9, <2>1 DEF Size
<1>13. Dense(Committed(a)', 0, v)
  BY <1>9, <1>11
<1>. QED  BY <1>1, <1>3, <1>4, <1>5, <1>6, <1>7, <1>9, <1>10, <1>12, <1>13

LEMMA CommitTxStep ==
  ASSUME StoreInv, NEW c \in Callers, CommitTx(c)
  PROVE  StoreInv'
<1>1. PICK a : a = inst[c].agg
  OBVIOUS
<1>2. PICK v : v = inst[c].version
  OBVIOUS
<1>3. /\ tx[c].rows # {} /\ a \in Aggregates /\ Size(a) < v
      /\ \A b : b # a => Committed(b)' = Committed(b)
      /\ Dense(Committed(a)', 0, v) /\ Size(a)' = v
  <2>1. inst' = inst
    BY DEF CommitTx
  <2>. QED  BY <1>1, <1>2, <2>1, CommitExtends
<1>4. v \in Nat
  BY <1>2, CallerFields
<1>5. PICK s : s = IF tx[c].snapshot = NoSnapshot THEN snapshot[a] ELSE tx[c].snapshot
  OBVIOUS
<1>6. /\ snapshot' = [snapshot EXCEPT ![a] = s] /\ tx' = [tx EXCEPT ![c] = EmptyTx] /\ UNCHANGED <<pc, inst>>
      /\ pc[c] = "ready"
  BY <1>1, <1>5 DEF CommitTx
<1>7. /\ pc = [d \in Callers |-> pc[d]] /\ inst = [d \in Callers |-> inst[d]] /\ tx = [d \in Callers |-> tx[d]]
      /\ snapshot = [b \in Aggregates |-> snapshot[b]]
      /\ \A d \in Callers : WellFormed(pc[d], inst[d], tx[d])
  BY DEF StoreInv, StoreTypes
<1>8. EmptyTx = [rows |-> EmptyTx.rows, snapshot |-> EmptyTx.snapshot] /\ EmptyTx.rows = {} /\ EmptyTx.snapshot = NoSnapshot
  BY DEF EmptyTx
<1>9. tx' = [d \in Callers |-> tx'[d]] /\ tx'[c] = EmptyTx /\ \A d \in Callers : d # c => tx'[d] = tx[d]
  BY <1>6, <1>7
<1>10. StoreTypes'
  <2>1. \A d \in Callers : WellFormed(pc[d], inst[d], tx'[d])
    <3>1. WellFormed(pc[c], inst[c], tx[c])
      BY <1>7
    <3>2. WellFormed(pc[c], inst[c], EmptyTx)
      BY <1>8, <3>1 DEF WellFormed
    <3>. QED  BY <1>7, <1>9, <3>2
  <2>2. snapshot' = [b \in Aggregates |-> snapshot'[b]]
    BY <1>6, <1>7
  <2>3. \A d \in Callers : WellFormed(pc'[d], inst'[d], tx'[d])
    BY <1>6, <2>1
  <2>. QED  BY <1>6, <1>7, <1>9, <2>2, <2>3 DEF StoreTypes, WellFormed
<1>11. \A b : b # a => Committed(b)' = Committed(b) /\ Size(b)' = Size(b)
  BY <1>3 DEF Size
<1>12. StreamsDense'
  <2>. SUFFICES ASSUME NEW b \in Aggregates PROVE Size(b)' \in Nat /\ Dense(Committed(b)', 0, Size(b)')
    BY DEF StreamsDense, Dense
  <2>1. CASE b = a
    BY <1>3, <1>4, <2>1
  <2>2. CASE b # a
    BY <1>11, <2>2 DEF StoreInv, StreamsDense
  <2>. QED  BY <2>1, <2>2
<1>13. Size(a) \in Nat /\ (snapshot[a] # NoSnapshot => snapshot[a].version \in Nat /\ snapshot[a].version <= Size(a))
  BY <1>3 DEF StoreInv, StreamsDense, SnapshotBehind
<1>14. s # NoSnapshot => s.version \in Nat /\ s.version <= v
  <2>1. tx[c].snapshot # NoSnapshot => tx[c].snapshot.version \in Nat /\ tx[c].snapshot.version <= v
    BY <1>2, CallerIs DEF Continues
  <2>2. CASE tx[c].snapshot = NoSnapshot
    BY <1>3, <1>4, <1>5, <1>13, <2>2
  <2>3. CASE tx[c].snapshot # NoSnapshot
    BY <1>5, <2>1, <2>3
  <2>. QED  BY <2>2, <2>3
<1>15. SnapshotBehind'
  <2>. SUFFICES ASSUME NEW b \in Aggregates, snapshot'[b] # NoSnapshot
                PROVE  snapshot'[b].version \in Nat /\ snapshot'[b].version <= Size(b)'
    BY DEF SnapshotBehind
  <2>1. snapshot'[a] = s /\ (b # a => snapshot'[b] = snapshot[b])
    BY <1>3, <1>6, <1>7
  <2>2. CASE b = a
    BY <1>3, <1>14, <2>1, <2>2
  <2>3. CASE b # a
    BY <1>11, <2>1, <2>3 DEF StoreInv, SnapshotBehind
  <2>. QED  BY <2>2, <2>3
<1>16. TxContinues'
  <2>. SUFFICES ASSUME NEW d \in Callers PROVE Continues(pc[d], inst[d], tx[d])'
    BY DEF TxContinues
  <2>1. PICK i : i = inst[d]
    OBVIOUS
  <2>2. PICK p : p = pc[d]
    OBVIOUS
  <2>3. PICK w : w = tx[d]
    OBVIOUS
  <2>4. inst'[d] = i /\ pc'[d] = p /\ Continues(p, i, w) /\ i.version \in Nat
    BY <1>6, <2>1, <2>2, <2>3, CallerIs, CallerFields
  <2>5. CASE d = c
    <3>1. Continues(p, i, EmptyTx)'
      BY <1>1, <1>2, <1>3, <1>4, <1>8, <2>1, <2>5 DEF Continues
    <3>. QED  BY <1>9, <2>4, <2>5, <3>1 DEF Continues
  <2>6. CASE d # c
    <3>1. tx'[d] = w
      BY <1>9, <2>3, <2>6
    <3>2. CASE w.rows = {}
      <4>1. w = EmptyTx
        BY <2>4, <3>2 DEF Continues
      <4>2. p \in {"loading", "ready"} => i.version <= Size(i.agg)'
        <5>. SUFFICES ASSUME p \in {"loading", "ready"} PROVE i.version <= Size(i.agg)'
          OBVIOUS
        <5>1. i.version <= Size(i.agg)
          BY <2>4, <3>2 DEF Continues
        <5>2. CASE i.agg = a
          <6>1. i.version <= Size(a) /\ Size(i.agg)' = v
            BY <1>3, <5>1, <5>2
          <6>. QED  BY <1>3, <1>4, <1>13, <2>4, <6>1
        <5>3. CASE i.agg # a
          BY <1>11, <5>1, <5>3
        <5>. QED  BY <5>2, <5>3
      <4>3. Continues(p, i, w)'
        BY <1>8, <3>2, <4>1, <4>2 DEF Continues
      <4>. QED  BY <2>4, <3>1, <4>3 DEF Continues
    <3>3. CASE w.rows # {}
      <4>1. i.agg # a
        BY <1>1, <1>3, <2>1, <2>3, <2>6, <3>3 DEF StoreInv, OneAppender
      <4>2. Size(i.agg)' = Size(i.agg)
        BY <1>11, <4>1
      <4>3. Continues(p, i, w)'
        BY <2>4, <4>2 DEF Continues, Dense, EmptyTx
      <4>. QED  BY <2>4, <3>1, <4>3 DEF Continues
    <3>. QED  BY <3>2, <3>3
  <2>. QED  BY <2>5, <2>6
<1>17. OneAppender'
  BY <1>6, <1>8, <1>9 DEF StoreInv, OneAppender
<1>. QED  BY <1>10, <1>12, <1>15, <1>16, <1>17 DEF StoreInv

LEMMA StoreInits ==
  ASSUME EventStoreInit
  PROVE  StoreInv
<1>1. EmptyTx = [rows |-> EmptyTx.rows, snapshot |-> EmptyTx.snapshot] /\ EmptyTx.rows = {} /\ EmptyTx.snapshot = NoSnapshot
  BY DEF EmptyTx
<1>2. PICK a : a = CHOOSE b \in Aggregates : TRUE
  OBVIOUS
<1>3. PICK i : i = NewInstance(a)
  OBVIOUS
<1>4. /\ pc = [c \in Callers |-> "idle"] /\ inst = [c \in Callers |-> i] /\ tx = [c \in Callers |-> EmptyTx]
      /\ snapshot = [b \in Aggregates |-> NoSnapshot] /\ rows = {}
  BY <1>2, <1>3 DEF EventStoreInit
<1>5. WellFormed("idle", i, EmptyTx)
  BY <1>1, <1>3 DEF WellFormed, PCs, NewInstance
<1>6. StoreTypes
  <2>1. \A c \in Callers : WellFormed(pc[c], inst[c], tx[c])
    BY <1>4, <1>5
  <2>. QED  BY <1>4, <2>1 DEF StoreTypes
<1>7. \A b : Committed(b) = {} /\ Size(b) = 0
  <2>1. \A b : Committed(b) = {}
    BY <1>4 DEF Committed
  <2>. QED  BY <2>1, FS_EmptySet DEF Size
<1>8. StreamsDense /\ SnapshotBehind
  BY <1>4, <1>7 DEF StreamsDense, SnapshotBehind, Dense
<1>9. Continues("idle", i, EmptyTx)
  BY <1>1 DEF Continues
<1>10. TxContinues
  BY <1>4, <1>9 DEF TxContinues
<1>11. OneAppender
  BY <1>1, <1>4 DEF OneAppender
<1>. QED  BY <1>6, <1>8, <1>10, <1>11 DEF StoreInv

-----------------------------------------------------------------------------
(* The store implements the append-only log                                *)

\* What the refinement mapping makes of the table and of a caller.
View(p, i, w) == IF p # "ready" THEN NoView ELSE [agg |-> i.agg, length |-> i.version - Cardinality(w.rows)]
StreamView == [a \in Aggregates |-> EventsOf(Committed(a))]
SeenView == [c \in Callers |-> View(pc[c], inst[c], tx[c])]

LEMMA PrefixIs ==
  ASSUME NEW S, NEW n \in Nat, NEW m \in Nat, m <= n, NEW f \in [1 .. n -> S], NEW g \in [1 .. m -> S],
         \A i \in 1 .. m : f[i] = g[i]
  PROVE  Len(f) = n /\ Len(g) = m /\ SubSeq(f, 1, m) = g
<1>1. f \in Seq(S) /\ g \in Seq(S) /\ Len(f) = n /\ Len(g) = m
  OBVIOUS
<1>2. SubSeq(f, 1, m) \in Seq(S) /\ Len(SubSeq(f, 1, m)) = m /\ \A i \in 1 .. m : SubSeq(f, 1, m)[i] = f[i]
  BY <1>1
<1>. QED  BY <1>1, <1>2

LEMMA StreamLength ==
  ASSUME StoreInv, NEW a \in Aggregates
  PROVE  Len(StreamView[a]) = Size(a) /\ Size(a) \in Nat
<1>1. Size(a) \in Nat /\ Dense(Committed(a), 0, Size(a))
  BY DEF StoreInv, StreamsDense
<1>2. EventsOf(Committed(a)) \in [1 .. Size(a) -> {r.event : r \in Committed(a)}]
  BY <1>1, DenseEvents
<1>3. Len(EventsOf(Committed(a))) = Size(a)
  BY <1>1, <1>2, PrefixIs
<1>. QED  BY <1>1, <1>3 DEF StreamView

\* A caller has seen the stream without its own rows.
LEMMA ViewIs ==
  ASSUME NEW i, NEW w, WellFormed("ready", i, w), Continues("ready", i, w), Size(i.agg) \in Nat
  PROVE  View("ready", i, w) = [agg |-> i.agg, length |-> IF w.rows = {} THEN i.version ELSE Size(i.agg)]
<1>1. i.version \in Nat
  BY DEF WellFormed
<1>2. CASE w.rows = {}
  <2>1. Cardinality(w.rows) = 0
    BY <1>2, FS_EmptySet
  <2>2. i.version - Cardinality(w.rows) = i.version
    BY <1>1, <2>1
  <2>. QED  BY <1>2, <2>2 DEF View
<1>3. CASE w.rows # {}
  <2>1. Size(i.agg) < i.version /\ Dense(w.rows, Size(i.agg), i.version)
    BY <1>3 DEF Continues
  <2>2. Cardinality(w.rows) = i.version - Size(i.agg)
    <3>1. Size(i.agg) <= i.version
      BY <1>1, <2>1
    <3>. QED  BY <1>1, <2>1, <3>1, DenseCardinality
  <2>3. i.version - Cardinality(w.rows) = Size(i.agg)
    BY <1>1, <2>2
  <2>. QED  BY <1>3, <2>3 DEF View
<1>. QED  BY <1>2, <1>3

LEMMA MovesMapped ==
  ASSUME StoreInv, NEW c \in Callers, NEW p, NEW i, NEW w, Moves(c, p, i, w)
  PROVE  /\ StreamView' = StreamView /\ SeenView' = [SeenView EXCEPT ![c] = View(p, i, w)]
         /\ View(p, i, w) = View(pc[c], inst[c], tx[c]) => SeenView' = SeenView
<1>1. StreamView' = StreamView
  BY DEF Moves, StreamView, Committed
<1>2. /\ pc'[c] = p /\ inst'[c] = i /\ tx'[c] = w
      /\ \A d \in Callers : d # c => pc'[d] = pc[d] /\ inst'[d] = inst[d] /\ tx'[d] = tx[d]
  BY DEF StoreInv, StoreTypes, Moves
<1>3. \A d \in Callers : View(pc[d], inst[d], tx[d])' = View(pc'[d], inst'[d], tx'[d])
  BY DEF View
<1>4. SeenView' = [d \in Callers |-> View(pc'[d], inst'[d], tx'[d])]
  BY <1>3 DEF SeenView
<1>5. SeenView' = [SeenView EXCEPT ![c] = View(p, i, w)]
  BY <1>2, <1>4 DEF SeenView
<1>6. ASSUME View(p, i, w) = View(pc[c], inst[c], tx[c]) PROVE SeenView' = SeenView
  BY <1>2, <1>4, <1>6 DEF SeenView
<1>. QED  BY <1>1, <1>5, <1>6

\* One step of the log, of the mapped variables.
LogStep == Log!LogNext \/ UNCHANGED <<StreamView, SeenView>>

LEMMA ObserveMapped ==
  ASSUME NEW c \in Callers, NEW a \in Aggregates, StreamView' = StreamView,
         SeenView' = [SeenView EXCEPT ![c] = [agg |-> a, length |-> Len(StreamView[a])]]
  PROVE  Log!LogNext
<1>1. Log!Observe(c, a)
  BY DEF Log!Observe, StreamView, SeenView, View
<1>. QED  BY <1>1 DEF Log!LogNext

LEMMA ForgetMapped ==
  ASSUME NEW c \in Callers, StreamView' = StreamView, SeenView' = [SeenView EXCEPT ![c] = NoView]
  PROVE  Log!LogNext
<1>1. Log!Forget(c)
  BY DEF Log!Forget, StreamView, SeenView, View
<1>. QED  BY <1>1 DEF Log!LogNext

LEMMA ExtendMapped ==
  ASSUME NEW c \in Callers, SeenView[c] # NoView, NEW a \in Aggregates, SeenView[c].agg = a,
         SeenView[c].length = Len(StreamView[a]), Len(StreamView'[a]) > Len(StreamView[a]),
         SubSeq(StreamView'[a], 1, Len(StreamView[a])) = StreamView[a],
         \A b \in Aggregates : b # a => StreamView'[b] = StreamView[b],
         SeenView' = [SeenView EXCEPT ![c].length = Len(StreamView'[a])]
  PROVE  Log!LogNext
<1>1. Log!Extend(c)
  BY DEF Log!Extend, StreamView, SeenView, View
<1>. QED  BY <1>1 DEF Log!LogNext

LEMMA CommitMapped ==
  ASSUME StoreInv, StoreInv', NEW c \in Callers, CommitTx(c)
  PROVE  Log!LogNext
<1>1. PICK a : a = inst[c].agg
  OBVIOUS
<1>2. PICK v : v = inst[c].version
  OBVIOUS
<1>3. PICK n : n = Size(a)
  OBVIOUS
<1>4. /\ UNCHANGED <<pc, inst>> /\ tx' = [tx EXCEPT ![c] = EmptyTx] /\ pc[c] = "ready"
  BY DEF CommitTx
<1>5. /\ a \in Aggregates /\ tx[c].rows # {} /\ n < v /\ Size(a)' = v
      /\ Committed(a)' = Committed(a) \cup tx[c].rows /\ Dense(Committed(a)', 0, v)
      /\ \A b : b # a => Committed(b)' = Committed(b)
  BY <1>1, <1>2, <1>3, <1>4, CommitExtends
<1>6. v \in Nat /\ n \in Nat /\ Dense(Committed(a), 0, n)
  BY <1>2, <1>3, <1>5, CallerFields DEF StoreInv, StreamsDense
<1>7. Len(StreamView[a]) = n
  BY <1>3, <1>5, StreamLength
<1>8. WellFormed("ready", inst[c], tx[c]) /\ Continues("ready", inst[c], tx[c])
  BY <1>4, CallerIs
<1>9. View("ready", inst[c], tx[c]) = [agg |-> a, length |-> n]
  BY <1>1, <1>3, <1>5, <1>6, <1>8, ViewIs
<1>10. View("ready", inst[c], EmptyTx) = [agg |-> a, length |-> v]
  <2>1. EmptyTx.rows = {} /\ Cardinality({}) = 0
    BY FS_EmptySet DEF EmptyTx
  <2>2. inst[c].version - Cardinality(EmptyTx.rows) = v
    BY <1>2, <1>6, <2>1
  <2>. QED  BY <1>1, <2>2 DEF View
<1>11. SeenView[c] = [agg |-> a, length |-> n]
  BY <1>4, <1>9 DEF SeenView
<1>12. SeenView' = [SeenView EXCEPT ![c] = [agg |-> a, length |-> v]]
  <2>1. tx'[c] = EmptyTx /\ \A d \in Callers : d # c => tx'[d] = tx[d]
    BY <1>4 DEF StoreInv, StoreTypes
  <2>2. \A d \in Callers : View(pc[d], inst[d], tx[d])' = View(pc'[d], inst'[d], tx'[d])
    BY DEF View
  <2>3. SeenView' = [d \in Callers |-> View(pc'[d], inst'[d], tx'[d])]
    BY <2>2 DEF SeenView
  <2>4. View(pc'[c], inst'[c], tx'[c]) = [agg |-> a, length |-> v]
    BY <1>4, <1>10, <2>1
  <2>5. \A d \in Callers : d # c => View(pc'[d], inst'[d], tx'[d]) = View(pc[d], inst[d], tx[d])
    BY <1>4, <2>1
  <2>. QED  BY <2>3, <2>4, <2>5 DEF SeenView
<1>13. SeenView' = [SeenView EXCEPT ![c].length = v]
  <2>1. PICK r : r = SeenView[c]
    OBVIOUS
  <2>2. PICK s : s = [r EXCEPT !.length = v]
    OBVIOUS
  <2>3. s = [agg |-> a, length |-> v]
    BY <1>11, <2>1, <2>2
  <2>4. [SeenView EXCEPT ![c].length = v] = [SeenView EXCEPT ![c] = s]
    BY <2>1, <2>2 DEF SeenView
  <2>. QED  BY <1>12, <2>3, <2>4
<1>14. \A b \in Aggregates : b # a => StreamView'[b] = StreamView[b]
  BY <1>5 DEF StreamView
<1>15. StreamView[a] = EventsOf(Committed(a)) /\ StreamView'[a] = EventsOf(Committed(a)')
  <2>1. EventsOf(Committed(a))' = EventsOf(Committed(a)')
    BY DEF EventsOf, InOrder
  <2>. QED  BY <1>5, <2>1 DEF StreamView
<1>16. SubSeq(StreamView'[a], 1, n) = StreamView[a] /\ Len(StreamView'[a]) = v
  <2>. DEFINE R == Committed(a)
              T == Committed(a)'
              S == {r.event : r \in T}
  <2>1. EventsOf(R) \in [1 .. n -> {r.event : r \in R}] /\ \A r \in R : EventsOf(R)[r.sequence] = r.event
    BY <1>6, DenseEvents
  <2>2. EventsOf(T) \in [1 .. v -> S] /\ \A r \in T : EventsOf(T)[r.sequence] = r.event
    <3>. HIDE DEF T
    <3>. QED  BY <1>5, <1>6, DenseEvents DEF T
  <2>3. R \subseteq T
    BY <1>5
  <2>4. \A m \in 1 .. n : \E r \in R : r.sequence = m
    BY <1>6 DEF Dense
  <2>5. {r.event : r \in R} \subseteq S
    BY <2>3
  <2>. HIDE DEF R, T
  <2>6. \A m \in 1 .. n : EventsOf(T)[m] = EventsOf(R)[m]
    BY <2>1, <2>2, <2>3, <2>4
  <2>. HIDE DEF S
  <2>7. EventsOf(R) \in [1 .. n -> S]
    BY <2>1, <2>5
  <2>8. SubSeq(EventsOf(T), 1, n) = EventsOf(R) /\ Len(EventsOf(T)) = v
    BY <1>5, <1>6, <2>2, <2>6, <2>7, PrefixIs
  <2>. QED  BY <1>15, <2>8 DEF R, T
<1>17. SeenView[c] # NoView
  BY <1>5, <1>6, <1>11, EventStoreAssumption
<1>18. SeenView[c].agg = a /\ SeenView[c].length = n
  BY <1>11
<1>. QED  BY <1>5, <1>6, <1>7, <1>13, <1>14, <1>16, <1>17, <1>18, ExtendMapped

LEMMA StreamStep ==
  ASSUME StoreInv, [EventStoreNext]_storeVars
  PROVE  StoreInv' /\ LogStep
<1>1. CASE UNCHANGED storeVars
  <2>1. StoreInv'
    <3>1. \A a : Committed(a)' = Committed(a) /\ Size(a)' = Size(a)
      BY <1>1 DEF storeVars, Committed, Size
    <3>2. StoreTypes' /\ OneAppender'
      BY <1>1 DEF storeVars, StoreInv, StoreTypes, WellFormed, OneAppender
    <3>3. StreamsDense' /\ SnapshotBehind'
      BY <1>1, <3>1 DEF storeVars, StoreInv, StreamsDense, SnapshotBehind, Dense
    <3>4. TxContinues'
      BY <1>1, <3>1 DEF storeVars, StoreInv, TxContinues, Continues, Dense, EmptyTx
    <3>. QED  BY <3>2, <3>3, <3>4 DEF StoreInv
  <2>2. UNCHANGED <<StreamView, SeenView>>
    BY <1>1 DEF storeVars, StreamView, SeenView, Committed, View
  <2>. QED  BY <2>1, <2>2 DEF LogStep
<1>2. ASSUME NEW c \in Callers, NEW a \in Aggregates, LoadSnapshot(c, a) PROVE StoreInv' /\ LogStep
  <2>1. StoreInv'
    BY <1>2, LoadSnapshotStep
  <2>2. /\ pc[c] = "idle" /\ pc' = [pc EXCEPT ![c] = "loading"] /\ UNCHANGED <<rows, snapshot, tx>>
        /\ \E i : inst' = [inst EXCEPT ![c] = i]
    BY <1>2 DEF LoadSnapshot
  <2>3. PICK i : Moves(c, "loading", i, tx[c])
    BY <2>2, CallerIs DEF Moves
  <2>4. View("loading", i, tx[c]) = View(pc[c], inst[c], tx[c])
    BY <2>2 DEF View
  <2>. QED  BY <2>1, <2>3, <2>4, MovesMapped DEF LogStep
<1>3. ASSUME NEW c \in Callers, LoadEvents(c) PROVE StoreInv' /\ LogStep
  <2>1. StoreInv'
    BY <1>3, LoadEventsStep
  <2>2. PICK i : /\ Moves(c, "ready", i, tx[c]) /\ WellFormed("ready", i, tx[c])
                 /\ i.agg \in Aggregates /\ i.version = Size(i.agg)
    BY <1>3, LoadEventsLoads
  <2>3. tx[c] = EmptyTx
    BY <1>3, LoadEventsLoads
  <2>4. Size(i.agg) \in Nat /\ Len(StreamView[i.agg]) = Size(i.agg)
    BY <2>2, StreamLength
  <2>5. View("ready", i, tx[c]) = [agg |-> i.agg, length |-> Len(StreamView[i.agg])]
    <3>1. tx[c].rows = {} /\ Cardinality({}) = 0
      BY <2>3, FS_EmptySet DEF EmptyTx
    <3>2. i.version - Cardinality(tx[c].rows) = Size(i.agg)
      BY <2>2, <2>4, <3>1
    <3>. QED  BY <2>4, <3>2 DEF View
  <2>6. StreamView' = StreamView /\ SeenView' = [SeenView EXCEPT ![c] = View("ready", i, tx[c])]
    BY <2>2, MovesMapped
  <2>. QED  BY <2>1, <2>2, <2>5, <2>6, ObserveMapped DEF LogStep
<1>4. ASSUME NEW c \in Callers, NEW e \in DomainEvents, RecordEvent(c, e) PROVE StoreInv' /\ LogStep
  <2>1. StoreInv'
    BY <1>4, RecordEventStep
  <2>2. PICK i : Moves(c, pc[c], i, tx[c]) /\ i.agg = inst[c].agg /\ i.version = inst[c].version
    BY <1>4, RecordEventStep
  <2>3. View(pc[c], i, tx[c]) = View(pc[c], inst[c], tx[c])
    BY <2>2 DEF View
  <2>. QED  BY <2>1, <2>2, <2>3, MovesMapped DEF LogStep
<1>5. ASSUME NEW c \in Callers, AppendNothing(c) PROVE StoreInv' /\ LogStep
  BY <1>1, <1>5 DEF AppendNothing
<1>6. ASSUME NEW c \in Callers, AppendEvents(c) PROVE StoreInv' /\ LogStep
  <2>1. StoreInv' /\ pc[c] = "ready" /\ (tx[c].rows = {} => inst[c].version = Size(inst[c].agg))
    BY <1>6, AppendEventsStep
  <2>2. PICK i, w : /\ Moves(c, pc[c], i, w) /\ i.agg = inst[c].agg /\ w.rows # {}
                    /\ WellFormed(pc[c], i, w) /\ Continues(pc[c], i, w)
    BY <1>6, AppendEventsStep
  <2>3. Size(inst[c].agg) \in Nat
    BY <2>1, CallerFields DEF StoreInv, StreamsDense
  <2>4. View("ready", i, w) = [agg |-> inst[c].agg, length |-> Size(inst[c].agg)]
    BY <2>1, <2>2, <2>3, ViewIs
  <2>5. View("ready", inst[c], tx[c]) = [agg |-> inst[c].agg, length |-> Size(inst[c].agg)]
    <3>1. WellFormed("ready", inst[c], tx[c]) /\ Continues("ready", inst[c], tx[c])
      BY <2>1, CallerIs
    <3>. QED  BY <2>1, <2>3, <3>1, ViewIs
  <2>. QED  BY <2>1, <2>2, <2>4, <2>5, MovesMapped DEF LogStep
<1>7. ASSUME NEW c \in Callers, AppendConflict(c) PROVE StoreInv' /\ LogStep
  <2>1. StoreInv'
    BY <1>7, AppendConflictStep
  <2>2. PICK i : Moves(c, "aborted", i, tx[c])
    BY <1>7, AppendConflictStep
  <2>3. View("aborted", i, tx[c]) = NoView
    BY DEF View
  <2>. QED  BY <2>1, <2>2, <2>3, MovesMapped, ForgetMapped DEF LogStep
<1>8. ASSUME NEW c \in Callers, CommitTx(c) PROVE StoreInv' /\ LogStep
  BY <1>8, CommitTxStep, CommitMapped DEF LogStep
<1>9. ASSUME NEW c \in Callers, Rollback(c) \/ Discard(c) PROVE StoreInv' /\ LogStep
  <2>1. StoreInv' /\ Moves(c, "idle", inst[c], EmptyTx)
    BY <1>9, EndStep
  <2>2. View("idle", inst[c], EmptyTx) = NoView
    BY DEF View
  <2>. QED  BY <2>1, <2>2, MovesMapped, ForgetMapped DEF LogStep
<1>. QED  BY <1>1, <1>2, <1>3, <1>4, <1>5, <1>6, <1>7, <1>8, <1>9 DEF EventStoreNext

\* The inductive invariant of the event store holds in every reachable state.
THEOREM StoreInvariance == EventStoreSpec => []StoreInv
<1>1. StoreInv /\ [EventStoreNext]_storeVars => StoreInv'
  BY StreamStep
<1>. QED  BY <1>1, StoreInits, PTL DEF EventStoreSpec

\* EventStore.append with the unique index on (aggregate, sequence): for any number of callers and
\* aggregates, of any size, whatever commits between the two SELECTs of load(), each commit adds
\* events behind all that its writer has seen, and changes no other stream.
THEOREM StoreIsALog == EventStoreSpec => ImplementsLog
<1>1. EventStoreInit => Log!LogInit
  <2>. SUFFICES ASSUME EventStoreInit PROVE Log!LogInit
    OBVIOUS
  <2>1. \A a : Committed(a) = {}
    BY DEF EventStoreInit, Committed
  <2>2. EventsOf({}) = <<>>
    BY FS_EmptySet DEF EventsOf
  <2>. QED  BY <2>1, <2>2 DEF EventStoreInit, Log!LogInit
<1>2. StoreInv /\ [EventStoreNext]_storeVars => [Log!LogNext]_(Log!logVars)
  <2>1. UNCHANGED <<StreamView, SeenView>> => UNCHANGED Log!logVars
    BY DEF Log!logVars, StreamView, SeenView, View
  <2>. QED  BY <2>1, StreamStep DEF LogStep
<1>. QED  BY <1>1, <1>2, StoreInvariance, PTL DEF EventStoreSpec, ImplementsLog, Log!LogSpec

-----------------------------------------------------------------------------
(* Instances and snapshots are replays                                     *)

\* The rows of an aggregate up to a version, and the state they lead to.
History(R, a, v) == {r \in R : r.agg = a /\ r.sequence <= v}
StateAt(R, a, v) == Replay(EventsOf(History(R, a, v)), Blank)

\* Two states that agree on some fields.
Agree(s, t, F) == \A f \in F : s[f] = t[f]

\* A field's value depends on the events and on what it was: states that agree stay so.
LEMMA AppliedAgree ==
  ASSUME NEW F \in SUBSET Fields, NEW s, NEW t, NEW e, Agree(s, t, F)
  PROVE  Agree(ApplyEvent(s, e), ApplyEvent(t, e), F)
  BY DEF Agree, ApplyEvent

LEMMA ReplayAgree ==
  ASSUME NEW F \in SUBSET Fields, NEW s, NEW t, NEW S, NEW es \in Seq(S), Agree(s, t, F)
  PROVE  Agree(Replay(es, s), Replay(es, t), F)
<1>1. PICK n \in Nat : n = Len(es)
  OBVIOUS
<1>2. PICK f : Replays(f, es, s, n) /\ Replay(es, s) = f[n]
  BY <1>1, ReplayIsLast
<1>3. PICK g : Replays(g, es, t, n) /\ Replay(es, t) = g[n]
  BY <1>1, ReplayIsLast
<1>4. f[0] = s /\ \A m \in 1 .. n : f[m] = ApplyEvent(f[m - 1], es[m])
  BY <1>2, ReplaysAre
<1>5. g[0] = t /\ \A m \in 1 .. n : g[m] = ApplyEvent(g[m - 1], es[m])
  BY <1>3, ReplaysAre
<1>. DEFINE Off == {m \in Nat : m <= n /\ ~Agree(f[m], g[m], F)}
<1>6. n \notin Off
  <2>. SUFFICES ASSUME n \in Off PROVE FALSE
    OBVIOUS
  <2>1. PICK m \in Off : \A j \in Off : m <= j
    <3>1. Off \in SUBSET Nat
      OBVIOUS
    <3>. HIDE DEF Off
    <3>. QED  BY <3>1, LeastNatural
  <2>2. m \in Nat /\ m <= n /\ ~Agree(f[m], g[m], F)
    OBVIOUS
  <2>3. m # 0
    BY <1>4, <1>5, <2>2
  <2>4. m \in 1 .. n /\ m - 1 \in Nat /\ m - 1 <= n /\ ~(m - 1 \in Off)
    BY <2>1, <2>2, <2>3
  <2>5. Agree(f[m - 1], g[m - 1], F)
    BY <2>4
  <2>6. Agree(ApplyEvent(f[m - 1], es[m]), ApplyEvent(g[m - 1], es[m]), F)
    BY <2>5, AppliedAgree
  <2>. QED  BY <1>4, <1>5, <2>2, <2>4, <2>6
<1>. QED  BY <1>2, <1>3, <1>6

\* What an instance knows are fields, those that snapshots keep among them.
LEMMA KnownFields ==
  ASSUME NEW i, i.agg \in Aggregates
  PROVE  Known(i) \in SUBSET Fields /\ Kept[i.agg] \subseteq Known(i)
<1>1. Kept[i.agg] \in SUBSET Fields
  BY EventStoreAssumption
<1>. QED  BY <1>1 DEF Known

CallerReplays(p, i, w) ==
  /\ p \in {"loading", "ready"} =>
       Agree(i.state, Replay(EventsOf(History(rows \cup w.rows, i.agg, i.version)) \o i.pending, Blank), Known(i))
  /\ p = "loading" => i.pending = <<>>
  /\ p = "ready" /\ w.snapshot # NoSnapshot =>
       w.snapshot.state = Serialized(i.agg, StateAt(rows \cup w.rows, i.agg, w.snapshot.version))

SnapshotsReplay ==
  \A a \in Aggregates : snapshot[a] # NoSnapshot =>
    snapshot[a].state = Serialized(a, StateAt(rows, a, snapshot[a].version))

ReplayInv == SnapshotsReplay /\ \A c \in Callers : CallerReplays(pc[c], inst[c], tx[c])

\* Rows behind a version, or of another aggregate, do not matter.
Beyond(T, a, n) == \A r \in T : r.agg = a /\ r.sequence \in Int /\ r.sequence > n

LEMMA HistoryKept ==
  ASSUME NEW R, NEW T, NEW a, NEW b, NEW n \in Nat, NEW v \in Nat, Beyond(T, a, n), b # a \/ v <= n
  PROVE  History(R \cup T, b, v) = History(R, b, v)
  BY DEF History, Beyond

\* What a caller has of the stream has no hole.
LEMMA HistoryDense ==
  ASSUME StoreInv, NEW c \in Callers, pc[c] \in {"loading", "ready"}
  PROVE  /\ Dense(History(rows \cup tx[c].rows, inst[c].agg, inst[c].version), 0, inst[c].version)
         /\ \A r \in rows \cup tx[c].rows : r.agg = inst[c].agg => r.sequence \in Nat
<1>. DEFINE a == inst[c].agg
            v == inst[c].version
            R == rows \cup tx[c].rows
<1>1. a \in Aggregates /\ v \in Nat /\ Continues(pc[c], inst[c], tx[c])
  BY CallerIs, CallerFields
<1>2. Size(a) \in Nat /\ Dense(Committed(a), 0, Size(a))
  BY <1>1 DEF StoreInv, StreamsDense
<1>3. CASE tx[c].rows = {}
  <2>1. v <= Size(a)
    BY <1>1, <1>3 DEF Continues
  <2>2. History(R, a, v) = {r \in Committed(a) : r.sequence <= v} /\ \A r \in R : r.agg = a => r \in Committed(a)
    BY <1>3 DEF History, Committed
  <2>3. /\ \A r \in Committed(a) : r.sequence \in 1 .. Size(a)
        /\ \A n \in 1 .. Size(a) : \E r \in Committed(a) : r.sequence = n
        /\ \A r, s \in Committed(a) : r.sequence = s.sequence => r = s
    BY <1>2 DEF Dense
  <2>. HIDE DEF a, v, R
  <2>4. Dense({r \in Committed(a) : r.sequence <= v}, 0, v)
    BY <1>1, <1>2, <2>1, <2>3 DEF Dense
  <2>5. \A r \in R : r.agg = a => r.sequence \in Nat
    BY <1>2, <2>2, <2>3
  <2>. QED  BY <2>2, <2>4, <2>5 DEF a, v, R
<1>4. CASE tx[c].rows # {}
  <2>1. Size(a) < v /\ Dense(tx[c].rows, Size(a), v) /\ \A r \in tx[c].rows : r.agg = a
    BY <1>1, <1>4 DEF Continues
  <2>2. Size(a) <= v
    BY <1>1, <1>2, <2>1
  <2>3. Dense(Committed(a) \cup tx[c].rows, 0, v)
    BY <1>1, <1>2, <2>1, <2>2, DenseUnion
  <2>4. \A r \in Committed(a) \cup tx[c].rows : r.sequence \in 1 .. v
    BY <2>3 DEF Dense
  <2>5. \A r \in R : r.agg = a <=> r \in Committed(a) \cup tx[c].rows
    BY <2>1 DEF Committed
  <2>6. History(R, a, v) = Committed(a) \cup tx[c].rows
    BY <2>4, <2>5 DEF History, Committed
  <2>. HIDE DEF a, v, R
  <2>7. \A r \in R : r.agg = a => r.sequence \in Nat
    BY <1>1, <2>4, <2>5
  <2>. QED  BY <2>3, <2>6, <2>7 DEF a, v, R
<1>. QED  BY <1>3, <1>4

\* Reading on is replaying on.
LEMMA EventsConcat ==
  ASSUME NEW R, NEW T, NEW n \in Nat, NEW m \in Nat, n <= m, Dense(R, 0, n), Dense(T, n, m)
  PROVE  /\ EventsOf(R \cup T) = EventsOf(R) \o EventsOf(T)
         /\ \E S : EventsOf(R) \in Seq(S) /\ EventsOf(T) \in Seq(S)
<1>. DEFINE all == R \cup T
            S == {r.event : r \in all}
            k == m - n
<1>1. EventsOf(R) \in [1 .. n -> {r.event : r \in R}] /\ \A r \in R : EventsOf(R)[r.sequence] = r.event
  BY DenseEvents
<1>2. EventsOf(T) \in [1 .. k -> {r.event : r \in T}] /\ \A r \in T : EventsOf(T)[r.sequence - n] = r.event
  BY DenseEventsFrom
<1>3. Dense(all, 0, m)
  BY DenseUnion
<1>4. EventsOf(all) \in [1 .. m -> S] /\ \A r \in all : EventsOf(all)[r.sequence] = r.event
  <2>. HIDE DEF all
  <2>. QED  BY <1>3, DenseEvents
<1>5. {r.event : r \in R} \subseteq S /\ {r.event : r \in T} \subseteq S /\ R \subseteq all /\ T \subseteq all
  OBVIOUS
<1>6. (\A j \in 1 .. n : \E r \in R : r.sequence = j) /\ (\A j \in (n + 1) .. m : \E r \in T : r.sequence = j)
  BY DEF Dense
<1>7. k \in Nat /\ n + k = m
  OBVIOUS
<1>. HIDE DEF all, S, k
<1>8. EventsOf(R) \in [1 .. n -> S] /\ EventsOf(T) \in [1 .. k -> S]
  BY <1>1, <1>2, <1>5
<1>9. EventsOf(R) \in Seq(S) /\ Len(EventsOf(R)) = n /\ EventsOf(T) \in Seq(S) /\ Len(EventsOf(T)) = k
  BY <1>7, <1>8
<1>10. EventsOf(all) \in Seq(S) /\ Len(EventsOf(all)) = m
  BY <1>4
<1>11. \A j \in 1 .. n : EventsOf(all)[j] = EventsOf(R)[j]
  BY <1>1, <1>4, <1>5, <1>6
<1>12. \A j \in (n + 1) .. m : EventsOf(all)[j] = EventsOf(T)[j - n]
  BY <1>2, <1>4, <1>5, <1>6
<1>13. EventsOf(all) = EventsOf(R) \o EventsOf(T)
  <2>. DEFINE e == EventsOf(all)
              f == EventsOf(R)
              g == EventsOf(T)
  <2>1. /\ e \in Seq(S) /\ Len(e) = m /\ f \in Seq(S) /\ Len(f) = n /\ g \in Seq(S) /\ Len(g) = k
        /\ (\A j \in 1 .. n : e[j] = f[j]) /\ (\A j \in (n + 1) .. m : e[j] = g[j - n])
    BY <1>9, <1>10, <1>11, <1>12
  <2>. HIDE DEF e, f, g
  <2>2. f \o g \in Seq(S) /\ Len(f \o g) = m /\ \A j \in 1 .. m : (f \o g)[j] = IF j <= n THEN f[j] ELSE g[j - n]
    BY <1>7, <2>1
  <2>3. \A j \in 1 .. m : e[j] = (f \o g)[j]
    BY <1>7, <2>1, <2>2
  <2>4. e = f \o g
    BY <2>1, <2>2, <2>3
  <2>. QED  BY <2>4 DEF e, f, g
<1>. QED  BY <1>9, <1>13 DEF all

LEMMA MovesReplay ==
  ASSUME StoreInv, ReplayInv, NEW c \in Callers, NEW p, NEW i, NEW w, Moves(c, p, i, w), CallerReplays(p, i, w)
  PROVE  ReplayInv'
<1>1. /\ pc'[c] = p /\ inst'[c] = i /\ tx'[c] = w /\ UNCHANGED <<rows, snapshot>>
      /\ \A d \in Callers : d # c => pc'[d] = pc[d] /\ inst'[d] = inst[d] /\ tx'[d] = tx[d]
  BY DEF StoreInv, StoreTypes, Moves
<1>2. SnapshotsReplay'
  BY <1>1 DEF ReplayInv, SnapshotsReplay, StateAt, History
<1>3. \A d \in Callers : CallerReplays(pc'[d], inst'[d], tx'[d])
  BY <1>1 DEF ReplayInv
<1>4. ASSUME NEW d \in Callers PROVE CallerReplays(pc[d], inst[d], tx[d])'
  <2>1. PICK q : q = pc'[d]
    OBVIOUS
  <2>2. PICK j : j = inst'[d]
    OBVIOUS
  <2>3. PICK u : u = tx'[d]
    OBVIOUS
  <2>4. CallerReplays(q, j, u)
    BY <1>3, <2>1, <2>2, <2>3
  <2>5. CallerReplays(q, j, u)'
    BY <1>1, <2>4 DEF CallerReplays, StateAt, History
  <2>. QED  BY <2>1, <2>2, <2>3, <2>5 DEF CallerReplays
<1>. QED  BY <1>2, <1>4 DEF ReplayInv

\* Of a history that is a sequence.
LEMMA EventsAreSequence ==
  ASSUME NEW R, NEW n \in Nat, Dense(R, 0, n)
  PROVE  \E S : EventsOf(R) \in Seq(S)
<1>1. EventsOf(R) \in [1 .. n -> {r.event : r \in R}]
  BY DenseEvents
<1>2. EventsOf(R) \in Seq({r.event : r \in R})
  BY <1>1
<1>. QED  BY <1>2

LEMMA LoadSnapshotReplay ==
  ASSUME StoreInv, ReplayInv, NEW c \in Callers, NEW a \in Aggregates, LoadSnapshot(c, a)
  PROVE  ReplayInv'
<1>1. PICK i : i = IF snapshot[a] = NoSnapshot THEN NewInstance(a) ELSE Restored(a, snapshot[a])
  OBVIOUS
<1>2. Moves(c, "loading", i, tx[c]) /\ tx[c].rows = {}
  <2>1. tx[c] = EmptyTx
    BY CallerIs DEF LoadSnapshot, Continues
  <2>. QED  BY <1>1, <2>1, CallerIs DEF LoadSnapshot, Moves, EmptyTx
<1>3. i.agg = a /\ i.pending = <<>> /\ i.version \in Nat /\ i.version <= Size(a)
  <2>1. Size(a) \in Nat /\ (snapshot[a] # NoSnapshot => snapshot[a].version \in Nat /\ snapshot[a].version <= Size(a))
    BY DEF StoreInv, StreamsDense, SnapshotBehind
  <2>2. CASE snapshot[a] = NoSnapshot
    BY <1>1, <2>1, <2>2 DEF NewInstance
  <2>3. CASE snapshot[a] # NoSnapshot
    <3>1. i.version = snapshot[a].version /\ i.agg = a /\ i.pending = <<>>
      BY <1>1, <2>3 DEF Restored
    <3>. QED  BY <2>1, <2>3, <3>1
  <2>. QED  BY <2>2, <2>3
<1>4. PICK H : H = History(rows, a, i.version)
  OBVIOUS
<1>5. /\ Size(a) \in Nat /\ \A r \in Committed(a) : r.sequence \in 1 .. Size(a)
      /\ \A n \in 1 .. Size(a) : \E r \in Committed(a) : r.sequence = n
      /\ \A r, s \in Committed(a) : r.sequence = s.sequence => r = s
  BY DEF StoreInv, StreamsDense, Dense
<1>6. H = {r \in Committed(a) : r.sequence <= i.version}
  BY <1>4 DEF History, Committed
<1>7. Dense(H, 0, i.version)
  BY <1>3, <1>5, <1>6 DEF Dense
<1>8. Agree(i.state, Replay(EventsOf(H), Blank), Known(i))
  <2>1. CASE snapshot[a] = NoSnapshot
    <3>1. i.state = Blank /\ i.version = 0
      BY <1>1, <2>1 DEF NewInstance
    <3>2. H = {}
      BY <1>7, <3>1 DEF Dense
    <3>3. EventsOf(H) = <<>>
      BY <3>2, FS_EmptySet DEF EventsOf
    <3>. QED  BY <3>1, <3>3, ReplayNone DEF Agree
  <2>2. CASE snapshot[a] # NoSnapshot
    <3>1. i = Restored(a, snapshot[a])
      BY <1>1, <2>2
    <3>2. PICK s : s = StateAt(rows, a, snapshot[a].version)
      OBVIOUS
    <3>3. snapshot[a].state = [f \in Kept[a] |-> s[f]]
      BY <2>2, <3>2 DEF ReplayInv, SnapshotsReplay, Serialized
    <3>4. Known(i) = Kept[a] /\ Kept[a] \in SUBSET Fields /\ i.version = snapshot[a].version
      BY <3>1, EventStoreAssumption DEF Restored, Known
    <3>5. \A f \in Fields : i.state[f] = IF f \in DOMAIN snapshot[a].state THEN snapshot[a].state[f] ELSE Blank[f]
      BY <3>1 DEF Restored
    <3>6. \A f \in Kept[a] : i.state[f] = s[f]
      BY <3>3, <3>4, <3>5
    <3>. QED  BY <1>4, <3>2, <3>4, <3>6 DEF StateAt, Agree
  <2>. QED  BY <2>1, <2>2
<1>9. EventsOf(H) \o <<>> = EventsOf(H)
  <2>1. PICK S : EventsOf(H) \in Seq(S)
    BY <1>3, <1>7, EventsAreSequence
  <2>. QED  BY <2>1
<1>10. rows \cup tx[c].rows = rows
  BY <1>2
<1>11. CallerReplays("loading", i, tx[c])
  BY <1>3, <1>4, <1>8, <1>9, <1>10 DEF CallerReplays
<1>. QED  BY <1>2, <1>11, MovesReplay

LEMMA LoadEventsReplay ==
  ASSUME StoreInv, ReplayInv, NEW c \in Callers, LoadEvents(c)
  PROVE  ReplayInv'
<1>. DEFINE a == inst[c].agg
            v == inst[c].version
            H == History(rows, a, v)
            T == TailRows(a, v)
<1>1. pc[c] = "loading" /\ tx[c] = EmptyTx
  BY LoadEventsLoads
<1>2. tx[c].rows = {} /\ tx[c].snapshot = NoSnapshot /\ rows \cup tx[c].rows = rows
  BY <1>1 DEF EmptyTx
<1>3. PICK i : /\ Moves(c, "ready", i, tx[c])
               /\ i.agg = a /\ i.agg \in Aggregates /\ i.version = Size(i.agg)
               /\ IF v = 0 THEN /\ i.pending = <<>> /\ i.restored = FALSE
                                /\ i.state = Replay(EventsOf(TailRows(i.agg, 0)), Blank)
                  ELSE /\ i.pending = inst[c].pending /\ i.restored = inst[c].restored
                       /\ i.state = Replay(EventsOf(TailRows(i.agg, v)), inst[c].state)
  BY LoadEventsLoads
<1>4. /\ Agree(inst[c].state, Replay(EventsOf(H) \o inst[c].pending, Blank), Known(inst[c]))
      /\ inst[c].pending = <<>>
  BY <1>1, <1>2 DEF ReplayInv, CallerReplays
<1>5. Dense(H, 0, v) /\ v \in Nat
  BY <1>1, <1>2, HistoryDense, CallerFields
<1>6. Size(a) \in Nat /\ Dense(Committed(a), 0, Size(a)) /\ v <= Size(a)
  <2>1. Continues(pc[c], inst[c], tx[c])
    BY CallerIs
  <2>. QED  BY <1>1, <1>2, <1>3, <2>1 DEF StoreInv, StreamsDense, Continues
<1>7. \A r \in Committed(a) : r.sequence \in 1 .. Size(a)
  BY <1>6 DEF Dense
<1>8. T = {r \in Committed(a) : r.sequence > v} /\ H = {r \in Committed(a) : r.sequence <= v}
  BY DEF TailRows, History, Committed
<1>9. Dense(T, v, Size(a))
  <2>1. Dense({r \in Committed(a) : r.sequence > v}, v, Size(a))
    BY <1>5, <1>6, DenseTail
  <2>. QED  BY <1>8, <2>1
<1>10. History(rows, a, Size(a)) = Committed(a)
  BY <1>7 DEF History, Committed
<1>. HIDE DEF a, v, H, T
<1>11. H \cup T = Committed(a)
  BY <1>5, <1>6, <1>7, <1>8
<1>12. EventsOf(Committed(a)) = EventsOf(H) \o EventsOf(T)
  BY <1>5, <1>6, <1>9, <1>11, EventsConcat
<1>13. PICK S : EventsOf(H) \in Seq(S) /\ EventsOf(T) \in Seq(S)
  BY <1>5, <1>6, <1>9, EventsConcat
<1>14. EventsOf(H) \o <<>> = EventsOf(H) /\ EventsOf(Committed(a)) \o <<>> = EventsOf(Committed(a))
  BY <1>12, <1>13
<1>15. Replay(EventsOf(Committed(a)), Blank) = Replay(EventsOf(T), Replay(EventsOf(H), Blank))
  BY <1>12, <1>13, ReplayConcat
<1>16. Agree(inst[c].state, Replay(EventsOf(H), Blank), Known(inst[c]))
  BY <1>4, <1>14
<1>17. i.pending = <<>> /\ Agree(i.state, Replay(EventsOf(T), Replay(EventsOf(H), Blank)), Known(i))
  <2>1. CASE v = 0
    <3>1. i.pending = <<>> /\ i.state = Replay(EventsOf(T), Blank)
      BY <1>3, <2>1 DEF T
    <3>2. H = {}
      BY <1>5, <2>1 DEF Dense
    <3>3. EventsOf(H) = <<>>
      BY <3>2, FS_EmptySet DEF EventsOf
    <3>4. Replay(EventsOf(H), Blank) = Blank
      BY <3>3, ReplayNone
    <3>. QED  BY <3>1, <3>4 DEF Agree
  <2>2. CASE v # 0
    <3>1. i.pending = <<>> /\ i.state = Replay(EventsOf(T), inst[c].state)
      BY <1>3, <1>4, <2>2 DEF T
    <3>2. Known(i) = Known(inst[c])
      BY <1>3, <2>2 DEF Known, a
    <3>3. Known(inst[c]) \in SUBSET Fields
      <4>1. inst[c].agg \in Aggregates
        BY <1>3 DEF a
      <4>. QED  BY <4>1, KnownFields
    <3>4. PICK F \in SUBSET Fields : F = Known(inst[c])
      BY <3>3
    <3>5. PICK old : old = inst[c].state
      OBVIOUS
    <3>6. PICK now : now = Replay(EventsOf(H), Blank)
      OBVIOUS
    <3>7. PICK es \in Seq(S) : es = EventsOf(T)
      BY <1>13
    <3>8. Agree(Replay(es, old), Replay(es, now), F)
      BY <1>16, <3>4, <3>5, <3>6, ReplayAgree
    <3>. QED  BY <3>1, <3>2, <3>4, <3>5, <3>6, <3>7, <3>8
  <2>. QED  BY <2>1, <2>2
<1>18. Agree(i.state, Replay(EventsOf(History(rows \cup tx[c].rows, i.agg, i.version)) \o i.pending, Blank), Known(i))
  BY <1>2, <1>3, <1>10, <1>14, <1>15, <1>17
<1>19. CallerReplays("ready", i, tx[c])
  BY <1>2, <1>18 DEF CallerReplays
<1>. QED  BY <1>3, <1>19, MovesReplay

LEMMA RecordEventReplay ==
  ASSUME StoreInv, ReplayInv, NEW c \in Callers, NEW e \in DomainEvents, RecordEvent(c, e)
  PROVE  ReplayInv'
<1>1. pc[c] = "ready"
  BY DEF RecordEvent
<1>2. PICK i : /\ Moves(c, pc[c], i, tx[c]) /\ i.agg = inst[c].agg /\ i.version = inst[c].version
               /\ i.pending = Append(inst[c].pending, e) /\ i.state = ApplyEvent(inst[c].state, e)
               /\ i.restored = inst[c].restored
  BY RecordEventStep
<1>3. CallerReplays(pc[c], inst[c], tx[c])
  BY DEF ReplayInv
<1>4. PICK E : E = EventsOf(History(rows \cup tx[c].rows, inst[c].agg, inst[c].version))
  OBVIOUS
<1>5. PICK q : q = inst[c].pending
  OBVIOUS
<1>6. Agree(inst[c].state, Replay(E \o q, Blank), Known(inst[c]))
  BY <1>1, <1>3, <1>4, <1>5 DEF CallerReplays
<1>7. PICK S : E \in Seq(S)
  <2>1. Dense(History(rows \cup tx[c].rows, inst[c].agg, inst[c].version), 0, inst[c].version)
    BY <1>1, HistoryDense
  <2>. QED  BY <1>4, <2>1, EventsAreSequence, CallerFields
<1>8. q \in Seq(DomainEvents)
  BY <1>5, CallerFields
<1>9. Replay(E \o Append(q, e), Blank) = ApplyEvent(Replay(E \o q, Blank), e)
  <2>. DEFINE U == S \cup DomainEvents
  <2>1. E \in Seq(U) /\ q \in Seq(U) /\ e \in U
    <3>1. E \in [1 .. Len(E) -> S] /\ q \in [1 .. Len(q) -> DomainEvents] /\ Len(E) \in Nat /\ Len(q) \in Nat
      BY <1>7, <1>8
    <3>2. E \in [1 .. Len(E) -> U] /\ q \in [1 .. Len(q) -> U]
      BY <3>1
    <3>. QED  BY <3>1, <3>2
  <2>. HIDE DEF U
  <2>2. PICK all \in Seq(U) : all = E \o q
    BY <2>1, ConcatProperties
  <2>3. E \o Append(q, e) = Append(all, e)
    BY <2>1, <2>2
  <2>4. Replay(Append(all, e), Blank) = ApplyEvent(Replay(all, Blank), e)
    BY <2>1, <2>2, ReplayAppend
  <2>. QED  BY <2>2, <2>3, <2>4
<1>10. Agree(i.state, Replay(EventsOf(History(rows \cup tx[c].rows, i.agg, i.version)) \o i.pending, Blank), Known(i))
  <2>1. PICK F : F = Known(inst[c])
    OBVIOUS
  <2>2. F \in SUBSET Fields /\ Known(i) = F
    BY <1>1, <1>2, <2>1, CallerFields, KnownFields DEF Known
  <2>3. PICK s : s = inst[c].state
    OBVIOUS
  <2>4. PICK t : t = Replay(E \o q, Blank)
    OBVIOUS
  <2>5. Agree(ApplyEvent(s, e), ApplyEvent(t, e), F)
    BY <1>6, <2>1, <2>2, <2>3, <2>4, AppliedAgree
  <2>. QED  BY <1>2, <1>4, <1>5, <1>9, <2>2, <2>3, <2>4, <2>5
<1>11. CallerReplays(pc[c], i, tx[c])
  BY <1>1, <1>2, <1>3, <1>10 DEF CallerReplays
<1>. QED  BY <1>2, <1>11, MovesReplay

LEMMA NewRowsEvents ==
  ASSUME StoreInv, NEW c \in Callers
  PROVE  EventsOf(NewRows(c)) = inst[c].pending
<1>. DEFINE v == inst[c].version
            es == inst[c].pending
            a == inst[c].agg
            k == v + Len(es)
<1>1. v \in Nat /\ es \in Seq(DomainEvents) /\ Len(es) \in Nat
  BY CallerFields
<1>2. Dense(NewRows(c), v, k)
  BY NewRowsDense
<1>3. k \in Nat /\ v <= k /\ k - v = Len(es)
  BY <1>1
<1>4. NewRows(c) = {Row(a, v + i, es[i]) : i \in 1 .. Len(es)}
  BY DEF NewRows
<1>5. \A i \in 1 .. Len(es) : Row(a, v + i, es[i]).sequence = v + i /\ Row(a, v + i, es[i]).event = es[i]
  BY DEF Row
<1>. HIDE DEF v, es, a, k
<1>6. PICK S : S = {r.event : r \in NewRows(c)}
  OBVIOUS
<1>7. EventsOf(NewRows(c)) \in [1 .. Len(es) -> S] /\ \A r \in NewRows(c) : EventsOf(NewRows(c))[r.sequence - v] = r.event
  BY <1>1, <1>2, <1>3, <1>6, DenseEventsFrom
<1>8. ASSUME NEW i \in 1 .. Len(es) PROVE EventsOf(NewRows(c))[i] = es[i]
  <2>1. PICK r \in NewRows(c) : r.sequence = v + i /\ r.event = es[i]
    BY <1>4, <1>5
  <2>2. r.sequence - v = i
    BY <1>1, <2>1
  <2>. QED  BY <1>7, <2>1, <2>2
<1>9. es \in [1 .. Len(es) -> DomainEvents]
  BY <1>1
<1>10. EventsOf(NewRows(c)) = es
  BY <1>7, <1>8, <1>9
<1>. QED  BY <1>10 DEF es

LEMMA AppendEventsReplay ==
  ASSUME StoreInv, ReplayInv, NEW c \in Callers, AppendEvents(c)
  PROVE  ReplayInv'
<1>. DEFINE R == rows \cup tx[c].rows
            N == NewRows(c)
<1>1. pc[c] = "ready"
  BY AppendEventsStep
<1>2. PICK i, w : /\ Moves(c, pc[c], i, w) /\ i.agg = inst[c].agg /\ WellFormed(pc[c], i, w) /\ Continues(pc[c], i, w)
                  /\ i.version = inst[c].version + Len(inst[c].pending) /\ i.pending = <<>> /\ i.state = inst[c].state
                  /\ i.restored = inst[c].restored
                  /\ w.rows = tx[c].rows \cup N
                  /\ w.snapshot = Snapshotted(c, i.version) \/ w.snapshot = tx[c].snapshot
  BY AppendEventsStep
<1>3. PICK a : a = inst[c].agg
  OBVIOUS
<1>4. PICK v : v = inst[c].version
  OBVIOUS
<1>5. PICK H : H = History(R, a, v)
  OBVIOUS
<1>6. v \in Nat /\ i.version \in Nat /\ v <= i.version
  BY <1>2, <1>4, CallerFields
<1>7. Dense(H, 0, v) /\ \A r \in R : r.agg = a => r.sequence \in Nat
  BY <1>1, <1>3, <1>4, <1>5, HistoryDense
<1>8. Dense(N, v, i.version) /\ \A r \in N : r.agg = a
  BY <1>2, <1>3, <1>4, NewRowsDense
<1>9. \A r \in N : r.sequence \in Int /\ r.sequence > v /\ r.sequence <= i.version
  <2>1. \A r \in N : r.sequence \in (v + 1) .. i.version
    BY <1>8 DEF Dense
  <2>. HIDE DEF N
  <2>. QED  BY <1>6, <2>1
<1>10. rows \cup w.rows = R \cup N
  BY <1>2
<1>11. \A r \in R : r.agg = a => r.sequence <= v
  <2>1. Continues(pc[c], inst[c], tx[c])
    BY CallerIs
  <2>2. /\ tx[c].rows = {} => v = Size(a)
        /\ tx[c].rows # {} => Size(a) < v /\ Dense(tx[c].rows, Size(a), v)
    BY <1>3, <1>4, <2>1, AppendEventsStep DEF Continues
  <2>3. a \in Aggregates
    BY <1>1, <1>3, CallerFields
  <2>4. Size(a) \in Nat /\ \A r \in Committed(a) : r.sequence \in 1 .. Size(a)
    BY <2>3 DEF StoreInv, StreamsDense, Dense
  <2>5. \A r \in tx[c].rows : r.sequence \in (Size(a) + 1) .. v
    BY <2>2 DEF Dense
  <2>6. Size(a) <= v
    BY <1>6, <2>2, <2>4
  <2>7. \A r \in tx[c].rows : r.sequence <= v
    BY <1>6, <2>4, <2>5
  <2>8. \A r \in Committed(a) : r.sequence <= v
    BY <1>6, <2>4, <2>6
  <2>. QED  BY <2>7, <2>8 DEF Committed
<1>. HIDE DEF R, N
<1>12. History(R \cup N, a, i.version) = H \cup N
  <2>1. \A r \in R : r.agg = a => r.sequence <= i.version
    BY <1>6, <1>7, <1>11
  <2>. QED  BY <1>5, <1>8, <1>9, <1>11, <2>1 DEF History
<1>13. EventsOf(N) = inst[c].pending
  BY NewRowsEvents DEF N
<1>14. EventsOf(H \cup N) = EventsOf(H) \o inst[c].pending
  BY <1>6, <1>7, <1>8, <1>13, EventsConcat
<1>15. EventsOf(H \cup N) \o <<>> = EventsOf(H \cup N)
  <2>1. Dense(H \cup N, 0, i.version)
    BY <1>6, <1>7, <1>8, DenseUnion
  <2>2. PICK S : EventsOf(H \cup N) \in Seq(S)
    BY <1>6, <2>1, EventsAreSequence
  <2>. QED  BY <2>2
<1>16. CallerReplays(pc[c], inst[c], tx[c])
  BY DEF ReplayInv
<1>17. Agree(i.state, Replay(EventsOf(H \cup N), Blank), Known(i)) /\ Kept[a] \subseteq Known(i)
  <2>1. Known(i) = Known(inst[c])
    BY <1>2 DEF Known
  <2>2. i.agg \in Aggregates
    BY <1>1, <1>2, CallerFields
  <2>3. Kept[a] \subseteq Known(i)
    BY <1>2, <1>3, <2>2, KnownFields
  <2>. QED  BY <1>1, <1>2, <1>3, <1>4, <1>5, <1>14, <1>16, <2>1, <2>3 DEF CallerReplays, R
<1>18. Agree(i.state, Replay(EventsOf(History(rows \cup w.rows, i.agg, i.version)) \o i.pending, Blank), Known(i))
  BY <1>2, <1>3, <1>10, <1>12, <1>15, <1>17
<1>19. ASSUME w.snapshot # NoSnapshot
       PROVE  w.snapshot.state = Serialized(i.agg, StateAt(rows \cup w.rows, i.agg, w.snapshot.version))
  <2>1. CASE w.snapshot = Snapshotted(c, i.version)
    <3>1. w.snapshot.state = Serialized(a, i.state) /\ w.snapshot.version = i.version
      BY <1>2, <1>3, <2>1 DEF Snapshotted
    <3>2. PICK s : s = StateAt(R \cup N, a, i.version)
      OBVIOUS
    <3>3. \A f \in Kept[a] : i.state[f] = s[f]
      BY <1>12, <1>17, <3>2 DEF Agree, StateAt
    <3>4. Serialized(a, i.state) = Serialized(a, s)
      BY <3>3 DEF Serialized
    <3>. QED  BY <1>2, <1>3, <1>10, <3>1, <3>2, <3>4
  <2>2. CASE w.snapshot = tx[c].snapshot
    <3>1. w.snapshot.version \in Nat /\ w.snapshot.version <= v
      BY <1>4, <1>19, <2>2, CallerIs DEF Continues
    <3>2. History(R \cup N, a, w.snapshot.version) = History(R, a, w.snapshot.version)
      <4>1. Beyond(N, a, v)
        BY <1>8, <1>9 DEF Beyond
      <4>. QED  BY <1>6, <3>1, <4>1, HistoryKept
    <3>3. w.snapshot.state = Serialized(a, StateAt(R, a, w.snapshot.version))
      BY <1>1, <1>3, <1>16, <1>19, <2>2 DEF CallerReplays, R
    <3>. QED  BY <1>2, <1>3, <1>10, <3>2, <3>3 DEF StateAt
  <2>. QED  BY <1>2, <2>1, <2>2
<1>20. CallerReplays(pc[c], i, w)
  BY <1>1, <1>18, <1>19 DEF CallerReplays
<1>. QED  BY <1>2, <1>20, MovesReplay

LEMMA CommitReplay ==
  ASSUME StoreInv, ReplayInv, NEW c \in Callers, CommitTx(c)
  PROVE  ReplayInv'
<1>1. PICK a : a = inst[c].agg
  OBVIOUS
<1>2. PICK T : T = tx[c].rows
  OBVIOUS
<1>3. PICK n : n = Size(a)
  OBVIOUS
<1>4. /\ pc[c] = "ready" /\ rows' = rows \cup T /\ tx' = [tx EXCEPT ![c] = EmptyTx] /\ UNCHANGED <<pc, inst>>
      /\ snapshot' = [snapshot EXCEPT ![a] = IF tx[c].snapshot = NoSnapshot THEN snapshot[a] ELSE tx[c].snapshot]
  BY <1>1, <1>2 DEF CommitTx
<1>5. T # {} /\ a \in Aggregates /\ n \in Nat /\ Beyond(T, a, n)
  <2>1. T # {} /\ a \in Aggregates /\ n < inst[c].version /\ Dense(T, n, inst[c].version)
    BY <1>1, <1>2, <1>3, CommitExtends
  <2>2. \A r \in T : r.agg = a
    BY <1>1, <1>2, CallerIs DEF Continues
  <2>3. \A r \in T : r.sequence \in (n + 1) .. inst[c].version
    BY <2>1 DEF Dense
  <2>4. n \in Nat
    BY <1>3, <2>1 DEF StoreInv, StreamsDense
  <2>. QED  BY <2>1, <2>2, <2>3, <2>4, CallerFields DEF Beyond
<1>6. tx'[c] = EmptyTx /\ \A d \in Callers : d # c => tx'[d] = tx[d]
  BY <1>4 DEF StoreInv, StoreTypes
<1>7. \A b \in Aggregates : snapshot'[b] = IF b = a /\ tx[c].snapshot # NoSnapshot THEN tx[c].snapshot ELSE snapshot[b]
  <2>1. snapshot = [b \in Aggregates |-> snapshot[b]]
    BY DEF StoreInv, StoreTypes
  <2>. QED  BY <1>4, <1>5, <2>1
<1>8. SnapshotsReplay'
  <2>. SUFFICES ASSUME NEW b \in Aggregates, snapshot'[b] # NoSnapshot
                PROVE  snapshot'[b].state = Serialized(b, StateAt(rows', b, snapshot'[b].version))
    BY DEF SnapshotsReplay, StateAt, History
  <2>1. CASE b = a /\ tx[c].snapshot # NoSnapshot
    <3>1. tx[c].snapshot.state = Serialized(inst[c].agg, StateAt(rows \cup tx[c].rows, inst[c].agg, tx[c].snapshot.version))
      BY <1>4, <2>1 DEF ReplayInv, CallerReplays
    <3>2. snapshot'[b] = tx[c].snapshot
      BY <1>7, <2>1
    <3>. QED  BY <1>1, <1>2, <1>4, <2>1, <3>1, <3>2
  <2>2. CASE ~(b = a /\ tx[c].snapshot # NoSnapshot)
    <3>1. snapshot'[b] = snapshot[b]
      BY <1>7, <2>2
    <3>2. snapshot[b].state = Serialized(b, StateAt(rows, b, snapshot[b].version))
      BY <3>1 DEF ReplayInv, SnapshotsReplay
    <3>3. snapshot[b].version \in Nat /\ snapshot[b].version <= Size(b)
      BY <3>1 DEF StoreInv, SnapshotBehind
    <3>4. b # a \/ snapshot[b].version <= n
      BY <1>3, <3>3
    <3>5. History(rows \cup T, b, snapshot[b].version) = History(rows, b, snapshot[b].version)
      BY <1>5, <3>3, <3>4, HistoryKept
    <3>. QED  BY <1>4, <3>1, <3>2, <3>5 DEF StateAt
  <2>. QED  BY <2>1, <2>2
<1>9. ASSUME NEW d \in Callers PROVE CallerReplays(pc[d], inst[d], tx[d])'
  <2>1. PICK p : p = pc[d]
    OBVIOUS
  <2>2. PICK i : i = inst[d]
    OBVIOUS
  <2>3. PICK w : w = tx[d]
    OBVIOUS
  <2>4. pc'[d] = p /\ inst'[d] = i /\ CallerReplays(p, i, w) /\ Continues(p, i, w) /\ i.version \in Nat
    BY <1>4, <2>1, <2>2, <2>3, CallerIs, CallerFields DEF ReplayInv
  <2>5. CASE d = c
    <3>1. rows' \cup EmptyTx.rows = rows \cup w.rows /\ EmptyTx.snapshot = NoSnapshot
      BY <1>2, <1>4, <2>3, <2>5 DEF EmptyTx
    <3>2. p = "ready"
      BY <1>4, <2>1, <2>5
    <3>3. Agree(i.state, Replay(EventsOf(History(rows' \cup EmptyTx.rows, i.agg, i.version)) \o i.pending, Blank), Known(i))
      BY <2>4, <3>1, <3>2 DEF CallerReplays
    <3>4. CallerReplays(p, i, EmptyTx)'
      BY <3>1, <3>2, <3>3 DEF CallerReplays, EmptyTx, History
    <3>. QED  BY <1>6, <2>4, <2>5, <3>4 DEF CallerReplays
  <2>6. CASE d # c
    <3>. SUFFICES CallerReplays(p, i, w)'
      BY <1>6, <2>3, <2>4, <2>6 DEF CallerReplays
    <3>1. rows' \cup w.rows = (rows \cup w.rows) \cup T
      BY <1>4
    <3>2. w.rows # {} => i.agg # a
      BY <1>1, <1>2, <1>5, <2>2, <2>3, <2>6 DEF StoreInv, OneAppender
    <3>3. ASSUME p \in {"loading", "ready"}
          PROVE  Agree(i.state, Replay(EventsOf(History(rows' \cup w.rows, i.agg, i.version)) \o i.pending, Blank), Known(i))
      <4>1. i.agg # a \/ i.version <= n
        BY <1>3, <2>4, <3>2, <3>3 DEF Continues
      <4>2. History((rows \cup w.rows) \cup T, i.agg, i.version) = History(rows \cup w.rows, i.agg, i.version)
        BY <1>5, <2>4, <4>1, HistoryKept
      <4>. QED  BY <2>4, <3>1, <3>3, <4>2 DEF CallerReplays
    <3>4. ASSUME p = "ready", w.snapshot # NoSnapshot
          PROVE  w.snapshot.state = Serialized(i.agg, StateAt(rows' \cup w.rows, i.agg, w.snapshot.version))
      <4>1. w.rows # {} /\ w.snapshot.version \in Nat
        BY <2>4, <3>4 DEF Continues, EmptyTx
      <4>2. History((rows \cup w.rows) \cup T, i.agg, w.snapshot.version) = History(rows \cup w.rows, i.agg, w.snapshot.version)
        BY <1>5, <3>2, <4>1, HistoryKept
      <4>. QED  BY <2>4, <3>1, <3>4, <4>2 DEF CallerReplays, StateAt
    <3>5. p = "loading" => i.pending = <<>>
      BY <2>4 DEF CallerReplays
    <3>. QED  BY <3>3, <3>4, <3>5 DEF CallerReplays, StateAt, History
  <2>. QED  BY <2>5, <2>6
<1>. QED  BY <1>8, <1>9 DEF ReplayInv

LEMMA ReplayStep ==
  ASSUME StoreInv, ReplayInv, [EventStoreNext]_storeVars
  PROVE  ReplayInv'
<1>1. CASE UNCHANGED storeVars
  <2>1. SnapshotsReplay'
    BY <1>1 DEF storeVars, ReplayInv, SnapshotsReplay, StateAt, History
  <2>2. ASSUME NEW c \in Callers PROVE CallerReplays(pc[c], inst[c], tx[c])'
    <3>1. CallerReplays(pc[c], inst[c], tx[c])
      BY DEF ReplayInv
    <3>. QED  BY <1>1, <3>1 DEF storeVars, CallerReplays, StateAt, History
  <2>. QED  BY <2>1, <2>2 DEF ReplayInv
<1>2. ASSUME NEW c \in Callers, AppendConflict(c) PROVE ReplayInv'
  <2>1. PICK i : Moves(c, "aborted", i, tx[c])
    BY <1>2, AppendConflictStep
  <2>2. CallerReplays("aborted", i, tx[c])
    BY DEF CallerReplays
  <2>. QED  BY <2>1, <2>2, MovesReplay
<1>3. ASSUME NEW c \in Callers, Rollback(c) \/ Discard(c) PROVE ReplayInv'
  <2>1. Moves(c, "idle", inst[c], EmptyTx)
    BY <1>3, EndStep
  <2>2. CallerReplays("idle", inst[c], EmptyTx)
    BY DEF CallerReplays
  <2>. QED  BY <2>1, <2>2, MovesReplay
<1>4. ASSUME NEW c \in Callers, AppendNothing(c) PROVE ReplayInv'
  BY <1>1, <1>4 DEF AppendNothing
<1>. QED  BY <1>1, <1>2, <1>3, <1>4, LoadSnapshotReplay, LoadEventsReplay, RecordEventReplay, AppendEventsReplay, CommitReplay
          DEF EventStoreNext

LEMMA ReplayInits ==
  ASSUME EventStoreInit
  PROVE  ReplayInv
  BY DEF EventStoreInit, ReplayInv, SnapshotsReplay, CallerReplays

THEOREM ReplayInvariance == EventStoreSpec => []ReplayInv
<1>1. StoreInv /\ ReplayInv /\ [EventStoreNext]_storeVars => ReplayInv'
  BY ReplayStep
<1>. QED  BY <1>1, ReplayInits, StoreInvariance, PTL DEF EventStoreSpec

\* EventStore.load, from a snapshot and its tail or from all events: a field of an instance is that
\* of the replay of the stream up to its version and of its pending events, whatever was committed
\* between the two SELECTs, for streams, batches and snapshot intervals of any size; of an instance
\* built from a snapshot that holds for the fields that snapshots of its class keep.
THEOREM InstancesAreReplays == EventStoreSpec => []InstanceIsReplay
<1>1. ReplayInv => InstanceIsReplay
  <2>. SUFFICES ASSUME ReplayInv, NEW c \in Callers, pc[c] = "ready"
                PROVE  LET mine == {r \in rows \cup tx[c].rows : r.agg = inst[c].agg /\ r.sequence <= inst[c].version}
                       IN \A f \in Known(inst[c]) :
                            inst[c].state[f] = Replay(EventsOf(mine) \o inst[c].pending, Blank)[f]
    BY DEF InstanceIsReplay
  <2>1. CallerReplays(pc[c], inst[c], tx[c])
    BY DEF ReplayInv
  <2>. QED  BY <2>1 DEF CallerReplays, History, Agree
<1>. QED  BY <1>1, ReplayInvariance, PTL

\* EventStore._save_snapshot: the fields a committed snapshot keeps are those of the replay of its
\* stream up to its version, although the upsert compares no versions and the instance may come from
\* an earlier snapshot that kept no more.
THEOREM SnapshotsAreFaithful == EventStoreSpec => []SnapshotFaithful
<1>1. ReplayInv => SnapshotFaithful
  <2>. SUFFICES ASSUME ReplayInv, NEW a \in Aggregates, snapshot[a] # NoSnapshot
                PROVE  snapshot[a].state =
                         Serialized(a, Replay(EventsOf({r \in Committed(a) : r.sequence <= snapshot[a].version}), Blank))
    BY DEF SnapshotFaithful
  <2>1. {r \in Committed(a) : r.sequence <= snapshot[a].version} = History(rows, a, snapshot[a].version)
    BY DEF Committed, History
  <2>. QED  BY <2>1 DEF ReplayInv, SnapshotsReplay, StateAt
<1>. QED  BY <1>1, ReplayInvariance, PTL
=============================================================================
