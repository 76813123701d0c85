----------------------- MODULE RegionReplicatorProofs -----------------------
(***************************************************************************)
(* The replicators of a target region, however many there are and whatever *)
(* fails, skip no published row except one that became published behind a  *)
(* reader, and send a row again only for a fault, a further process or a   *)
(* setback of the checkpoint.                                              *)
(***************************************************************************)
EXTENDS RegionReplicator, FiniteSetTheorems, TLAPS

Cursors == Rows \cup {None}
RepSet ==
  [pc : {"loop", "select", "forward", "save", "commit", "sleep", "stopped"},
   cursor : Cursors, batch : Seq(Rows), done : Nat, stop : BOOLEAN]

Arrived(x) == sent[x] > 0 \/ x \in late

\* Everything published up to y has arrived or was late.
SettledUpTo(y) == \A x \in Rows : status[x] = "published" /\ UpTo(x, y) => Arrived(x)

\* How far a transaction is in its batch.
Shape(r) ==
  /\ r.pc = "select" => r.batch = <<>> /\ r.done = 0
  /\ r.pc = "forward" => r.done < Len(r.batch)
  /\ r.pc \in {"save", "commit"} => r.done \in 1 .. Len(r.batch)

\* What a transaction has forwarded has arrived.
ForwardedArrived(r) ==
  r.pc \in {"forward", "save", "commit"} => \A n \in 1 .. r.done : sent[r.batch[n]] > 0

\* A published row before a row of the batch is up to the cursor, earlier in the batch, or late.
BatchComplete(r) ==
  \A n \in 1 .. Len(r.batch) : \A x \in Rows :
    status[x] = "published" /\ Before(x, r.batch[n]) =>
      UpTo(x, r.cursor) \/ (\E m \in 1 .. (n - 1) : r.batch[m] = x) \/ x \in late

\* The cursor of an open transaction is as safe as the checkpoint it was read from.
Safe(r) ==
  /\ Shape(r) /\ ForwardedArrived(r)
  /\ r.pc \in {"select", "forward", "save", "commit"} => BatchComplete(r) /\ SettledUpTo(r.cursor)

\* The inductive invariant.
IInv ==
  /\ checkpoint \in Cursors /\ rep \in [Replicators -> RepSet] /\ sent \in [Rows -> Nat]
  /\ \A i \in Replicators : Safe(rep[i])
  /\ SettledUpTo(checkpoint)

-----------------------------------------------------------------------------
(* How often a row is sent                                                 *)

Open(r) == r.pc \in {"select", "forward", "save", "commit"}
Told(r, x) == \E m \in 1 .. r.done : r.batch[m] = x

\* A transaction fetches rows behind its cursor, in order.
Ordered(r) ==
  Open(r) => \A n \in 1 .. Len(r.batch) :
    Before(r.cursor, r.batch[n]) /\ \A m \in 1 .. (n - 1) : Before(r.batch[m], r.batch[n])

\* A process that is at r may send x once more although nothing fails and the checkpoint, at
\* cp, does not move back: x is not behind it, and not sent in its open transaction.
MaySend(r, cp, x) ==
  /\ ~(Open(r) /\ Told(r, x))
  /\ Before(cp, x) \/ (Open(r) /\ Before(r.cursor, x))

Senders(f, cp, x) == {i \in Replicators : MaySend(f[i], cp, x)}

\* What was sent of a row, and every process that may still send it, is accounted for.
Accounted ==
  /\ faults \in Nat /\ setbacks \in Nat
  /\ \A i \in Replicators : Ordered(rep[i])
  /\ \A x \in Rows :
       sent[x] + Cardinality(Senders(rep, checkpoint, x))
         <= Cardinality(Replicators) * (1 + setbacks) + faults

\* A move back of the checkpoint allows every process one more sending.
LEMMA OneMoreRound ==
  ASSUME NEW n \in Nat, NEW k \in Nat PROVE n * (1 + (k + 1)) = n * (1 + k) + n /\ n * (1 + k) \in Nat
  OBVIOUS

\* One element more or less.
LEMMA OneElement ==
  ASSUME NEW S, IsFiniteSet(S), NEW i, NEW T
  PROVE  /\ T \subseteq S \cup {i} => Cardinality(T) <= Cardinality(S) + 1
         /\ T \subseteq S => Cardinality(T) <= Cardinality(S)
         /\ T \subseteq S \ {i} /\ i \in S => Cardinality(T) <= Cardinality(S) - 1
<1>0. Cardinality(S) \in Nat
  BY FS_CardinalityType
<1>1. IsFiniteSet(S \cup {i}) /\ Cardinality(S \cup {i}) <= Cardinality(S) + 1
  <2>1. /\ IsFiniteSet(S \cup {i})
        /\ Cardinality(S \cup {i}) = IF i \in S THEN Cardinality(S) ELSE Cardinality(S) + 1
    BY FS_AddElement
  <2>. QED  BY <1>0, <2>1
<1>2. IsFiniteSet(S \ {i}) /\ (i \in S => Cardinality(S \ {i}) = Cardinality(S) - 1)
  BY FS_RemoveElement
<1>3. T \subseteq S \cup {i} => Cardinality(T) <= Cardinality(S) + 1
  <2>1. T \subseteq S \cup {i} => IsFiniteSet(T) /\ Cardinality(T) <= Cardinality(S \cup {i})
    BY <1>1, FS_Subset
  <2>2. IsFiniteSet(T) => Cardinality(T) \in Nat
    BY FS_CardinalityType
  <2>3. Cardinality(S \cup {i}) \in Nat
    BY <1>1, FS_CardinalityType
  <2>. QED  BY <1>0, <1>1, <2>1, <2>2, <2>3
<1>4. T \subseteq S => Cardinality(T) <= Cardinality(S)
  BY FS_Subset
<1>5. T \subseteq S \ {i} => Cardinality(T) <= Cardinality(S \ {i})
  BY <1>2, FS_Subset
<1>. QED  BY <1>2, <1>3, <1>4, <1>5

USE ReplicatorAssumption

\* Cursors are totally ordered.
LEMMA Total ==
  ASSUME NEW x \in Cursors, NEW y \in Cursors PROVE Before(x, y) \/ UpTo(y, x)
<1>1. /\ x[1] \in Nat /\ x[2] \in Nat /\ x = <<x[1], x[2]>>
      /\ y[1] \in Nat /\ y[2] \in Nat /\ y = <<y[1], y[2]>>
  BY DEF Cursors, None
<1>. QED  BY <1>1 DEF Before, UpTo

\* The order of rows is transitive and asymmetric.
LEMMA Transitive ==
  ASSUME NEW x \in Cursors, NEW y \in Cursors, NEW z \in Cursors, UpTo(x, y), Before(y, z) PROVE Before(x, z)
<1>1. /\ x[1] \in Nat /\ x[2] \in Nat /\ y[1] \in Nat /\ y[2] \in Nat /\ z[1] \in Nat /\ z[2] \in Nat
  BY DEF Cursors, None
<1>. QED  BY <1>1 DEF Before, UpTo

LEMMA Asymmetric ==
  ASSUME NEW x \in Cursors, NEW y \in Cursors, Before(y, x) PROVE x # y /\ ~Before(x, y)
<1>1. x[1] \in Nat /\ x[2] \in Nat /\ y[1] \in Nat /\ y[2] \in Nat
  BY DEF Cursors, None
<1>. QED  BY <1>1 DEF Before

\* The initial states satisfy the inductive invariant.
LEMMA InitIInv == Init => IInv
<1>. SUFFICES ASSUME Init PROVE IInv
  OBVIOUS
<1>1. \A x \in Rows : status[x] = "absent"
  BY DEF Init, Outbox!Init
<1>2. checkpoint = None /\ rep = [i \in Replicators |-> Start] /\ sent = [x \in Rows |-> 0]
  BY DEF Init
<1>3. Start \in RepSet /\ Start.pc = "loop"
  BY DEF Start, RepSet, Cursors
<1>4. Safe(Start) /\ SettledUpTo(None)
  BY <1>1, <1>3 DEF Safe, Shape, ForwardedArrived, SettledUpTo
<1>. QED  BY <1>2, <1>3, <1>4 DEF IInv, Cursors

\* What is safe stays so while rows arrive.
LEMMA SafeStays ==
  ASSUME IInv, NEW r \in RepSet, Safe(r), status' = status, late' = late, sent' \in [Rows -> Nat],
         \A x \in Rows : sent'[x] >= sent[x]
  PROVE  Safe(r)'
<1>1. \A x \in Rows : Arrived(x) => Arrived(x)'
  BY DEF Arrived, IInv
<1>2. SettledUpTo(r.cursor) => SettledUpTo(r.cursor)'
  BY <1>1 DEF SettledUpTo
<1>3. ForwardedArrived(r)'
  <2>. SUFFICES ASSUME r.pc \in {"forward", "save", "commit"}, NEW n \in 1 .. r.done PROVE sent'[r.batch[n]] > 0
    BY DEF ForwardedArrived
  <2>1. sent[r.batch[n]] > 0 /\ r.done <= Len(r.batch) /\ r.batch \in Seq(Rows)
    BY DEF Safe, Shape, ForwardedArrived, RepSet
  <2>2. r.batch[n] \in Rows
    BY <2>1 DEF RepSet
  <2>. QED  BY <2>1, <2>2 DEF IInv
<1>4. BatchComplete(r) => BatchComplete(r)'
  BY DEF BatchComplete
<1>. QED  BY <1>2, <1>3, <1>4 DEF Safe, Shape

\* A step of one replicator: only its own record and the checkpoint have to be looked at.
LEMMA OneMoves ==
  ASSUME IInv, NEW i \in Replicators, NEW r \in RepSet, Set(i, r), Safe(r)',
         status' = status, late' = late, sent' \in [Rows -> Nat], \A x \in Rows : sent'[x] >= sent[x],
         checkpoint' = checkpoint \/ (checkpoint' \in Cursors /\ SettledUpTo(checkpoint)')
  PROVE  IInv'
<1>1. rep' \in [Replicators -> RepSet] /\ \A j \in Replicators : rep'[j] = IF j = i THEN r ELSE rep[j]
  BY DEF Set, IInv
<1>2. ASSUME NEW j \in Replicators PROVE Safe(rep[j])'
  <2>1. PICK q \in RepSet : q = rep'[j] /\ (j # i => q = rep[j]) /\ (j = i => q = r)
    BY <1>1
  <2>2. Safe(q)'
    <3>1. CASE j = i
      BY <2>1, <3>1
    <3>2. CASE j # i
      <4>1. Safe(q)
        BY <2>1, <3>2 DEF IInv, Safe, Shape, ForwardedArrived, BatchComplete, SettledUpTo
      <4>. QED  BY <4>1, SafeStays
    <3>. QED  BY <3>1, <3>2
  <2>. QED  BY <2>1, <2>2 DEF Safe, Shape, ForwardedArrived, BatchComplete, SettledUpTo
<1>3. SettledUpTo(checkpoint)' /\ checkpoint' \in Cursors
  BY DEF IInv, SettledUpTo, Arrived
<1>. QED  BY <1>1, <1>2, <1>3 DEF IInv

\* The local outbox: a row that becomes published behind a reader is late.
LEMMA LocalStep ==
  ASSUME IInv, LocalOutbox PROVE IInv'
<1>1. /\ UNCHANGED <<checkpoint, rep, sent>> /\ late \subseteq late'
      /\ \A x \in Rows : status[x] # "published" /\ status'[x] = "published" /\ Passed(x) => x \in late'
  BY DEF LocalOutbox
<1>2. SettledUpTo(checkpoint)'
  BY <1>1 DEF IInv, SettledUpTo, Arrived, Passed
<1>3. ASSUME NEW i \in Replicators PROVE Safe(rep[i])'
  <2>1. Shape(rep[i])' /\ ForwardedArrived(rep[i])'
    BY <1>1 DEF IInv, Safe, Shape, ForwardedArrived
  <2>2. ASSUME Reading(i) PROVE SettledUpTo(rep[i].cursor)'
    BY <1>1, <2>2 DEF IInv, Safe, SettledUpTo, Arrived, Passed, Reading
  <2>3. ASSUME Reading(i) PROVE BatchComplete(rep[i])'
    <3>. SUFFICES ASSUME NEW n \in 1 .. Len(rep[i].batch), NEW x \in Rows,
                         status'[x] = "published", Before(x, rep[i].batch[n])
                  PROVE  UpTo(x, rep[i].cursor) \/ (\E m \in 1 .. (n - 1) : rep[i].batch[m] = x) \/ x \in late'
      BY <1>1 DEF BatchComplete
    <3>1. CASE status[x] = "published"
      BY <1>1, <2>3, <3>1 DEF IInv, Safe, BatchComplete, Reading
    <3>2. CASE status[x] # "published"
      <4>1. rep[i].batch[n] \in Range(rep[i].batch)
        BY DEF Range, IInv, RepSet
      <4>. QED  BY <1>1, <2>3, <3>2, <4>1 DEF Passed
    <3>. QED  BY <3>1, <3>2
  <2>. QED  BY <1>1, <2>1, <2>2, <2>3 DEF Safe, Reading
<1>. QED  BY <1>1, <1>2, <1>3 DEF IInv

\* A transaction begins with the committed checkpoint as its cursor.
LEMMA LoadStep ==
  ASSUME IInv, NEW i \in Replicators, LoadCheckpoint(i) PROVE IInv'
<1>1. PICK r \in RepSet :
        /\ r = [rep[i] EXCEPT !.pc = "select", !.cursor = checkpoint, !.batch = <<>>, !.done = 0]
        /\ r.pc = "select" /\ r.cursor = checkpoint /\ r.batch = <<>> /\ r.done = 0
  <2>. DEFINE new == [rep[i] EXCEPT !.pc = "select", !.cursor = checkpoint, !.batch = <<>>, !.done = 0]
  <2>1. rep[i] \in RepSet /\ checkpoint \in Cursors /\ <<>> \in Seq(Rows)
    BY DEF IInv
  <2>2. new \in RepSet
    BY <2>1 DEF RepSet
  <2>3. new.pc = "select" /\ new.cursor = checkpoint /\ new.batch = <<>> /\ new.done = 0
    BY <2>1 DEF RepSet
  <2>. HIDE DEF new
  <2>. QED  BY <2>2, <2>3 DEF new
<1>2. Set(i, r) /\ UNCHANGED <<status, late, checkpoint, sent>>
  BY <1>1 DEF LoadCheckpoint, outbox, history
<1>3. Safe(r)'
  BY <1>1, <1>2 DEF IInv, Safe, Shape, ForwardedArrived, BatchComplete, SettledUpTo, Arrived
<1>4. sent' \in [Rows -> Nat] /\ \A x \in Rows : sent'[x] >= sent[x]
  BY <1>2 DEF IInv
<1>. QED  BY <1>2, <1>3, <1>4, OneMoves

\* The SELECT leaves out no published row between the cursor and a row it returns.
LEMMA FetchStep ==
  ASSUME IInv, NEW i \in Replicators, FetchBatch(i) PROVE IInv'
<1>1. PICK b \in SeqOf(Rows, BatchSize) :
        /\ Fetched(b, rep[i].cursor)
        /\ Set(i, [rep[i] EXCEPT !.batch = b, !.pc = IF b = <<>> THEN "sleep" ELSE "forward"])
  BY DEF FetchBatch
<1>2. b \in Seq(Rows)
  <2>1. PICK k \in 0 .. BatchSize : b \in [1 .. k -> Rows]
    BY DEF SeqOf
  <2>. QED  BY <2>1
<1>3. rep[i] \in RepSet /\ rep[i].pc = "select" /\ rep[i].done = 0 /\ rep[i].cursor \in Cursors
  BY DEF FetchBatch, IInv, Safe, Shape, RepSet
<1>4. PICK r \in RepSet :
        /\ r = [rep[i] EXCEPT !.batch = b, !.pc = IF b = <<>> THEN "sleep" ELSE "forward"]
        /\ r.pc = (IF b = <<>> THEN "sleep" ELSE "forward")
        /\ r.cursor = rep[i].cursor /\ r.batch = b /\ r.done = 0
  <2>. DEFINE to == IF b = <<>> THEN "sleep" ELSE "forward"
              new == [rep[i] EXCEPT !.batch = b, !.pc = to]
  <2>1. to \in {"sleep", "forward"}
    OBVIOUS
  <2>. HIDE DEF to
  <2>2. new \in RepSet
    BY <1>2, <1>3, <2>1 DEF RepSet
  <2>3. new.pc = to /\ new.cursor = rep[i].cursor /\ new.batch = b /\ new.done = 0
    BY <1>3 DEF RepSet
  <2>. HIDE DEF new
  <2>. QED  BY <2>2, <2>3 DEF new, to
<1>5. UNCHANGED <<status, late, checkpoint, sent>>
  BY DEF FetchBatch, outbox, history
<1>6. BatchComplete(r)'
  <2>. SUFFICES ASSUME NEW n \in 1 .. Len(b), NEW x \in Rows, status[x] = "published", Before(x, b[n]),
                       ~UpTo(x, rep[i].cursor)
                PROVE  \E m \in 1 .. (n - 1) : b[m] = x
    BY <1>4, <1>5 DEF BatchComplete
  <2>1. Before(rep[i].cursor, x)
    BY <1>3, Total DEF Cursors
  <2>2. n \in DOMAIN b
    BY <1>2
  <2>. QED  BY <1>1, <2>1, <2>2 DEF Fetched
<1>7. Safe(r)'
  <2>1. SettledUpTo(r.cursor)'
    BY <1>3, <1>4, <1>5 DEF IInv, Safe, SettledUpTo, Arrived
  <2>2. Shape(r)' /\ ForwardedArrived(r)'
    BY <1>2, <1>4 DEF Shape, ForwardedArrived
  <2>. QED  BY <1>6, <2>1, <2>2 DEF Safe
<1>8. sent' \in [Rows -> Nat] /\ \A x \in Rows : sent'[x] >= sent[x]
  BY <1>5 DEF IInv
<1>. QED  BY <1>1, <1>4, <1>5, <1>7, <1>8, OneMoves

\* publish_raw, which succeeds or fails: what was stored before it stays.
LEMMA ForwardStep ==
  ASSUME IInv, NEW i \in Replicators, Forward(i) \/ ForwardFails(i) PROVE IInv'
<1>1. /\ rep[i] \in RepSet /\ rep[i].pc = "forward" /\ rep[i].done \in Nat /\ rep[i].batch \in Seq(Rows)
      /\ rep[i].done < Len(rep[i].batch)
  BY DEF Forward, ForwardFails, IInv, Safe, Shape, RepSet
<1>2. Row(i) \in Rows
  BY <1>1 DEF Row
<1>3. UNCHANGED <<status, late, checkpoint>>
  BY DEF Forward, ForwardFails, outbox, history
<1>4. sent' \in [Rows -> Nat] /\ \A x \in Rows : sent'[x] >= sent[x]
  <2>1. PICK k \in {0, 1} : sent' = [sent EXCEPT ![Row(i)] = @ + k]
    BY DEF Forward, ForwardFails
  <2>. QED  BY <1>2, <2>1 DEF IInv
<1>5. PICK q \in RepSet : q = rep[i]
  BY <1>1
<1>6. Safe(q)'
  <2>1. Safe(q)
    BY <1>5 DEF IInv, Safe, Shape, ForwardedArrived, BatchComplete, SettledUpTo
  <2>. QED  BY <1>3, <1>4, <2>1, SafeStays
<1>7. CASE Forward(i)
  <2>. DEFINE to == IF q.done + 1 = Len(q.batch) THEN "save" ELSE "forward"
              r == [q EXCEPT !.done = @ + 1, !.pc = to]
  <2>1. to \in {"save", "forward"} /\ (to = "save" <=> q.done + 1 = Len(q.batch))
    OBVIOUS
  <2>2. Set(i, r)
    BY <1>5, <1>7 DEF Forward
  <2>. HIDE DEF to
  <2>3. r \in RepSet
    <3>1. q.done + 1 \in Nat
      BY <1>1, <1>5
    <3>. QED  BY <2>1, <3>1 DEF RepSet
  <2>4. r.pc = to /\ r.done = q.done + 1 /\ r.cursor = q.cursor /\ r.batch = q.batch
    BY DEF RepSet
  <2>. HIDE DEF r
  <2>5. sent'[q.batch[q.done + 1]] > 0
    <3>1. sent' = [sent EXCEPT ![Row(i)] = @ + 1] /\ Row(i) = q.batch[q.done + 1]
      BY <1>5, <1>7 DEF Forward, Row
    <3>. QED  BY <1>2, <3>1 DEF IInv
  <2>6. Shape(r)' /\ ForwardedArrived(r)'
    <3>1. q.done \in Nat /\ Len(q.batch) \in Nat /\ q.done < Len(q.batch)
      BY <1>1, <1>5
    <3>2. Shape(r)'
      BY <2>1, <2>4, <3>1 DEF Shape
    <3>3. \A n \in 1 .. q.done : sent'[q.batch[n]] > 0
      BY <1>1, <1>5, <1>6 DEF Safe, ForwardedArrived
    <3>4. \A n \in 1 .. (q.done + 1) : sent'[q.batch[n]] > 0
      BY <2>5, <3>1, <3>3
    <3>. QED  BY <2>4, <3>2, <3>4 DEF ForwardedArrived
  <2>7. BatchComplete(r)' /\ SettledUpTo(r.cursor)'
    BY <1>1, <1>5, <1>6, <2>4 DEF Safe, BatchComplete, SettledUpTo
  <2>8. Safe(r)'
    BY <2>6, <2>7 DEF Safe
  <2>. QED  BY <1>3, <1>4, <2>2, <2>3, <2>8, OneMoves
<1>8. CASE ForwardFails(i)
  <2>. DEFINE to == IF q.done > 0 THEN "save" ELSE "sleep"
              r == [q EXCEPT !.pc = to]
  <2>1. to \in {"save", "sleep"} /\ (to = "save" <=> q.done > 0)
    OBVIOUS
  <2>2. Set(i, r)
    BY <1>5, <1>8 DEF ForwardFails, AfterFailure
  <2>. HIDE DEF to
  <2>3. r \in RepSet
    BY <1>5, <2>1 DEF RepSet
  <2>4. r.pc = to /\ r.done = q.done /\ r.cursor = q.cursor /\ r.batch = q.batch
    BY DEF RepSet
  <2>. HIDE DEF r
  <2>5. Shape(r)' /\ ForwardedArrived(r)'
    BY <1>1, <1>5, <1>6, <2>1, <2>4 DEF Safe, Shape, ForwardedArrived
  <2>6. BatchComplete(r)' /\ SettledUpTo(r.cursor)'
    BY <1>1, <1>5, <1>6, <2>4 DEF Safe, BatchComplete, SettledUpTo
  <2>7. Safe(r)'
    BY <2>5, <2>6 DEF Safe
  <2>. QED  BY <1>3, <1>4, <2>2, <2>3, <2>7, OneMoves
<1>. QED  BY <1>7, <1>8

\* Steps that change only how far the replicator is: they end the transaction or leave its
\* cursor and batch alone.
LEMMA ControlStep ==
  ASSUME IInv, NEW i \in Replicators,
         SaveCheckpoint(i) \/ BatchFails(i) \/ Crash(i) \/ Wake(i) \/ Stop(i) \/ Exit(i)
  PROVE  IInv'
<1>1. rep[i] \in RepSet /\ UNCHANGED <<status, late, checkpoint, sent>>
  BY DEF IInv, SaveCheckpoint, BatchFails, Crash, Wake, Stop, Exit, outbox, history
<1>2. sent' \in [Rows -> Nat] /\ \A x \in Rows : sent'[x] >= sent[x]
  BY <1>1 DEF IInv
<1>3. <<>> \in Seq(Rows) /\ None \in Cursors
  BY DEF Cursors
<1>4. ASSUME NEW r \in RepSet, Set(i, r), r.pc \in {"loop", "sleep", "stopped"} PROVE IInv'
  <2>1. Safe(r)'
    BY <1>4 DEF Safe, Shape, ForwardedArrived
  <2>. QED  BY <1>1, <1>2, <1>4, <2>1, OneMoves
<1>5. ASSUME NEW r \in RepSet, Set(i, r), r.cursor = rep[i].cursor, r.batch = rep[i].batch,
             r.done = rep[i].done, r.pc = rep[i].pc \/ (rep[i].pc = "save" /\ r.pc = "commit")
      PROVE  IInv'
  <2>1. Safe(r)
    BY <1>5 DEF IInv, Safe, Shape, ForwardedArrived, BatchComplete, SettledUpTo
  <2>2. Safe(r)'
    BY <1>1, <1>2, <2>1, SafeStays
  <2>. QED  BY <1>1, <1>2, <1>5, <2>2, OneMoves
<1>6. CASE SaveCheckpoint(i)
  <2>. DEFINE r == [rep[i] EXCEPT !.pc = "commit"]
  <2>1. r \in RepSet /\ r.pc = "commit" /\ r.cursor = rep[i].cursor /\ r.batch = rep[i].batch
        /\ r.done = rep[i].done
    BY <1>1 DEF RepSet
  <2>2. Set(i, r) /\ rep[i].pc = "save"
    BY <1>6 DEF SaveCheckpoint
  <2>. HIDE DEF r
  <2>3. PICK q \in RepSet : q = r
    BY <2>1
  <2>. QED  BY <1>5, <2>1, <2>2, <2>3 DEF Set
<1>7. CASE Stop(i)
  <2>. DEFINE r == [rep[i] EXCEPT !.stop = TRUE]
  <2>1. r \in RepSet /\ r.pc = rep[i].pc /\ r.cursor = rep[i].cursor /\ r.batch = rep[i].batch
        /\ r.done = rep[i].done
    BY <1>1 DEF RepSet
  <2>2. Set(i, r)
    BY <1>7 DEF Stop
  <2>. HIDE DEF r
  <2>3. PICK q \in RepSet : q = r
    BY <2>1
  <2>. QED  BY <1>5, <2>1, <2>2, <2>3 DEF Set
<1>8. CASE BatchFails(i) \/ Wake(i)
  <2>1. PICK to \in {"sleep", "loop"} : Set(i, [rep[i] EXCEPT !.pc = to, !.batch = <<>>, !.done = 0])
    BY <1>8 DEF BatchFails, Wake
  <2>. DEFINE r == [rep[i] EXCEPT !.pc = to, !.batch = <<>>, !.done = 0]
  <2>2. r \in RepSet
    BY <1>1, <1>3 DEF RepSet
  <2>3. r.pc = to
    BY <1>1 DEF RepSet
  <2>4. Set(i, r)
    BY <2>1
  <2>. HIDE DEF r
  <2>5. PICK q \in RepSet : q = r
    BY <2>2
  <2>. QED  BY <1>4, <2>3, <2>4, <2>5 DEF Set
<1>9. CASE Crash(i)
  <2>1. Start \in RepSet /\ Start.pc = "loop" /\ Set(i, Start)
    BY <1>3, <1>9 DEF Crash, Start, RepSet
  <2>. QED  BY <1>4, <2>1
<1>10. CASE Exit(i)
  <2>. DEFINE r == [rep[i] EXCEPT !.pc = "stopped"]
  <2>1. r \in RepSet /\ r.pc = "stopped"
    BY <1>1 DEF RepSet
  <2>2. Set(i, r)
    BY <1>10 DEF Exit
  <2>. HIDE DEF r
  <2>3. PICK q \in RepSet : q = r
    BY <2>1
  <2>. QED  BY <1>4, <2>1, <2>2, <2>3 DEF Set
<1>. QED  BY <1>6, <1>7, <1>8, <1>9, <1>10

\* The checkpoint moves to the last forwarded row: everything published up to it was behind the
\* cursor, before it in the batch, or late.
LEMMA CommitStep ==
  ASSUME IInv, NEW i \in Replicators, Commit(i) PROVE IInv'
<1>1. /\ rep[i] \in RepSet /\ rep[i].batch \in Seq(Rows) /\ rep[i].done \in 1 .. Len(rep[i].batch)
      /\ Safe(rep[i]) /\ rep[i].pc = "commit"
  BY DEF Commit, IInv, Safe, Shape, RepSet
<1>2. UNCHANGED <<status, late, sent>> /\ checkpoint' = Reached(i)
  BY DEF Commit, outbox
<1>3. Reached(i) = rep[i].batch[rep[i].done] /\ Reached(i) \in Rows
  BY <1>1 DEF Reached
<1>4. ASSUME NEW x \in Rows, status[x] = "published", UpTo(x, Reached(i)) PROVE Arrived(x)
  <2>0. /\ \A n \in 1 .. rep[i].done : sent[rep[i].batch[n]] > 0
        /\ BatchComplete(rep[i]) /\ SettledUpTo(rep[i].cursor)
    BY <1>1 DEF Safe, ForwardedArrived
  <2>1. CASE x = Reached(i)
    <3>1. rep[i].done \in 1 .. rep[i].done
      BY <1>1
    <3>. QED  BY <1>3, <2>0, <2>1, <3>1 DEF Arrived
  <2>2. CASE Before(x, Reached(i))
    <3>1. \/ UpTo(x, rep[i].cursor) \/ x \in late
          \/ \E m \in 1 .. (rep[i].done - 1) : rep[i].batch[m] = x
      BY <1>1, <1>3, <1>4, <2>0, <2>2 DEF BatchComplete
    <3>2. \A m \in 1 .. (rep[i].done - 1) : m \in 1 .. rep[i].done
      BY <1>1
    <3>. QED  BY <1>4, <2>0, <3>1, <3>2 DEF SettledUpTo, Arrived
  <2>. QED  BY <1>4, <2>1, <2>2 DEF UpTo
<1>5. checkpoint' \in Cursors /\ SettledUpTo(checkpoint)'
  BY <1>2, <1>3, <1>4 DEF SettledUpTo, Arrived, Cursors
<1>. DEFINE r == [rep[i] EXCEPT !.pc = "sleep", !.batch = <<>>, !.done = 0]
<1>6. r \in RepSet /\ r.pc = "sleep"
  <2>1. <<>> \in Seq(Rows)
    OBVIOUS
  <2>2. r \in RepSet
    BY <1>1, <2>1 DEF RepSet
  <2>. QED  BY <1>1, <2>2 DEF RepSet
<1>7. Set(i, r)
  BY DEF Commit
<1>. HIDE DEF r
<1>8. PICK q \in RepSet : q = r
  BY <1>6
<1>9. Safe(q)'
  BY <1>6, <1>8 DEF Safe, Shape, ForwardedArrived
<1>10. Set(i, q) /\ sent' \in [Rows -> Nat] /\ \A x \in Rows : sent'[x] >= sent[x]
  BY <1>2, <1>7, <1>8 DEF Set, IInv
<1>. QED  BY <1>2, <1>5, <1>9, <1>10, OneMoves

\* Every step preserves the inductive invariant.
LEMMA NextIInv == IInv /\ [Next]_vars => IInv'
<1>. SUFFICES ASSUME IInv, [Next]_vars PROVE IInv'
  OBVIOUS
<1>1. CASE UNCHANGED vars
  BY <1>1 DEF vars, outbox, history, IInv, Safe, Shape, ForwardedArrived, BatchComplete, SettledUpTo, Arrived
<1>2. ASSUME NEW i \in Replicators, Step(i) PROVE IInv'
  BY <1>2, LoadStep, FetchStep, ForwardStep, ControlStep, CommitStep DEF Step
<1>. QED  BY <1>1, <1>2, LocalStep, ForwardStep, ControlStep DEF Next

\* The inductive invariant holds in every reachable state.
THEOREM Invariance == Spec => []IInv
  BY InitIInv, NextIInv, PTL DEF Spec

\* Whatever fails and however many processes serve the target, no published row at or below
\* the checkpoint is missing in the other region, unless it became published behind a reader:
\* the batch stops at the first failure and the checkpoint with it.
THEOREM NothingSkipped == Spec => []SkippedOnlyIfLate
<1>1. IInv => SkippedOnlyIfLate
  BY DEF IInv, SettledUpTo, Arrived, SkippedOnlyIfLate
<1>. QED  BY <1>1, Invariance, PTL

-----------------------------------------------------------------------------
(* The count of what is sent again                                         *)

\* The processes that may send a row are finitely many, at most all of them.
LEMMA SendersFinite ==
  ASSUME NEW f, NEW cp, NEW x
  PROVE  /\ IsFiniteSet(Senders(f, cp, x)) /\ Cardinality(Senders(f, cp, x)) \in Nat
         /\ Cardinality(Replicators) \in Nat
         /\ Cardinality(Senders(f, cp, x)) <= Cardinality(Replicators)
<1>1. Senders(f, cp, x) \in SUBSET Replicators
  BY DEF Senders
<1>2. IsFiniteSet(Senders(f, cp, x)) /\ Cardinality(Senders(f, cp, x)) <= Cardinality(Replicators)
  BY <1>1, FS_Subset
<1>. QED  BY <1>2, FS_CardinalityType

\* One process moves and the checkpoint stays: only whether that process may still send counts.
LEMMA OneCounts ==
  ASSUME NEW f \in [Replicators -> RepSet], NEW i \in Replicators, NEW r \in RepSet, NEW cp, NEW x,
         NEW g, g = [f EXCEPT ![i] = r]
  PROVE  /\ Cardinality(Senders(g, cp, x)) <= Cardinality(Senders(f, cp, x)) + 1
         /\ ~MaySend(r, cp, x) \/ MaySend(f[i], cp, x)
              => Cardinality(Senders(g, cp, x)) <= Cardinality(Senders(f, cp, x))
         /\ ~MaySend(r, cp, x) /\ MaySend(f[i], cp, x)
              => Cardinality(Senders(g, cp, x)) <= Cardinality(Senders(f, cp, x)) - 1
<1>. DEFINE S == Senders(f, cp, x)
            T == Senders(g, cp, x)
<1>1. g[i] = r /\ \A j \in Replicators \ {i} : g[j] = f[j]
  OBVIOUS
<1>2. /\ T \subseteq S \cup {i}
      /\ ~MaySend(r, cp, x) \/ MaySend(f[i], cp, x) => T \subseteq S
      /\ ~MaySend(r, cp, x) /\ MaySend(f[i], cp, x) => T \subseteq S \ {i} /\ i \in S
  BY <1>1 DEF Senders
<1>3. IsFiniteSet(S)
  BY SendersFinite
<1>. HIDE DEF S, T
<1>4. /\ T \subseteq S \cup {i} => Cardinality(T) <= Cardinality(S) + 1
      /\ T \subseteq S => Cardinality(T) <= Cardinality(S)
      /\ T \subseteq S \ {i} /\ i \in S => Cardinality(T) <= Cardinality(S) - 1
  BY <1>3, OneElement
<1>. QED  BY <1>2, <1>4 DEF S, T

\* A step of one process that leaves the checkpoint alone is accounted for when, for every row,
\* what it sends and its being able to send again are paid for by a fault, or by its having
\* been able to send before.
LEMMA OnePays ==
  ASSUME IInv, Accounted, NEW i \in Replicators, NEW r \in RepSet, Set(i, r), Ordered(r),
         checkpoint' = checkpoint, setbacks' = setbacks, NEW k \in {0, 1}, faults' = faults + k,
         sent' \in [Rows -> Nat],
         \A x \in Rows :
           \/ sent'[x] = sent[x] /\ (k = 1 \/ (MaySend(r, checkpoint, x) => MaySend(rep[i], checkpoint, x)))
           \/ /\ sent'[x] = sent[x] + 1 /\ MaySend(rep[i], checkpoint, x)
              /\ k = 1 \/ ~MaySend(r, checkpoint, x)
  PROVE  Accounted'
<1>1. rep \in [Replicators -> RepSet] /\ sent \in [Rows -> Nat] /\ rep' = [rep EXCEPT ![i] = r]
  BY DEF IInv, Set
<1>2. \A j \in Replicators : Ordered(rep'[j])
  BY <1>1 DEF Accounted
<1>3. faults' \in Nat /\ setbacks' \in Nat
  BY DEF Accounted
<1>4. ASSUME NEW x \in Rows
      PROVE  sent'[x] + Cardinality(Senders(rep', checkpoint', x))
               <= Cardinality(Replicators) * (1 + setbacks') + faults'
  <2>. DEFINE old == MaySend(rep[i], checkpoint, x)
              new == MaySend(r, checkpoint, x)
  <2>1. PICK c \in Nat : c = Cardinality(Senders(rep, checkpoint, x))
    BY SendersFinite
  <2>2. PICK d \in Nat : d = Cardinality(Senders(rep', checkpoint, x))
    BY SendersFinite
  <2>3. PICK b \in Nat : b = Cardinality(Replicators) * (1 + setbacks)
    BY SendersFinite, OneMoreRound DEF Accounted
  <2>4. sent[x] + c <= b + faults /\ sent[x] \in Nat /\ sent'[x] \in Nat /\ faults \in Nat
    BY <1>1, <2>1, <2>3 DEF Accounted
  <2>5. d <= c + 1 /\ (~new \/ old => d <= c) /\ (~new /\ old => d <= c - 1)
    BY <1>1, <2>1, <2>2, OneCounts
  <2>6. \/ sent'[x] = sent[x] /\ (k = 1 \/ (new => old))
        \/ sent'[x] = sent[x] + 1 /\ old /\ (k = 1 \/ ~new)
    OBVIOUS
  <2>. HIDE DEF old, new
  <2>7. sent'[x] + d <= b + (faults + k)
    BY <2>4, <2>5, <2>6
  <2>. QED  BY <2>2, <2>3, <2>7
<1>. QED  BY <1>2, <1>3, <1>4 DEF Accounted

\* The transaction begins at the checkpoint: what lies behind that it will not send.
LEMMA LoadPays ==
  ASSUME IInv, Accounted, NEW i \in Replicators, LoadCheckpoint(i) PROVE Accounted'
<1>. DEFINE new == [rep[i] EXCEPT !.pc = "select", !.cursor = checkpoint, !.batch = <<>>, !.done = 0]
<1>1. rep[i] \in RepSet /\ checkpoint \in Cursors /\ <<>> \in Seq(Rows) /\ rep[i].pc = "loop"
  BY DEF IInv, LoadCheckpoint
<1>2. new \in RepSet
  BY <1>1 DEF RepSet
<1>3. new.pc = "select" /\ new.cursor = checkpoint /\ new.batch = <<>> /\ new.done = 0
  BY <1>1 DEF RepSet
<1>4. Set(i, new) /\ UNCHANGED <<checkpoint, faults, sent, setbacks>>
  BY DEF LoadCheckpoint, history
<1>. HIDE DEF new
<1>5. PICK r \in RepSet : r = new
  BY <1>2
<1>6. Ordered(r)
  BY <1>3, <1>5 DEF Ordered
<1>7. \A x \in Rows : MaySend(r, checkpoint, x) => MaySend(rep[i], checkpoint, x)
  BY <1>1, <1>3, <1>5 DEF MaySend, Open
<1>8. sent' \in [Rows -> Nat] /\ faults' = faults + 0
  BY <1>4 DEF IInv, Accounted
<1>. QED  BY <1>4, <1>5, <1>6, <1>7, <1>8, OnePays

\* The SELECT yields rows behind the cursor, in order.
LEMMA FetchPays ==
  ASSUME IInv, Accounted, NEW i \in Replicators, FetchBatch(i) PROVE Accounted'
<1>1. PICK b \in SeqOf(Rows, BatchSize) :
        /\ Fetched(b, rep[i].cursor)
        /\ Set(i, [rep[i] EXCEPT !.batch = b, !.pc = IF b = <<>> THEN "sleep" ELSE "forward"])
  BY DEF FetchBatch
<1>2. b \in Seq(Rows)
  <2>1. PICK k \in 0 .. BatchSize : b \in [1 .. k -> Rows]
    BY DEF SeqOf
  <2>. QED  BY <2>1
<1>3. rep[i] \in RepSet /\ rep[i].pc = "select" /\ rep[i].done = 0
  BY DEF FetchBatch, IInv, Safe, Shape
<1>. DEFINE to == IF b = <<>> THEN "sleep" ELSE "forward"
            new == [rep[i] EXCEPT !.batch = b, !.pc = to]
<1>4. to \in {"sleep", "forward"} /\ Set(i, new)
  BY <1>1
<1>. HIDE DEF to
<1>5. new \in RepSet
  BY <1>2, <1>3, <1>4 DEF RepSet
<1>6. new.cursor = rep[i].cursor /\ new.batch = b /\ new.done = 0
  BY <1>3 DEF RepSet
<1>. HIDE DEF new
<1>7. PICK r \in RepSet : r = new
  BY <1>5
<1>8. Ordered(r)
  <2>. SUFFICES ASSUME NEW n \in 1 .. Len(b)
                PROVE  Before(rep[i].cursor, b[n]) /\ \A m \in 1 .. (n - 1) : Before(b[m], b[n])
    BY <1>6, <1>7 DEF Ordered
  <2>1. \A m \in 1 .. Len(b) : m \in DOMAIN b /\ b[m] \in Range(b)
    BY <1>2 DEF Range
  <2>2. \A m \in 1 .. Len(b) : b[m] \in Rows /\ status[b[m]] = "published" /\ Before(rep[i].cursor, b[m])
    BY <1>1, <2>1 DEF Fetched
  <2>3. \A m \in 1 .. (n - 1) : m \in 1 .. Len(b)
    BY <1>2
  <2>. QED  BY <1>1, <2>1, <2>2, <2>3 DEF Fetched
<1>9. UNCHANGED <<checkpoint, faults, sent, setbacks>>
  BY DEF FetchBatch, history
<1>10. \A x \in Rows : MaySend(r, checkpoint, x) => MaySend(rep[i], checkpoint, x)
  BY <1>3, <1>6, <1>7 DEF MaySend, Open, Told
<1>11. sent' \in [Rows -> Nat] /\ faults' = faults + 0
  BY <1>9 DEF IInv, Accounted
<1>. QED  BY <1>4, <1>7, <1>8, <1>9, <1>10, <1>11, OnePays

\* The row that is sent is one the process could still send; if publish_raw succeeds it cannot
\* send it again, if it fails there is a fault.
LEMMA ForwardPays ==
  ASSUME IInv, Accounted, NEW i \in Replicators, Forward(i) \/ ForwardFails(i) PROVE Accounted'
<1>1. PICK q \in RepSet : q = rep[i] /\ q.pc = "forward" /\ q.done < Len(q.batch) /\ Ordered(q)
  BY DEF Forward, ForwardFails, IInv, Safe, Shape, Accounted
<1>2. q.done \in Nat /\ q.batch \in Seq(Rows) /\ Len(q.batch) \in Nat
  BY DEF RepSet
<1>3. PICK y \in Rows : y = Row(i) /\ y = q.batch[q.done + 1]
  <2>1. q.done + 1 \in 1 .. Len(q.batch)
    BY <1>1, <1>2
  <2>2. q.batch[q.done + 1] \in Rows
    BY <1>2, <2>1
  <2>. QED  BY <1>1, <2>2 DEF Row
<1>4. Before(q.cursor, y) /\ \A m \in 1 .. q.done : q.batch[m] # y
  <2>1. Before(q.cursor, y) /\ \A m \in 1 .. q.done : Before(q.batch[m], y)
    <3>1. q.done + 1 \in 1 .. Len(q.batch) /\ (q.done + 1) - 1 = q.done
      BY <1>1, <1>2
    <3>2. /\ Before(q.cursor, q.batch[q.done + 1])
          /\ \A m \in 1 .. ((q.done + 1) - 1) : Before(q.batch[m], q.batch[q.done + 1])
      BY <1>1, <3>1 DEF Ordered, Open
    <3>. QED  BY <1>3, <3>1, <3>2
  <2>2. ~Before(y, y)
    BY DEF Before
  <2>. QED  BY <2>1, <2>2
<1>5. MaySend(rep[i], checkpoint, y)
  BY <1>1, <1>4 DEF MaySend, Open, Told
<1>6. UNCHANGED <<checkpoint, setbacks>> /\ sent \in [Rows -> Nat]
  BY DEF Forward, ForwardFails, history, IInv
<1>7. CASE Forward(i)
  <2>. DEFINE to == IF q.done + 1 = Len(q.batch) THEN "save" ELSE "forward"
              new == [q EXCEPT !.done = @ + 1, !.pc = to]
  <2>1. to \in {"save", "forward"} /\ Set(i, new)
    BY <1>1, <1>7 DEF Forward
  <2>. HIDE DEF to
  <2>2. new \in RepSet
    <3>1. q.done + 1 \in Nat
      BY <1>2
    <3>. QED  BY <2>1, <3>1 DEF RepSet
  <2>3. new.pc = to /\ new.done = q.done + 1 /\ new.cursor = q.cursor /\ new.batch = q.batch
    BY DEF RepSet
  <2>. HIDE DEF new
  <2>4. PICK r \in RepSet : r = new
    BY <2>2
  <2>5. Ordered(r)
    BY <1>1, <2>3, <2>4 DEF Ordered, Open
  <2>6. ~MaySend(r, checkpoint, y)
    <3>1. q.done + 1 \in 1 .. (q.done + 1)
      BY <1>2
    <3>. QED  BY <1>3, <2>1, <2>3, <2>4, <3>1 DEF MaySend, Open, Told
  <2>7. \A x \in Rows : MaySend(r, checkpoint, x) => MaySend(rep[i], checkpoint, x)
    <3>1. \A m \in 1 .. q.done : m \in 1 .. (q.done + 1)
      BY <1>2
    <3>. QED  BY <1>1, <2>1, <2>3, <2>4, <3>1 DEF MaySend, Open, Told
  <2>8. sent' = [sent EXCEPT ![y] = @ + 1] /\ faults' = faults
    BY <1>3, <1>7 DEF Forward
  <2>9. sent' \in [Rows -> Nat] /\ sent'[y] = sent[y] + 1 /\ \A x \in Rows : x # y => sent'[x] = sent[x]
    BY <1>6, <2>8
  <2>10. faults' = faults + 0
    BY <2>8 DEF Accounted
  <2>. QED  BY <1>5, <1>6, <2>1, <2>4, <2>5, <2>6, <2>7, <2>9, <2>10, OnePays
<1>8. CASE ForwardFails(i)
  <2>. DEFINE to == IF q.done > 0 THEN "save" ELSE "sleep"
              new == [q EXCEPT !.pc = to]
  <2>1. to \in {"save", "sleep"} /\ Set(i, new)
    BY <1>1, <1>8 DEF ForwardFails, AfterFailure
  <2>. HIDE DEF to
  <2>2. new \in RepSet
    BY <2>1 DEF RepSet
  <2>3. new.done = q.done /\ new.cursor = q.cursor /\ new.batch = q.batch
    BY DEF RepSet
  <2>. HIDE DEF new
  <2>4. PICK r \in RepSet : r = new
    BY <2>2
  <2>5. Ordered(r)
    BY <1>1, <2>3, <2>4 DEF Ordered, Open
  <2>6. PICK k \in 0 .. 1 : sent' = [sent EXCEPT ![y] = @ + k]
    <3>1. \E k \in 0 .. 1 : sent' = [sent EXCEPT ![Row(i)] = @ + k]
      BY <1>8, Zenon DEF ForwardFails
    <3>. QED  BY <1>3, <3>1
  <2>7. /\ sent' \in [Rows -> Nat] /\ (sent'[y] = sent[y] \/ sent'[y] = sent[y] + 1)
        /\ \A x \in Rows : x # y => sent'[x] = sent[x]
    BY <1>6, <2>6
  <2>8. faults' = faults + 1
    BY <1>8 DEF ForwardFails, Fault
  <2>. QED  BY <1>5, <1>6, <2>1, <2>4, <2>5, <2>7, <2>8, OnePays
<1>. QED  BY <1>7, <1>8

\* The other steps that leave the checkpoint alone send nothing; only a fault lets the process
\* forget what it has sent.
LEMMA ControlPays ==
  ASSUME IInv, Accounted, NEW i \in Replicators,
         SaveCheckpoint(i) \/ BatchFails(i) \/ Crash(i) \/ Wake(i) \/ Stop(i) \/ Exit(i)
  PROVE  Accounted'
<1>1. /\ UNCHANGED <<checkpoint, sent, setbacks>> /\ sent' \in [Rows -> Nat]
      /\ rep[i] \in RepSet /\ <<>> \in Seq(Rows) /\ Ordered(rep[i])
  BY DEF IInv, Accounted, SaveCheckpoint, BatchFails, Crash, Wake, Stop, Exit, history
<1>2. ASSUME NEW r \in RepSet, Set(i, r), ~Open(r), faults' = faults + 1 PROVE Accounted'
  BY <1>1, <1>2, OnePays DEF Ordered
<1>3. ASSUME NEW r \in RepSet, Set(i, r), ~Open(r), ~Open(rep[i]), faults' = faults PROVE Accounted'
  <2>1. \A x \in Rows : MaySend(r, checkpoint, x) => MaySend(rep[i], checkpoint, x)
    BY <1>3 DEF MaySend
  <2>2. faults' = faults + 0 /\ Ordered(r)
    BY <1>3 DEF Accounted, Ordered
  <2>. QED  BY <1>1, <1>3, <2>1, <2>2, OnePays
<1>4. ASSUME NEW r \in RepSet, Set(i, r), r.cursor = rep[i].cursor, r.batch = rep[i].batch,
             r.done = rep[i].done, Open(r) <=> Open(rep[i]), faults' = faults
      PROVE  Accounted'
  <2>1. \A x \in Rows : MaySend(r, checkpoint, x) => MaySend(rep[i], checkpoint, x)
    BY <1>4 DEF MaySend, Told
  <2>2. faults' = faults + 0 /\ Ordered(r)
    BY <1>1, <1>4 DEF Accounted, Ordered
  <2>. QED  BY <1>1, <1>4, <2>1, <2>2, OnePays
<1>5. CASE SaveCheckpoint(i)
  <2>. DEFINE r == [rep[i] EXCEPT !.pc = "commit"]
  <2>1. r \in RepSet /\ r.pc = "commit" /\ r.cursor = rep[i].cursor /\ r.batch = rep[i].batch
        /\ r.done = rep[i].done
    BY <1>1 DEF RepSet
  <2>2. Set(i, r) /\ rep[i].pc = "save" /\ faults' = faults
    BY <1>5 DEF SaveCheckpoint
  <2>. HIDE DEF r
  <2>3. PICK q \in RepSet : q = r
    BY <2>1
  <2>. QED  BY <1>4, <2>1, <2>2, <2>3 DEF Set, Open
<1>6. CASE Stop(i)
  <2>. DEFINE r == [rep[i] EXCEPT !.stop = TRUE]
  <2>1. r \in RepSet /\ r.pc = rep[i].pc /\ r.cursor = rep[i].cursor /\ r.batch = rep[i].batch
        /\ r.done = rep[i].done
    BY <1>1 DEF RepSet
  <2>2. Set(i, r) /\ faults' = faults
    BY <1>6 DEF Stop
  <2>. HIDE DEF r
  <2>3. PICK q \in RepSet : q = r
    BY <2>1
  <2>. QED  BY <1>4, <2>1, <2>2, <2>3 DEF Set, Open
<1>7. CASE BatchFails(i) \/ Wake(i)
  <2>1. PICK to \in {"sleep", "loop"} : Set(i, [rep[i] EXCEPT !.pc = to, !.batch = <<>>, !.done = 0])
    BY <1>7 DEF BatchFails, Wake
  <2>. DEFINE r == [rep[i] EXCEPT !.pc = to, !.batch = <<>>, !.done = 0]
  <2>2. r \in RepSet
    BY <1>1 DEF RepSet
  <2>3. r.pc = to
    BY <1>1 DEF RepSet
  <2>4. Set(i, r) /\ (faults' = faults + 1 \/ (faults' = faults /\ ~Open(rep[i])))
    BY <1>7, <2>1 DEF BatchFails, Wake, Fault, Open
  <2>. HIDE DEF r
  <2>5. PICK q \in RepSet : q = r
    BY <2>2
  <2>. QED  BY <1>2, <1>3, <2>3, <2>4, <2>5 DEF Set, Open
<1>8. CASE Crash(i)
  <2>1. Start \in RepSet /\ ~Open(Start) /\ Set(i, Start) /\ faults' = faults + 1
    BY <1>1, <1>8 DEF Crash, Start, RepSet, Open, Fault, Cursors
  <2>. QED  BY <1>2, <2>1
<1>9. CASE Exit(i)
  <2>. DEFINE r == [rep[i] EXCEPT !.pc = "stopped"]
  <2>1. r \in RepSet /\ r.pc = "stopped"
    BY <1>1 DEF RepSet
  <2>2. Set(i, r) /\ rep[i].pc = "loop" /\ faults' = faults
    BY <1>9 DEF Exit
  <2>. HIDE DEF r
  <2>3. PICK q \in RepSet : q = r
    BY <2>1
  <2>. QED  BY <1>3, <2>1, <2>2, <2>3 DEF Set, Open
<1>. QED  BY <1>5, <1>6, <1>7, <1>8, <1>9

\* A commit that does not move the checkpoint back lets nobody send a row again; the process
\* itself has put the rows it sent behind the checkpoint.  One that does gives a new round.
LEMMA CommitPays ==
  ASSUME IInv, Accounted, NEW i \in Replicators, Commit(i) PROVE Accounted'
<1>1. PICK q \in RepSet : /\ q = rep[i] /\ q.pc = "commit" /\ Ordered(q)
                          /\ q.batch \in Seq(Rows) /\ q.done \in 1 .. Len(q.batch)
  BY DEF Commit, IInv, Safe, Shape, RepSet, Accounted
<1>2. PICK y \in Rows : y = q.batch[q.done] /\ checkpoint' = y /\ y = Reached(i)
  <2>1. q.batch[q.done] \in Rows /\ q.done # 0
    BY <1>1
  <2>. QED  BY <1>1, <2>1 DEF Commit, Reached
<1>3. checkpoint \in Cursors /\ y \in Cursors /\ rep \in [Replicators -> RepSet] /\ sent \in [Rows -> Nat]
      /\ Rows \subseteq Cursors
  BY DEF IInv, Cursors
<1>. DEFINE new == [rep[i] EXCEPT !.pc = "sleep", !.batch = <<>>, !.done = 0]
<1>4. new.pc = "sleep"
  BY <1>1 DEF RepSet
<1>5. rep' = [rep EXCEPT ![i] = new] /\ UNCHANGED <<faults, sent>>
  BY DEF Commit, Set
<1>. HIDE DEF new
<1>6. ~Open(new) /\ Ordered(new)
  BY <1>4 DEF Open, Ordered
<1>7. rep'[i] = new /\ \A j \in Replicators \ {i} : rep'[j] = rep[j]
  BY <1>3, <1>5
<1>8. \A j \in Replicators : Ordered(rep'[j])
  BY <1>6, <1>7 DEF Accounted
<1>9. faults \in Nat /\ setbacks \in Nat
  BY DEF Accounted
<1>10. CASE Before(y, checkpoint)
  <2>1. setbacks' = setbacks + 1
    BY <1>2, <1>10 DEF Commit
  <2>2. ASSUME NEW x \in Rows
        PROVE  sent'[x] + Cardinality(Senders(rep', checkpoint', x))
                 <= Cardinality(Replicators) * (1 + setbacks') + faults'
    <3>1. PICK c \in Nat : c = Cardinality(Senders(rep, checkpoint, x))
      BY SendersFinite
    <3>2. PICK d \in Nat : d = Cardinality(Senders(rep', checkpoint', x)) /\ d <= Cardinality(Replicators)
      BY SendersFinite
    <3>3. PICK n \in Nat : n = Cardinality(Replicators)
      BY SendersFinite
    <3>4. PICK b \in Nat : b = n * (1 + setbacks) /\ n * (1 + (setbacks + 1)) = b + n
      BY <1>9, OneMoreRound
    <3>5. sent[x] + c <= b + faults /\ sent[x] \in Nat
      BY <1>3, <3>1, <3>3, <3>4 DEF Accounted
    <3>6. sent[x] + d <= b + n + faults
      BY <1>9, <3>2, <3>3, <3>5
    <3>7. Cardinality(Replicators) * (1 + setbacks') = b + n
      BY <2>1, <3>3, <3>4
    <3>8. sent' = sent /\ faults' = faults
      BY <1>5
    <3>9. sent'[x] + d <= (b + n) + faults'
      BY <1>9, <3>5, <3>6, <3>8
    <3>. QED  BY <3>2, <3>7, <3>9
  <2>3. faults' \in Nat /\ setbacks' \in Nat
    BY <1>5, <1>9, <2>1
  <2>. QED  BY <1>8, <2>2, <2>3 DEF Accounted
<1>11. CASE ~Before(y, checkpoint)
  <2>1. setbacks' = setbacks
    BY <1>2, <1>11 DEF Commit
  <2>2. UpTo(checkpoint, y)
    BY <1>3, <1>11, Total
  <2>3. ASSUME NEW x \in Rows PROVE Senders(rep', checkpoint', x) \subseteq Senders(rep, checkpoint, x)
    <3>1. Before(y, x) => Before(checkpoint, x)
      BY <1>3, <2>2, Transitive
    <3>2. ASSUME Before(y, x) PROVE ~Told(q, x)
      <4>. SUFFICES ASSUME NEW m \in 1 .. q.done, q.batch[m] = x PROVE FALSE
        BY DEF Told
      <4>1. m = q.done \/ m \in 1 .. (q.done - 1)
        BY <1>1
      <4>2. x = y \/ Before(x, y)
        BY <1>1, <1>2, <4>1 DEF Ordered, Open
      <4>. QED  BY <1>3, <3>2, <4>2, Asymmetric
    <3>3. MaySend(rep'[i], checkpoint', x) => MaySend(rep[i], checkpoint, x)
      BY <1>1, <1>2, <1>6, <1>7, <3>1, <3>2 DEF MaySend
    <3>4. \A j \in Replicators \ {i} : MaySend(rep'[j], checkpoint', x) => MaySend(rep[j], checkpoint, x)
      BY <1>2, <1>7, <3>1 DEF MaySend
    <3>. QED  BY <3>3, <3>4 DEF Senders
  <2>4. ASSUME NEW x \in Rows
        PROVE  sent'[x] + Cardinality(Senders(rep', checkpoint', x))
                 <= Cardinality(Replicators) * (1 + setbacks') + faults'
    <3>1. PICK c \in Nat : c = Cardinality(Senders(rep, checkpoint, x))
      BY SendersFinite
    <3>2. PICK d \in Nat : d = Cardinality(Senders(rep', checkpoint', x))
      BY SendersFinite
    <3>3. PICK b \in Nat : b = Cardinality(Replicators) * (1 + setbacks)
      BY <1>9, SendersFinite, OneMoreRound
    <3>4. sent[x] + c <= b + faults /\ sent[x] \in Nat
      BY <1>3, <3>1, <3>3 DEF Accounted
    <3>5. d <= c
      BY <2>3, <3>1, <3>2, SendersFinite, FS_Subset
    <3>6. sent[x] + d <= b + faults
      BY <1>9, <3>4, <3>5
    <3>. QED  BY <1>5, <2>1, <3>2, <3>3, <3>6
  <2>. QED  BY <1>5, <1>8, <1>9, <2>1, <2>4 DEF Accounted
<1>. QED  BY <1>10, <1>11

\* Nothing was sent at first, and every process may send every row once.
LEMMA InitAccounted == Init => Accounted
<1>. SUFFICES ASSUME Init PROVE Accounted
  OBVIOUS
<1>1. /\ rep = [i \in Replicators |-> Start] /\ sent = [x \in Rows |-> 0]
      /\ faults = 0 /\ setbacks = 0
  BY DEF Init
<1>2. \A i \in Replicators : Ordered(rep[i])
  BY <1>1 DEF Start, Ordered, Open
<1>3. ASSUME NEW x \in Rows
      PROVE  sent[x] + Cardinality(Senders(rep, checkpoint, x)) <= Cardinality(Replicators) * (1 + setbacks) + faults
  BY <1>1, SendersFinite
<1>. QED  BY <1>1, <1>2, <1>3 DEF Accounted

\* Every step keeps the account.
LEMMA NextAccounted == IInv /\ Accounted /\ [Next]_vars => Accounted'
<1>. SUFFICES ASSUME IInv, Accounted, [Next]_vars PROVE Accounted'
  OBVIOUS
<1>1. ASSUME UNCHANGED <<checkpoint, rep, faults, sent, setbacks>> PROVE Accounted'
  BY <1>1 DEF Accounted
<1>2. CASE UNCHANGED vars
  BY <1>1, <1>2 DEF vars, history
<1>3. CASE LocalOutbox
  BY <1>1, <1>3 DEF LocalOutbox
<1>4. ASSUME NEW i \in Replicators, Step(i) PROVE Accounted'
  BY <1>4, LoadPays, FetchPays, ForwardPays, ControlPays, CommitPays DEF Step
<1>. QED  BY <1>2, <1>3, <1>4, ForwardPays, ControlPays DEF Next

\* However many processes serve the target region, a row reaches it at most once for every
\* process, once more for every failure or crash, and once more for every process each time a
\* slower transaction moves the checkpoint back: _process_one_batch sends nothing again
\* without such a cause.
THEOREM ResendsBounded == Spec => []ResendsAccounted
<1>1. IInv /\ Accounted => ResendsAccounted
  <2>. SUFFICES ASSUME IInv, Accounted, NEW x \in Rows
                PROVE  sent[x] <= Cardinality(Replicators) * (1 + setbacks) + faults
    BY DEF ResendsAccounted
  <2>1. PICK b \in Nat : b = Cardinality(Replicators) * (1 + setbacks)
    BY SendersFinite, OneMoreRound DEF Accounted
  <2>2. PICK c \in Nat : c = Cardinality(Senders(rep, checkpoint, x))
    BY SendersFinite
  <2>3. sent[x] + c <= b + faults /\ sent[x] \in Nat /\ faults \in Nat
    BY <2>1, <2>2 DEF IInv, Accounted
  <2>4. sent[x] <= b + faults
    BY <2>3
  <2>. QED  BY <2>1, <2>4
<1>. QED  BY <1>1, InitAccounted, NextAccounted, Invariance, PTL DEF Spec
=============================================================================
