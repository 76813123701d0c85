-------------------------- MODULE OutboxRelayProofs --------------------------
(***************************************************************************)
(* What the relay guarantees for every number of rows, relays, shards,     *)
(* attempts and faults.                                                    *)
(***************************************************************************)
EXTENDS OutboxRelay, TLAPS

\* Outside its transaction a relay has no row; inside it a row is waiting,
\* published or failed, never two of these.
BatchShape ==
  \A r \in Relays :
    /\ pc[r] # "batch" => todo[r] = {} /\ sent[r] = {} /\ failed[r] = {}
    /\ todo[r] \cap sent[r] = {} /\ todo[r] \cap failed[r] = {} /\ sent[r] \cap failed[r] = {}

\* A claimed row is still pending and below max_attempts: its lock keeps every
\* other relay from marking it.
ClaimedPending ==
  \A r \in Relays : \A x \in Claimed(r) : status[x] = "pending" /\ attempts[x] < MaxAttempts

\* The inductive invariant.
IInv == TypeOK /\ BatchShape /\ ClaimedPending /\ DisjointBatches /\ DuplicatesAccounted

USE RelayAssumption

\* The initial states satisfy the inductive invariant.
LEMMA InitIInv == Init => IInv
  BY DEF Init, IInv, TypeOK, BatchShape, ClaimedPending, DisjointBatches, DuplicatesAccounted,
         Claimed, Unmarked, PCs

\* Recording new rows touches no claimed row.
LEMMA RecordStep ==
  ASSUME IInv, NEW X \in SUBSET Rows, Record(X) PROVE IInv'
  BY DEF IInv, Record, TypeOK, BatchShape, ClaimedPending, DisjointBatches, DuplicatesAccounted,
         Claimed, Unmarked, PCs, stream, batchVars

\* Steps of run() that leave the table, the stream and the batches alone.
LEMMA ControlStep ==
  ASSUME IInv, NEW r \in Relays, EnterDrain(r) \/ Stop(r) \/ Exit(r) \/ Restart(r)
  PROVE  IInv'
<1>. USE DEF IInv, TypeOK, BatchShape, ClaimedPending, DisjointBatches, DuplicatesAccounted,
         Claimed, Unmarked, PCs, table, stream, batchVars, Fault
<1>1. CASE EnterDrain(r)
  BY <1>1 DEF EnterDrain, Lock!SetNX
<1>2. CASE Stop(r)
  BY <1>2 DEF Stop
<1>3. CASE Exit(r)
  BY <1>3 DEF Exit, ReleaseLeader, Lock!CompareAndDelete
<1>4. CASE Restart(r)
  BY <1>4 DEF Restart
<1>. QED  BY <1>1, <1>2, <1>3, <1>4

\* A claim takes only rows no other relay has locked.
LEMMA ClaimStep ==
  ASSUME IInv, NEW r \in Relays, Claim(r) PROVE IInv'
<1>1. PICK X \in SUBSET Rows : IsBatch(r, X) /\ todo' = [todo EXCEPT ![r] = X]
  BY DEF Claim
<1>2. \A x \in X : status[x] = "pending" /\ attempts[x] < MaxAttempts /\ NotLocked(x)
  BY <1>1 DEF IsBatch, Selectable
<1>3. sent[r] = {} /\ failed[r] = {} /\ todo[r] = {}
  BY DEF Claim, IInv, BatchShape
<1>. USE DEF IInv, table, stream, batchVars, Claim
<1>4. TypeOK'
  BY <1>1 DEF TypeOK, PCs
<1>5. BatchShape'
  BY <1>1, <1>3 DEF BatchShape, TypeOK
<1>6. ClaimedPending'
  BY <1>1, <1>2, <1>3 DEF ClaimedPending, Claimed, TypeOK
<1>7. DisjointBatches'
  BY <1>1, <1>2, <1>3 DEF DisjointBatches, Claimed, NotLocked, TypeOK
<1>8. DuplicatesAccounted'
  BY DEF DuplicatesAccounted, Unmarked
<1>. QED  BY <1>4, <1>5, <1>6, <1>7, <1>8

\* One publish moves one row out of todo and, when stored, adds one copy.
LEMMA PublishStep ==
  ASSUME IInv, NEW r \in Relays, NEW x \in Rows,
         PublishOk(r, x) \/ PublishFail(r, x) \/ PublishAckLost(r, x)
  PROVE  IInv'
<1>. USE DEF IInv, table, stream, batchVars, Fault
<1>0. x \in todo[r] /\ pc[r] = "batch"
  BY DEF PublishOk, PublishFail, PublishAckLost, Oldest
<1>1. status[x] = "pending" /\ x \notin sent[r] /\ ~Unmarked(x)
  BY <1>0 DEF ClaimedPending, Claimed, BatchShape, DisjointBatches, Unmarked
<1>2. CASE PublishOk(r, x)
  <2>1. TypeOK'
    BY <1>2 DEF PublishOk, TypeOK
  <2>2. BatchShape' /\ ClaimedPending' /\ DisjointBatches'
    BY <1>0, <1>2 DEF PublishOk, TypeOK, BatchShape, ClaimedPending, DisjointBatches, Claimed
  <2>3. DuplicatesAccounted'
    BY <1>0, <1>1, <1>2 DEF PublishOk, TypeOK, DuplicatesAccounted, Unmarked
  <2>. QED  BY <2>1, <2>2, <2>3
<1>3. CASE PublishFail(r, x)
  BY <1>0, <1>3 DEF PublishFail, TypeOK, BatchShape, ClaimedPending, DisjointBatches, Claimed,
     DuplicatesAccounted, Unmarked
<1>4. CASE PublishAckLost(r, x)
  <2>1. TypeOK'
    BY <1>4 DEF PublishAckLost, TypeOK
  <2>2. BatchShape' /\ ClaimedPending' /\ DisjointBatches'
    BY <1>0, <1>4 DEF PublishAckLost, TypeOK, BatchShape, ClaimedPending, DisjointBatches, Claimed
  <2>3. DuplicatesAccounted'
    BY <1>0, <1>1, <1>4 DEF PublishAckLost, TypeOK, DuplicatesAccounted, Unmarked
  <2>. QED  BY <2>1, <2>2, <2>3
<1>. QED  BY <1>2, <1>3, <1>4

\* The commit settles the rows of one relay; no other relay has them.
LEMMA CommitStep ==
  ASSUME IInv, NEW r \in Relays, Commit(r) PROVE IInv'
<1>. USE DEF IInv, table, stream, batchVars, Commit, MarkRows, EndBatch
<1>1. TypeOK'
  BY DEF TypeOK, PCs, ClaimedPending, Claimed
<1>2. BatchShape' /\ DisjointBatches'
  BY DEF TypeOK, BatchShape, DisjointBatches, Claimed
<1>3. ClaimedPending'
  BY DEF TypeOK, BatchShape, ClaimedPending, DisjointBatches, Claimed
<1>4. DuplicatesAccounted'
  BY DEF TypeOK, DuplicatesAccounted, DisjointBatches, ClaimedPending, Claimed, Unmarked
<1>. QED  BY <1>1, <1>2, <1>3, <1>4

\* A rolled back batch leaves its stored publishes unrecorded.
LEMMA FailureStep ==
  ASSUME IInv, NEW r \in Relays, DatabaseError(r) \/ Crash(r) PROVE IInv'
<1>. USE DEF IInv, table, stream, batchVars, Forget, EndBatch, Fault
<1>0. /\ Forget(r) /\ Fault /\ UNCHANGED <<table, copies, stopping>>
      /\ leader' \in {leader, NoLeader}
      /\ pc' \in {[pc EXCEPT ![r] = "loop"], [pc EXCEPT ![r] = "crashed"]}
  BY DEF DatabaseError, Crash, ReleaseLeader, Lock!CompareAndDelete
<1>1. TypeOK'
  BY <1>0 DEF TypeOK, PCs
<1>2. BatchShape' /\ DisjointBatches' /\ ClaimedPending'
  BY <1>0 DEF TypeOK, BatchShape, DisjointBatches, ClaimedPending, Claimed
<1>3. DuplicatesAccounted'
  BY <1>0 DEF TypeOK, DuplicatesAccounted, DisjointBatches, ClaimedPending, Claimed, Unmarked
<1>. QED  BY <1>1, <1>2, <1>3

\* Every step preserves the inductive invariant.
LEMMA NextIInv == IInv /\ [Next]_vars => IInv'
<1>. SUFFICES ASSUME IInv, [Next]_vars PROVE IInv'
  OBVIOUS
<1>1. CASE UNCHANGED vars
  BY <1>1 DEF vars, IInv, TypeOK, BatchShape, ClaimedPending, DisjointBatches,
     DuplicatesAccounted, Claimed, Unmarked
<1>2. CASE ExpireAbandoned \/ ExpireLive
  BY <1>2 DEF ExpireAbandoned, ExpireLive, IInv, TypeOK, BatchShape, ClaimedPending,
     DisjointBatches, DuplicatesAccounted, Claimed, Unmarked, table, stream, batchVars, Fault
<1>3. CASE \E X \in SUBSET Rows : Record(X)
  BY <1>3, RecordStep
<1>4. CASE \E r \in Relays, x \in Rows :
             PublishOk(r, x) \/ PublishFail(r, x) \/ PublishAckLost(r, x)
  BY <1>4, PublishStep
<1>5. ASSUME NEW r \in Relays,
             EnterDrain(r) \/ BackOff(r) \/ Stop(r) \/ Exit(r) \/ Claim(r) \/ IdlePoll(r)
               \/ Commit(r) \/ DatabaseError(r) \/ Crash(r) \/ Restart(r)
      PROVE  IInv'
  BY <1>1, <1>5, ControlStep, ClaimStep, CommitStep, FailureStep DEF BackOff, IdlePoll
<1>. QED  BY <1>1, <1>2, <1>3, <1>4, <1>5 DEF Next

\* The inductive invariant holds in every reachable state.
THEOREM Invariance == Spec => []IInv
  BY InitIInv, NextIInv, PTL DEF Spec

\* No variable leaves its type and no row is attempted more than max_attempts
\* times (_process_one_batch's "attempts < :max_attempts").
THEOREM TypeCorrect == Spec => []TypeOK
<1>1. IInv => TypeOK
  BY DEF IInv
<1>. QED  BY <1>1, Invariance, PTL

\* FOR UPDATE SKIP LOCKED keeps the batches of any two relays disjoint.
THEOREM BatchesDisjoint == Spec => []DisjointBatches
<1>1. IInv => DisjointBatches
  BY DEF IInv
<1>. QED  BY <1>1, Invariance, PTL

\* The stream holds exactly one copy per recorded or to-be-recorded publish and
\* one per publish a crash, a rollback or a lost ack left unrecorded.
THEOREM NoOtherDuplicates == Spec => []DuplicatesAccounted
<1>1. IInv => DuplicatesAccounted
  BY DEF IInv
<1>. QED  BY <1>1, Invariance, PTL

-----------------------------------------------------------------------------
(* The relay implements OutboxDelivery.                                    *)

OnStream == {x \in Rows : copies[x] > 0}

\* Initially no row exists and the stream is empty.
LEMMA InitRefines == Init => Delivery!Init
  BY DEF Init, Delivery!Init

\* Every step is an abstract step or changes neither status nor stream.
LEMMA StepRefines == IInv /\ [Next]_vars => [Delivery!Next]_(Delivery!vars)
<1>. SUFFICES ASSUME IInv, [Next]_vars PROVE [Delivery!Next]_(Delivery!vars)
  OBVIOUS
<1>a. TypeOK
  BY DEF IInv
<1>1. ASSUME NEW X \in SUBSET Rows, Record(X) PROVE Delivery!Accept(X)
  BY <1>1 DEF Record, Delivery!Accept, stream
<1>2. ASSUME NEW r \in Relays, NEW x \in Rows, PublishOk(r, x) \/ PublishAckLost(r, x)
      PROVE  Delivery!Deliver(x)
  <2>1. status[x] = "pending"
    BY <1>2 DEF PublishOk, PublishAckLost, Oldest, IInv, ClaimedPending, Claimed
  <2>2. copies' = [copies EXCEPT ![x] = @ + 1] /\ status' = status
    BY <1>2 DEF PublishOk, PublishAckLost, table
  <2>3. OnStream' = OnStream \cup {x}
    BY <1>a, <2>2 DEF OnStream, TypeOK
  <2>. QED  BY <2>1, <2>2, <2>3 DEF Delivery!Deliver, OnStream
<1>3. ASSUME NEW r \in Relays, Commit(r) PROVE Delivery!Settle(sent[r])
  <2>1. \A x \in sent[r] : x \in Rows /\ status[x] = "pending" /\ copies[x] > 0
    BY <1>a DEF IInv, TypeOK, ClaimedPending, Claimed, DuplicatesAccounted, Unmarked
  <2>. QED  BY <1>3, <2>1 DEF Commit, MarkRows, Delivery!Settle, stream
<1>4. ASSUME NEW r \in Relays, Commit(r) PROVE sent[r] \in SUBSET Rows
  BY <1>a DEF TypeOK
<1>5. ASSUME UNCHANGED <<status, copies>> PROVE UNCHANGED Delivery!vars
  BY <1>5 DEF Delivery!vars
<1>6. ASSUME NEW r \in Relays,
             EnterDrain(r) \/ BackOff(r) \/ Stop(r) \/ Exit(r) \/ Claim(r) \/ IdlePoll(r)
               \/ DatabaseError(r) \/ Crash(r) \/ Restart(r)
      PROVE  UNCHANGED <<status, copies>>
  BY <1>6 DEF EnterDrain, BackOff, Stop, Exit, Claim, IdlePoll, DatabaseError, Crash, Restart,
     table, stream, vars
<1>7. ASSUME NEW r \in Relays, NEW x \in Rows, PublishFail(r, x)
      PROVE  UNCHANGED <<status, copies>>
  BY <1>7 DEF PublishFail, table, stream
<1>8. ASSUME ExpireAbandoned \/ ExpireLive \/ UNCHANGED vars
      PROVE  UNCHANGED <<status, copies>>
  BY <1>8 DEF ExpireAbandoned, ExpireLive, table, stream, vars
<1>. QED
  BY <1>1, <1>2, <1>3, <1>4, <1>5, <1>6, <1>7, <1>8 DEF Next, Delivery!Next

\* OutboxRelay implements the outbox promise: published_at is set only for rows
\* that are on the stream, and never taken back.
THEOREM Refinement == Spec => ImplementsDelivery
  BY Invariance, InitRefines, StepRefines, PTL DEF Spec, ImplementsDelivery, Delivery!Spec

\* Sharded relays leave no row to nobody and none to two shards, as long as every shard has
\* a relay: the clause ABS(HASHTEXT(id)) % shard_count = shard_id.
THEOREM ShardsPartition ==
  ASSUME NEW x \in Rows, \A i \in 0 .. ShardCount - 1 : \E r \in Relays : ShardId[r] = i
  PROVE  /\ \E r \in Relays : InShard(r, x)
         /\ ShardCount > 1 => \A r, s \in Relays : InShard(r, x) /\ InShard(s, x) => ShardId[r] = ShardId[s]
<1>1. Hash[x] % ShardCount \in 0 .. ShardCount - 1
  BY RelayAssumption
<1>2. PICK r \in Relays : ShardId[r] = Hash[x] % ShardCount
  BY <1>1
<1>. QED  BY <1>2 DEF InShard
=============================================================================
