----------------------------- MODULE OutboxRelay -----------------------------
(***************************************************************************)
(* qx.events.outbox_relay: relays drain the table qx_outbox_events to the  *)
(* JetStream stream.  A relay works in one database transaction per batch: *)
(* it locks the batch (FOR UPDATE SKIP LOCKED), publishes row after row,   *)
(* and only then marks the rows and commits.  A crash or a database error  *)
(* in between rolls the marks back, never the publishes.                   *)
(*                                                                         *)
(* A relay at "loop" is at the head of run(), at "drain" at the head of    *)
(* _drain_loop (it holds, or believes it holds, the leader lock), at       *)
(* "batch" inside _process_one_batch's transaction.                        *)
(***************************************************************************)
EXTENDS Naturals, FiniteSets

CONSTANTS
  Rows,         \* rows the application will ever commit to the outbox
  OccurredAt,   \* [Rows -> Nat]: occurred_at, stamped before the commit
  Hash,         \* [Rows -> Nat]: ABS(HASHTEXT(id::text)::bigint)
  Relays,       \* relay processes
  ShardCount,   \* shard_count, the same for every relay
  ShardId,      \* [Relays -> 0 .. ShardCount-1]: shard_id
  UseLock,      \* a leader_lock is configured
  NoLeader,     \* the leader lock's key does not exist
  BatchSize,    \* batch_size
  MaxAttempts,  \* max_attempts
  MaxFaults     \* bound on crashes, database errors, lost acks, expiries and stops

ASSUME RelayAssumption ==
  /\ OccurredAt \in [Rows -> Nat]
  /\ Hash \in [Rows -> Nat]
  /\ ShardCount \in Nat \ {0}
  /\ ShardId \in [Relays -> 0 .. ShardCount - 1]
  /\ UseLock \in BOOLEAN
  /\ NoLeader \notin Relays
  /\ BatchSize \in Nat \ {0}
  /\ MaxAttempts \in Nat \ {0}
  /\ MaxFaults \in Nat

VARIABLES
  status,      \* [Rows -> {"absent","pending","published"}]: row absent / published_at NULL / set
  attempts,    \* [Rows -> Nat]: column attempts
  copies,      \* [Rows -> Nat]: messages the stream holds for the row
  unrecorded,  \* [Rows -> Nat]: history: copies whose publish the outbox never recorded
  pc,          \* [Relays -> PCs]
  todo,        \* [Relays -> SUBSET Rows]: rows of the batch not yet published
  sent,        \* [Relays -> SUBSET Rows]: published_ids
  failed,      \* [Relays -> SUBSET Rows]: failed
  stopping,    \* [Relays -> BOOLEAN]: _stop is set
  leader,      \* value of the leader lock's key: a relay (its token) or NoLeader
  faults       \* faults so far, at most MaxFaults

table     == <<status, attempts>>
stream    == <<copies, unrecorded>>
batchVars == <<todo, sent, failed>>
vars == <<status, attempts, copies, unrecorded, pc, todo, sent, failed, stopping, leader, faults>>

Lock == INSTANCE DistributedLockOps WITH Free <- NoLeader

PCs == {"loop", "drain", "batch", "stopped", "crashed"}

Claimed(r) == todo[r] \cup sent[r] \cup failed[r]   \* rows locked by r's transaction

Init ==
  /\ status = [x \in Rows |-> "absent"]
  /\ attempts = [x \in Rows |-> 0]
  /\ copies = [x \in Rows |-> 0]
  /\ unrecorded = [x \in Rows |-> 0]
  /\ pc = [r \in Relays |-> "loop"]
  /\ todo = [r \in Relays |-> {}]
  /\ sent = [r \in Relays |-> {}]
  /\ failed = [r \in Relays |-> {}]
  /\ stopping = [r \in Relays |-> FALSE]
  /\ leader = NoLeader
  /\ faults = 0

Fault == faults < MaxFaults /\ faults' = faults + 1

-----------------------------------------------------------------------------
(* The outbox table, written by UnitOfWork.commit.                         *)

\* DefaultOutboxRecorder.record inside a transaction that commits: the rows of
\* one commit appear together, in any order relative to their occurred_at.
Record(X) ==
  /\ X # {}
  /\ \A x \in X : status[x] = "absent"
  /\ status' = [x \in Rows |-> IF x \in X THEN "pending" ELSE status[x]]
  /\ UNCHANGED <<attempts, stream, pc, batchVars, stopping, leader, faults>>

-----------------------------------------------------------------------------
(* run() and _drain_loop()                                                 *)

\* acquired(ttl_seconds=60) got the lock, or no lock is configured.
EnterDrain(r) ==
  /\ pc[r] = "loop" /\ ~stopping[r]
  /\ IF UseLock THEN leader = NoLeader /\ leader' = Lock!SetNX(leader, r)
                ELSE UNCHANGED leader
  /\ pc' = [pc EXCEPT ![r] = "drain"]
  /\ UNCHANGED <<table, stream, batchVars, stopping, faults>>

\* Another instance is leader: sleep and try again.
BackOff(r) ==
  /\ pc[r] = "loop" /\ ~stopping[r]
  /\ UseLock /\ leader # NoLeader
  /\ UNCHANGED vars

\* Leaving "async with acquired()": compare-and-delete the token.
ReleaseLeader(r) ==
  leader' = IF UseLock /\ pc[r] \in {"drain", "batch"}
            THEN Lock!CompareAndDelete(leader, r) ELSE leader

\* stop() from a signal handler.
Stop(r) ==
  /\ Fault
  /\ ~stopping[r] /\ pc[r] \in {"loop", "drain", "batch"}
  /\ stopping' = [stopping EXCEPT ![r] = TRUE]
  /\ UNCHANGED <<table, stream, pc, batchVars, leader>>

\* Both while loops test _stop; a batch that is under way is finished first.
Exit(r) ==
  /\ pc[r] \in {"loop", "drain"} /\ stopping[r]
  /\ pc' = [pc EXCEPT ![r] = "stopped"]
  /\ ReleaseLeader(r)
  /\ UNCHANGED <<table, stream, batchVars, stopping, faults>>

-----------------------------------------------------------------------------
(* _process_one_batch()                                                    *)

\* _shard_clause: no filter when there is one shard.
InShard(r, x) == ShardCount = 1 \/ Hash[x] % ShardCount = ShardId[r]

NotLocked(x) == \A r \in Relays : x \notin Claimed(r)

\* Mutants of Selectable.
SelectableLocked(r, x) ==    \* FOR UPDATE SKIP LOCKED forgotten
  status[x] = "pending" /\ attempts[x] < MaxAttempts /\ InShard(r, x)
SelectablePublished(r, x) == \* published_at IS NULL forgotten
  status[x] # "absent" /\ attempts[x] < MaxAttempts /\ InShard(r, x) /\ NotLocked(x)
SelectableOffByOne(r, x) ==  \* attempts < max_attempts - 1
  status[x] = "pending" /\ attempts[x] + 1 < MaxAttempts /\ InShard(r, x) /\ NotLocked(x)

\* The WHERE clause of the batch query, with SKIP LOCKED.
Selectable(r, x) ==
  /\ status[x] = "pending"
  /\ attempts[x] < MaxAttempts
  /\ InShard(r, x)
  /\ NotLocked(x)

\* ORDER BY occurred_at LIMIT batch_size: an oldest-first prefix, ties in any order.
IsBatch(r, X) ==
  LET S == {x \in Rows : Selectable(r, x)} IN
  /\ X # {} /\ X \subseteq S
  /\ Cardinality(X) <= BatchSize
  /\ Cardinality(X) = BatchSize \/ X = S
  /\ \A x \in X, y \in S \ X : OccurredAt[x] <= OccurredAt[y]

Claim(r) ==
  /\ pc[r] = "drain" /\ ~stopping[r]
  /\ \E X \in SUBSET Rows : IsBatch(r, X) /\ todo' = [todo EXCEPT ![r] = X]
  /\ pc' = [pc EXCEPT ![r] = "batch"]
  /\ UNCHANGED <<table, stream, sent, failed, stopping, leader, faults>>

\* No rows: return 0 and sleep for the idle interval.
IdlePoll(r) ==
  /\ pc[r] = "drain" /\ ~stopping[r]
  /\ \A x \in Rows : ~Selectable(r, x)
  /\ UNCHANGED vars

\* The loop takes the rows in the order of the query.
Oldest(X) == {x \in X : \A y \in X : OccurredAt[x] <= OccurredAt[y]}

\* publish_raw returned: JetStream stored the message and acknowledged it.
PublishOk(r, x) ==
  /\ pc[r] = "batch" /\ x \in Oldest(todo[r])
  /\ copies' = [copies EXCEPT ![x] = @ + 1]
  /\ todo' = [todo EXCEPT ![r] = @ \ {x}]
  /\ sent' = [sent EXCEPT ![r] = @ \cup {x}]
  /\ UNCHANGED <<table, unrecorded, pc, failed, stopping, leader, faults>>

\* publish_raw raised and the message is not on the stream.
PublishFail(r, x) ==
  /\ pc[r] = "batch" /\ x \in Oldest(todo[r])
  /\ todo' = [todo EXCEPT ![r] = @ \ {x}]
  /\ failed' = [failed EXCEPT ![r] = @ \cup {x}]
  /\ UNCHANGED <<table, stream, pc, sent, stopping, leader, faults>>

\* publish_raw raised (timeout), but the message was stored: the ack was lost.
PublishAckLost(r, x) ==
  /\ Fault
  /\ pc[r] = "batch" /\ x \in Oldest(todo[r])
  /\ copies' = [copies EXCEPT ![x] = @ + 1]
  /\ unrecorded' = [unrecorded EXCEPT ![x] = @ + 1]
  /\ todo' = [todo EXCEPT ![r] = @ \ {x}]
  /\ failed' = [failed EXCEPT ![r] = @ \cup {x}]
  /\ UNCHANGED <<table, pc, sent, stopping, leader>>

\* Mutant of MarkRows: failed rows are marked published as well.
MarkRowsFailedToo(r) ==
  /\ status' = [x \in Rows |-> IF x \in sent[r] \cup failed[r] THEN "published" ELSE status[x]]
  /\ attempts' = attempts

\* The two UPDATEs: published_at for published_ids, attempts + 1 for failed.
MarkRows(r) ==
  /\ status' = [x \in Rows |-> IF x \in sent[r] THEN "published" ELSE status[x]]
  /\ attempts' = [x \in Rows |-> IF x \in failed[r] THEN attempts[x] + 1 ELSE attempts[x]]

\* The end of a transaction releases its row locks.
EndBatch(r) ==
  /\ todo' = [todo EXCEPT ![r] = {}]
  /\ sent' = [sent EXCEPT ![r] = {}]
  /\ failed' = [failed EXCEPT ![r] = {}]

Commit(r) ==
  /\ pc[r] = "batch" /\ todo[r] = {}
  /\ MarkRows(r)
  /\ EndBatch(r)
  /\ pc' = [pc EXCEPT ![r] = "drain"]
  /\ UNCHANGED <<stream, stopping, leader, faults>>

-----------------------------------------------------------------------------
(* Failures                                                                *)

\* The transaction is rolled back; what was published stays published.
Forget(r) ==
  /\ unrecorded' = [x \in Rows |-> IF x \in sent[r] THEN unrecorded[x] + 1 ELSE unrecorded[x]]
  /\ EndBatch(r)

\* A database error leaves _process_one_batch: run() releases the leader lock,
\* logs, sleeps and starts over.
DatabaseError(r) ==
  /\ Fault
  /\ pc[r] \in {"drain", "batch"}
  /\ Forget(r)
  /\ ReleaseLeader(r)
  /\ pc' = [pc EXCEPT ![r] = "loop"]
  /\ UNCHANGED <<table, copies, stopping>>

\* The process dies: PostgreSQL rolls back, the leader key waits for its TTL.
Crash(r) ==
  /\ Fault
  /\ pc[r] \in {"loop", "drain", "batch"}
  /\ Forget(r)
  /\ pc' = [pc EXCEPT ![r] = "crashed"]
  /\ UNCHANGED <<table, copies, stopping, leader>>

\* The platform starts a new process for the relay.
Restart(r) ==
  /\ pc[r] \in {"crashed", "stopped"}
  /\ pc' = [pc EXCEPT ![r] = "loop"]
  /\ stopping' = [stopping EXCEPT ![r] = FALSE]
  /\ UNCHANGED <<table, stream, batchVars, leader, faults>>

\* Nobody can have the key: its setter is not inside "async with acquired()".
Abandoned == leader # NoLeader /\ pc[leader] \notin {"drain", "batch"}

\* The key of a dead leader expires after 60 s.
ExpireAbandoned ==
  /\ Abandoned
  /\ leader' = NoLeader
  /\ UNCHANGED <<table, stream, pc, batchVars, stopping, faults>>

\* The key of a live leader expires as well: _drain_loop never calls renew().
ExpireLive ==
  /\ Fault
  /\ leader # NoLeader /\ ~Abandoned
  /\ leader' = NoLeader
  /\ UNCHANGED <<table, stream, pc, batchVars, stopping>>

-----------------------------------------------------------------------------
Publish(r) == \E x \in Rows : PublishOk(r, x) \/ PublishFail(r, x) \/ PublishAckLost(r, x)

Next ==
  \/ \E X \in SUBSET Rows : Record(X)
  \/ \E r \in Relays : \/ EnterDrain(r) \/ BackOff(r) \/ Stop(r) \/ Exit(r)
                       \/ Claim(r) \/ IdlePoll(r) \/ Commit(r)
                       \/ DatabaseError(r) \/ Crash(r) \/ Restart(r)
  \/ \E r \in Relays, x \in Rows :
        PublishOk(r, x) \/ PublishFail(r, x) \/ PublishAckLost(r, x)
  \/ ExpireAbandoned
  \/ ExpireLive

Spec == Init /\ [][Next]_vars

(* A relay's coroutine keeps being scheduled, a crashed or stopped pod is  *)
(* started again, and Redis expires a dead leader's key.  Acquiring the    *)
(* lock is a race between relays: a relay that tries again and again while *)
(* the key is free from time to time needs only that somebody gets it.     *)
Fairness ==
  /\ \A r \in Relays : WF_vars(Exit(r)) /\ WF_vars(Claim(r)) /\ WF_vars(Publish(r))
                       /\ WF_vars(Commit(r)) /\ WF_vars(Restart(r)) /\ WF_vars(EnterDrain(r))
  /\ WF_vars(ExpireAbandoned)

FairSpec == Spec /\ Fairness

-----------------------------------------------------------------------------
(* Properties                                                              *)

\* Every variable has its type; attempts stops at max_attempts, where the row is
\* given up.
TypeOK ==
  /\ status \in [Rows -> {"absent", "pending", "published"}]
  /\ attempts \in [Rows -> 0 .. MaxAttempts]
  /\ copies \in [Rows -> Nat]
  /\ unrecorded \in [Rows -> Nat]
  /\ pc \in [Relays -> PCs]
  /\ todo \in [Relays -> SUBSET Rows]
  /\ sent \in [Relays -> SUBSET Rows]
  /\ failed \in [Relays -> SUBSET Rows]
  /\ stopping \in [Relays -> BOOLEAN]
  /\ leader \in Relays \cup {NoLeader}
  /\ faults \in Nat

\* "Concurrent relay instances never claim the same row" (module docstring): also
\* when the leader lock expired under a live leader, the row locks keep the
\* batches of two relays apart.
DisjointBatches ==
  \A r, s \in Relays : r # s => Claimed(r) \cap Claimed(s) = {}

\* Whether a publish of x is waiting for the commit that records it.
Unmarked(x) == \E r \in Relays : x \in sent[r]

\* The stream holds one copy of a row for its published_at, one for a publish a
\* running batch has yet to record, and one for every publish that was rolled
\* back or whose ack was lost: duplicates have no other source, whatever the
\* number of relays and whoever believes to be the leader.
DuplicatesAccounted ==
  \A x \in Rows :
    copies[x] = unrecorded[x] + (IF status[x] = "published" \/ Unmarked(x) THEN 1 ELSE 0)

\* The outbox promise: see OutboxDelivery.
Delivery == INSTANCE OutboxDelivery WITH onStream <- {x \in Rows : copies[x] > 0}
ImplementsDelivery == Delivery!Spec

\* A committed row is published eventually, or given up after max_attempts
\* failed publishes; crashes, database errors and lost leadership only delay it.
EventuallyPublished ==
  \A x \in Rows :
    status[x] = "pending" ~> (status[x] = "published" \/ attempts[x] = MaxAttempts)
=============================================================================
