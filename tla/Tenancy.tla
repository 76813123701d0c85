------------------------------- MODULE Tenancy -------------------------------
(***************************************************************************)
(* Sessions over a pool of PostgreSQL connections: plain ones, and ones    *)
(* scoped to a tenant's schema by search_path.                             *)
(*                                                                         *)
(* What the code relies on: a session takes a connection with its first    *)
(* statement and gives it back at commit, rollback and close; SET lasts    *)
(* beyond the transaction only if that commits.                            *)
(***************************************************************************)
EXTENDS Naturals, FiniteSets

CONSTANTS
  Sessions, Conns, Tenants,
  None,
  MaxChanges     \* bound on failing statements, provisioning, dropping and walks

ASSUME TenancyAssumption == None \notin Conns

Schemas == Tenants \cup {"public"}

VARIABLES
  path,       \* [Conns -> Schemas]: search_path that outlives the transaction
  txPath,     \* [Conns -> Schemas]: search_path inside the open transaction
  aborted,    \* [Conns -> BOOLEAN]: a statement failed, only ROLLBACK is accepted
  sess,       \* [Sessions -> [kind, tenant, state, conn]]
  txns,       \* [Sessions -> Nat]: transactions the session has begun
  schemas,    \* tenants whose schema exists
  changes

pool == <<path, txPath, aborted>>
tvars == <<path, txPath, aborted, sess, txns, schemas, changes>>

TenancyInit ==
  /\ path = [c \in Conns |-> "public"] /\ txPath = path
  /\ aborted = [c \in Conns |-> FALSE]
  /\ sess = [s \in Sessions |->
               [kind |-> "plain", tenant |-> None, state |-> "new", conn |-> None]]
  /\ txns = [s \in Sessions |-> 0]
  /\ schemas = Tenants
  /\ changes = 0

-----------------------------------------------------------------------------
(* Connections and transactions                                            *)

Change == changes < MaxChanges /\ changes' = changes + 1

Free == Conns \ {sess[s].conn : s \in Sessions}

\* The connection a statement of s runs on: the one of the open transaction, else any free one.
ConnFor(s) == IF sess[s].conn # None THEN {sess[s].conn} ELSE Free

Begins(s) == txns' = [txns EXCEPT ![s] = IF sess[s].conn = None THEN @ + 1 ELSE @]
Release(s) == sess' = [sess EXCEPT ![s].conn = None]

\* The tables an unqualified name means: the tenant's if its schema is there.
TableSchema(p) == IF p \in schemas THEN p ELSE "public"

\* Mutant of EndTransaction: after a rollback the connection counts as still in the new path.
EndTransactionKeepsPath(c, keep) ==
  /\ path' = [path EXCEPT ![c] = txPath[c]]
  /\ aborted' = [aborted EXCEPT ![c] = FALSE]
  /\ UNCHANGED txPath

\* COMMIT keeps a SET, ROLLBACK undoes it; both give the connection back.
EndTransaction(c, keep) ==
  /\ path' = [path EXCEPT ![c] = IF keep THEN txPath[c] ELSE @]
  /\ txPath' = [txPath EXCEPT ![c] = IF keep THEN @ ELSE path[c]]
  /\ aborted' = [aborted EXCEPT ![c] = FALSE]

\* Committing an aborted transaction rolls it back.
CommitTx(s) ==
  /\ sess[s].state = "open" /\ sess[s].conn # None
  /\ EndTransaction(sess[s].conn, ~aborted[sess[s].conn])
  /\ Release(s)
  /\ UNCHANGED <<txns, schemas, changes>>

RollbackTx(s) ==
  /\ sess[s].state = "open" /\ sess[s].conn # None
  /\ EndTransaction(sess[s].conn, FALSE)
  /\ Release(s)
  /\ UNCHANGED <<txns, schemas, changes>>

StatementFails(s) ==
  /\ sess[s].state = "open" /\ sess[s].conn # None
  /\ Change
  /\ aborted' = [aborted EXCEPT ![sess[s].conn] = TRUE]
  /\ UNCHANGED <<path, txPath, sess, txns, schemas>>

-----------------------------------------------------------------------------
(* Sessions                                                                *)

Opened(s, kind, t, c) ==
  sess' = [sess EXCEPT ![s] = [kind |-> kind, tenant |-> t, state |-> "open", conn |-> c]]

\* open_session: no statement yet, so no connection.
OpenSession(s) ==
  /\ sess[s].state = "new"
  /\ Opened(s, "plain", None, None)
  /\ UNCHANGED <<pool, txns, schemas, changes>>

\* open_schema_session, to the yield
OpenSchemaSession(s, t) ==
  /\ sess[s].state = "new"
  /\ \E c \in Free :
       /\ Opened(s, "schema", t, c)
       /\ txPath' = [txPath EXCEPT ![c] = t]
  /\ Begins(s)
  /\ UNCHANGED <<path, aborted, schemas, changes>>

\* session.close(): the open transaction is rolled back.
CloseSession(s) ==
  /\ sess[s].state = "open" /\ sess[s].kind # "schema"
  /\ sess' = [sess EXCEPT ![s].state = "closed", ![s].conn = None]
  /\ IF sess[s].conn = None THEN UNCHANGED pool ELSE EndTransaction(sess[s].conn, FALSE)
  /\ UNCHANGED <<txns, schemas, changes>>

\* The finally of open_schema_session: SET search_path TO public, then close(), whose rollback
\* undoes that SET.  If the SET fails close() is not reached and the connection stays taken.
CloseSchemaSession(s) ==
  /\ sess[s].state = "open" /\ sess[s].kind = "schema"
  /\ \E c \in ConnFor(s) :
       IF aborted[c]
       THEN sess' = [sess EXCEPT ![s].state = "leaked"] /\ UNCHANGED pool
       ELSE /\ sess' = [sess EXCEPT ![s].state = "closed", ![s].conn = None]
            /\ EndTransaction(c, FALSE)
  /\ Begins(s)
  /\ UNCHANGED <<schemas, changes>>

-----------------------------------------------------------------------------
(* Provisioning                                                            *)

\* TenantSchemaManager.provision: one transaction.
ProvisionSchema(t) ==
  /\ Change
  /\ schemas' = schemas \cup {t}
  /\ UNCHANGED <<pool, sess, txns>>

\* TenantSchemaManager.drop: DROP SCHEMA waits for transactions that use its tables.
DropSchema(t) ==
  /\ Change
  /\ \A c \in Conns \ Free : txPath[c] # t
  /\ schemas' = schemas \ {t}
  /\ UNCHANGED <<pool, sess, txns>>

TenancyNext ==
  \/ \E s \in Sessions : OpenSession(s) \/ CloseSession(s) \/ CloseSchemaSession(s)
  \/ \E s \in Sessions, t \in Tenants :
       OpenSchemaSession(s, t)
  \/ \E t \in Tenants : ProvisionSchema(t) \/ DropSchema(t)

=============================================================================
