----------------------------- MODULE StoreProofs -----------------------------
(***************************************************************************)
(* What the stores guarantee, for every number of sessions, connections,   *)
(* tenants, rows and requests, and whatever fails.                         *)
(*                                                                         *)
(* Repository and Tenancy: a schema session works on its own tenant's      *)
(* tables in its first transaction, a pooled connection keeps a tenant's   *)
(* search_path only after a commit of that tenant, a committed save is     *)
(* overwritten unseen only by an entity that outlived a rollback, and a    *)
(* client that walks through the pages gets every row that stayed once.    *)
(*                                                                         *)
(* Idempotency: within the TTL of a key one run, and answers that are      *)
(* justified by a run of the same, or by a claim for another, body.        *)
(***************************************************************************)
EXTENDS Idempotency, Repository, FiniteSetTheorems, SequenceTheorems, WellFoundedInduction, TLAPS

-----------------------------------------------------------------------------
(* Sessions and their search_path                                          *)

SessionSet ==
  [kind : {"plain", "schema"}, tenant : Tenants \cup {None},
   state : {"new", "open", "closed", "leaked"}, conn : Conns \cup {None}]

PoolTypes ==
  /\ path \in [Conns -> Schemas] /\ txPath \in [Conns -> Schemas] /\ aborted \in [Conns -> BOOLEAN]
  /\ sess \in [Sessions -> SessionSet] /\ txns \in [Sessions -> Nat] /\ schemas \in SUBSET Tenants
  /\ workedOn \in [Sessions -> Schemas \cup {None}] /\ committed \in [Conns -> SUBSET (Tenants \cup {None})]

\* A connection belongs to one session.
Exclusive == \A s, u \in Sessions : s # u /\ sess[s].conn # None => sess[s].conn # sess[u].conn

\* The first transaction of a schema session runs with the search_path that it was opened with.
FirstPath ==
  \A s \in Sessions :
    /\ sess[s].state = "new" => sess[s].kind = "plain" /\ sess[s].conn = None /\ workedOn[s] = None
    /\ sess[s].kind = "schema" => txns[s] >= 1
    /\ sess[s].kind = "schema" /\ txns[s] = 1 /\ sess[s].conn # None => txPath[sess[s].conn] = sess[s].tenant

\* Within a transaction the search_path is the connection's, or the tenant's of the session.
PathSource ==
  \A c \in Conns :
    txPath[c] = path[c] \/ \E s \in Sessions : sess[s].conn = c /\ sess[s].tenant = txPath[c]

PathInv == PoolTypes /\ Exclusive /\ FirstPath /\ PathSource /\ PathContained

-----------------------------------------------------------------------------
(* Rows, writes and entities                                               *)

WriteSet == [at : Schemas, id : Ids, row : RowSet \cup {None}]
EntitySet == [id : Ids, row : RowSet]

TableTypes ==
  /\ rows \in [Schemas -> [Ids -> RowSet \cup {None}]]
  /\ staged \in [Sessions -> SUBSET WriteSet]
  /\ ent \in [Sessions -> EntitySet \cup {None}]
  /\ used \in SUBSET Ids

\* A transaction has at most one write, on tables that exist until it ends: DROP SCHEMA waits.
OneWrite ==
  \A s \in Sessions : \A w \in staged[s] :
    /\ staged[s] = {w}
    /\ sess[s].conn # None
    /\ w.at = "public" \/ (w.at = txPath[sess[s].conn] /\ w.at \in schemas)

\* An id is in one table, and one transaction at a time writes it.
OneHome ==
  /\ \A i \in Ids : \A p, q \in Schemas : rows[p][i] # None /\ rows[q][i] # None => p = q
  /\ \A s \in Sessions : \A w \in staged[s] :
       /\ \A q \in Schemas : rows[q][w.id] # None => q = w.at
       /\ \A u \in Sessions : u # s => \A v \in staged[u] : v.id # w.id

\* An id nobody has used is nowhere, and a row nobody has committed only with its transaction.
Fresh ==
  /\ \A p \in Schemas, i \in Ids : rows[p][i] # None => i \in used
  /\ \A s \in Sessions :
       /\ ent[s] # None => ent[s].id \in used
       /\ \A w \in staged[s] :
            /\ w.id \in used
            /\ rows[w.at][w.id] = None =>
                 \A u \in Sessions : ent[u] # None /\ ent[u].id = w.id => u = s /\ ent[u].row = w.row

\* What a transaction has written continues the committed row: a save has a higher version and,
\* unless the entity outlived a rollback, contains its saves; a deletion changes neither.
Continues(new, old) ==
  /\ old.version < new.version \/ (old.version = new.version /\ old.saves = new.saves)
  /\ ~new.reused => old.saves \subseteq new.saves

WritesContinue ==
  \A s \in Sessions : \A w \in staged[s] :
    w.row # None /\ rows[w.at][w.id] # None => Continues(w.row, rows[w.at][w.id])

\* An entity in memory is the one its transaction has written, or outlived a rollback, or has
\* an older version than the committed row, or its content.
NotAhead(row, old) == row.version < old.version \/ (row.version = old.version /\ old.saves \subseteq row.saves)
OwnWrite(s) == \E w \in staged[s] : w.id = ent[s].id /\ w.row = ent[s].row

EntitiesKnown ==
  \A s \in Sessions :
    sess[s].state \in {"new", "open"} /\ ent[s] # None /\ ~ent[s].row.reused /\ ~OwnWrite(s) =>
      \A p \in Schemas : rows[p][ent[s].id] # None => NotAhead(ent[s].row, rows[p][ent[s].id])

RowInv == TableTypes /\ OneWrite /\ OneHome /\ Fresh /\ WritesContinue /\ EntitiesKnown

\* The initial states satisfy it.
LEMMA PathInit == RepositoryInit => PathInv
<1>. SUFFICES ASSUME RepositoryInit PROVE PathInv
  OBVIOUS
<1>. DEFINE new == [kind |-> "plain", tenant |-> None, state |-> "new", conn |-> None]
<1>1. new \in SessionSet /\ new.kind = "plain" /\ new.conn = None
  BY DEF SessionSet
<1>2. sess = [s \in Sessions |-> new]
  BY DEF RepositoryInit, TenancyInit
<1>. HIDE DEF new
<1>3. PoolTypes
  BY <1>1, <1>2 DEF RepositoryInit, TenancyInit, PoolTypes, Schemas
<1>4. Exclusive /\ FirstPath
  BY <1>1, <1>2 DEF RepositoryInit, Exclusive, FirstPath
<1>5. PathSource /\ PathContained
  BY DEF RepositoryInit, TenancyInit, PathSource, PathContained
<1>. QED  BY <1>3, <1>4, <1>5 DEF PathInv

\* A session takes no connection that another one has.
LEMMA SessionMoves ==
  ASSUME PathInv, NEW s \in Sessions, NEW r \in SessionSet, sess' = [sess EXCEPT ![s] = r],
         r.conn = None \/ r.conn = sess[s].conn \/ r.conn \in Free
  PROVE  /\ sess' \in [Sessions -> SessionSet] /\ Exclusive'
         /\ sess'[s] = r /\ \A u \in Sessions : u # s => sess'[u] = sess[u]
<1>1. sess \in [Sessions -> SessionSet]
  BY DEF PathInv, PoolTypes
<1>2. /\ sess' \in [Sessions -> SessionSet] /\ sess'[s] = r
      /\ \A u \in Sessions : u # s => sess'[u] = sess[u]
  BY <1>1
<1>3. \A u \in Sessions : u # s => r.conn = None \/ r.conn # sess[u].conn
  BY DEF PathInv, Exclusive, Free
<1>4. Exclusive'
  BY <1>2, <1>3 DEF PathInv, Exclusive
<1>. QED  BY <1>2, <1>4

\* The end of a transaction: the connection goes back with the path of the pool or, if a schema
\* session committed, with the tenant's.
LEMMA EndStep ==
  ASSUME PathInv, NEW s \in Sessions, NEW r \in SessionSet, NEW c \in Conns, NEW keep \in BOOLEAN,
         sess' = [sess EXCEPT ![s] = r], r.conn = None, r.kind = sess[s].kind, r.tenant = sess[s].tenant,
         r.state # "new",
         c = sess[s].conn \/ (c \in Free /\ sess[s].conn = None /\ ~keep), EndTransaction(c, keep),
         txns' \in [Sessions -> Nat], \A u \in Sessions : txns'[u] >= txns[u] /\ (u # s => txns'[u] = txns[u]),
         UNCHANGED <<schemas, workedOn>>, committed' \in [Conns -> SUBSET (Tenants \cup {None})],
         \A d \in Conns : committed[d] \subseteq committed'[d], keep => sess[s].tenant \in committed'[c]
  PROVE  PathInv'
<1>1. /\ sess' \in [Sessions -> SessionSet] /\ Exclusive'
      /\ sess'[s] = r /\ \A u \in Sessions : u # s => sess'[u] = sess[u]
  BY SessionMoves
<1>2. PoolTypes /\ c # None
  BY TenancyAssumption DEF PathInv
<1>3. /\ path' = [path EXCEPT ![c] = IF keep THEN txPath[c] ELSE @]
      /\ txPath' = [txPath EXCEPT ![c] = IF keep THEN @ ELSE path[c]]
      /\ aborted' = [aborted EXCEPT ![c] = FALSE]
  BY DEF EndTransaction
<1>4. /\ path' \in [Conns -> Schemas] /\ txPath' \in [Conns -> Schemas] /\ aborted' \in [Conns -> BOOLEAN]
      /\ txPath'[c] = path'[c] /\ path'[c] = (IF keep THEN txPath[c] ELSE path[c])
      /\ \A d \in Conns : d # c => path'[d] = path[d] /\ txPath'[d] = txPath[d]
  BY <1>2, <1>3 DEF PoolTypes
<1>5. \A u \in Sessions : u # s => sess[u].conn # c
  BY <1>2 DEF PathInv, Exclusive, Free
<1>6. PoolTypes'
  BY <1>1, <1>2, <1>4 DEF PoolTypes
<1>7. FirstPath'
  <2>. SUFFICES ASSUME NEW u \in Sessions
                PROVE  /\ sess'[u].state = "new" => sess'[u].kind = "plain" /\ sess'[u].conn = None /\ workedOn'[u] = None
                       /\ sess'[u].kind = "schema" => txns'[u] >= 1
                       /\ sess'[u].kind = "schema" /\ txns'[u] = 1 /\ sess'[u].conn # None
                            => txPath'[sess'[u].conn] = sess'[u].tenant
    BY DEF FirstPath
  <2>1. CASE u = s
    BY <1>1, <1>2, <2>1 DEF PathInv, FirstPath, PoolTypes
  <2>2. CASE u # s
    <3>1. sess'[u] = sess[u] /\ txns'[u] = txns[u] /\ sess[u].conn # c /\ workedOn' = workedOn
      BY <1>1, <1>5, <2>2
    <3>2. sess[u].conn # None => sess[u].conn \in Conns
      BY <1>2 DEF PoolTypes, SessionSet
    <3>. QED  BY <1>4, <3>1, <3>2 DEF PathInv, FirstPath
  <2>. QED  BY <2>1, <2>2
<1>8. PathSource'
  <2>. SUFFICES ASSUME NEW d \in Conns
                PROVE  txPath'[d] = path'[d] \/ \E u \in Sessions : sess'[u].conn = d /\ sess'[u].tenant = txPath'[d]
    BY DEF PathSource
  <2>1. CASE d = c
    BY <1>4, <2>1
  <2>2. CASE d # c
    <3>1. txPath[d] = path[d] \/ \E u \in Sessions : sess[u].conn = d /\ sess[u].tenant = txPath[d]
      BY DEF PathInv, PathSource
    <3>2. sess[s].conn # d
      BY <1>2, <2>2, TenancyAssumption
    <3>. QED  BY <1>1, <1>4, <2>2, <3>1, <3>2
  <2>. QED  BY <2>1, <2>2
<1>9. PathContained'
  <2>1. \A u \in Sessions : workedOn'[u] \in {None, sess'[u].tenant}
    BY <1>1 DEF PathInv, PathContained
  <2>2. ASSUME NEW d \in Conns PROVE path'[d] \in committed'[d] \cup {"public"}
    <3>1. path[d] \in committed[d] \cup {"public"}
      BY DEF PathInv, PathContained
    <3>2. CASE d = c /\ keep
      <4>1. txPath[c] = path[c] \/ \E u \in Sessions : sess[u].conn = c /\ sess[u].tenant = txPath[c]
        BY DEF PathInv, PathSource
      <4>. QED  BY <1>4, <1>5, <3>1, <3>2, <4>1
    <3>3. CASE ~(d = c /\ keep)
      BY <1>4, <3>1, <3>3
    <3>. QED  BY <3>2, <3>3
  <2>. QED  BY <2>1, <2>2 DEF PathContained
<1>. QED  BY <1>1, <1>6, <1>7, <1>8, <1>9 DEF PathInv

\* A statement runs on the session's connection, or takes a free one, whose path is the pool's.
LEMMA StatementPath ==
  ASSUME PathInv, NEW s \in Sessions, NEW c \in Conns, NEW p \in Schemas, Statement(s, c, p)
  PROVE  PathInv'
<1>. DEFINE r == [sess[s] EXCEPT !.conn = c]
<1>1. PoolTypes /\ sess[s] \in SessionSet
  BY DEF PathInv, PoolTypes
<1>2. r \in SessionSet
  BY <1>1 DEF SessionSet
<1>3. r.kind = sess[s].kind /\ r.tenant = sess[s].tenant /\ r.state = sess[s].state /\ r.conn = c
  BY <1>1 DEF SessionSet
<1>4. /\ sess[s].state = "open" /\ c \in ConnFor(s) /\ sess' = [sess EXCEPT ![s] = r]
      /\ p = TableSchema(IF sess[s].conn = None THEN path[c] ELSE txPath[c])
      /\ UNCHANGED <<path, txPath, aborted, schemas, committed>>
  BY DEF Statement, pool
<1>. HIDE DEF r
<1>5. r.conn = sess[s].conn \/ r.conn \in Free
  BY <1>3, <1>4 DEF ConnFor
<1>6. /\ sess' \in [Sessions -> SessionSet] /\ Exclusive'
      /\ sess'[s] = r /\ \A u \in Sessions : u # s => sess'[u] = sess[u]
  BY <1>2, <1>4, <1>5, SessionMoves
<1>7. /\ txns' \in [Sessions -> Nat]
      /\ txns'[s] = (IF sess[s].conn = None THEN txns[s] + 1 ELSE txns[s])
      /\ \A u \in Sessions : u # s => txns'[u] = txns[u]
  BY <1>1 DEF Statement, Begins, PoolTypes
<1>8. sess[s].conn # None => sess[s].conn = c
  BY <1>4 DEF ConnFor
<1>9. ASSUME sess[s].kind = "schema", txns'[s] = 1
      PROVE  sess[s].conn = c /\ txPath[c] = sess[s].tenant
  <2>1. txns[s] \in Nat /\ txns[s] >= 1
    BY <1>1, <1>9 DEF PathInv, FirstPath, PoolTypes
  <2>2. sess[s].conn # None /\ txns[s] = 1
    BY <1>7, <1>9, <2>1
  <2>. QED  BY <1>8, <1>9, <2>2 DEF PathInv, FirstPath
<1>10. /\ workedOn' \in [Sessions -> Schemas \cup {None}]
       /\ workedOn'[s] \in {None, sess[s].tenant} /\ \A u \in Sessions : u # s => workedOn'[u] = workedOn[u]
  <2>1. workedOn' = [workedOn EXCEPT ![s] =
          IF sess[s].kind = "schema" /\ txns'[s] = 1 /\ sess[s].tenant \in schemas THEN p ELSE @]
    BY DEF Statement
  <2>2. workedOn[s] \in {None, sess[s].tenant}
    BY DEF PathInv, PathContained
  <2>3. sess[s].kind = "schema" /\ txns'[s] = 1 /\ sess[s].tenant \in schemas => p = sess[s].tenant
    BY <1>1, <1>4, <1>9, TenancyAssumption DEF TableSchema
  <2>. QED  BY <1>1, <2>1, <2>2, <2>3 DEF PoolTypes
<1>11. PoolTypes'
  BY <1>1, <1>4, <1>6, <1>7, <1>10 DEF PoolTypes
<1>12. FirstPath'
  <2>1. /\ r.state # "new" /\ (r.kind = "schema" => txns'[s] >= 1)
        /\ r.kind = "schema" /\ txns'[s] = 1 => txPath'[r.conn] = r.tenant
    <3>1. r.kind = "schema" => txns[s] >= 1 /\ txns[s] \in Nat
      BY <1>1, <1>3 DEF PathInv, FirstPath, PoolTypes
    <3>2. r.kind = "schema" => txns'[s] >= 1
      BY <1>7, <3>1
    <3>. QED  BY <1>3, <1>4, <1>9, <3>2
  <2>2. ASSUME NEW u \in Sessions, u # s
        PROVE  sess'[u] = sess[u] /\ txns'[u] = txns[u] /\ workedOn'[u] = workedOn[u]
    BY <1>6, <1>7, <1>10, <2>2
  <2>. QED  BY <1>4, <1>6, <2>1, <2>2 DEF PathInv, FirstPath
<1>13. PathSource'
  <2>. SUFFICES ASSUME NEW d \in Conns
                PROVE  txPath'[d] = path'[d] \/ \E u \in Sessions : sess'[u].conn = d /\ sess'[u].tenant = txPath'[d]
    BY DEF PathSource
  <2>1. txPath[d] = path[d] \/ \E u \in Sessions : sess[u].conn = d /\ sess[u].tenant = txPath[d]
    BY DEF PathInv, PathSource
  <2>2. \A u \in Sessions : sess[u].conn = d => sess'[u].conn = d /\ sess'[u].tenant = sess[u].tenant
    BY <1>3, <1>6, <1>8, TenancyAssumption
  <2>. QED  BY <1>4, <2>1, <2>2
<1>14. PathContained'
  BY <1>3, <1>4, <1>6, <1>10 DEF PathInv, PathContained
<1>. QED  BY <1>6, <1>11, <1>12, <1>13, <1>14 DEF PathInv

\* What happens outside the sessions: schemas come and go, a statement fails, pages are read.
LEMMA OtherPath ==
  ASSUME PathInv, UNCHANGED <<path, txPath, sess, txns, workedOn, committed>>,
         aborted' \in [Conns -> BOOLEAN], schemas' \in SUBSET Tenants
  PROVE  PathInv'
<1>1. PoolTypes' /\ Exclusive' /\ FirstPath'
  BY DEF PathInv, PoolTypes, Exclusive, FirstPath
<1>2. PathSource' /\ PathContained'
  BY DEF PathInv, PathSource, PathContained
<1>. QED  BY <1>1, <1>2 DEF PathInv

\* A session that ends and leaves the pool as it is: it has no connection, or leaks the one it has.
LEMMA LeavePath ==
  ASSUME PathInv, NEW s \in Sessions, NEW r \in SessionSet, sess' = [sess EXCEPT ![s] = r],
         r.conn = sess[s].conn, r.kind = sess[s].kind, r.tenant = sess[s].tenant, r.state # "new",
         txns' \in [Sessions -> Nat], \A u \in Sessions : txns'[u] >= txns[u] /\ (u # s => txns'[u] = txns[u]),
         sess[s].conn # None => txns'[s] = txns[s],
         UNCHANGED <<path, txPath, aborted, schemas, workedOn, committed>>
  PROVE  PathInv'
<1>1. /\ sess' \in [Sessions -> SessionSet] /\ Exclusive'
      /\ sess'[s] = r /\ \A u \in Sessions : u # s => sess'[u] = sess[u]
  BY SessionMoves
<1>2. PoolTypes'
  BY <1>1 DEF PathInv, PoolTypes
<1>3. FirstPath'
  <2>1. r.kind = "schema" => txns'[s] >= 1
    <3>1. txns[s] \in Nat /\ txns'[s] \in Nat /\ txns'[s] >= txns[s]
      BY DEF PathInv, PoolTypes
    <3>2. r.kind = "schema" => txns[s] >= 1
      BY DEF PathInv, FirstPath
    <3>. QED  BY <3>1, <3>2
  <2>2. r.kind = "schema" /\ txns'[s] = 1 /\ r.conn # None => txPath[r.conn] = r.tenant
    BY DEF PathInv, FirstPath
  <2>. QED  BY <1>1, <2>1, <2>2 DEF PathInv, FirstPath
<1>4. PathSource'
  BY <1>1 DEF PathInv, PathSource
<1>5. PathContained'
  BY <1>1 DEF PathInv, PathContained
<1>. QED  BY <1>1, <1>2, <1>3, <1>4, <1>5 DEF PathInv

LEMMA OpenPath ==
  ASSUME PathInv, NEW s \in Sessions, OpenSession(s), UNCHANGED <<workedOn, committed>>
  PROVE  PathInv'
<1>. DEFINE r == [kind |-> "plain", tenant |-> None, state |-> "open", conn |-> None]
<1>1. r \in SessionSet /\ r.kind = "plain" /\ r.tenant = None /\ r.state = "open" /\ r.conn = None
  BY DEF SessionSet
<1>2. /\ sess' = [sess EXCEPT ![s] = r] /\ sess[s].state = "new"
      /\ UNCHANGED <<path, txPath, aborted, txns, schemas>>
  BY DEF OpenSession, Opened, pool
<1>. HIDE DEF r
<1>3. /\ sess' \in [Sessions -> SessionSet] /\ Exclusive'
      /\ sess'[s] = r /\ \A u \in Sessions : u # s => sess'[u] = sess[u]
  BY <1>1, <1>2, SessionMoves
<1>4. PoolTypes'
  BY <1>2, <1>3 DEF PathInv, PoolTypes
<1>5. sess[s].conn = None /\ workedOn[s] = None
  BY <1>2 DEF PathInv, FirstPath
<1>6. FirstPath'
  BY <1>1, <1>2, <1>3 DEF PathInv, FirstPath
<1>7. PathSource'
  <2>. SUFFICES ASSUME NEW d \in Conns
                PROVE  txPath'[d] = path'[d] \/ \E u \in Sessions : sess'[u].conn = d /\ sess'[u].tenant = txPath'[d]
    BY DEF PathSource
  <2>1. \A u \in Sessions : sess[u].conn = d => sess'[u] = sess[u]
    BY <1>3, <1>5, TenancyAssumption
  <2>. QED  BY <1>2, <2>1 DEF PathInv, PathSource
<1>8. PathContained'
  BY <1>2, <1>3, <1>5 DEF PathInv, PathContained
<1>. QED  BY <1>3, <1>4, <1>6, <1>7, <1>8 DEF PathInv

LEMMA OpenSchemaPath ==
  ASSUME PathInv, NEW s \in Sessions, NEW t \in Tenants, OpenSchemaSession(s, t), UNCHANGED <<workedOn, committed>>
  PROVE  PathInv'
<1>1. PICK c \in Free : Opened(s, "schema", t, c) /\ txPath' = [txPath EXCEPT ![c] = t]
  BY DEF OpenSchemaSession
<1>. DEFINE r == [kind |-> "schema", tenant |-> t, state |-> "open", conn |-> c]
<1>2. c \in Conns /\ \A u \in Sessions : sess[u].conn # c
  BY DEF Free
<1>3. r \in SessionSet /\ r.kind = "schema" /\ r.tenant = t /\ r.state = "open" /\ r.conn = c
  BY <1>2 DEF SessionSet
<1>4. sess' = [sess EXCEPT ![s] = r] /\ sess[s].state = "new" /\ UNCHANGED <<path, aborted, schemas>>
  BY <1>1 DEF OpenSchemaSession, Opened
<1>. HIDE DEF r
<1>5. /\ sess' \in [Sessions -> SessionSet] /\ Exclusive'
      /\ sess'[s] = r /\ \A u \in Sessions : u # s => sess'[u] = sess[u]
  BY <1>3, <1>4, SessionMoves
<1>6. sess[s].conn = None /\ workedOn[s] = None
  BY <1>4 DEF PathInv, FirstPath
<1>7. txns' \in [Sessions -> Nat] /\ txns'[s] >= 1 /\ \A u \in Sessions : u # s => txns'[u] = txns[u]
  <2>1. txns' = [txns EXCEPT ![s] = txns[s] + 1] /\ txns \in [Sessions -> Nat]
    BY <1>6 DEF OpenSchemaSession, Begins, PathInv, PoolTypes
  <2>. QED  BY <2>1
<1>8. txPath' \in [Conns -> Schemas] /\ txPath'[c] = t /\ \A d \in Conns : d # c => txPath'[d] = txPath[d]
  BY <1>1, <1>2 DEF PathInv, PoolTypes, Schemas
<1>9. PoolTypes'
  BY <1>4, <1>5, <1>7, <1>8 DEF PathInv, PoolTypes
<1>10. FirstPath'
  <2>1. ASSUME NEW u \in Sessions, u # s
        PROVE  /\ sess'[u] = sess[u] /\ txns'[u] = txns[u]
               /\ sess[u].conn # None => txPath'[sess[u].conn] = txPath[sess[u].conn]
    <3>1. sess[u].conn # None => sess[u].conn \in Conns
      BY DEF PathInv, PoolTypes, SessionSet
    <3>. QED  BY <1>2, <1>5, <1>7, <1>8, <2>1, <3>1
  <2>. QED  BY <1>3, <1>5, <1>7, <1>8, <2>1 DEF PathInv, FirstPath
<1>11. PathSource'
  <2>. SUFFICES ASSUME NEW d \in Conns
                PROVE  txPath'[d] = path'[d] \/ \E u \in Sessions : sess'[u].conn = d /\ sess'[u].tenant = txPath'[d]
    BY DEF PathSource
  <2>1. CASE d = c
    BY <1>3, <1>5, <1>8, <2>1
  <2>2. CASE d # c
    <3>1. \A u \in Sessions : sess[u].conn = d => sess'[u] = sess[u]
      BY <1>5, <1>6, TenancyAssumption
    <3>. QED  BY <1>4, <1>8, <2>2, <3>1 DEF PathInv, PathSource
  <2>. QED  BY <2>1, <2>2
<1>12. PathContained'
  BY <1>4, <1>5, <1>6 DEF PathInv, PathContained
<1>. QED  BY <1>5, <1>9, <1>10, <1>11, <1>12 DEF PathInv

LEMMA ClosePath ==
  ASSUME PathInv, NEW s \in Sessions, CloseSession(s), UNCHANGED <<workedOn, committed>>
  PROVE  PathInv'
<1>. DEFINE r == [sess[s] EXCEPT !.state = "closed", !.conn = None]
<1>1. sess \in [Sessions -> SessionSet] /\ sess[s] \in SessionSet /\ txns \in [Sessions -> Nat]
      /\ committed \in [Conns -> SUBSET (Tenants \cup {None})]
  BY DEF PathInv, PoolTypes
<1>2. r \in SessionSet
  BY <1>1 DEF SessionSet
<1>3. r.kind = sess[s].kind /\ r.tenant = sess[s].tenant /\ r.state = "closed" /\ r.conn = None
  BY <1>1 DEF SessionSet
<1>4. sess' = [sess EXCEPT ![s] = r] /\ UNCHANGED <<txns, schemas>>
  BY <1>1 DEF CloseSession
<1>. HIDE DEF r
<1>5. \A u \in Sessions : txns'[u] >= txns[u] /\ txns'[u] = txns[u]
  BY <1>1, <1>4
<1>6. CASE sess[s].conn = None
  <2>1. UNCHANGED <<path, txPath, aborted>>
    BY <1>6 DEF CloseSession, pool
  <2>. QED  BY <1>1, <1>2, <1>3, <1>4, <1>5, <1>6, <2>1, LeavePath
<1>7. CASE sess[s].conn # None
  <2>1. sess[s].conn \in Conns
    BY <1>1, <1>7 DEF SessionSet
  <2>2. EndTransaction(sess[s].conn, FALSE)
    BY <1>7 DEF CloseSession
  <2>. QED  BY <1>1, <1>2, <1>3, <1>4, <1>5, <2>1, <2>2, EndStep
<1>. QED  BY <1>6, <1>7

LEMMA CloseSchemaPath ==
  ASSUME PathInv, NEW s \in Sessions, CloseSchemaSession(s), UNCHANGED <<workedOn, committed>>
  PROVE  PathInv'
<1>1. PICK c \in ConnFor(s) :
        IF aborted[c]
        THEN sess' = [sess EXCEPT ![s].state = "leaked"] /\ UNCHANGED pool
        ELSE /\ sess' = [sess EXCEPT ![s].state = "closed", ![s].conn = None]
             /\ EndTransaction(c, FALSE)
  BY DEF CloseSchemaSession
<1>2. sess \in [Sessions -> SessionSet] /\ sess[s] \in SessionSet /\ txns \in [Sessions -> Nat]
      /\ committed \in [Conns -> SUBSET (Tenants \cup {None})]
  BY DEF PathInv, PoolTypes
<1>3. c \in Conns /\ (c = sess[s].conn \/ (c \in Free /\ sess[s].conn = None))
  BY <1>2 DEF ConnFor, Free, SessionSet
<1>4. /\ txns' \in [Sessions -> Nat] /\ UNCHANGED schemas
      /\ \A u \in Sessions : txns'[u] >= txns[u] /\ (u # s => txns'[u] = txns[u])
      /\ sess[s].conn # None => txns'[s] = txns[s]
  BY <1>2 DEF CloseSchemaSession, Begins
<1>5. CASE aborted[c]
  <2>. DEFINE r == [sess[s] EXCEPT !.state = "leaked"]
  <2>1. r \in SessionSet
    BY <1>2 DEF SessionSet
  <2>2. r.kind = sess[s].kind /\ r.tenant = sess[s].tenant /\ r.state = "leaked" /\ r.conn = sess[s].conn
    BY <1>2 DEF SessionSet
  <2>3. sess' = [sess EXCEPT ![s] = r] /\ UNCHANGED <<path, txPath, aborted>>
    BY <1>1, <1>2, <1>5 DEF pool
  <2>. HIDE DEF r
  <2>. QED  BY <1>4, <2>1, <2>2, <2>3, LeavePath
<1>6. CASE ~aborted[c]
  <2>. DEFINE r == [sess[s] EXCEPT !.state = "closed", !.conn = None]
  <2>1. r \in SessionSet
    BY <1>2 DEF SessionSet
  <2>2. r.kind = sess[s].kind /\ r.tenant = sess[s].tenant /\ r.state = "closed" /\ r.conn = None
    BY <1>2 DEF SessionSet
  <2>3. sess' = [sess EXCEPT ![s] = r] /\ EndTransaction(c, FALSE)
    BY <1>1, <1>2, <1>6
  <2>. HIDE DEF r
  <2>. QED  BY <1>2, <1>3, <1>4, <2>1, <2>2, <2>3, EndStep
<1>. QED  BY <1>5, <1>6

\* Commit and rollback: the transaction ends, the session goes on.
LEMMA FinishPath ==
  ASSUME PathInv, NEW s \in Sessions, Commit(s) \/ Rollback(s)
  PROVE  PathInv'
<1>. DEFINE r == [sess[s] EXCEPT !.conn = None]
            c == sess[s].conn
<1>1. sess \in [Sessions -> SessionSet] /\ sess[s] \in SessionSet /\ txns \in [Sessions -> Nat]
      /\ committed \in [Conns -> SUBSET (Tenants \cup {None})] /\ aborted \in [Conns -> BOOLEAN]
  BY DEF PathInv, PoolTypes
<1>2. r \in SessionSet
  BY <1>1 DEF SessionSet
<1>3. r.kind = sess[s].kind /\ r.tenant = sess[s].tenant /\ r.state = sess[s].state /\ r.conn = None
  BY <1>1 DEF SessionSet
<1>4. sess' = [sess EXCEPT ![s] = r] /\ sess[s].state = "open" /\ c # None /\ UNCHANGED <<txns, schemas, workedOn>>
  BY <1>1 DEF Commit, Rollback, CommitTx, RollbackTx, Release
<1>. HIDE DEF r
<1>5. c \in Conns /\ sess[s].tenant \in Tenants \cup {None}
  BY <1>1, <1>4 DEF SessionSet
<1>6. txns' \in [Sessions -> Nat] /\ \A u \in Sessions : txns'[u] >= txns[u] /\ txns'[u] = txns[u]
  BY <1>1, <1>4
<1>7. CASE Commit(s)
  <2>1. EndTransaction(c, ~aborted[c])
    BY <1>7 DEF Commit, CommitTx
  <2>2. committed' = [committed EXCEPT ![c] = IF aborted[c] THEN @ ELSE @ \cup {sess[s].tenant}]
    BY <1>7 DEF Commit
  <2>3. /\ committed' \in [Conns -> SUBSET (Tenants \cup {None})]
        /\ \A d \in Conns : committed[d] \subseteq committed'[d]
        /\ ~aborted[c] => sess[s].tenant \in committed'[c]
    BY <1>1, <1>5, <2>2
  <2>4. PICK keep \in BOOLEAN : keep = ~aborted[c]
    BY <1>1, <1>5
  <2>. HIDE DEF c
  <2>5. EndTransaction(c, keep) /\ (keep => sess[s].tenant \in committed'[c]) /\ c = sess[s].conn
    BY <2>1, <2>3, <2>4 DEF c
  <2>. QED  BY <1>2, <1>3, <1>4, <1>5, <1>6, <2>3, <2>5, EndStep
<1>8. CASE Rollback(s)
  <2>1. EndTransaction(c, FALSE) /\ UNCHANGED committed
    BY <1>8 DEF Rollback, RollbackTx
  <2>. QED  BY <1>1, <1>2, <1>3, <1>4, <1>5, <1>6, <2>1, EndStep
<1>. QED  BY <1>7, <1>8

\* Every step keeps the invariant of the sessions.
LEMMA PathNext == PathInv /\ [RepositoryNext]_repositoryVars => PathInv'
<1>. SUFFICES ASSUME PathInv, [RepositoryNext]_repositoryVars PROVE PathInv'
  OBVIOUS
<1>1. aborted \in [Conns -> BOOLEAN] /\ schemas \in SUBSET Tenants
  BY DEF PathInv, PoolTypes
<1>2. CASE Tenant
  <2>1. TenancyNext /\ UNCHANGED <<workedOn, committed>>
    BY <1>2 DEF Tenant
  <2>2. ASSUME NEW t \in Tenants, ProvisionSchema(t) \/ DropSchema(t) PROVE PathInv'
    <3>1. UNCHANGED <<path, txPath, aborted, sess, txns>> /\ schemas' \in SUBSET Tenants
      BY <1>1, <2>2 DEF ProvisionSchema, DropSchema, pool
    <3>. QED  BY <1>1, <2>1, <3>1, OtherPath
  <2>. QED  BY <2>1, <2>2, OpenPath, OpenSchemaPath, ClosePath, CloseSchemaPath DEF TenancyNext
<1>3. ASSUME NEW s \in Sessions, NEW c \in Conns, NEW p \in Schemas, Statement(s, c, p) PROVE PathInv'
  BY <1>3, StatementPath
<1>4. ASSUME NEW s \in Sessions, Fail(s) PROVE PathInv'
  <2>1. UNCHANGED <<path, txPath, sess, txns, workedOn, committed, schemas>> /\ aborted' \in [Conns -> BOOLEAN]
    BY <1>1, <1>4 DEF Fail, StatementFails, rvars
  <2>. QED  BY <1>1, <2>1, OtherPath
<1>5. ASSUME UNCHANGED <<path, txPath, sess, txns, workedOn, committed, aborted, schemas>> PROVE PathInv'
  BY <1>1, <1>5, OtherPath
<1>6. CASE \E mode \in {"count", "cursor"} : StartWalk(mode)
  BY <1>5, <1>6 DEF StartWalk, pool
<1>7. CASE ListCount \/ ListPage \/ CursorPage
  BY <1>5, <1>7 DEF ListCount, ListPage, CursorPage, tvars
<1>8. CASE UNCHANGED repositoryVars
  BY <1>5, <1>8 DEF repositoryVars, tvars, rvars
<1>9. ASSUME NEW s \in Sessions, Save(s) PROVE PathInv'
  BY <1>3, <1>9 DEF Save
<1>10. ASSUME NEW s \in Sessions, NEW i \in Ids, Get(s, i) PROVE PathInv'
  BY <1>3, <1>10 DEF Get
<1>11. ASSUME NEW s \in Sessions, NEW i \in Ids, NEW hard \in BOOLEAN, Delete(s, i, hard) PROVE PathInv'
  BY <1>3, <1>11 DEF Delete
<1>12. ASSUME NEW s \in Sessions, NEW i \in Ids, NEW t \in Tenants, Add(s, i, t) PROVE PathInv'
  BY <1>3, <1>12 DEF Add
<1>. QED  BY <1>2, <1>4, <1>6, <1>7, <1>8, <1>9, <1>10, <1>11, <1>12, FinishPath DEF RepositoryNext

\* In its first transaction a schema session (open_schema_session) works on its own tenant's
\* tables, and a pooled connection keeps a tenant's search_path only after a schema session of
\* that tenant has committed on it, for every number of sessions, connections and tenants.
THEOREM PathStaysContained == RepositorySpec => []PathContained
<1>1. RepositoryInit => PathInv
  BY PathInit
<1>2. PathInv /\ [RepositoryNext]_repositoryVars => PathInv'
  BY PathNext
<1>3. PathInv => PathContained
  BY DEF PathInv
<1>. QED  BY <1>1, <1>2, <1>3, PTL DEF RepositorySpec

-----------------------------------------------------------------------------
(* Saves that are not lost                                                 *)

LEMMA OneOf ==
  ASSUME NEW w PROVE (CHOOSE x \in {w} : TRUE) = w
<1>. DEFINE y == CHOOSE x \in {w} : TRUE
<1>1. y \in {w}
  OBVIOUS
<1>. QED  BY <1>1

LEMMA NewRowType == ASSUME NEW t \in Tenants PROVE NewRow(t) \in RowSet
  BY DEF NewRow, RowSet

\* What was not ahead of a row is not ahead of one that continues it.
LEMMA StaysBehind ==
  ASSUME NEW e \in RowSet, NEW old \in RowSet, NEW new \in RowSet, NotAhead(e, old), Continues(new, old)
  PROVE  NotAhead(e, new)
<1>1. e.version \in Nat /\ old.version \in Nat /\ new.version \in Nat
  BY DEF RowSet
<1>. QED  BY <1>1 DEF NotAhead, Continues

\* A save whose version check has passed on a row that continues the committed one: either the
\* entity is that row, or it is not ahead of the committed one.
LEMMA SaveContinues ==
  ASSUME NEW e \in RowSet, NEW row \in RowSet, NEW old \in RowSet, NEW new \in RowSet,
         new.version = e.version + 1, e.saves \subseteq new.saves, new.reused = e.reused,
         row.version = e.version, Continues(row, old), e = row \/ e.reused \/ NotAhead(e, old)
  PROVE  Continues(new, old)
<1>1. e.version \in Nat /\ old.version \in Nat /\ new.version \in Nat /\ row.version \in Nat
  BY DEF RowSet
<1>2. old.version < new.version
  BY <1>1 DEF Continues
<1>3. ~new.reused => old.saves \subseteq new.saves
  <2>1. CASE e = row
    BY <2>1 DEF Continues
  <2>2. CASE NotAhead(e, old)
    BY <1>1, <2>2 DEF Continues, NotAhead
  <2>3. CASE e.reused
    BY <2>3
  <2>. QED  BY <2>1, <2>2, <2>3
<1>. QED  BY <1>2, <1>3 DEF Continues

LEMMA SameRow == ASSUME NEW row \in RowSet PROVE Continues(row, row) /\ NotAhead(row, row)
  BY DEF RowSet, Continues, NotAhead

LEMMA RowInit == RepositoryInit => RowInv
<1>. SUFFICES ASSUME RepositoryInit PROVE RowInv
  OBVIOUS
<1>1. PICK t \in Tenants : rows = [p \in Schemas |-> [i \in Ids |->
        IF p = "public" /\ i \in used THEN NewRow(t) ELSE None]]
  BY DEF RepositoryInit
<1>2. staged = [s \in Sessions |-> {}] /\ ent = [s \in Sessions |-> None] /\ used \in SUBSET Ids
  BY DEF RepositoryInit
<1>3. TableTypes
  BY <1>1, <1>2, NewRowType DEF TableTypes
<1>4. \A p \in Schemas, i \in Ids : rows[p][i] # None => p = "public" /\ i \in used
  BY <1>1
<1>5. OneWrite /\ OneHome /\ Fresh /\ WritesContinue /\ EntitiesKnown
  BY <1>2, <1>4 DEF OneWrite, OneHome, Fresh, WritesContinue, EntitiesKnown
<1>. QED  BY <1>3, <1>5 DEF RowInv

\* Steps that save nothing: rows may be dropped where nobody writes, writes may be given up, an
\* entity whose write is given up is marked.
LEMMA LessRows ==
  ASSUME RowInv, TableTypes', OneWrite', used' = used,
         \A p \in Schemas, i \in Ids : rows'[p][i] = rows[p][i] \/ rows'[p][i] = None,
         \A u \in Sessions : \A w \in staged'[u] : w \in staged[u] /\ rows'[w.at][w.id] = rows[w.at][w.id],
         \A u \in Sessions :
           \/ ent'[u] = ent[u]
           \/ ent[u] # None /\ ent'[u].id = ent[u].id /\ ent'[u].row.reused /\ staged'[u] = {},
         \A u \in Sessions : sess'[u].state \in {"new", "open"} =>
           /\ sess[u].state \in {"new", "open"}
           /\ \/ staged'[u] = staged[u]
              \/ ent'[u] = ent[u] /\ (ent[u] = None \/ ~OwnWrite(u))
              \/ ent'[u].row.reused
  PROVE  RowInv'
<1>1. OneHome'
  <2>1. \A i \in Ids : \A p, q \in Schemas : rows'[p][i] # None /\ rows'[q][i] # None => p = q
    BY DEF RowInv, OneHome
  <2>2. ASSUME NEW s \in Sessions, NEW w \in staged'[s], NEW q \in Schemas, rows'[q][w.id] # None
        PROVE  q = w.at
    <3>1. w \in staged[s] /\ w.id \in Ids
      BY <2>2 DEF RowInv, TableTypes, WriteSet
    <3>2. rows[q][w.id] # None
      BY <2>2, <3>1
    <3>. QED  BY <3>1, <3>2 DEF RowInv, OneHome
  <2>3. ASSUME NEW s \in Sessions, NEW w \in staged'[s], NEW u \in Sessions, u # s, NEW v \in staged'[u]
        PROVE  v.id # w.id
    BY <2>3 DEF RowInv, OneHome
  <2>. QED  BY <2>1, <2>2, <2>3 DEF OneHome
<1>2. Fresh'
  <2>1. \A p \in Schemas, i \in Ids : rows'[p][i] # None => i \in used'
    BY DEF RowInv, Fresh
  <2>2. ASSUME NEW s \in Sessions, ent'[s] # None PROVE ent'[s].id \in used'
    BY <2>2 DEF RowInv, Fresh
  <2>3. ASSUME NEW s \in Sessions, NEW w \in staged'[s] PROVE w.id \in used'
    BY <2>3 DEF RowInv, Fresh
  <2>4. ASSUME NEW s \in Sessions, NEW w \in staged'[s], rows'[w.at][w.id] = None,
               NEW u \in Sessions, ent'[u] # None, ent'[u].id = w.id
        PROVE  u = s /\ ent'[u].row = w.row
    <3>1. w \in staged[s] /\ rows[w.at][w.id] = None
      BY <2>4
    <3>2. ent[u] # None /\ ent[u].id = w.id
      BY <2>4
    <3>3. u = s /\ ent[u].row = w.row
      BY <3>1, <3>2 DEF RowInv, Fresh
    <3>. QED  BY <2>4, <3>3
  <2>. QED  BY <2>1, <2>2, <2>3, <2>4 DEF Fresh
<1>3. WritesContinue'
  BY DEF RowInv, WritesContinue
<1>4. EntitiesKnown'
  <2>. SUFFICES ASSUME NEW s \in Sessions, sess'[s].state \in {"new", "open"}, ent'[s] # None,
                       ~ent'[s].row.reused, ~OwnWrite(s)', NEW p \in Schemas, rows'[p][ent'[s].id] # None
                PROVE  NotAhead(ent'[s].row, rows'[p][ent'[s].id])
    BY DEF EntitiesKnown
  <2>1. ent'[s] = ent[s] /\ ent[s] # None
    OBVIOUS
  <2>2. ~OwnWrite(s)
    <3>1. CASE staged'[s] = staged[s]
      BY <2>1, <3>1 DEF OwnWrite
    <3>. QED  BY <2>1, <3>1
  <2>3. ent[s].id \in Ids
    BY <2>1 DEF RowInv, TableTypes, EntitySet
  <2>4. rows'[p][ent[s].id] = rows[p][ent[s].id]
    BY <2>1, <2>3
  <2>. QED  BY <2>1, <2>2, <2>4 DEF RowInv, EntitiesKnown
<1>. QED  BY <1>1, <1>2, <1>3, <1>4 DEF RowInv

\* A statement: the tables it works on exist, and stay until its transaction has ended.
LEMMA StatementTables ==
  ASSUME PathInv, RowInv, NEW s \in Sessions, NEW c \in Conns, NEW p \in Schemas, Statement(s, c, p)
  PROVE  /\ UNCHANGED <<rows, schemas, txPath>> /\ sess[s].state = "open"
         /\ \A u \in Sessions : sess'[u].state = sess[u].state
         /\ \A u \in Sessions : sess[u].conn # None => sess'[u].conn = sess[u].conn
         /\ sess'[s].conn = c /\ c # None
         /\ p = "public" \/ (p = txPath[c] /\ p \in schemas)
<1>1. sess \in [Sessions -> SessionSet] /\ sess[s] \in SessionSet
  BY DEF PathInv, PoolTypes
<1>2. /\ sess[s].state = "open" /\ c \in ConnFor(s) /\ sess' = [sess EXCEPT ![s].conn = c]
      /\ p = TableSchema(IF sess[s].conn = None THEN path[c] ELSE txPath[c])
      /\ UNCHANGED <<rows, schemas, txPath>>
  BY DEF Statement, pool
<1>3. sess[s].conn = None => c \in Free
  BY <1>2 DEF ConnFor
<1>4. sess[s].conn = None => path[c] = txPath[c]
  BY <1>3 DEF Free, PathInv, PathSource
<1>5. p = TableSchema(txPath[c])
  BY <1>2, <1>4
<1>6. sess[s].conn # None => c = sess[s].conn
  BY <1>2 DEF ConnFor
<1>7. /\ sess'[s] = [sess[s] EXCEPT !.conn = c]
      /\ \A u \in Sessions : u # s => sess'[u] = sess[u]
  BY <1>1, <1>2
<1>8. sess'[s].conn = c /\ sess'[s].state = sess[s].state
  BY <1>1, <1>7 DEF SessionSet
<1>. QED  BY <1>2, <1>5, <1>6, <1>7, <1>8, TenancyAssumption DEF TableSchema

\* What a session may hold: its own write, or what the committed row is or was.
MayHold(s, x) ==
  x # None =>
    /\ x.id \in used
    /\ \A u \in Sessions : \A w \in staged[u] :
         rows[w.at][w.id] = None /\ x.id = w.id => u = s /\ x.row = w.row
    /\ ~x.row.reused /\ ~(\E w \in staged[s] : w.id = x.id /\ w.row = x.row) =>
         \A q \in Schemas : rows[q][x.id] # None => NotAhead(x.row, rows[q][x.id])

\* A statement that reads, or changes nothing.
LEMMA ReadStep ==
  ASSUME PathInv, RowInv, NEW s \in Sessions, NEW c \in Conns, NEW p \in Schemas, Statement(s, c, p),
         NEW x \in EntitySet \cup {None}, ent' = [ent EXCEPT ![s] = x], UNCHANGED <<staged, used>>,
         MayHold(s, x)
  PROVE  RowInv'
<1>1. /\ UNCHANGED <<rows, schemas, txPath>>
      /\ \A u \in Sessions : sess'[u].state = sess[u].state
      /\ \A u \in Sessions : sess[u].conn # None => sess'[u].conn = sess[u].conn
  BY StatementTables
<1>2. ent' \in [Sessions -> EntitySet \cup {None}] /\ ent'[s] = x /\ \A u \in Sessions : u # s => ent'[u] = ent[u]
  BY DEF RowInv, TableTypes
<1>3. TableTypes'
  BY <1>1, <1>2 DEF RowInv, TableTypes
<1>4. OneWrite'
  BY <1>1 DEF RowInv, OneWrite
<1>5. OneHome' /\ WritesContinue'
  BY <1>1 DEF RowInv, OneHome, WritesContinue
<1>6. Fresh'
  <2>1. \A q \in Schemas, i \in Ids : rows'[q][i] # None => i \in used'
    BY <1>1 DEF RowInv, Fresh
  <2>2. \A u \in Sessions : ent'[u] # None => ent'[u].id \in used'
    BY <1>2 DEF RowInv, Fresh, MayHold
  <2>3. ASSUME NEW z \in Sessions, NEW w \in staged'[z] PROVE w.id \in used'
    BY <2>3 DEF RowInv, Fresh
  <2>4. ASSUME NEW z \in Sessions, NEW w \in staged'[z], rows'[w.at][w.id] = None,
               NEW u \in Sessions, ent'[u] # None, ent'[u].id = w.id
        PROVE  u = z /\ ent'[u].row = w.row
    <3>1. w \in staged[z] /\ rows[w.at][w.id] = None
      BY <1>1, <2>4
    <3>2. CASE u = s
      BY <1>2, <2>4, <3>1, <3>2 DEF MayHold
    <3>3. CASE u # s
      BY <1>2, <2>4, <3>1, <3>3 DEF RowInv, Fresh
    <3>. QED  BY <3>2, <3>3
  <2>. QED  BY <2>1, <2>2, <2>3, <2>4 DEF Fresh
<1>7. EntitiesKnown'
  <2>. SUFFICES ASSUME NEW u \in Sessions, sess'[u].state \in {"new", "open"}, ent'[u] # None,
                       ~ent'[u].row.reused, ~OwnWrite(u)', NEW q \in Schemas, rows'[q][ent'[u].id] # None
                PROVE  NotAhead(ent'[u].row, rows'[q][ent'[u].id])
    BY DEF EntitiesKnown
  <2>1. CASE u = s
    BY <1>1, <1>2, <2>1 DEF OwnWrite, MayHold
  <2>2. CASE u # s
    <3>1. ent'[u] = ent[u] /\ ~OwnWrite(u)
      BY <1>2, <2>2 DEF OwnWrite
    <3>. QED  BY <1>1, <3>1 DEF RowInv, EntitiesKnown
  <2>. QED  BY <2>1, <2>2
<1>. QED  BY <1>3, <1>4, <1>5, <1>6, <1>7 DEF RowInv

\* What a session may write: a row that no other transaction writes, and that continues the
\* committed one.
MayWrite(s, w) ==
  /\ \A q \in Schemas : rows[q][w.id] # None => q = w.at
  /\ \A u \in Sessions : u # s => \A v \in staged[u] : v.id # w.id
  /\ w.row # None /\ rows[w.at][w.id] # None => Continues(w.row, rows[w.at][w.id])
  /\ rows[w.at][w.id] = None => \A u \in Sessions : ent[u] # None /\ ent[u].id = w.id => u = s

\* The entity that is saved becomes what is written; without a save nothing is held of a new row.
Saves(s, w, x) ==
  \/ x = ent[s] /\ staged[s] = {} /\ (rows[w.at][w.id] = None /\ ent[s] # None => ent[s].id # w.id)
  \/ ent[s] # None /\ x.id = w.id /\ x.row = w.row /\ ent[s].id = w.id

LEMMA WriteStep ==
  ASSUME PathInv, RowInv, NEW s \in Sessions, NEW c \in Conns, NEW p \in Schemas, Statement(s, c, p),
         NEW w \in WriteSet, w.at = p, staged' = [staged EXCEPT ![s] = {w}],
         NEW x \in EntitySet \cup {None}, ent' = [ent EXCEPT ![s] = x],
         used' \in SUBSET Ids, used \subseteq used', w.id \in used', MayWrite(s, w), Saves(s, w, x)
  PROVE  RowInv'
<1>1. /\ UNCHANGED <<rows, schemas, txPath>>
      /\ \A u \in Sessions : sess'[u].state = sess[u].state
      /\ \A u \in Sessions : sess[u].conn # None => sess'[u].conn = sess[u].conn
      /\ sess'[s].conn = c /\ c # None
      /\ p = "public" \/ (p = txPath[c] /\ p \in schemas)
  BY StatementTables
<1>2. /\ staged' \in [Sessions -> SUBSET WriteSet] /\ staged'[s] = {w}
      /\ \A u \in Sessions : u # s => staged'[u] = staged[u]
  BY DEF RowInv, TableTypes
<1>3. ent' \in [Sessions -> EntitySet \cup {None}] /\ \A u \in Sessions : u # s => ent'[u] = ent[u]
  BY DEF RowInv, TableTypes
<1>4. \/ ent'[s] = ent[s] /\ staged[s] = {} /\ (rows[p][w.id] = None /\ ent[s] # None => ent[s].id # w.id)
      \/ ent[s] # None /\ ent[s].id = w.id /\ ent'[s].id = w.id /\ ent'[s].row = w.row
  BY DEF RowInv, TableTypes, Saves
<1>5. TableTypes'
  BY <1>1, <1>2, <1>3 DEF RowInv, TableTypes
<1>6. OneWrite'
  <2>. SUFFICES ASSUME NEW u \in Sessions, NEW v \in staged'[u]
                PROVE  /\ staged'[u] = {v} /\ sess'[u].conn # None
                       /\ v.at = "public" \/ (v.at = txPath'[sess'[u].conn] /\ v.at \in schemas')
    BY DEF OneWrite
  <2>1. CASE u = s
    BY <1>1, <1>2, <2>1
  <2>2. CASE u # s
    BY <1>1, <1>2, <2>2 DEF RowInv, OneWrite
  <2>. QED  BY <2>1, <2>2
<1>7. OneHome'
  <2>1. \A i \in Ids : \A q, r \in Schemas : rows'[q][i] # None /\ rows'[r][i] # None => q = r
    BY <1>1 DEF RowInv, OneHome
  <2>2. ASSUME NEW u \in Sessions, NEW v \in staged'[u], NEW q \in Schemas, rows'[q][v.id] # None
        PROVE  q = v.at
    <3>1. CASE u = s
      BY <1>1, <1>2, <2>2, <3>1 DEF MayWrite
    <3>2. CASE u # s
      BY <1>1, <1>2, <2>2, <3>2 DEF RowInv, OneHome
    <3>. QED  BY <3>1, <3>2
  <2>3. ASSUME NEW u \in Sessions, NEW v \in staged'[u], NEW z \in Sessions, z # u, NEW y \in staged'[z]
        PROVE  y.id # v.id
    <3>1. CASE u = s
      BY <1>2, <2>3, <3>1 DEF MayWrite
    <3>2. CASE z = s
      BY <1>2, <2>3, <3>2 DEF MayWrite
    <3>3. CASE u # s /\ z # s
      BY <1>2, <2>3, <3>3 DEF RowInv, OneHome
    <3>. QED  BY <3>1, <3>2, <3>3
  <2>. QED  BY <2>1, <2>2, <2>3 DEF OneHome
<1>8. Fresh'
  <2>1. \A q \in Schemas, i \in Ids : rows'[q][i] # None => i \in used'
    BY <1>1 DEF RowInv, Fresh
  <2>2. \A u \in Sessions : ent'[u] # None => ent[u] # None /\ ent'[u].id = ent[u].id
    BY <1>3, <1>4
  <2>3. \A u \in Sessions : ent'[u] # None => ent'[u].id \in used'
    BY <2>2 DEF RowInv, Fresh
  <2>4. ASSUME NEW z \in Sessions, NEW v \in staged'[z] PROVE v.id \in used'
    BY <1>2, <2>4 DEF RowInv, Fresh
  <2>5. ASSUME NEW z \in Sessions, NEW v \in staged'[z], rows'[v.at][v.id] = None,
               NEW u \in Sessions, ent'[u] # None, ent'[u].id = v.id
        PROVE  u = z /\ ent'[u].row = v.row
    <3>1. ent[u] # None /\ ent[u].id = v.id
      BY <2>2, <2>5
    <3>2. CASE z = s
      <4>1. v = w /\ rows[p][w.id] = None
        BY <1>1, <1>2, <2>5, <3>2
      <4>2. u = s
        BY <3>1, <4>1 DEF MayWrite
      <4>. QED  BY <1>4, <3>1, <3>2, <4>1, <4>2
    <3>3. CASE z # s
      <4>1. v \in staged[z] /\ rows[v.at][v.id] = None
        BY <1>1, <1>2, <2>5, <3>3
      <4>2. u = z /\ ent[u].row = v.row
        BY <3>1, <4>1 DEF RowInv, Fresh
      <4>. QED  BY <1>3, <3>3, <4>2
    <3>. QED  BY <3>2, <3>3
  <2>. QED  BY <2>1, <2>3, <2>4, <2>5 DEF Fresh
<1>9. WritesContinue'
  <2>. SUFFICES ASSUME NEW u \in Sessions, NEW v \in staged'[u], v.row # None, rows'[v.at][v.id] # None
                PROVE  Continues(v.row, rows'[v.at][v.id])
    BY DEF WritesContinue
  <2>1. CASE u = s
    BY <1>1, <1>2, <2>1 DEF MayWrite
  <2>2. CASE u # s
    BY <1>1, <1>2, <2>2 DEF RowInv, WritesContinue
  <2>. QED  BY <2>1, <2>2
<1>10. EntitiesKnown'
  <2>. SUFFICES ASSUME NEW u \in Sessions, sess'[u].state \in {"new", "open"}, ent'[u] # None,
                       ~ent'[u].row.reused, ~OwnWrite(u)', NEW q \in Schemas, rows'[q][ent'[u].id] # None
                PROVE  NotAhead(ent'[u].row, rows'[q][ent'[u].id])
    BY DEF EntitiesKnown
  <2>1. ent'[u] = ent[u] /\ ~OwnWrite(u)
    BY <1>2, <1>3, <1>4 DEF OwnWrite
  <2>. QED  BY <1>1, <2>1 DEF RowInv, EntitiesKnown
<1>. QED  BY <1>5, <1>6, <1>7, <1>8, <1>9, <1>10 DEF RowInv

\* What a statement sees is its transaction's write, or the committed row.
LEMMA RowSeen ==
  ASSUME RowInv, NEW s \in Sessions, NEW p \in Schemas, NEW i \in Ids
  PROVE  /\ RowFor(s, p, i) \in RowSet \cup {None}
         /\ \/ \E w \in staged[s] : w.at = p /\ w.id = i /\ w.row = RowFor(s, p, i)
            \/ RowFor(s, p, i) = rows[p][i] /\ ~\E w \in staged[s] : w.at = p /\ w.id = i
<1>1. CASE \E w \in staged[s] : w.at = p /\ w.id = i
  <2>1. PICK w \in staged[s] : w.at = p /\ w.id = i
    BY <1>1
  <2>2. staged[s] = {w} /\ w \in WriteSet
    BY DEF RowInv, OneWrite, TableTypes
  <2>3. RowFor(s, p, i) = w.row
    BY <1>1, <2>2, OneOf DEF RowFor
  <2>. QED  BY <2>1, <2>2, <2>3 DEF WriteSet
<1>2. CASE ~\E w \in staged[s] : w.at = p /\ w.id = i
  <2>1. RowFor(s, p, i) = rows[p][i]
    BY <1>2 DEF RowFor
  <2>. QED  BY <1>2, <2>1 DEF RowInv, TableTypes
<1>. QED  BY <1>1, <1>2

\* An id that another transaction writes has its row, or none, where that one writes it.
LEMMA WrittenElsewhere ==
  ASSUME RowInv, NEW s \in Sessions, NEW p \in Schemas, NEW i \in Ids, ~Locked(s, p, i),
         rows[p][i] # None \/ \E w \in staged[s] : w.at = p /\ w.id = i
  PROVE  /\ \A q \in Schemas : rows[q][i] # None => q = p
         /\ \A u \in Sessions : u # s => \A v \in staged[u] : v.id # i
         /\ i \in used
<1>1. CASE rows[p][i] # None
  <2>1. \A q \in Schemas : rows[q][i] # None => q = p
    BY <1>1 DEF RowInv, OneHome
  <2>2. ASSUME NEW u \in Sessions, u # s, NEW v \in staged[u], v.id = i PROVE FALSE
    <3>1. p = v.at
      BY <1>1, <2>2 DEF RowInv, OneHome
    <3>. QED  BY <2>2, <3>1 DEF Locked
  <2>. QED  BY <1>1, <2>1, <2>2 DEF RowInv, Fresh
<1>2. CASE \E w \in staged[s] : w.at = p /\ w.id = i
  <2>1. PICK w \in staged[s] : w.at = p /\ w.id = i
    BY <1>2
  <2>2. \A q \in Schemas : rows[q][i] # None => q = p
    BY <2>1 DEF RowInv, OneHome
  <2>3. \A u \in Sessions : u # s => \A v \in staged[u] : v.id # i
    BY <2>1 DEF RowInv, OneHome
  <2>4. i \in used
    BY <2>1 DEF RowInv, Fresh
  <2>. QED  BY <2>2, <2>3, <2>4
<1>. QED  BY <1>1, <1>2

LEMMA QuietStatement ==
  ASSUME PathInv, RowInv, NEW s \in Sessions, NEW c \in Conns, NEW p \in Schemas, Statement(s, c, p),
         UNCHANGED <<staged, ent, used>>
  PROVE  RowInv'
<1>1. ent[s] \in EntitySet \cup {None} /\ ent' = [ent EXCEPT ![s] = ent[s]]
  BY DEF RowInv, TableTypes
<1>2. sess[s].state = "open"
  BY DEF Statement
<1>3. MayHold(s, ent[s])
  BY <1>2 DEF MayHold, RowInv, Fresh, EntitiesKnown, OwnWrite
<1>. QED  BY <1>1, <1>3, ReadStep

LEMMA GetRows ==
  ASSUME PathInv, RowInv, NEW s \in Sessions, NEW i \in Ids, Get(s, i)
  PROVE  RowInv'
<1>1. PICK c \in Conns, p \in Schemas :
        /\ Statement(s, c, p)
        /\ ent' = [ent EXCEPT ![s] = IF RowFor(s, p, i) # None /\ InScope(s, RowFor(s, p, i))
                                     THEN [id |-> i, row |-> RowFor(s, p, i)] ELSE None]
  BY DEF Get
<1>2. UNCHANGED <<staged, used>>
  BY DEF Get
<1>. DEFINE row == RowFor(s, p, i)
<1>3. /\ row \in RowSet \cup {None}
      /\ \/ \E w \in staged[s] : w.at = p /\ w.id = i /\ w.row = row
         \/ row = rows[p][i] /\ ~\E w \in staged[s] : w.at = p /\ w.id = i
  BY RowSeen
<1>4. PICK x : x = IF row # None /\ InScope(s, row) THEN [id |-> i, row |-> row] ELSE None
  OBVIOUS
<1>5. ent' = [ent EXCEPT ![s] = x]
  BY <1>1, <1>4
<1>. HIDE DEF row
<1>6. x \in EntitySet \cup {None} /\ (x # None => row # None /\ row \in RowSet /\ x.id = i /\ x.row = row)
  BY <1>3, <1>4 DEF EntitySet
<1>10. Statement(s, c, p)
  BY <1>1
<1>7. CASE x = None
  <2>1. MayHold(s, x)
    BY <1>7 DEF MayHold
  <2>. QED  BY <1>2, <1>5, <1>6, <1>10, <2>1, ReadStep
<1>8. CASE x # None /\ \E w \in staged[s] : w.at = p /\ w.id = i /\ w.row = row
  <2>1. PICK w \in staged[s] : w.at = p /\ w.id = i /\ w.row = row
    BY <1>8
  <2>2. x.id \in used
    BY <1>6, <1>8, <2>1 DEF RowInv, Fresh
  <2>3. ASSUME NEW u \in Sessions, NEW v \in staged[u], x.id = v.id PROVE u = s /\ x.row = v.row
    <3>1. u = s
      BY <1>6, <1>8, <2>1, <2>3 DEF RowInv, OneHome
    <3>2. v = w
      BY <2>1, <2>3, <3>1 DEF RowInv, OneWrite
    <3>. QED  BY <1>6, <1>8, <2>1, <3>1, <3>2
  <2>4. MayHold(s, x)
    BY <1>6, <1>8, <2>1, <2>2, <2>3 DEF MayHold
  <2>. QED  BY <1>2, <1>5, <1>6, <1>10, <2>4, ReadStep
<1>9. CASE x # None /\ row = rows[p][i]
  <2>1. rows[p][i] # None /\ x.id = i /\ x.row = rows[p][i] /\ rows[p][i] \in RowSet
    BY <1>6, <1>9
  <2>2. x.id \in used
    BY <2>1 DEF RowInv, Fresh
  <2>3. ASSUME NEW u \in Sessions, NEW v \in staged[u], x.id = v.id PROVE rows[v.at][v.id] # None
    <3>1. p = v.at
      BY <2>1, <2>3 DEF RowInv, OneHome
    <3>. QED  BY <2>1, <2>3, <3>1
  <2>4. \A q \in Schemas : rows[q][i] # None => q = p
    BY <2>1 DEF RowInv, OneHome
  <2>5. \A q \in Schemas : rows[q][x.id] # None => NotAhead(x.row, rows[q][x.id])
    BY <2>1, <2>4, SameRow
  <2>6. MayHold(s, x)
    BY <2>2, <2>3, <2>5 DEF MayHold
  <2>. QED  BY <1>2, <1>5, <1>6, <1>10, <2>6, ReadStep
<1>. QED  BY <1>3, <1>7, <1>8, <1>9

LEMMA AddRows ==
  ASSUME PathInv, RowInv, NEW s \in Sessions, NEW i \in Ids, NEW t \in Tenants, Add(s, i, t)
  PROVE  RowInv'
<1>1. PICK c \in Conns, p \in Schemas :
        /\ i \notin used /\ staged[s] = {} /\ Statement(s, c, p) /\ used' = used \cup {i}
        /\ staged' = [staged EXCEPT ![s] = {[at |-> p, id |-> i, row |-> NewRow(t)]}] /\ UNCHANGED ent
  BY DEF Add
<1>. DEFINE w == [at |-> p, id |-> i, row |-> NewRow(t)]
<1>2. w \in WriteSet /\ w.at = p /\ w.id = i
  BY NewRowType DEF WriteSet
<1>3. staged' = [staged EXCEPT ![s] = {w}]
  BY <1>1
<1>. HIDE DEF w
<1>4. used' \in SUBSET Ids /\ used \subseteq used' /\ w.id \in used'
  BY <1>1, <1>2 DEF RowInv, TableTypes
<1>5. \A q \in Schemas : rows[q][w.id] = None
  BY <1>1, <1>2 DEF RowInv, Fresh
<1>6. \A u \in Sessions : u # s => \A v \in staged[u] : v.id # w.id
  BY <1>1, <1>2 DEF RowInv, Fresh
<1>7. \A u \in Sessions : ent[u] # None => ent[u].id # w.id
  BY <1>1, <1>2 DEF RowInv, Fresh
<1>8. MayWrite(s, w) /\ Saves(s, w, ent[s])
  BY <1>1, <1>2, <1>5, <1>6, <1>7 DEF MayWrite, Saves
<1>9. Statement(s, c, p) /\ ent[s] \in EntitySet \cup {None} /\ ent' = [ent EXCEPT ![s] = ent[s]]
  BY <1>1 DEF RowInv, TableTypes
<1>. QED  BY <1>2, <1>3, <1>4, <1>8, <1>9, WriteStep

LEMMA SaveRows ==
  ASSUME PathInv, RowInv, NEW s \in Sessions, Save(s)
  PROVE  RowInv'
<1>. DEFINE e == ent[s]
            new == [e.row EXCEPT !.version = @ + 1, !.saves = @ \cup {s}]
<1>1. PICK c \in Conns, p \in Schemas :
        /\ e # None /\ (\A w \in staged[s] : w.at = p /\ w.id = e.id) /\ ~Locked(s, p, e.id) /\ Statement(s, c, p)
        /\ IF RowFor(s, p, e.id) # None /\ VersionMatches(e, RowFor(s, p, e.id))
           THEN /\ staged' = [staged EXCEPT ![s] = {[at |-> p, id |-> e.id, row |-> new]}]
                /\ ent' = [ent EXCEPT ![s].row = new]
           ELSE UNCHANGED <<staged, ent>>
  BY DEF Save
<1>2. UNCHANGED used
  BY DEF Save
<1>3. e \in EntitySet /\ e.id \in Ids /\ e.row \in RowSet /\ e.id \in used
  BY <1>1 DEF RowInv, TableTypes, EntitySet, Fresh
<1>4. new \in RowSet
  <2>1. e.row.version \in Nat /\ e.row.saves \in SUBSET Sessions
    BY <1>3 DEF RowSet
  <2>2. PICK v \in Nat : v = e.row.version + 1
    BY <2>1
  <2>3. PICK z \in SUBSET Sessions : z = e.row.saves \cup {s}
    BY <2>1
  <2>4. new = [e.row EXCEPT !.version = v, !.saves = z]
    BY <2>2, <2>3
  <2>. HIDE DEF new
  <2>. QED  BY <1>3, <2>4 DEF RowSet
<1>5. new.version = e.row.version + 1 /\ e.row.saves \subseteq new.saves /\ new.reused = e.row.reused
  BY <1>3 DEF RowSet
<1>. HIDE DEF new
<1>6. CASE ~(RowFor(s, p, e.id) # None /\ VersionMatches(e, RowFor(s, p, e.id)))
  BY <1>1, <1>2, <1>6, QuietStatement
<1>7. CASE RowFor(s, p, e.id) # None /\ VersionMatches(e, RowFor(s, p, e.id))
  <2>. DEFINE w == [at |-> p, id |-> e.id, row |-> new]
              x == [e EXCEPT !.row = new]
              row == RowFor(s, p, e.id)
  <2>1. w \in WriteSet /\ w.at = p /\ w.id = e.id /\ w.row = new
    BY <1>3, <1>4 DEF WriteSet
  <2>2. x \in EntitySet /\ x.id = e.id /\ x.row = new
    BY <1>3, <1>4 DEF EntitySet
  <2>3. staged' = [staged EXCEPT ![s] = {w}] /\ ent' = [ent EXCEPT ![s] = x]
    BY <1>1, <1>7 DEF RowInv, TableTypes
  <2>4. /\ row \in RowSet \cup {None}
        /\ \/ \E v \in staged[s] : v.at = p /\ v.id = e.id /\ v.row = row
           \/ row = rows[p][e.id] /\ ~\E v \in staged[s] : v.at = p /\ v.id = e.id
    BY <1>3, RowSeen
  <2>5. row # None /\ row \in RowSet /\ row.version = e.row.version
    BY <1>7, <2>4 DEF VersionMatches
  <2>. HIDE DEF w, x, row
  <2>6. rows[p][e.id] # None \/ \E v \in staged[s] : v.at = p /\ v.id = e.id
    BY <2>4, <2>5
  <2>7. /\ \A q \in Schemas : rows[q][e.id] # None => q = p
        /\ \A u \in Sessions : u # s => \A v \in staged[u] : v.id # e.id
    BY <1>1, <1>3, <2>6, WrittenElsewhere
  <2>8. rows[p][e.id] = None => \A u \in Sessions : ent[u] # None /\ ent[u].id = e.id => u = s
    BY <2>6 DEF RowInv, Fresh
  <2>9. ASSUME rows[p][e.id] # None PROVE Continues(new, rows[p][e.id])
    <3>1. rows[p][e.id] \in RowSet
      BY <1>3, <2>9 DEF RowInv, TableTypes
    <3>2. Continues(row, rows[p][e.id])
      <4>1. CASE row = rows[p][e.id]
        BY <3>1, <4>1, SameRow
      <4>2. CASE \E v \in staged[s] : v.at = p /\ v.id = e.id /\ v.row = row
        BY <2>5, <2>9, <4>2 DEF RowInv, WritesContinue
      <4>. QED  BY <2>4, <4>1, <4>2
    <3>3. e.row = row \/ e.row.reused \/ NotAhead(e.row, rows[p][e.id])
      <4>1. CASE OwnWrite(s)
        <5>1. PICK v \in staged[s] : v.id = e.id /\ v.row = e.row
          BY <4>1 DEF OwnWrite
        <5>2. v.at = p /\ staged[s] = {v}
          BY <1>1, <5>1 DEF RowInv, OneWrite
        <5>. QED  BY <2>4, <5>1, <5>2
      <4>2. CASE ~OwnWrite(s)
        <5>1. sess[s].state = "open"
          BY <1>1 DEF Statement
        <5>. QED  BY <1>1, <2>9, <4>2, <5>1 DEF RowInv, EntitiesKnown
      <4>. QED  BY <4>1, <4>2
    <3>. QED  BY <1>3, <1>4, <1>5, <2>5, <3>1, <3>2, <3>3, SaveContinues
  <2>10. used' \in SUBSET Ids /\ used \subseteq used'
    BY <1>2 DEF RowInv, TableTypes
  <2>. HIDE DEF e
  <2>11. ent[s] # None /\ ent[s].id = w.id /\ x.id = w.id /\ x.row = w.row
    BY <1>1, <2>1, <2>2 DEF e
  <2>12. Statement(s, c, p) /\ w.id \in used'
    BY <1>1, <1>2, <1>3, <2>1
  <2>13. MayWrite(s, w)
    BY <2>1, <2>7, <2>8, <2>9 DEF MayWrite
  <2>14. Saves(s, w, x)
    BY <2>11 DEF Saves
  <2>15. staged' = [staged EXCEPT ![s] = {w}] /\ w \in WriteSet /\ w.at = p
    BY <2>1, <2>3
  <2>. QED  BY <2>2, <2>3, <2>10, <2>12, <2>13, <2>14, <2>15, WriteStep
<1>. QED  BY <1>6, <1>7

LEMMA DeleteRows ==
  ASSUME PathInv, RowInv, NEW s \in Sessions, NEW i \in Ids, NEW hard \in BOOLEAN, Delete(s, i, hard)
  PROVE  RowInv'
<1>1. PICK c \in Conns, p \in Schemas :
        /\ staged[s] = {} /\ ~Locked(s, p, i) /\ Statement(s, c, p)
        /\ staged' = [staged EXCEPT ![s] =
             IF rows[p][i] # None /\ (hard \/ ~rows[p][i].deleted)
             THEN {[at |-> p, id |-> i, row |-> IF hard THEN None ELSE [rows[p][i] EXCEPT !.deleted = TRUE]]}
             ELSE {}]
  BY DEF Delete
<1>2. UNCHANGED <<ent, used>>
  BY DEF Delete
<1>3. CASE ~(rows[p][i] # None /\ (hard \/ ~rows[p][i].deleted))
  <2>1. staged' = staged
    BY <1>1, <1>3 DEF RowInv, TableTypes
  <2>. QED  BY <1>1, <1>2, <2>1, QuietStatement
<1>4. CASE rows[p][i] # None /\ (hard \/ ~rows[p][i].deleted)
  <2>. DEFINE old == rows[p][i]
              new == IF hard THEN None ELSE [old EXCEPT !.deleted = TRUE]
              w == [at |-> p, id |-> i, row |-> new]
  <2>1. old \in RowSet
    BY <1>4 DEF RowInv, TableTypes
  <2>2. new \in RowSet \cup {None}
    BY <2>1 DEF RowSet
  <2>3. new # None => new.version = old.version /\ new.saves = old.saves
    BY <2>1 DEF RowSet
  <2>4. new # None => Continues(new, old)
    <3>1. old.version \in Nat
      BY <2>1 DEF RowSet
    <3>. HIDE DEF new
    <3>. QED  BY <2>3, <3>1 DEF Continues
  <2>5. staged' = [staged EXCEPT ![s] = {w}]
    BY <1>1, <1>4
  <2>. HIDE DEF new
  <2>6. w \in WriteSet /\ w.at = p /\ w.id = i /\ w.row = new
    BY <2>2 DEF WriteSet
  <2>7. /\ \A q \in Schemas : rows[q][i] # None => q = p
        /\ \A u \in Sessions : u # s => \A v \in staged[u] : v.id # i
        /\ i \in used
    BY <1>1, <1>4, WrittenElsewhere
  <2>8. used' \in SUBSET Ids /\ used \subseteq used'
    BY <1>2 DEF RowInv, TableTypes
  <2>. HIDE DEF w
  <2>9. MayWrite(s, w) /\ Saves(s, w, ent[s]) /\ w.id \in used'
    BY <1>1, <1>2, <1>4, <2>4, <2>6, <2>7 DEF MayWrite, Saves
  <2>10. Statement(s, c, p) /\ ent[s] \in EntitySet \cup {None} /\ ent' = [ent EXCEPT ![s] = ent[s]]
    BY <1>1, <1>2 DEF RowInv, TableTypes
  <2>. QED  BY <2>5, <2>6, <2>8, <2>9, <2>10, WriteStep
<1>. QED  BY <1>3, <1>4

\* At the end of a transaction its write is gone from the staged ones, and nobody else's path changes.
LEMMA EndTables ==
  ASSUME PathInv, RowInv, NEW s \in Sessions, Commit(s) \/ Rollback(s)
  PROVE  /\ sess[s].state = "open" /\ \A u \in Sessions : sess'[u].state = sess[u].state
         /\ staged' \in [Sessions -> SUBSET WriteSet] /\ staged'[s] = {}
         /\ \A u \in Sessions : u # s => staged'[u] = staged[u]
         /\ used' = used /\ OneWrite'
<1>. DEFINE c == sess[s].conn
<1>1. sess \in [Sessions -> SessionSet] /\ sess[s] \in SessionSet /\ txPath \in [Conns -> Schemas]
      /\ staged \in [Sessions -> SUBSET WriteSet]
  BY DEF PathInv, PoolTypes, RowInv, TableTypes
<1>2. /\ sess[s].state = "open" /\ c # None /\ sess' = [sess EXCEPT ![s].conn = None]
      /\ UNCHANGED <<schemas, used>> /\ staged' = [staged EXCEPT ![s] = {}]
  BY DEF Commit, Rollback, CommitTx, RollbackTx, Release
<1>3. \E keep : EndTransaction(c, keep)
  BY DEF Commit, Rollback, CommitTx, RollbackTx
<1>4. \A d \in Conns : d # c => txPath'[d] = txPath[d]
  BY <1>1, <1>3 DEF EndTransaction
<1>5. sess'[s].state = sess[s].state /\ \A u \in Sessions : u # s => sess'[u] = sess[u]
  BY <1>1, <1>2 DEF SessionSet
<1>6. /\ staged' \in [Sessions -> SUBSET WriteSet] /\ staged'[s] = {}
      /\ \A u \in Sessions : u # s => staged'[u] = staged[u]
  BY <1>1, <1>2
<1>7. OneWrite'
  <2>. SUFFICES ASSUME NEW u \in Sessions, NEW v \in staged'[u]
                PROVE  /\ staged'[u] = {v} /\ sess'[u].conn # None
                       /\ v.at = "public" \/ (v.at = txPath'[sess'[u].conn] /\ v.at \in schemas')
    BY DEF OneWrite
  <2>1. u # s /\ staged'[u] = staged[u] /\ sess'[u] = sess[u]
    BY <1>5, <1>6
  <2>2. /\ staged[u] = {v} /\ sess[u].conn # None
        /\ v.at = "public" \/ (v.at = txPath[sess[u].conn] /\ v.at \in schemas)
    BY <2>1 DEF RowInv, OneWrite
  <2>3. sess[u].conn \in Conns /\ sess[u].conn # c
    BY <1>1, <2>1, <2>2 DEF PathInv, Exclusive, SessionSet
  <2>. QED  BY <1>2, <1>4, <2>1, <2>2, <2>3
<1>. QED  BY <1>2, <1>5, <1>6, <1>7

\* Only a commit changes rows; it replaces one by what continues it.
LEMMA Published ==
  ASSUME RowInv, NEW s \in Sessions, NEW w \in staged[s], Publish(staged[s])
  PROVE  /\ rows' \in [Schemas -> [Ids -> RowSet \cup {None}]]
         /\ rows'[w.at][w.id] = w.row
         /\ \A p \in Schemas, i \in Ids : ~(p = w.at /\ i = w.id) => rows'[p][i] = rows[p][i]
<1>1. staged[s] = {w} /\ w.at \in Schemas /\ w.id \in Ids /\ w.row \in RowSet \cup {None}
  BY DEF RowInv, OneWrite, TableTypes, WriteSet
<1>2. rows \in [Schemas -> [Ids -> RowSet \cup {None}]]
  BY DEF RowInv, TableTypes
<1>3. rows' = [p \in Schemas |-> [i \in Ids |-> IF w.at = p /\ w.id = i THEN w.row ELSE rows[p][i]]]
  BY <1>1, OneOf DEF Publish
<1>. QED  BY <1>1, <1>2, <1>3

LEMMA NonePublished ==
  ASSUME RowInv, NEW s \in Sessions, staged[s] = {}, Publish(staged[s])
  PROVE  rows' = rows
<1>1. rows \in [Schemas -> [Ids -> RowSet \cup {None}]]
  BY DEF RowInv, TableTypes
<1>2. rows' = [p \in Schemas |-> [i \in Ids |-> rows[p][i]]]
  BY DEF Publish
<1>. QED  BY <1>1, <1>2

LEMMA PublishRows ==
  ASSUME PathInv, RowInv, NEW s \in Sessions, Commit(s), Publish(staged[s]), UNCHANGED ent
  PROVE  RowInv'
<1>1. /\ sess[s].state = "open" /\ \A u \in Sessions : sess'[u].state = sess[u].state
      /\ staged' \in [Sessions -> SUBSET WriteSet] /\ staged'[s] = {}
      /\ \A u \in Sessions : u # s => staged'[u] = staged[u]
      /\ used' = used /\ OneWrite'
  BY EndTables
<1>2. CASE staged[s] = {}
  <2>1. rows' = rows
    BY <1>2, NonePublished
  <2>2. TableTypes'
    BY <1>1, <2>1 DEF RowInv, TableTypes
  <2>3. \A u \in Sessions : staged'[u] = staged[u]
    BY <1>1, <1>2
  <2>. QED  BY <1>1, <2>1, <2>2, <2>3, LessRows
<1>3. CASE staged[s] # {}
  <2>1. PICK w : w \in staged[s]
    BY <1>3
  <2>2. staged[s] = {w} /\ w.at \in Schemas /\ w.id \in Ids /\ w.row \in RowSet \cup {None}
    BY <2>1 DEF RowInv, OneWrite, TableTypes, WriteSet
  <2>3. /\ rows' \in [Schemas -> [Ids -> RowSet \cup {None}]]
        /\ rows'[w.at][w.id] = w.row
        /\ \A p \in Schemas, i \in Ids : ~(p = w.at /\ i = w.id) => rows'[p][i] = rows[p][i]
    BY <2>1, Published
  <2>4. TableTypes'
    BY <1>1, <2>3 DEF RowInv, TableTypes
  <2>5. \A p \in Schemas : rows'[p][w.id] # None => p = w.at
    BY <2>1, <2>2, <2>3 DEF RowInv, OneHome
  <2>6. ASSUME NEW u \in Sessions, NEW v \in staged'[u]
        PROVE  /\ u # s /\ v \in staged[u] /\ v.at \in Schemas /\ v.id \in Ids /\ v.id # w.id
               /\ \A p \in Schemas : rows'[p][v.id] = rows[p][v.id]
    <3>1. u # s /\ v \in staged[u]
      BY <1>1, <2>6
    <3>2. v.id # w.id /\ v.at \in Schemas /\ v.id \in Ids
      BY <2>1, <3>1 DEF RowInv, OneHome, TableTypes, WriteSet
    <3>. QED  BY <2>3, <3>1, <3>2
  <2>7. OneHome'
    <3>1. ASSUME NEW i \in Ids, NEW p \in Schemas, NEW q \in Schemas, rows'[p][i] # None, rows'[q][i] # None
          PROVE  p = q
      <4>1. CASE i = w.id
        BY <2>5, <3>1, <4>1
      <4>2. CASE i # w.id
        BY <2>3, <3>1, <4>2 DEF RowInv, OneHome
      <4>. QED  BY <4>1, <4>2
    <3>2. ASSUME NEW u \in Sessions, NEW v \in staged'[u], NEW q \in Schemas, rows'[q][v.id] # None
          PROVE  q = v.at
      BY <2>6, <3>2 DEF RowInv, OneHome
    <3>3. ASSUME NEW u \in Sessions, NEW v \in staged'[u], NEW z \in Sessions, z # u, NEW y \in staged'[z]
          PROVE  y.id # v.id
      BY <2>6, <3>3 DEF RowInv, OneHome
    <3>. QED  BY <3>1, <3>2, <3>3 DEF OneHome
  <2>8. Fresh'
    <3>1. ASSUME NEW p \in Schemas, NEW i \in Ids, rows'[p][i] # None PROVE i \in used'
      <4>1. CASE i = w.id
        BY <1>1, <2>1, <4>1 DEF RowInv, Fresh
      <4>2. CASE i # w.id
        BY <1>1, <2>3, <3>1, <4>2 DEF RowInv, Fresh
      <4>. QED  BY <4>1, <4>2
    <3>2. \A u \in Sessions : ent'[u] # None => ent'[u].id \in used'
      BY <1>1 DEF RowInv, Fresh
    <3>3. ASSUME NEW z \in Sessions, NEW v \in staged'[z] PROVE v.id \in used'
      BY <1>1, <2>6, <3>3 DEF RowInv, Fresh
    <3>4. ASSUME NEW z \in Sessions, NEW v \in staged'[z], rows'[v.at][v.id] = None,
                 NEW u \in Sessions, ent'[u] # None, ent'[u].id = v.id
          PROVE  u = z /\ ent'[u].row = v.row
      <4>1. v \in staged[z] /\ rows[v.at][v.id] = None
        BY <2>6, <3>4
      <4>. QED  BY <3>4, <4>1 DEF RowInv, Fresh
    <3>. QED  BY <3>1, <3>2, <3>3, <3>4 DEF Fresh
  <2>9. WritesContinue'
    <3>. SUFFICES ASSUME NEW u \in Sessions, NEW v \in staged'[u], v.row # None, rows'[v.at][v.id] # None
                  PROVE  Continues(v.row, rows'[v.at][v.id])
      BY DEF WritesContinue
    <3>1. v \in staged[u] /\ rows'[v.at][v.id] = rows[v.at][v.id]
      BY <2>6
    <3>. QED  BY <3>1 DEF RowInv, WritesContinue
  <2>10. EntitiesKnown'
    <3>. SUFFICES ASSUME NEW u \in Sessions, sess'[u].state \in {"new", "open"}, ent'[u] # None,
                         ~ent'[u].row.reused, ~OwnWrite(u)', NEW p \in Schemas, rows'[p][ent'[u].id] # None
                  PROVE  NotAhead(ent[u].row, rows'[p][ent[u].id])
      BY DEF EntitiesKnown
    <3>1. /\ ent'[u] = ent[u] /\ ent[u].id \in Ids /\ ent[u].row \in RowSet /\ ent[u] # None
          /\ ~ent[u].row.reused /\ rows'[p][ent[u].id] # None
      BY DEF RowInv, TableTypes, EntitySet
    <3>2. u # s => ~OwnWrite(u)
      BY <1>1, <3>1 DEF OwnWrite
    <3>3. CASE ent[u].id # w.id
      <4>1. ~OwnWrite(u)
        <5>1. CASE u = s
          BY <2>2, <3>3, <5>1 DEF OwnWrite
        <5>. QED  BY <3>2, <5>1
      <4>2. rows'[p][ent[u].id] = rows[p][ent[u].id]
        BY <2>3, <3>1, <3>3
      <4>. QED  BY <1>1, <3>1, <4>1, <4>2 DEF RowInv, EntitiesKnown
    <3>4. CASE ent[u].id = w.id
      <4>1. rows'[p][ent[u].id] = w.row /\ w.row # None /\ w.row \in RowSet /\ p = w.at
        BY <2>2, <2>3, <2>5, <3>1, <3>4
      <4>2. CASE ent[u].row = w.row
        BY <4>1, <4>2, SameRow
      <4>3. CASE ent[u].row # w.row
        <5>1. rows[w.at][w.id] # None
          BY <2>1, <3>1, <3>4, <4>3 DEF RowInv, Fresh
        <5>2. ~OwnWrite(u)
          <6>1. CASE u = s
            BY <2>2, <4>3, <6>1 DEF OwnWrite
          <6>. QED  BY <3>2, <6>1
        <5>3. NotAhead(ent[u].row, rows[w.at][w.id])
          BY <1>1, <2>2, <3>1, <3>4, <5>1, <5>2 DEF RowInv, EntitiesKnown
        <5>4. Continues(w.row, rows[w.at][w.id])
          BY <2>1, <4>1, <5>1 DEF RowInv, WritesContinue
        <5>5. rows[w.at][w.id] \in RowSet
          BY <2>2, <5>1 DEF RowInv, TableTypes
        <5>. QED  BY <3>1, <4>1, <5>3, <5>4, <5>5, StaysBehind
      <4>. QED  BY <4>2, <4>3
    <3>. QED  BY <3>3, <3>4
  <2>. QED  BY <1>1, <2>4, <2>7, <2>8, <2>9, <2>10 DEF RowInv
<1>. QED  BY <1>2, <1>3

\* A rollback, or the COMMIT of an aborted transaction: the entity that was saved is marked.
LEMMA GiveUpRows ==
  ASSUME PathInv, RowInv, NEW s \in Sessions, Commit(s) \/ Rollback(s), ent' = Unsaved(s), UNCHANGED rows
  PROVE  RowInv'
<1>1. /\ sess[s].state = "open" /\ \A u \in Sessions : sess'[u].state = sess[u].state
      /\ staged' \in [Sessions -> SUBSET WriteSet] /\ staged'[s] = {}
      /\ \A u \in Sessions : u # s => staged'[u] = staged[u]
      /\ used' = used /\ OneWrite'
  BY EndTables
<1>2. ent \in [Sessions -> EntitySet \cup {None}]
  BY DEF RowInv, TableTypes
<1>3. \A u \in Sessions : u # s => ent'[u] = ent[u]
  BY <1>2 DEF Unsaved
<1>4. CASE ent[s] # None /\ OwnWrite(s)
  <2>. DEFINE x == [ent[s] EXCEPT !.row.reused = TRUE]
  <2>1. ent[s] \in EntitySet /\ ent[s].row \in RowSet
    BY <1>2, <1>4 DEF EntitySet
  <2>2. [ent[s].row EXCEPT !.reused = TRUE] \in RowSet /\ [ent[s].row EXCEPT !.reused = TRUE].reused = TRUE
    BY <2>1 DEF RowSet
  <2>3. x \in EntitySet /\ x.id = ent[s].id /\ x.row.reused
    BY <2>1, <2>2 DEF EntitySet
  <2>4. ent' = [ent EXCEPT ![s] = x]
    BY <1>4 DEF Unsaved, OwnWrite
  <2>. HIDE DEF x
  <2>5. ent' \in [Sessions -> EntitySet \cup {None}] /\ ent'[s] = x
    BY <1>2, <2>3, <2>4
  <2>6. TableTypes'
    BY <1>1, <2>5 DEF RowInv, TableTypes
  <2>7. \A u \in Sessions :
          \/ ent'[u] = ent[u]
          \/ ent[u] # None /\ ent'[u].id = ent[u].id /\ ent'[u].row.reused /\ staged'[u] = {}
    BY <1>1, <1>3, <1>4, <2>3, <2>5
  <2>8. \A u \in Sessions : sess'[u].state \in {"new", "open"} =>
          sess[u].state \in {"new", "open"} /\ (staged'[u] = staged[u] \/ ent'[u].row.reused)
    BY <1>1, <2>3, <2>5
  <2>. QED  BY <1>1, <2>6, <2>7, <2>8, LessRows
<1>5. CASE ~(ent[s] # None /\ OwnWrite(s))
  <2>1. ent'[s] = ent[s]
    BY <1>2, <1>5 DEF Unsaved, OwnWrite
  <2>2. \A u \in Sessions : ent'[u] = ent[u]
    BY <1>3, <2>1
  <2>3. ent' \in [Sessions -> EntitySet \cup {None}]
    BY <1>2, <1>5 DEF Unsaved, OwnWrite
  <2>4. TableTypes'
    BY <1>1, <2>3 DEF RowInv, TableTypes
  <2>5. \A u \in Sessions : sess'[u].state \in {"new", "open"} =>
          /\ sess[u].state \in {"new", "open"}
          /\ staged'[u] = staged[u] \/ (ent'[u] = ent[u] /\ (ent[u] = None \/ ~OwnWrite(u)))
    BY <1>1, <1>5, <2>2
  <2>. QED  BY <1>1, <2>2, <2>4, <2>5, LessRows
<1>. QED  BY <1>4, <1>5

\* A session that keeps its connection keeps its search_path and the schema that it means.
Keeps(u) ==
  /\ sess'[u].state \in {"new", "open"} =>
       sess[u].state \in {"new", "open"} /\ (sess[u].conn # None => sess'[u].conn # None)
  /\ sess[u].conn # None /\ sess'[u].conn # None =>
       /\ sess'[u].conn = sess[u].conn /\ txPath'[sess[u].conn] = txPath[sess[u].conn]
       /\ txPath[sess[u].conn] \in schemas => txPath[sess[u].conn] \in schemas'

LEMMA TenancyKeeps ==
  ASSUME PathInv, TenancyNext, NEW u \in Sessions
  PROVE  Keeps(u)
<1>1. /\ sess \in [Sessions -> SessionSet] /\ txPath \in [Conns -> Schemas]
      /\ \A s \in Sessions : sess[s] \in SessionSet
  BY DEF PathInv, PoolTypes
<1>2. sess[u].conn # None => sess[u].conn \in Conns
  BY <1>1 DEF SessionSet
<1>3. ASSUME NEW s \in Sessions, OpenSession(s) PROVE Keeps(u)
  <2>1. /\ sess' = [sess EXCEPT ![s] = [kind |-> "plain", tenant |-> None, state |-> "open", conn |-> None]]
        /\ sess[s].state = "new" /\ UNCHANGED <<txPath, schemas>>
    BY <1>3 DEF OpenSession, Opened, pool
  <2>2. sess[s].conn = None
    BY <2>1 DEF PathInv, FirstPath
  <2>3. CASE u = s
    BY <1>1, <2>1, <2>2, <2>3 DEF Keeps
  <2>4. CASE u # s
    BY <1>1, <2>1, <2>4 DEF Keeps
  <2>. QED  BY <2>3, <2>4
<1>4. ASSUME NEW s \in Sessions, NEW t \in Tenants, OpenSchemaSession(s, t) PROVE Keeps(u)
  <2>1. PICK c \in Free :
          /\ sess' = [sess EXCEPT ![s] = [kind |-> "schema", tenant |-> t, state |-> "open", conn |-> c]]
          /\ txPath' = [txPath EXCEPT ![c] = t]
    BY <1>4 DEF OpenSchemaSession, Opened
  <2>2. sess[s].conn = None /\ sess[s].state = "new" /\ UNCHANGED schemas
    BY <1>4 DEF OpenSchemaSession, PathInv, FirstPath
  <2>3. CASE u = s
    BY <1>1, <2>1, <2>2, <2>3 DEF Keeps
  <2>4. CASE u # s
    <3>1. sess'[u] = sess[u] /\ sess[u].conn # c
      BY <1>1, <2>1, <2>4 DEF Free
    <3>2. sess[u].conn # None => txPath'[sess[u].conn] = txPath[sess[u].conn]
      BY <1>1, <1>2, <2>1, <3>1
    <3>. QED  BY <2>2, <3>1, <3>2 DEF Keeps
  <2>. QED  BY <2>3, <2>4
<1>5. ASSUME NEW s \in Sessions, NEW c, sess[s].state = "open", UNCHANGED schemas, c = sess[s].conn \/ c \in Free,
             sess' = [sess EXCEPT ![s].state = "closed", ![s].conn = None],
             EndTransaction(c, FALSE) \/ UNCHANGED txPath
      PROVE  Keeps(u)
  <2>1. CASE u = s
    <3>1. sess'[u].state = "closed" /\ sess'[u].conn = None
      BY <1>1, <1>5, <2>1 DEF SessionSet
    <3>. QED  BY <3>1 DEF Keeps
  <2>2. CASE u # s
    <3>1. sess'[u] = sess[u]
      BY <1>1, <1>5, <2>2
    <3>2. sess[u].conn # None => sess[u].conn # c
      BY <1>5, <2>2 DEF PathInv, Exclusive, Free
    <3>3. sess[u].conn # None => txPath'[sess[u].conn] = txPath[sess[u].conn]
      BY <1>1, <1>2, <1>5, <3>2 DEF EndTransaction
    <3>. QED  BY <1>5, <3>1, <3>3 DEF Keeps
  <2>. QED  BY <2>1, <2>2
<1>6. ASSUME NEW s \in Sessions, CloseSession(s) PROVE Keeps(u)
  BY <1>5, <1>6 DEF CloseSession, pool
<1>7. ASSUME NEW s \in Sessions, CloseSchemaSession(s) PROVE Keeps(u)
  <2>1. PICK c \in ConnFor(s) :
          IF aborted[c]
          THEN sess' = [sess EXCEPT ![s].state = "leaked"] /\ UNCHANGED pool
          ELSE /\ sess' = [sess EXCEPT ![s].state = "closed", ![s].conn = None]
               /\ EndTransaction(c, FALSE)
    BY <1>7 DEF CloseSchemaSession
  <2>2. sess[s].state = "open" /\ UNCHANGED schemas /\ (c = sess[s].conn \/ c \in Free)
    BY <1>7 DEF CloseSchemaSession, ConnFor
  <2>3. CASE aborted[c]
    <3>1. sess' = [sess EXCEPT ![s].state = "leaked"] /\ UNCHANGED txPath
      BY <2>1, <2>3 DEF pool
    <3>2. sess'[u].conn = sess[u].conn /\ (sess'[u].state = "leaked" \/ sess'[u].state = sess[u].state)
      BY <1>1, <3>1 DEF SessionSet
    <3>. QED  BY <2>2, <3>1, <3>2 DEF Keeps
  <2>4. CASE ~aborted[c]
    BY <1>5, <2>1, <2>2, <2>4
  <2>. QED  BY <2>3, <2>4
<1>8. ASSUME NEW t \in Tenants, ProvisionSchema(t) PROVE Keeps(u)
  BY <1>8 DEF ProvisionSchema, pool, Keeps
<1>9. ASSUME NEW t \in Tenants, DropSchema(t) PROVE Keeps(u)
  <2>1. sess[u].conn # None => txPath[sess[u].conn] # t
    BY <1>2, <1>9 DEF DropSchema, Free
  <2>. QED  BY <1>9, <2>1 DEF DropSchema, pool, Keeps
<1>. QED  BY <1>3, <1>4, <1>6, <1>7, <1>8, <1>9 DEF TenancyNext

\* Opening and closing sessions, and DROP SCHEMA: no row that a transaction writes is dropped.
LEMMA TenantRows ==
  ASSUME PathInv, RowInv, Tenant
  PROVE  RowInv' /\ \A p \in Schemas, i \in Ids : rows'[p][i] = rows[p][i] \/ rows'[p][i] = None
<1>1. /\ TenancyNext /\ UNCHANGED <<ent, used>>
      /\ staged' = [s \in Sessions |-> IF sess[s].conn # None /\ sess'[s].conn = None THEN {} ELSE staged[s]]
      /\ rows' = [p \in Schemas |-> IF p = "public" \/ p \in schemas' THEN rows[p] ELSE [i \in Ids |-> None]]
  BY DEF Tenant
<1>2. \A u \in Sessions : Keeps(u)
  BY <1>1, TenancyKeeps
<1>3. rows \in [Schemas -> [Ids -> RowSet \cup {None}]] /\ staged \in [Sessions -> SUBSET WriteSet]
  BY DEF RowInv, TableTypes
<1>4. /\ rows' \in [Schemas -> [Ids -> RowSet \cup {None}]]
      /\ \A p \in Schemas, i \in Ids : rows'[p][i] = rows[p][i] \/ rows'[p][i] = None
      /\ \A p \in Schemas : p = "public" \/ p \in schemas' => rows'[p] = rows[p]
  BY <1>1, <1>3
<1>5. TableTypes'
  BY <1>1, <1>3, <1>4 DEF RowInv, TableTypes
<1>6. ASSUME NEW u \in Sessions, NEW w \in staged'[u]
      PROVE  /\ w \in staged[u] /\ staged'[u] = {w} /\ sess'[u].conn # None
             /\ w.at = "public" \/ (w.at = txPath'[sess'[u].conn] /\ w.at \in schemas')
             /\ w.at \in Schemas
  <2>1. w \in staged[u] /\ staged'[u] = staged[u] /\ ~(sess[u].conn # None /\ sess'[u].conn = None)
    BY <1>1, <1>6
  <2>2. /\ staged[u] = {w} /\ sess[u].conn # None /\ w.at \in Schemas
        /\ w.at = "public" \/ (w.at = txPath[sess[u].conn] /\ w.at \in schemas)
    BY <2>1 DEF RowInv, OneWrite, TableTypes, WriteSet
  <2>. QED  BY <1>2, <2>1, <2>2 DEF Keeps
<1>7. OneWrite'
  BY <1>6 DEF OneWrite
<1>8. \A u \in Sessions : \A w \in staged'[u] : w \in staged[u] /\ rows'[w.at][w.id] = rows[w.at][w.id]
  BY <1>4, <1>6
<1>9. \A u \in Sessions : sess'[u].state \in {"new", "open"} =>
        sess[u].state \in {"new", "open"} /\ staged'[u] = staged[u]
  BY <1>1, <1>2 DEF Keeps
<1>. QED  BY <1>1, <1>4, <1>5, <1>7, <1>8, <1>9, LessRows

\* A step that touches neither rows, writes, entities nor sessions.
LEMMA OtherRows ==
  ASSUME RowInv, UNCHANGED <<rows, staged, ent, used, sess, txPath, schemas>>
  PROVE  RowInv'
<1>1. TableTypes' /\ OneWrite'
  BY DEF RowInv, TableTypes, OneWrite
<1>. QED  BY <1>1, LessRows

\* What a step may do to the rows.
RowsGo ==
  \A p \in Schemas, i \in Ids :
    rows[p][i] # None /\ rows'[p][i] # None /\ ~rows'[p][i].reused => rows[p][i].saves \subseteq rows'[p][i].saves

LEMMA CommitGoes ==
  ASSUME RowInv, NEW s \in Sessions, Publish(staged[s])
  PROVE  RowsGo
<1>. SUFFICES ASSUME NEW p \in Schemas, NEW i \in Ids, rows[p][i] # None, rows'[p][i] # None, ~rows'[p][i].reused
              PROVE  rows[p][i].saves \subseteq rows'[p][i].saves
  BY DEF RowsGo
<1>1. CASE staged[s] = {}
  BY <1>1, NonePublished
<1>2. CASE staged[s] # {}
  <2>1. PICK w : w \in staged[s]
    BY <1>2
  <2>2. /\ rows'[w.at][w.id] = w.row
        /\ ~(p = w.at /\ i = w.id) => rows'[p][i] = rows[p][i]
    BY <2>1, Published
  <2>3. CASE p = w.at /\ i = w.id
    <3>1. Continues(w.row, rows[p][i])
      BY <2>1, <2>2, <2>3 DEF RowInv, WritesContinue
    <3>. QED  BY <2>2, <2>3, <3>1 DEF Continues
  <2>. QED  BY <2>2, <2>3
<1>. QED  BY <1>1, <1>2

\* Every step keeps the invariant of the rows, and loses no save but to an entity used again.
LEMMA RowNext ==
  PathInv /\ RowInv /\ [RepositoryNext]_repositoryVars => RowInv' /\ RowsGo
<1>. SUFFICES ASSUME PathInv, RowInv, [RepositoryNext]_repositoryVars PROVE RowInv' /\ RowsGo
  OBVIOUS
<1>1. ASSUME UNCHANGED rows PROVE RowsGo
  BY <1>1 DEF RowsGo
<1>2. CASE Tenant
  BY <1>2, TenantRows DEF RowsGo
<1>3. ASSUME UNCHANGED <<rows, staged, ent, used, sess, txPath, schemas>> PROVE RowInv' /\ RowsGo
  BY <1>1, <1>3, OtherRows
<1>4. CASE \E mode \in {"count", "cursor"} : StartWalk(mode)
  BY <1>3, <1>4 DEF StartWalk, pool
<1>5. CASE ListCount \/ ListPage \/ CursorPage
  BY <1>3, <1>5 DEF ListCount, ListPage, CursorPage, tvars
<1>6. CASE UNCHANGED repositoryVars
  BY <1>3, <1>6 DEF repositoryVars, tvars, rvars
<1>7. ASSUME NEW s \in Sessions, Fail(s) PROVE RowInv' /\ RowsGo
  BY <1>3, <1>7 DEF Fail, StatementFails, rvars
<1>8. ASSUME NEW s \in Sessions, Save(s) PROVE RowInv' /\ RowsGo
  <2>1. UNCHANGED rows
    BY <1>8 DEF Save, Statement
  <2>. QED  BY <1>1, <1>8, <2>1, SaveRows
<1>9. ASSUME NEW s \in Sessions, NEW i \in Ids, Get(s, i) PROVE RowInv' /\ RowsGo
  <2>1. UNCHANGED rows
    BY <1>9 DEF Get, Statement
  <2>. QED  BY <1>1, <1>9, <2>1, GetRows
<1>10. ASSUME NEW s \in Sessions, NEW i \in Ids, NEW hard \in BOOLEAN, Delete(s, i, hard) PROVE RowInv' /\ RowsGo
  <2>1. UNCHANGED rows
    BY <1>10 DEF Delete, Statement
  <2>. QED  BY <1>1, <1>10, <2>1, DeleteRows
<1>11. ASSUME NEW s \in Sessions, NEW i \in Ids, NEW t \in Tenants, Add(s, i, t) PROVE RowInv' /\ RowsGo
  <2>1. UNCHANGED rows
    BY <1>11 DEF Add, Statement
  <2>. QED  BY <1>1, <1>11, <2>1, AddRows
<1>12. ASSUME NEW s \in Sessions, Rollback(s) PROVE RowInv' /\ RowsGo
  <2>1. UNCHANGED rows /\ ent' = Unsaved(s)
    BY <1>12 DEF Rollback
  <2>. QED  BY <1>1, <1>12, <2>1, GiveUpRows
<1>13. ASSUME NEW s \in Sessions, Commit(s) PROVE RowInv' /\ RowsGo
  <2>1. CASE aborted[sess[s].conn]
    <3>1. UNCHANGED rows /\ ent' = Unsaved(s)
      BY <1>13, <2>1 DEF Commit
    <3>. QED  BY <1>1, <1>13, <3>1, GiveUpRows
  <2>2. CASE ~aborted[sess[s].conn]
    <3>1. Publish(staged[s]) /\ UNCHANGED ent
      BY <1>13, <2>2 DEF Commit
    <3>. QED  BY <1>13, <3>1, PublishRows, CommitGoes
  <2>. QED  BY <2>1, <2>2
<1>. QED  BY <1>2, <1>4, <1>5, <1>6, <1>7, <1>8, <1>9, <1>10, <1>11, <1>12, <1>13 DEF RepositoryNext

\* A committed save is overwritten by one that does not contain it (Repository.save with its
\* version check, soft_delete, hard_delete) only by an entity that outlived the rollback of its
\* own save, for every number of sessions, connections, tenants and rows.
THEOREM SavesAreNotLost == RepositorySpec => LostOnlyByReuse
<1>1. RepositoryInit => PathInv /\ RowInv
  BY PathInit, RowInit
<1>2. PathInv /\ RowInv /\ [RepositoryNext]_repositoryVars
        => PathInv' /\ RowInv' /\ RowsGo
  BY PathNext, RowNext
<1>3. RepositorySpec => [][RowsGo]_repositoryVars
  BY <1>1, <1>2, PTL DEF RepositorySpec
<1>. QED  BY <1>3 DEF LostOnlyByReuse, RowsGo

-----------------------------------------------------------------------------
(* Walking through the pages                                               *)

Shown == Visible(rows["public"])
Holds(seq, S) == \A i \in S : \E n \in DOMAIN seq : seq[n] = i
Ascends(seq) == \A m, n \in DOMAIN seq : m < n => seq[m] < seq[n]

\* The first k of all, or all of them.
StartOf(seq, all, k) ==
  /\ Len(seq) = IF k <= Len(all) THEN k ELSE Len(all)
  /\ \A n \in 1 .. Len(seq) : seq[n] = all[n]

\* seq has the rows of S up to the row at, and ends there.
Covers(seq, S, at) ==
  /\ Ascends(seq) /\ Holds(seq, {i \in S : i <= at})
  /\ \A n \in DOMAIN seq : seq[n] <= at

WalkSet ==
  [mode : {"none", "count", "page", "paged", "cursor", "walked"}, at : Nat, total : Nat,
   items : Seq(Nat), stable : SUBSET Ids, seen : SUBSET Ids]

\* What was there all the time is there, and what is there was seen.
Between == walk.mode # "none" => walk.stable \subseteq Shown /\ Shown \subseteq walk.seen

\* Behind a cursor is every row that stayed, in order, whatever else came and went.
ByCursor ==
  /\ walk.mode = "cursor" => Covers(walk.items, walk.stable, walk.at)
  /\ walk.mode = "walked" => Ascends(walk.items) /\ Holds(walk.items, walk.stable)

\* If nothing changed, the pages so far are the beginning of the listing.
ByNumber ==
  walk.mode \in {"count", "page", "paged"} =>
    /\ walk.at # 0
    /\ walk.stable = walk.seen =>
         /\ StartOf(walk.items, Listing, Offset(walk.at))
         /\ walk.mode = "page" => walk.total = Len(Listing)
         /\ walk.mode = "paged" => Len(Listing) <= Offset(walk.at)

WalkInv == walk \in WalkSet /\ Between /\ ByCursor /\ ByNumber

\* A set of naturals has a least element: the induction that the proof below uses.
LEMMA LeastNatural ==
  ASSUME NEW S \in SUBSET Nat, NEW n \in S
  PROVE  \E m \in S : \A k \in S : m <= k
<1>. DEFINE R == {ss \in Nat \X Nat : ss[1] < ss[2]}
<1>1. IsWellFoundedOn(OpToRel(<, Nat), Nat)
  BY NatLessThanWellFounded
<1>2. OpToRel(<, Nat) = R
  BY DEF OpToRel
<1>3. IsWellFoundedOn(R, Nat)
  BY <1>1, <1>2
<1>. HIDE DEF R
<1>4. PICK m \in S : \A k \in S : ~(<<k, m>> \in R)
  BY <1>3, WFMin
<1>5. ASSUME NEW k \in S PROVE m <= k
  <2>1. m \in Nat /\ k \in Nat
    OBVIOUS
  <2>2. k < m => <<k, m>> \in R
    BY <2>1 DEF R
  <2>. QED  BY <1>4, <2>1, <2>2
<1>. QED  BY <1>5

\* seq lists S in ascending order.
InOrder(seq, S) ==
  /\ seq \in [1 .. Cardinality(S) -> S]
  /\ \A m, n \in 1 .. Cardinality(S) : m < n => seq[m] < seq[n]

\* A set without an order would have a least one that has none: its rows behind the first do.
LEMMA OrderExists ==
  ASSUME NEW S \in SUBSET Nat, IsFiniteSet(S)
  PROVE  \E seq : InOrder(seq, S)
<1>. DEFINE Bad == {n \in Nat : \E T \in SUBSET Nat :
                      IsFiniteSet(T) /\ Cardinality(T) = n /\ ~\E seq : InOrder(seq, T)}
<1>1. SUFFICES ASSUME ~\E seq : InOrder(seq, S) PROVE FALSE
  OBVIOUS
<1>2. Cardinality(S) \in Bad
  BY <1>1, FS_CardinalityType
<1>3. PICK m \in Bad : \A k \in Bad : m <= k
  BY <1>2, LeastNatural
<1>4. PICK T \in SUBSET Nat : IsFiniteSet(T) /\ Cardinality(T) = m /\ ~\E seq : InOrder(seq, T)
  BY <1>3
<1>5. m \in Nat
  BY <1>3
<1>. HIDE DEF Bad
<1>6. CASE T = {}
  <2>. DEFINE q == [n \in 1 .. 0 |-> n]
  <2>1. Cardinality(T) = 0
    BY <1>6, FS_EmptySet
  <2>2. q \in [1 .. 0 -> T]
    BY <1>6
  <2>3. InOrder(q, T)
    BY <2>1, <2>2 DEF InOrder
  <2>. QED  BY <1>4, <2>3
<1>7. CASE T # {}
  <2>1. PICK x \in T : \A y \in T : x <= y
    BY <1>7, LeastNatural
  <2>. DEFINE U == T \ {x}
  <2>2. U \in SUBSET Nat /\ IsFiniteSet(U) /\ Cardinality(U) = m - 1
    BY <1>4, FS_RemoveElement
  <2>3. m # 0 /\ m - 1 \in Nat
    BY <1>4, <1>5, <1>7, FS_EmptySet
  <2>4. m - 1 \notin Bad
    BY <1>3, <1>5
  <2>5. PICK p : InOrder(p, U)
    BY <2>2, <2>3, <2>4 DEF Bad
  <2>6. p \in [1 .. (m - 1) -> U] /\ \A j, n \in 1 .. (m - 1) : j < n => p[j] < p[n]
    BY <2>2, <2>5 DEF InOrder
  <2>. DEFINE q == [n \in 1 .. m |-> IF n = 1 THEN x ELSE p[n - 1]]
  <2>7. \A n \in 1 .. m : n # 1 => n - 1 \in 1 .. (m - 1) /\ q[n] = p[n - 1] /\ q[n] \in U
    BY <1>5, <2>6
  <2>8. q[1] = x
    BY <1>5, <2>3
  <2>9. q \in [1 .. m -> T]
    BY <2>7, <2>8
  <2>10. ASSUME NEW j \in 1 .. m, NEW n \in 1 .. m, j < n PROVE q[j] < q[n]
    <3>1. n # 1 /\ q[n] \in U /\ q[n] = p[n - 1] /\ n - 1 \in 1 .. (m - 1)
      BY <2>7, <2>10
    <3>2. CASE j = 1
      <4>1. x <= q[n] /\ x # q[n] /\ x \in Nat /\ q[n] \in Nat
        BY <2>1, <3>1
      <4>. QED  BY <2>8, <3>2, <4>1
    <3>3. CASE j # 1
      <4>1. q[j] = p[j - 1] /\ j - 1 \in 1 .. (m - 1)
        BY <2>7, <3>3
      <4>2. j - 1 < n - 1
        BY <2>10
      <4>3. PICK a \in 1 .. (m - 1), b \in 1 .. (m - 1) : a = j - 1 /\ b = n - 1
        BY <3>1, <4>1
      <4>. QED  BY <2>6, <3>1, <4>1, <4>2, <4>3
    <3>. QED  BY <3>2, <3>3
  <2>. HIDE DEF q
  <2>11. InOrder(q, T)
    BY <1>4, <2>9, <2>10 DEF InOrder
  <2>. QED  BY <1>4, <2>11
<1>. QED  BY <1>6, <1>7

\* ORDER BY gives every row of a finite set once, in order.
LEMMA OrderedIs ==
  ASSUME NEW S \in SUBSET Nat, IsFiniteSet(S)
  PROVE  /\ Ordered(S) \in Seq(Nat) /\ Len(Ordered(S)) = Cardinality(S) /\ Ascends(Ordered(S))
         /\ \A n \in 1 .. Len(Ordered(S)) : Ordered(S)[n] \in S
         /\ Holds(Ordered(S), S)
<1>. DEFINE k == Cardinality(S)
            q == Ordered(S)
<1>1. k \in Nat
  BY FS_CardinalityType
<1>2. \E seq \in [1 .. k -> S] : \A m, n \in DOMAIN seq : m < n => seq[m] < seq[n]
  <2>1. PICK seq : InOrder(seq, S)
    BY OrderExists
  <2>. QED  BY <2>1 DEF InOrder
<1>3. q \in [1 .. k -> S] /\ \A m, n \in DOMAIN q : m < n => q[m] < q[n]
  BY <1>2 DEF Ordered
<1>. HIDE DEF k, q
<1>4. q \in Seq(Nat) /\ Len(q) = k /\ DOMAIN q = 1 .. k
  <2>1. q \in [1 .. k -> Nat]
    BY <1>3
  <2>. QED  BY <1>1, <2>1
<1>5. \A m, n \in 1 .. k : q[m] = q[n] => m = n
  <2>. SUFFICES ASSUME NEW m \in 1 .. k, NEW n \in 1 .. k, m # n PROVE q[m] # q[n]
    OBVIOUS
  <2>1. q[m] \in Nat /\ q[n] \in Nat
    BY <1>3
  <2>2. m < n \/ n < m
    BY <1>1
  <2>. QED  BY <1>3, <2>1, <2>2
<1>6. q \in Injection(1 .. k, S)
  BY <1>3, <1>5 DEF Injection, IsInjective
<1>7. Cardinality(1 .. k) = k
  BY <1>1, FS_Interval
<1>8. q \in Surjection(1 .. k, S)
  BY <1>6, <1>7, FS_Injection DEF k
<1>9. Holds(q, S)
  BY <1>3, <1>8 DEF Surjection, Holds
<1>. QED  BY <1>3, <1>4, <1>9 DEF q, k, Ascends

\* Min of a pair.
LEMMA MinOfTwo ==
  ASSUME NEW a \in Int, NEW b \in Int
  PROVE  Min({a, b}) = IF a <= b THEN a ELSE b
<1>. DEFINE c == IF a <= b THEN a ELSE b
<1>1. c \in {a, b} /\ \A y \in {a, b} : c <= y
  OBVIOUS
<1>2. \A x \in {a, b} : (\A y \in {a, b} : x <= y) => x = c
  OBVIOUS
<1>. HIDE DEF c
<1>. QED  BY <1>1, <1>2 DEF Min, c

\* A page of a sequence.
LEMMA SliceIs ==
  ASSUME NEW q \in Seq(Nat), NEW a \in Nat, NEW b \in Nat, a <= b
  PROVE  /\ Slice(q, a + 1, b) \in Seq(Nat)
         /\ Len(Slice(q, a + 1, b)) = IF b <= Len(q) THEN b - a ELSE IF a <= Len(q) THEN Len(q) - a ELSE 0
         /\ \A n \in 1 .. Len(Slice(q, a + 1, b)) : a + n \in 1 .. Len(q) /\ Slice(q, a + 1, b)[n] = q[a + n]
<1>. DEFINE t == IF b <= Len(q) THEN b ELSE Len(q)
<1>1. Len(q) \in Nat
  OBVIOUS
<1>2. Min({b, Len(q)}) = t
  BY <1>1, MinOfTwo
<1>3. t \in Nat /\ t <= Len(q)
  BY <1>1
<1>. HIDE DEF t
<1>4. Slice(q, a + 1, b) = SubSeq(q, a + 1, t)
  BY <1>2 DEF Slice
<1>5. \A i \in (a + 1) .. t : q[i] \in Nat
  BY <1>3
<1>6. PICK f \in Int : f = a + 1
  OBVIOUS
<1>7. t \in Int /\ \A i \in f .. t : q[i] \in Nat
  BY <1>3, <1>5, <1>6
<1>8. /\ SubSeq(q, f, t) \in Seq(Nat) /\ Len(SubSeq(q, f, t)) = IF f <= t THEN t - f + 1 ELSE 0
      /\ \A i \in 1 .. (t - f + 1) : SubSeq(q, f, t)[i] = q[f + i - 1]
  BY <1>6, <1>7, SubSeqProperties
<1>. DEFINE p == SubSeq(q, f, t)
<1>9. Slice(q, a + 1, b) = p
  BY <1>4, <1>6
<1>. HIDE DEF p
<1>10. p \in Seq(Nat) /\ Len(p) = IF f <= t THEN t - f + 1 ELSE 0
  BY <1>8 DEF p
<1>11. Len(p) = IF b <= Len(q) THEN b - a ELSE IF a <= Len(q) THEN Len(q) - a ELSE 0
  BY <1>1, <1>6, <1>10 DEF t
<1>12. ASSUME NEW n \in 1 .. Len(p) PROVE a + n \in 1 .. Len(q) /\ p[n] = q[a + n]
  <2>1. n \in 1 .. (t - f + 1) /\ f + n - 1 = a + n /\ a + n \in 1 .. Len(q)
    BY <1>1, <1>3, <1>6, <1>10
  <2>. QED  BY <1>8, <2>1 DEF p
<1>. QED  BY <1>9, <1>10, <1>11, <1>12

\* The first rows of a sequence.
LEMMA FirstIs ==
  ASSUME NEW q \in Seq(Nat), NEW b \in Nat
  PROVE  /\ Slice(q, 1, b) \in Seq(Nat) /\ Len(Slice(q, 1, b)) = IF b <= Len(q) THEN b ELSE Len(q)
         /\ \A n \in 1 .. Len(Slice(q, 1, b)) : Slice(q, 1, b)[n] = q[n]
<1>1. PICK a \in Nat : a = 0
  OBVIOUS
<1>2. a <= b /\ a + 1 = 1
  BY <1>1
<1>. DEFINE p == Slice(q, a + 1, b)
<1>3. /\ p \in Seq(Nat) /\ Len(p) = IF b <= Len(q) THEN b - a ELSE IF a <= Len(q) THEN Len(q) - a ELSE 0
      /\ \A n \in 1 .. Len(p) : a + n \in 1 .. Len(q) /\ p[n] = q[a + n]
  BY <1>2, SliceIs
<1>. HIDE DEF p
<1>4. Len(q) \in Nat /\ Len(p) \in Nat
  BY <1>3
<1>5. Len(p) = IF b <= Len(q) THEN b ELSE Len(q)
  BY <1>1, <1>3, <1>4
<1>6. ASSUME NEW n \in 1 .. Len(p) PROVE p[n] = q[n]
  <2>1. a + n = n
    BY <1>1, <1>4
  <2>. QED  BY <1>3, <2>1
<1>7. Slice(q, 1, b) = p
  BY <1>2 DEF p
<1>. QED  BY <1>3, <1>5, <1>6, <1>7

\* What is where in a concatenation.
LEMMA JoinIs ==
  ASSUME NEW p \in Seq(Nat), NEW q \in Seq(Nat)
  PROVE  /\ p \o q \in Seq(Nat) /\ Len(p \o q) = Len(p) + Len(q) /\ DOMAIN (p \o q) = 1 .. (Len(p) + Len(q))
         /\ \A n \in 1 .. Len(p) : (p \o q)[n] = p[n]
         /\ \A n \in 1 .. Len(q) : (p \o q)[Len(p) + n] = q[n]
         /\ \A n \in 1 .. (Len(p) + Len(q)) :
              \/ n \in 1 .. Len(p) /\ (p \o q)[n] = p[n]
              \/ n - Len(p) \in 1 .. Len(q) /\ (p \o q)[n] = q[n - Len(p)]
  OBVIOUS

\* A page behind the rows so far.
LEMMA JoinAscends ==
  ASSUME NEW p \in Seq(Nat), NEW q \in Seq(Nat), NEW c \in Nat, Ascends(p), Ascends(q),
         \A n \in 1 .. Len(p) : p[n] <= c, \A n \in 1 .. Len(q) : c < q[n]
  PROVE  Ascends(p \o q)
<1>. DEFINE r == p \o q
            l == Len(p)
<1>1. /\ r \in Seq(Nat) /\ DOMAIN r = 1 .. (l + Len(q)) /\ l \in Nat /\ Len(q) \in Nat
      /\ \A n \in 1 .. (l + Len(q)) :
           \/ n \in 1 .. l /\ r[n] = p[n]
           \/ n - l \in 1 .. Len(q) /\ r[n] = q[n - l]
  BY JoinIs
<1>2. DOMAIN p = 1 .. l /\ DOMAIN q = 1 .. Len(q)
  OBVIOUS
<1>3. \A n \in 1 .. l : p[n] \in Nat
  OBVIOUS
<1>4. \A n \in 1 .. Len(q) : q[n] \in Nat
  OBVIOUS
<1>. HIDE DEF r, l
<1>5. \A n \in 1 .. l : p[n] <= c
  BY DEF l
<1>6. ASSUME NEW m \in DOMAIN r, NEW n \in DOMAIN r, m < n PROVE r[m] < r[n]
  <2>1. CASE n \in 1 .. l /\ r[n] = p[n]
    <3>1. m \in 1 .. l /\ ~(m - l \in 1 .. Len(q))
      BY <1>1, <1>6, <2>1
    <3>2. r[m] = p[m]
      BY <1>1, <1>6, <3>1
    <3>. QED  BY <1>2, <1>6, <2>1, <3>1, <3>2 DEF Ascends
  <2>2. CASE n - l \in 1 .. Len(q) /\ r[n] = q[n - l]
    <3>1. CASE m \in 1 .. l /\ r[m] = p[m]
      <4>1. p[m] <= c /\ c < q[n - l] /\ p[m] \in Nat /\ q[n - l] \in Nat
        BY <1>3, <1>4, <1>5, <2>2, <3>1
      <4>. QED  BY <2>2, <3>1, <4>1
    <3>2. CASE m - l \in 1 .. Len(q) /\ r[m] = q[m - l]
      <4>1. m - l < n - l
        BY <1>1, <1>6
      <4>2. PICK i \in 1 .. Len(q), j \in 1 .. Len(q) : i = m - l /\ j = n - l
        BY <2>2, <3>2
      <4>. QED  BY <1>2, <2>2, <3>2, <4>1, <4>2 DEF Ascends
    <3>. QED  BY <1>1, <1>6, <3>1, <3>2
  <2>. QED  BY <1>1, <1>6, <2>1, <2>2
<1>. QED  BY <1>6 DEF Ascends, r

\* What build_cursor_page makes of the rows behind the cursor.
IsPage(page, T) ==
  LET q == Ordered(T) IN
  /\ page = Slice(Slice(q, 1, PageSize + 1), 1, PageSize)
  /\ T \in SUBSET Nat /\ IsFiniteSet(T)

LEMMA PageIs ==
  ASSUME NEW T, NEW page, IsPage(page, T)
  PROVE  /\ page \in Seq(Nat) /\ Ascends(page) /\ \A n \in 1 .. Len(page) : page[n] \in T
         /\ Len(Slice(Ordered(T), 1, PageSize + 1)) \in Nat
         /\ Len(Slice(Ordered(T), 1, PageSize + 1)) <= PageSize => Holds(page, T)
         /\ Len(Slice(Ordered(T), 1, PageSize + 1)) > PageSize =>
              LET c == NextCursor(Slice(Ordered(T), 1, PageSize + 1)) IN
              /\ c \in Nat /\ c \in T /\ Holds(page, {i \in T : i <= c})
              /\ \A n \in 1 .. Len(page) : page[n] <= c
<1>. DEFINE q == Ordered(T)
            k == Len(q)
            fetched == Slice(q, 1, PageSize + 1)
<1>1. T \in SUBSET Nat /\ IsFiniteSet(T) /\ page = Slice(fetched, 1, PageSize)
  BY DEF IsPage
<1>2. /\ q \in Seq(Nat) /\ Ascends(q)
      /\ \A n \in 1 .. k : q[n] \in T
      /\ Holds(q, T)
  BY <1>1, OrderedIs
<1>3. PageSize \in Nat \ {0} /\ PageSize + 1 \in Nat
  BY RepositoryAssumption
<1>. HIDE DEF q
<1>4. k \in Nat /\ DOMAIN q = 1 .. k
  BY <1>2
<1>5. /\ fetched \in Seq(Nat) /\ Len(fetched) = IF PageSize + 1 <= k THEN PageSize + 1 ELSE k
      /\ \A n \in 1 .. Len(fetched) : fetched[n] = q[n]
  BY <1>2, <1>3, FirstIs
<1>. HIDE DEF fetched, k
<1>6. /\ page \in Seq(Nat) /\ Len(page) = IF PageSize <= Len(fetched) THEN PageSize ELSE Len(fetched)
      /\ \A n \in 1 .. Len(page) : page[n] = fetched[n]
  BY <1>1, <1>3, <1>5, FirstIs
<1>7. Len(page) = (IF PageSize <= k THEN PageSize ELSE k) /\ 1 .. Len(page) \subseteq 1 .. k
  BY <1>3, <1>4, <1>5, <1>6
<1>8. \A n \in 1 .. Len(page) : page[n] = q[n]
  <2>. SUFFICES ASSUME NEW n \in 1 .. Len(page) PROVE page[n] = q[n]
    OBVIOUS
  <2>1. n \in 1 .. Len(fetched)
    BY <1>3, <1>4, <1>5, <1>6
  <2>. QED  BY <1>5, <1>6, <2>1
<1>9. DOMAIN page = 1 .. Len(page)
  BY <1>6
<1>10. Ascends(page)
  BY <1>2, <1>4, <1>7, <1>8, <1>9 DEF Ascends
<1>11. \A n \in 1 .. Len(page) : page[n] \in T
  BY <1>2, <1>7, <1>8 DEF k
<1>12. ASSUME Len(fetched) <= PageSize PROVE Holds(page, T)
  <2>1. Len(page) = k
    BY <1>3, <1>4, <1>5, <1>7, <1>12
  <2>. QED  BY <1>2, <1>4, <1>8, <1>9, <2>1 DEF Holds
<1>13. ASSUME Len(fetched) > PageSize
       PROVE  LET c == NextCursor(fetched) IN
              /\ c \in Nat /\ c \in T /\ Holds(page, {i \in T : i <= c})
              /\ \A n \in 1 .. Len(page) : page[n] <= c
  <2>1. PageSize < k /\ Len(page) = PageSize /\ PageSize \in 1 .. Len(fetched) /\ PageSize \in 1 .. k
    BY <1>3, <1>4, <1>5, <1>7, <1>13
  <2>. DEFINE c == q[PageSize]
  <2>2. NextCursor(fetched) = c
    BY <1>5, <2>1 DEF NextCursor
  <2>3. c \in T /\ c \in Nat
    BY <1>1, <1>2, <2>1 DEF k
  <2>4. ASSUME NEW n \in 1 .. Len(page) PROVE page[n] <= c
    <3>1. n \in 1 .. k /\ (n = PageSize \/ n < PageSize) /\ q[n] \in Nat /\ page[n] = q[n]
      BY <1>1, <1>2, <1>3, <1>7, <1>8, <2>1 DEF k
    <3>2. n < PageSize => q[n] < q[PageSize]
      BY <1>2, <1>4, <2>1, <3>1 DEF Ascends
    <3>. QED  BY <2>3, <3>1, <3>2
  <2>5. ASSUME NEW i \in T, i <= c PROVE \E n \in DOMAIN page : page[n] = i
    <3>1. PICK n \in 1 .. k : q[n] = i
      BY <1>2, <1>4 DEF Holds
    <3>2. PageSize < n => q[PageSize] < q[n]
      BY <1>2, <1>4, <2>1 DEF Ascends
    <3>3. i \in Nat
      BY <1>1
    <3>4. n <= PageSize
      BY <1>3, <1>4, <2>3, <2>5, <3>1, <3>2, <3>3
    <3>5. n \in 1 .. Len(page)
      BY <1>3, <2>1, <3>4
    <3>. QED  BY <1>8, <1>9, <3>1, <3>5
  <2>. HIDE DEF c
  <2>6. Holds(page, {i \in T : i <= c})
    BY <2>5 DEF Holds
  <2>. QED  BY <2>2, <2>3, <2>4, <2>6
<1>14. Len(fetched) \in Nat
  BY <1>5
<1>. QED  BY <1>6, <1>10, <1>11, <1>12, <1>13, <1>14 DEF fetched, q

\* A page by cursor: what stayed is behind the new cursor, or all of it is there.
LEMMA CursorStep ==
  ASSUME NEW items \in Seq(Nat), NEW c \in Nat, NEW V \in SUBSET Nat, NEW S \in SUBSET V, IsFiniteSet(V),
         NEW T, T = {i \in V : i > c}, NEW page, IsPage(page, T), Covers(items, S, c)
  PROVE  /\ items \o page \in Seq(Nat) /\ Ascends(items \o page)
         /\ Len(Slice(Ordered(T), 1, PageSize + 1)) <= PageSize => Holds(items \o page, S)
         /\ Len(Slice(Ordered(T), 1, PageSize + 1)) > PageSize =>
              LET d == NextCursor(Slice(Ordered(T), 1, PageSize + 1)) IN
              d \in Nat /\ Covers(items \o page, S, d)
<1>. DEFINE fetched == Slice(Ordered(T), 1, PageSize + 1)
            all == items \o page
<1>1. /\ page \in Seq(Nat) /\ Ascends(page) /\ \A n \in 1 .. Len(page) : page[n] \in T
      /\ Len(fetched) <= PageSize => Holds(page, T)
      /\ Len(fetched) > PageSize =>
           LET d == NextCursor(fetched) IN
           /\ d \in Nat /\ d \in T /\ Holds(page, {i \in T : i <= d})
           /\ \A n \in 1 .. Len(page) : page[n] <= d
  BY PageIs
<1>. HIDE DEF fetched
<1>2. /\ all \in Seq(Nat) /\ DOMAIN all = 1 .. (Len(items) + Len(page))
      /\ \A n \in 1 .. Len(items) : all[n] = items[n]
      /\ \A n \in 1 .. Len(page) : all[Len(items) + n] = page[n]
      /\ \A n \in 1 .. (Len(items) + Len(page)) :
           \/ n \in 1 .. Len(items) /\ all[n] = items[n]
           \/ n - Len(items) \in 1 .. Len(page) /\ all[n] = page[n - Len(items)]
  BY <1>1, JoinIs
<1>3. Len(items) \in Nat /\ Len(page) \in Nat /\ DOMAIN items = 1 .. Len(items) /\ DOMAIN page = 1 .. Len(page)
  BY <1>1
<1>4. /\ Ascends(items) /\ Holds(items, {i \in S : i <= c})
      /\ \A n \in 1 .. Len(items) : items[n] <= c
  BY <1>3 DEF Covers
<1>5. Ascends(all)
  <2>1. \A n \in 1 .. Len(page) : c < page[n]
    BY <1>1
  <2>. QED  BY <1>1, <1>4, <2>1, JoinAscends
<1>. HIDE DEF all
<1>6. ASSUME NEW i, (\E n \in DOMAIN items : items[n] = i) \/ (\E n \in DOMAIN page : page[n] = i)
      PROVE  \E n \in DOMAIN all : all[n] = i
  <2>1. \A n \in 1 .. Len(items) : n \in DOMAIN all
    BY <1>2, <1>3
  <2>2. \A n \in 1 .. Len(page) : Len(items) + n \in DOMAIN all
    BY <1>2, <1>3
  <2>. QED  BY <1>2, <1>3, <1>6, <2>1, <2>2
<1>7. \A i \in S : i <= c \/ i \in T
  OBVIOUS
<1>8. ASSUME Len(fetched) <= PageSize PROVE Holds(all, S)
  BY <1>1, <1>4, <1>6, <1>7, <1>8 DEF Holds
<1>9. ASSUME Len(fetched) > PageSize
      PROVE  NextCursor(fetched) \in Nat /\ Covers(all, S, NextCursor(fetched))
  <2>1. PICK d \in Nat : d = NextCursor(fetched)
    BY <1>1, <1>9
  <2>2. /\ d \in T /\ Holds(page, {i \in T : i <= d})
        /\ \A n \in 1 .. Len(page) : page[n] <= d
    BY <1>1, <1>9, <2>1
  <2>3. Holds(all, {i \in S : i <= d})
    BY <1>4, <1>6, <1>7, <2>2 DEF Holds
  <2>4. ASSUME NEW n \in DOMAIN all PROVE all[n] <= d
    <3>1. CASE n \in 1 .. Len(items) /\ all[n] = items[n]
      <4>1. items[n] \in Nat /\ items[n] <= c /\ c < d
        BY <1>4, <2>2, <3>1
      <4>. QED  BY <3>1, <4>1
    <3>2. CASE n - Len(items) \in 1 .. Len(page) /\ all[n] = page[n - Len(items)]
      BY <2>2, <3>2
    <3>. QED  BY <1>2, <3>1, <3>2
  <2>. QED  BY <1>5, <2>1, <2>3, <2>4 DEF Covers
<1>. QED  BY <1>2, <1>5, <1>8, <1>9 DEF all, fetched

\* A page by number behind the ones before it.
LEMMA NumberStep ==
  ASSUME NEW items \in Seq(Nat), NEW L \in Seq(Nat), NEW k \in Nat, StartOf(items, L, k)
  PROVE  /\ items \o Slice(L, k + 1, k + PageSize) \in Seq(Nat)
         /\ StartOf(items \o Slice(L, k + 1, k + PageSize), L, k + PageSize)
<1>. DEFINE page == Slice(L, k + 1, k + PageSize)
            all == items \o page
<1>1. PageSize \in Nat \ {0} /\ k + PageSize \in Nat /\ k <= k + PageSize
  BY RepositoryAssumption
<1>2. PICK b \in Nat : b = k + PageSize
  BY <1>1
<1>3. /\ page \in Seq(Nat)
      /\ Len(page) = IF b <= Len(L) THEN b - k ELSE IF k <= Len(L) THEN Len(L) - k ELSE 0
      /\ \A n \in 1 .. Len(page) : k + n \in 1 .. Len(L) /\ page[n] = L[k + n]
  BY <1>1, <1>2, SliceIs
<1>. HIDE DEF page
<1>4. /\ all \in Seq(Nat) /\ Len(all) = Len(items) + Len(page)
      /\ \A n \in 1 .. (Len(items) + Len(page)) :
           \/ n \in 1 .. Len(items) /\ all[n] = items[n]
           \/ n - Len(items) \in 1 .. Len(page) /\ all[n] = page[n - Len(items)]
  BY <1>3, JoinIs
<1>5. /\ Len(items) = IF k <= Len(L) THEN k ELSE Len(L)
      /\ \A n \in 1 .. Len(items) : items[n] = L[n]
  BY DEF StartOf
<1>6. Len(items) \in Nat /\ Len(page) \in Nat /\ Len(L) \in Nat
  BY <1>3
<1>. HIDE DEF all
<1>7. Len(all) = IF b <= Len(L) THEN b ELSE Len(L)
  <2>1. PICK i \in Nat, p \in Nat, l \in Nat : i = Len(items) /\ p = Len(page) /\ l = Len(L)
    BY <1>6
  <2>2. p = (IF b <= l THEN b - k ELSE IF k <= l THEN l - k ELSE 0) /\ i = IF k <= l THEN k ELSE l
    BY <1>3, <1>5, <2>1
  <2>3. i + p = IF b <= l THEN b ELSE l
    BY <1>1, <1>2, <2>2
  <2>. QED  BY <1>4, <2>1, <2>3
<1>8. ASSUME NEW n \in 1 .. Len(all) PROVE all[n] = L[n]
  <2>1. CASE n \in 1 .. Len(items) /\ all[n] = items[n]
    BY <1>5, <2>1
  <2>2. CASE n - Len(items) \in 1 .. Len(page) /\ all[n] = page[n - Len(items)]
    <3>1. PICK j \in 1 .. Len(page) : j = n - Len(items)
      BY <2>2
    <3>2. Len(items) = k
      BY <1>2, <1>3, <1>5, <1>6, <3>1
    <3>3. k + j = n
      BY <1>6, <3>1, <3>2
    <3>. QED  BY <1>3, <2>2, <3>1, <3>3
  <2>. QED  BY <1>4, <2>1, <2>2
<1>. QED  BY <1>2, <1>4, <1>7, <1>8 DEF StartOf, all, page

\* Page numbers: the offset of the next page, and where the last page ends.
LEMMA PageNumbers ==
  ASSUME NEW n \in Nat, NEW total \in Nat
  PROVE  /\ n # 0 => Offset(n) \in Nat /\ Offset(n + 1) = Offset(n) + PageSize
         /\ TotalPages(total) \in Int /\ (TotalPages(total) <= n => total <= Offset(n + 1))
         /\ Offset(1) = 0
<1>1. PICK s \in Nat \ {0} : s = PageSize
  BY RepositoryAssumption
<1>2. Offset(1) = 0
  <2>1. (1 - 1) * s = 0
    OBVIOUS
  <2>. QED  BY <1>1, <2>1 DEF Offset
<1>3. ASSUME n # 0 PROVE Offset(n) \in Nat /\ Offset(n + 1) = Offset(n) + PageSize
  <2>1. PICK m \in Nat : n = m + 1
    BY <1>3
  <2>2. m * s \in Nat /\ (m + 1) * s = m * s + s
    OBVIOUS
  <2>3. Offset(n) = m * s /\ Offset(n + 1) = (m + 1) * s
    <3>1. n - 1 = m /\ n + 1 - 1 = m + 1
      BY <2>1
    <3>. QED  BY <1>1, <3>1 DEF Offset
  <2>. QED  BY <1>1, <2>2, <2>3
<1>4. ASSUME TotalPages(total) <= n PROVE total <= Offset(n + 1)
  <2>. DEFINE d == (total + s - 1) \div s
  <2>1. d \in Int /\ total + s - 1 < (d + 1) * s
    OBVIOUS
  <2>2. d <= n
    BY <1>1, <1>4 DEF TotalPages
  <2>. HIDE DEF d
  <2>3. (d + 1) * s = d * s + s /\ d * s \in Int /\ n * s \in Int
    BY <2>1
  <2>4. d * s <= n * s
    BY <2>1, <2>2
  <2>5. total <= n * s
    BY <2>1, <2>3, <2>4
  <2>6. Offset(n + 1) = n * s
    <3>1. n + 1 - 1 = n
      OBVIOUS
    <3>. QED  BY <1>1, <3>1 DEF Offset
  <2>. QED  BY <2>5, <2>6
<1>5. TotalPages(total) \in Int
  <2>1. (total + s - 1) \div s \in Int
    OBVIOUS
  <2>. QED  BY <1>1, <2>1 DEF TotalPages
<1>. QED  BY <1>2, <1>3, <1>4, <1>5

\* The rows of a listing.
LEMMA ShownIs == Shown \in SUBSET Ids /\ Shown \in SUBSET Nat /\ IsFiniteSet(Shown)
<1>1. Shown \in SUBSET Ids
  BY DEF Shown, Visible
<1>. QED  BY <1>1, RepositoryAssumption, FS_Subset

\* The listing has every row shown once, in order.
LEMMA ListingIs == Listing \in Seq(Nat) /\ Len(Listing) \in Nat /\ Ascends(Listing) /\ Holds(Listing, Shown)
<1>1. PICK S \in SUBSET Nat : S = Shown /\ IsFiniteSet(S)
  BY ShownIs
<1>2. Listing = Ordered(S)
  BY <1>1 DEF Listing, Shown
<1>3. Ordered(S) \in Seq(Nat) /\ Ascends(Ordered(S)) /\ Holds(Ordered(S), S)
  BY <1>1, OrderedIs
<1>. QED  BY <1>1, <1>2, <1>3

\* Before any walk there is nothing to say.
LEMMA WalkInit == RepositoryInit => WalkInv
<1>. SUFFICES ASSUME RepositoryInit PROVE WalkInv
  OBVIOUS
<1>1. walk = NoWalk
  BY DEF RepositoryInit
<1>2. walk.mode = "none" /\ walk \in WalkSet
  <2>1. <<>> \in Seq(Nat)
    OBVIOUS
  <2>. QED  BY <1>1, <2>1 DEF NoWalk, WalkSet
<1>. QED  BY <1>2 DEF WalkInv, Between, ByCursor, ByNumber

\* A step of another session that changes no row.
LEMMA WalkStays ==
  ASSUME WalkInv, walk' = walk, rows'["public"] = rows["public"]
  PROVE  WalkInv'
<1>1. Shown' = Shown /\ Listing' = Listing
  BY DEF Shown, Listing
<1>. QED  BY <1>1 DEF WalkInv, Between, ByCursor, ByNumber

\* A commit: less stayed, more was seen.
LEMMA WalkPublish ==
  ASSUME WalkInv, NEW W, Publish(W)
  PROVE  WalkInv'
<1>. DEFINE w == [walk EXCEPT !.stable = @ \cap Shown', !.seen = @ \cup Shown']
<1>1. CASE walk.mode = "none"
  <2>1. walk' = walk
    BY <1>1 DEF Publish
  <2>. QED  BY <1>1, <2>1 DEF WalkInv, Between, ByCursor, ByNumber
<1>2. CASE walk.mode # "none"
  <2>1. walk' = w
    BY <1>2 DEF Publish, Shown
  <2>2. Shown' \in SUBSET Ids
    BY DEF Shown, Visible
  <2>3. walk \in WalkSet /\ walk.stable \subseteq Shown /\ Shown \subseteq walk.seen
    BY <1>2 DEF WalkInv, Between
  <2>4. /\ walk'.mode = walk.mode /\ walk'.at = walk.at /\ walk'.total = walk.total /\ walk'.items = walk.items
        /\ walk'.stable = walk.stable \cap Shown' /\ walk'.seen = walk.seen \cup Shown'
    BY <2>1, <2>3 DEF WalkSet
  <2>5. walk' \in WalkSet
    BY <2>1, <2>2, <2>3 DEF WalkSet
  <2>6. Between'
    BY <2>4 DEF Between
  <2>7. ByCursor'
    <3>1. walk'.stable \subseteq walk.stable
      BY <2>4
    <3>2. CASE walk.mode = "cursor"
      BY <2>4, <3>1, <3>2 DEF WalkInv, ByCursor, Covers, Holds
    <3>3. CASE walk.mode = "walked"
      BY <2>4, <3>1, <3>3 DEF WalkInv, ByCursor, Holds
    <3>. QED  BY <2>4, <3>2, <3>3 DEF ByCursor
  <2>8. ByNumber'
    <3>. SUFFICES ASSUME walk'.mode \in {"count", "page", "paged"}, walk'.stable = walk'.seen
                  PROVE  /\ StartOf(walk'.items, Listing', Offset(walk'.at))
                         /\ walk'.mode = "page" => walk'.total = Len(Listing')
                         /\ walk'.mode = "paged" => Len(Listing') <= Offset(walk'.at)
      BY <2>4 DEF WalkInv, ByNumber, StartOf, Offset
    <3>1. walk.stable = walk.seen /\ Shown' = Shown
      BY <2>3, <2>4
    <3>2. Listing' = Listing
      BY <3>1 DEF Listing, Shown
    <3>. QED  BY <2>4, <3>1, <3>2 DEF WalkInv, ByNumber
  <2>. QED  BY <2>5, <2>6, <2>7, <2>8 DEF WalkInv
<1>. QED  BY <1>1, <1>2

\* The first page is still to come.
LEMMA WalkStarts ==
  ASSUME WalkInv, NEW mode \in {"count", "cursor"}, StartWalk(mode)
  PROVE  WalkInv'
<1>1. /\ walk' = [NoWalk EXCEPT !.mode = mode, !.at = IF mode = "count" THEN 1 ELSE 0,
                                !.stable = Shown, !.seen = Shown]
      /\ rows' = rows
  BY DEF StartWalk, Shown
<1>2. Shown' = Shown /\ Shown \in SUBSET Ids
  BY <1>1, ShownIs DEF Shown
<1>3. /\ walk'.mode = mode /\ walk'.at = (IF mode = "count" THEN 1 ELSE 0) /\ walk'.items = <<>>
      /\ walk'.stable = Shown /\ walk'.seen = Shown
  BY <1>1 DEF NoWalk
<1>4. walk' \in WalkSet
  <2>1. <<>> \in Seq(Nat)
    OBVIOUS
  <2>. QED  BY <1>1, <1>2, <2>1 DEF NoWalk, WalkSet
<1>5. Between'
  BY <1>2, <1>3 DEF Between
<1>6. ByCursor'
  <2>1. \A i \in Ids : ~(i <= 0)
    BY RepositoryAssumption
  <2>2. Ascends(<<>>) /\ DOMAIN <<>> = {}
    BY DEF Ascends
  <2>3. Covers(<<>>, Shown, 0)
    BY <1>2, <2>1, <2>2 DEF Covers, Holds
  <2>. QED  BY <1>3, <2>3 DEF ByCursor
<1>7. ByNumber'
  <2>1. CASE mode = "count"
    <3>1. PICK n \in Nat : n = 0
      OBVIOUS
    <3>2. Offset(1) = 0
      BY <3>1, PageNumbers
    <3>3. Listing \in Seq(Nat) /\ Len(Listing) \in Nat /\ Listing' = Listing
      BY <1>1, ListingIs DEF Listing
    <3>4. Len(<<>>) = 0 /\ StartOf(<<>>, Listing, 0)
      BY <3>3 DEF StartOf
    <3>. QED  BY <1>3, <2>1, <3>2, <3>3, <3>4 DEF ByNumber
  <2>2. CASE mode = "cursor"
    BY <1>3, <2>2 DEF ByNumber
  <2>. QED  BY <2>1, <2>2
<1>. QED  BY <1>4, <1>5, <1>6, <1>7 DEF WalkInv

\* The count of a page is that of the listing, if nothing changed.
LEMMA WalkCount ==
  ASSUME WalkInv, ListCount
  PROVE  WalkInv'
<1>1. walk.mode = "count" /\ walk' = [walk EXCEPT !.mode = "page", !.total = Len(Listing)] /\ rows' = rows
  BY DEF ListCount
<1>2. Shown' = Shown /\ Listing' = Listing /\ Len(Listing) \in Nat
  BY <1>1, ListingIs DEF Shown, Listing
<1>3. walk \in WalkSet
  BY DEF WalkInv
<1>4. walk' \in WalkSet
  BY <1>1, <1>2, <1>3 DEF WalkSet
<1>5. /\ walk'.mode = "page" /\ walk'.total = Len(Listing) /\ walk'.at = walk.at /\ walk'.items = walk.items
      /\ walk'.stable = walk.stable /\ walk'.seen = walk.seen
  BY <1>1, <1>3 DEF WalkSet
<1>6. Between' /\ ByCursor'
  BY <1>1, <1>2, <1>5 DEF WalkInv, Between, ByCursor
<1>7. ByNumber'
  BY <1>1, <1>2, <1>5 DEF WalkInv, ByNumber
<1>. QED  BY <1>4, <1>6, <1>7 DEF WalkInv

\* A page by number.
LEMMA WalkPage ==
  ASSUME WalkInv, ListPage
  PROVE  WalkInv'
<1>. DEFINE page == Slice(Listing, Offset(walk.at) + 1, Offset(walk.at) + PageSize)
<1>1. /\ walk.mode = "page" /\ rows' = rows
      /\ walk' = [walk EXCEPT !.items = @ \o page,
                              !.mode = IF walk.at < TotalPages(walk.total) THEN "count" ELSE "paged",
                              !.at = @ + 1]
  BY DEF ListPage
<1>2. Shown' = Shown /\ Listing' = Listing /\ Listing \in Seq(Nat) /\ Len(Listing) \in Nat
  BY <1>1, ListingIs DEF Shown, Listing
<1>3. walk \in WalkSet /\ walk.at \in Nat /\ walk.total \in Nat /\ walk.items \in Seq(Nat)
  BY DEF WalkInv, WalkSet
<1>. HIDE DEF page
<1>4. /\ walk'.mode = IF walk.at < TotalPages(walk.total) THEN "count" ELSE "paged"
      /\ walk'.at = walk.at + 1 /\ walk'.total = walk.total /\ walk'.items = walk.items \o page
      /\ walk'.stable = walk.stable /\ walk'.seen = walk.seen
  BY <1>1, <1>3 DEF WalkSet
<1>5. walk.at # 0 /\ Offset(walk.at) \in Nat /\ TotalPages(walk.total) \in Int
  BY <1>1, <1>3, PageNumbers DEF WalkInv, ByNumber
<1>6. walk' \in WalkSet
  <2>1. PICK a \in Nat, b \in Nat : a = Offset(walk.at) /\ b = a + PageSize /\ a <= b
    BY <1>5, RepositoryAssumption
  <2>2. page \in Seq(Nat)
    BY <1>2, <2>1, SliceIs DEF page
  <2>3. walk.items \o page \in Seq(Nat)
    BY <1>3, <2>2
  <2>4. PICK m \in {"count", "paged"} : m = IF walk.at < TotalPages(walk.total) THEN "count" ELSE "paged"
    OBVIOUS
  <2>5. PICK p : p = walk.items \o page /\ p \in Seq(Nat)
    BY <2>3
  <2>6. PICK c : c = walk.at + 1 /\ c \in Nat
    BY <1>3
  <2>7. walk' = [walk EXCEPT !.items = p, !.mode = m, !.at = c]
    BY <1>1, <2>4, <2>5, <2>6
  <2>8. m \in {"none", "count", "page", "paged", "cursor", "walked"}
    OBVIOUS
  <2>. QED  BY <1>3, <2>5, <2>6, <2>7, <2>8 DEF WalkSet
<1>7. Between' /\ ByCursor'
  BY <1>1, <1>2, <1>4 DEF WalkInv, Between, ByCursor
<1>8. ByNumber'
  <2>. SUFFICES ASSUME walk.stable = walk.seen
                PROVE  /\ StartOf(walk'.items, Listing, Offset(walk'.at))
                       /\ walk'.mode = "paged" => Len(Listing) <= Offset(walk'.at)
    BY <1>2, <1>3, <1>4 DEF ByNumber
  <2>1. StartOf(walk.items, Listing, Offset(walk.at)) /\ walk.total = Len(Listing)
    BY <1>1 DEF WalkInv, ByNumber
  <2>2. /\ Offset(walk.at) \in Nat /\ Offset(walk.at + 1) = Offset(walk.at) + PageSize
        /\ TotalPages(walk.total) <= walk.at => walk.total <= Offset(walk.at + 1)
    BY <1>3, <1>5, PageNumbers
  <2>3. StartOf(walk.items \o page, Listing, Offset(walk.at) + PageSize)
    BY <1>2, <1>3, <2>1, <2>2, NumberStep DEF page
  <2>4. walk'.mode = "paged" => TotalPages(walk.total) <= walk.at
    BY <1>3, <1>4, <1>5
  <2>. QED  BY <1>4, <2>1, <2>2, <2>3, <2>4
<1>. QED  BY <1>6, <1>7, <1>8 DEF WalkInv

\* A page by cursor.
LEMMA WalkCursor ==
  ASSUME WalkInv, CursorPage
  PROVE  WalkInv'
<1>. DEFINE T == {i \in Shown : i > walk.at}
            fetched == Slice(Ordered(T), 1, PageSize + 1)
            page == Slice(fetched, 1, PageSize)
            more == Len(fetched) > PageSize
<1>1. /\ walk.mode = "cursor" /\ rows' = rows
      /\ walk' = [walk EXCEPT !.items = @ \o page,
                              !.mode = IF more THEN "cursor" ELSE "walked",
                              !.at = IF more THEN NextCursor(fetched) ELSE @]
  BY DEF CursorPage, Shown
<1>2. Shown' = Shown /\ Shown \in SUBSET Nat /\ IsFiniteSet(Shown)
  BY <1>1, ShownIs DEF Shown
<1>3. walk \in WalkSet /\ walk.at \in Nat /\ walk.items \in Seq(Nat) /\ walk.stable \subseteq Shown
  BY <1>1 DEF WalkInv, WalkSet, Between
<1>4. Covers(walk.items, walk.stable, walk.at)
  BY <1>1 DEF WalkInv, ByCursor
<1>5. T \in SUBSET Nat /\ IsFiniteSet(T)
  BY <1>2, FS_Subset
<1>. HIDE DEF T
<1>6. IsPage(page, T)
  BY <1>5 DEF IsPage
<1>7. /\ walk.items \o page \in Seq(Nat) /\ Ascends(walk.items \o page)
      /\ ~more => Holds(walk.items \o page, walk.stable)
      /\ more => NextCursor(fetched) \in Nat /\ Covers(walk.items \o page, walk.stable, NextCursor(fetched))
  <2>1. PICK V \in SUBSET Nat : V = Shown
    BY <1>2
  <2>2. PICK S \in SUBSET V : S = walk.stable
    BY <1>3, <2>1
  <2>3. PICK items \in Seq(Nat), c \in Nat : items = walk.items /\ c = walk.at
    BY <1>3
  <2>4. T = {i \in V : i > c} /\ Covers(items, S, c) /\ IsFiniteSet(V)
    BY <1>2, <1>4, <2>1, <2>2, <2>3 DEF T
  <2>5. /\ items \o page \in Seq(Nat) /\ Ascends(items \o page)
        /\ Len(fetched) <= PageSize => Holds(items \o page, S)
        /\ Len(fetched) > PageSize =>
             LET d == NextCursor(fetched) IN d \in Nat /\ Covers(items \o page, S, d)
    BY <1>6, <2>4, CursorStep
  <2>6. more \/ Len(fetched) <= PageSize
    <3>1. Len(fetched) \in Nat
      BY <1>6, PageIs
    <3>. HIDE DEF fetched
    <3>. QED  BY <3>1, RepositoryAssumption
  <2>. QED  BY <2>2, <2>3, <2>5, <2>6
<1>. HIDE DEF page, more, fetched
<1>8. /\ walk'.mode = (IF more THEN "cursor" ELSE "walked") /\ walk'.items = walk.items \o page
      /\ walk'.at = (IF more THEN NextCursor(fetched) ELSE walk.at)
      /\ walk'.stable = walk.stable /\ walk'.seen = walk.seen
  BY <1>1, <1>3 DEF WalkSet
<1>9. walk' \in WalkSet
  BY <1>1, <1>3, <1>7 DEF WalkSet
<1>10. Between' /\ ByNumber'
  BY <1>1, <1>2, <1>8 DEF WalkInv, Between, ByNumber
<1>11. ByCursor'
  BY <1>7, <1>8 DEF ByCursor
<1>. QED  BY <1>9, <1>10, <1>11 DEF WalkInv

\* Every step keeps the invariant of the walks.
LEMMA WalkNext == WalkInv /\ [RepositoryNext]_repositoryVars => WalkInv'
<1>. SUFFICES ASSUME WalkInv, [RepositoryNext]_repositoryVars PROVE WalkInv'
  OBVIOUS
<1>1. ASSUME Tenant PROVE WalkInv'
  <2>1. walk' = walk /\ rows'["public"] = rows["public"]
    BY <1>1 DEF Tenant, Schemas
  <2>. QED  BY <2>1, WalkStays
<1>2. ASSUME NEW s \in Sessions, Save(s) \/ Rollback(s) \/ Fail(s) PROVE WalkInv'
  <2>1. walk' = walk /\ rows' = rows
    BY <1>2 DEF Save, Rollback, Fail, Statement, rvars
  <2>. QED  BY <2>1, WalkStays
<1>3. ASSUME NEW s \in Sessions, NEW i \in Ids,
             \/ Get(s, i)
             \/ \E hard \in BOOLEAN : Delete(s, i, hard)
             \/ \E t \in Tenants : Add(s, i, t)
      PROVE  WalkInv'
  <2>1. walk' = walk /\ rows' = rows
    BY <1>3 DEF Get, Delete, Add, Statement
  <2>. QED  BY <2>1, WalkStays
<1>4. ASSUME NEW s \in Sessions, Commit(s) PROVE WalkInv'
  <2>1. Publish(staged[s]) \/ (rows' = rows /\ walk' = walk)
    BY <1>4 DEF Commit
  <2>. QED  BY <2>1, WalkPublish, WalkStays
<1>5. ASSUME NEW mode \in {"count", "cursor"}, StartWalk(mode) PROVE WalkInv'
  BY <1>5, WalkStarts
<1>6. ASSUME UNCHANGED repositoryVars PROVE WalkInv'
  <2>1. walk' = walk /\ rows' = rows
    BY <1>6 DEF repositoryVars, rvars
  <2>. QED  BY <2>1, WalkStays
<1>7. ASSUME ListCount \/ ListPage \/ CursorPage PROVE WalkInv'
  BY <1>7, WalkCount, WalkPage, WalkCursor
<1>. QED  BY <1>1, <1>2, <1>3, <1>4, <1>5, <1>6, <1>7, Zenon DEF RepositoryNext

\* A row that an ascending sequence holds is in it once.
LEMMA CountOne ==
  ASSUME NEW seq \in Seq(Nat), Ascends(seq), NEW S, Holds(seq, S), NEW i \in S
  PROVE  Count(seq, i) = 1
<1>. DEFINE N == {n \in DOMAIN seq : seq[n] = i}
<1>1. PICK n \in DOMAIN seq : seq[n] = i
  BY DEF Holds
<1>2. ASSUME NEW m \in DOMAIN seq, seq[m] = i PROVE m = n
  <2>1. m \in Nat /\ n \in Nat /\ i \in Nat
    BY <1>1
  <2>2. ~(m < n) /\ ~(n < m)
    BY <1>1, <1>2, <2>1 DEF Ascends
  <2>. QED  BY <2>1, <2>2
<1>3. N = {n}
  BY <1>1, <1>2
<1>. QED  BY <1>3, FS_Singleton DEF Count

\* The invariant of the walks gives completeness.
LEMMA WalkIsComplete == WalkInv => WalkComplete
<1>. SUFFICES ASSUME WalkInv, NEW i \in walk.stable,
                     walk.mode = "walked" \/ (walk.mode = "paged" /\ walk.stable = walk.seen)
              PROVE  Count(walk.items, i) = 1
  BY DEF WalkComplete
<1>1. walk.items \in Seq(Nat)
  BY DEF WalkInv, WalkSet
<1>2. CASE walk.mode = "walked"
  <2>1. Ascends(walk.items) /\ Holds(walk.items, walk.stable)
    BY <1>2 DEF WalkInv, ByCursor
  <2>. QED  BY <1>1, <2>1, CountOne
<1>3. CASE walk.mode = "paged" /\ walk.stable = walk.seen
  <2>1. /\ StartOf(walk.items, Listing, Offset(walk.at)) /\ Len(Listing) <= Offset(walk.at)
        /\ walk.stable = Shown /\ walk.at # 0 /\ walk.at \in Nat
    BY <1>3 DEF WalkInv, WalkSet, ByNumber, Between
  <2>2. Offset(walk.at) \in Nat
    <3>1. PICK total \in Nat : total = 0
      OBVIOUS
    <3>. QED  BY <2>1, PageNumbers
  <2>3. Listing \in Seq(Nat) /\ Len(Listing) \in Nat /\ Ascends(Listing) /\ Holds(Listing, Shown)
    BY ListingIs
  <2>4. Len(walk.items) = Len(Listing)
    BY <2>1, <2>2, <2>3 DEF StartOf
  <2>5. walk.items = Listing
    <3>1. PICK p \in Seq(Nat), q \in Seq(Nat) : p = walk.items /\ q = Listing
      BY <1>1, <2>3
    <3>2. Len(p) = Len(q) /\ \A n \in 1 .. Len(p) : p[n] = q[n]
      BY <2>1, <2>4, <3>1 DEF StartOf
    <3>. QED  BY <3>1, <3>2, SeqEqual
  <2>. QED  BY <2>1, <2>3, <2>5, CountOne
<1>. QED  BY <1>2, <1>3

\* Repository.list and build_cursor_page: however many rows, sessions and pages, whatever is
\* committed while a client walks: by cursors it gets every row that stayed exactly once, by
\* page numbers it does if nothing changed.
THEOREM WalksAreComplete == RepositorySpec => []WalkComplete
<1>1. RepositorySpec => []WalkInv
  BY WalkInit, WalkNext, PTL DEF RepositorySpec
<1>. QED  BY <1>1, WalkIsComplete, PTL

-----------------------------------------------------------------------------
(* Requests with one idempotency key                                       *)

Hashes == [fp : Payloads \cup {NoFp}, status : {"in_progress", "completed"},
           response : Values \cup {Null}, ttl : BOOLEAN]

Types ==
  /\ key \in Hashes \cup {NoKey}
  /\ pc \in [Requests -> PCs]
  /\ answer \in [Requests -> Answers]
  /\ value \in [Requests -> Values \cup {Null}]
  /\ claimed \in SUBSET Requests
  /\ ran \in SUBSET Requests
  /\ succeeded \in SUBSET Requests
  /\ expired \in {"never", "idle", "overrun"}

\* What a request has done agrees with where it is: its value is final once its handler
\* has succeeded or it was answered.
Progress ==
  \A r \in Requests :
    /\ answer[r] # "none" => pc[r] = "end"
    /\ r \in ran => pc[r] \notin {"new", "claimed"}
    /\ pc[r] = "handler" => r \in ran
    /\ r \in succeeded => pc[r] \in {"hset", "expire", "end"}
    /\ pc[r] \in {"hset", "expire"} => r \in succeeded

\* Unless the key expired under a running request, every request past its claim has the
\* body the key was claimed for, and a stored response is the result of such a run.
KeyOwned ==
  expired # "overrun" =>
    /\ key = NoKey => \A r \in Requests : ~Running(r)
    /\ key # NoKey =>
         /\ \A r \in Requests : Running(r) => Payload[r] = key.fp
         /\ \E q \in claimed : Payload[q] = key.fp
         /\ key.status = "completed" =>
              \E q \in succeeded : value[q] = key.response /\ Payload[q] = key.fp

\* A request was told that it may run the handler.
Started(r) == r \in ran \/ pc[r] = "claimed"

\* Only expiry removes the key.
KeyStays == expired = "never" /\ key = NoKey => \A r \in Requests : ~Started(r)

\* Before any expiry two requests are told to run the handler only after a null response.
OneStarts ==
  expired = "never" =>
    \A r, s \in Requests : Started(r) /\ Started(s) /\ r # s => \E q \in succeeded : value[q] = Null

\* The inductive invariant.
IInv == Types /\ Progress /\ KeyOwned /\ KeyStays /\ OneStarts /\ AnswersJustified

USE IdempotencyAssumption

\* An absent key is told apart from every hash.
LEMMA NoKeyIsNoHash == NoKey \notin Hashes
  BY DEF Hashes

\* The initial states satisfy the inductive invariant.
LEMMA InitIInv == Init => IInv
  BY DEF Init, IInv, Types, Progress, KeyOwned, KeyStays, OneStarts, Started, AnswersJustified, Running,
         PCs, Answers, Hashes

\* A claim makes the key the claimant's own: nobody else is running unless it expired.
LEMMA ClaimStep ==
  ASSUME IInv, NEW r \in Requests, Claim(r) PROVE IInv'
<1>. USE DEF IInv, Progress, KeyOwned, KeyStays, OneStarts, Started, AnswersJustified, Running
<1>1. /\ pc[r] = "new" /\ key = NoKey /\ key' = Claimed(r) /\ pc' = [pc EXCEPT ![r] = "claimed"]
      /\ claimed' = claimed \cup {r} /\ ran' = ran /\ answer' = answer /\ value' = value /\ succeeded' = succeeded
      /\ expired' = expired
  BY DEF Claim, SetClaim, Claims
<1>2. key' \in Hashes /\ key' # NoKey /\ key'.fp = Payload[r] /\ key'.status = "in_progress"
  <2>1. Claimed(r) \in Hashes
    BY DEF Claimed, Hashes
  <2>2. Claimed(r).fp = Payload[r] /\ Claimed(r).status = "in_progress"
    BY DEF Claimed
  <2>. QED  BY <1>1, <2>1, <2>2, NoKeyIsNoHash
<1>3. Types'
  BY <1>1, <1>2 DEF Types, PCs
<1>4. Progress'
  BY <1>1 DEF Types
<1>5. KeyOwned' /\ KeyStays'
  BY <1>1, <1>2 DEF Types
<1>6. OneStarts' /\ AnswersJustified'
  BY <1>1 DEF Types
<1>. QED  BY <1>3, <1>4, <1>5, <1>6

\* The answers of begin() that run nothing.
LEMMA RefuseStep ==
  ASSUME IInv, NEW r \in Requests, Mismatch(r) \/ InProgress(r) PROVE IInv'
<1>. USE DEF IInv, Types, Progress, KeyOwned, KeyStays, OneStarts, Started, AnswersJustified, Running, Answer,
             PCs, Answers
<1>1. CASE Mismatch(r)
  BY <1>1 DEF Mismatch, Mismatches
<1>2. CASE InProgress(r)
  BY <1>2 DEF InProgress
<1>. QED  BY <1>1, <1>2

\* An error of Redis runs nothing, whether or not the script has written a claim.
LEMMA UnavailableStep ==
  ASSUME IInv, NEW r \in Requests, Unavailable(r) PROVE IInv'
<1>. USE DEF IInv, Progress, KeyOwned, KeyStays, OneStarts, Started, AnswersJustified, Running, Answer
<1>1. /\ pc[r] = "new" /\ pc' = [pc EXCEPT ![r] = "end"] /\ answer' = [answer EXCEPT ![r] = "unavailable"]
      /\ UNCHANGED <<value, ran, succeeded, expired>>
  BY DEF Unavailable
<1>2. CASE UNCHANGED <<key, claimed>>
  BY <1>1, <1>2 DEF Types, PCs, Answers
<1>3. CASE SetClaim(r)
  <2>1. Claimed(r) \in Hashes
    BY DEF Claimed, Hashes
  <2>2. Claimed(r).fp = Payload[r] /\ Claimed(r).status = "in_progress"
    BY DEF Claimed
  <2>3. key = NoKey /\ key' \in Hashes /\ key' # NoKey /\ key'.fp = Payload[r] /\ key'.status = "in_progress"
    BY <1>3, <2>1, <2>2, NoKeyIsNoHash DEF SetClaim, Claims
  <2>4. claimed' = claimed \cup {r}
    BY <1>3 DEF SetClaim
  <2>. QED  BY <1>1, <2>3, <2>4 DEF Types, PCs, Answers
<1>. QED  BY <1>2, <1>3 DEF Unavailable

\* A stored response is returned, or, when it is null, the handler runs once more.
LEMMA ReplayStep ==
  ASSUME IInv, NEW r \in Requests, Replay(r) PROVE IInv'
<1>. USE DEF IInv, Types, Progress, KeyOwned, KeyStays, OneStarts, Started, AnswersJustified, Running, Answer,
             PCs, Answers, Matches
<1>1. key \in Hashes /\ key.response \in Values \cup {Null}
  BY DEF Replay, Hashes
<1>2. CASE key.response # Null
  BY <1>1, <1>2 DEF Replay
<1>3. CASE key.response = Null
  BY <1>1, <1>3 DEF Replay
<1>. QED  BY <1>2, <1>3

\* The handler is called and returns.
LEMMA HandlerStep ==
  ASSUME IInv, NEW r \in Requests,
         StartHandler(r) \/ HandlerFails(r) \/ \E v \in Values \cup {Null} : HandlerSucceeds(r, v)
  PROVE  IInv'
<1>. USE DEF IInv, Types, Progress, KeyOwned, KeyStays, OneStarts, Started, AnswersJustified, Running, Answer,
             PCs, Answers
<1>1. CASE HandlerFails(r)
  BY <1>1 DEF HandlerFails
<1>2. ASSUME NEW v \in Values \cup {Null}, HandlerSucceeds(r, v) PROVE IInv'
  BY <1>2 DEF HandlerSucceeds
<1>3. CASE StartHandler(r)
  BY <1>3 DEF StartHandler
<1>. QED  BY <1>1, <1>2, <1>3

\* complete(): the response stored is the one of the request that stores it.
LEMMA CompleteStep ==
  ASSUME IInv, NEW r \in Requests, HSet(r) \/ SetTtl(r) PROVE IInv'
<1>. USE DEF IInv, Progress, KeyOwned, KeyStays, OneStarts, Started, AnswersJustified, Running, Answer
<1>1. CASE HSet(r)
  <2>1. key' \in Hashes /\ key' # NoKey /\ key'.status = "completed" /\ key'.response = value[r]
        /\ (key # NoKey => key'.fp = key.fp)
    <3>1. value[r] \in Values \cup {Null} /\ key' = Completed(r)
      BY <1>1 DEF HSet, Types
    <3>2. CASE key = NoKey
      <4>1. Completed(r) = [fp |-> NoFp, status |-> "completed", response |-> value[r], ttl |-> FALSE]
        BY <3>2 DEF Completed
      <4>2. Completed(r) \in Hashes
        BY <3>1, <4>1 DEF Hashes
      <4>3. Completed(r).status = "completed" /\ Completed(r).response = value[r]
        BY <4>1
      <4>. QED  BY <3>1, <3>2, <4>2, <4>3, NoKeyIsNoHash
    <3>3. CASE key # NoKey
      <4>1. key \in Hashes /\ Completed(r) = [key EXCEPT !.status = "completed", !.response = value[r]]
        BY <3>3 DEF Completed, Types
      <4>2. Completed(r) \in Hashes
        BY <3>1, <4>1 DEF Hashes
      <4>3. Completed(r).status = "completed" /\ Completed(r).response = value[r] /\ Completed(r).fp = key.fp
        BY <4>1 DEF Hashes
      <4>. QED  BY <3>1, <4>2, <4>3, NoKeyIsNoHash
    <3>. QED  BY <3>2, <3>3
  <2>2. /\ pc[r] = "hset" /\ pc' = [pc EXCEPT ![r] = "expire"]
        /\ UNCHANGED <<answer, value, claimed, ran, succeeded, expired>>
    BY <1>1 DEF HSet
  <2>. QED  BY <2>1, <2>2 DEF Types, PCs
<1>2. CASE SetTtl(r)
  <2>1. /\ key = NoKey <=> key' = NoKey
        /\ key # NoKey => /\ key' \in Hashes /\ key'.fp = key.fp /\ key'.status = key.status
                          /\ key'.response = key.response
    BY <1>2 DEF SetTtl, Hashes, Types
  <2>2. /\ pc[r] = "expire" /\ Answer(r, "success") /\ UNCHANGED <<value, claimed, ran, succeeded, expired>>
    BY <1>2 DEF SetTtl
  <2>. QED  BY <2>1, <2>2 DEF Types, PCs, Answers
<1>. QED  BY <1>1, <1>2

\* Failures and expiry.
LEMMA FaultStep ==
  ASSUME IInv, Expire \/ Finished \/ \E r \in Requests : CompleteFails(r) \/ Crash(r) PROVE IInv'
<1>. USE DEF IInv, Types, Progress, KeyOwned, KeyStays, OneStarts, Started, AnswersJustified, Running, Answer,
             PCs, Answers
<1>1. CASE Expire
  BY <1>1 DEF Expire
<1>2. CASE Finished
  BY <1>2 DEF Finished, vars
<1>3. ASSUME NEW r \in Requests, CompleteFails(r) PROVE IInv'
  BY <1>3 DEF CompleteFails
<1>4. ASSUME NEW r \in Requests, Crash(r) PROVE IInv'
  BY <1>4 DEF Crash
<1>. QED  BY <1>1, <1>2, <1>3, <1>4

\* Every step preserves the inductive invariant.
LEMMA NextIInv == IInv /\ [Next]_vars => IInv'
<1>. SUFFICES ASSUME IInv, [Next]_vars PROVE IInv'
  OBVIOUS
<1>1. CASE UNCHANGED vars
  BY <1>1 DEF vars, IInv, Types, Progress, KeyOwned, KeyStays, OneStarts, Started, AnswersJustified, Running
<1>2. ASSUME NEW r \in Requests, Step(r) PROVE IInv'
  BY <1>2, ClaimStep, RefuseStep, ReplayStep, HandlerStep, CompleteStep DEF Step
<1>. QED  BY <1>1, <1>2, UnavailableStep, FaultStep DEF Next

\* The inductive invariant holds in every reachable state.
THEOREM Invariance == Spec => []IInv
  BY InitIInv, NextIInv, PTL DEF Spec

\* Within the TTL the handler runs once per key, however the requests interleave and fail,
\* unless a null response was stored: the Lua script of IdempotencyStore.begin.
THEOREM RunsOnce == Spec => []AtMostOneRun
<1>1. IInv => AtMostOneRun
  BY DEF IInv, Types, OneStarts, Started, AtMostOneRun
<1>. QED  BY <1>1, Invariance, PTL

\* Unless the key expires under a running request, a replay is the response of a successful
\* run of the same body, and a body is refused only because a request with another body has
\* claimed the key, which it may have done without running (a lost reply, a crash).
THEOREM AnswersAreJustified == Spec => []AnswersJustified
<1>1. IInv => AnswersJustified
  BY DEF IInv
<1>. QED  BY <1>1, Invariance, PTL
=============================================================================
