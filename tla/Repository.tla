----------------------------- MODULE Repository ------------------------------
(***************************************************************************)
(* Repository[TEntity] on the sessions of Tenancy: get, add, save,         *)
(* soft_delete, hard_delete and list, in read-committed transactions, and  *)
(* clients that walk through a listing page by page.                       *)
(*                                                                         *)
(* A row is [version, tenant, deleted, saves, reused]; saves is the        *)
(* history of the saves whose content it holds, reused says that an entity *)
(* that outlived the rollback of its save was saved again.  Ids are        *)
(* numbers in the listing's order.                                         *)
(***************************************************************************)
EXTENDS Tenancy, Sequences, FiniteSetsExt, SequencesExt

CONSTANTS
  Ids,
  PageSize,
  MaxTxns,       \* bound on the transactions begun
  MaxVersion     \* bound on the version of a row

RowSet ==
  [version : Nat, tenant : Tenants, deleted : BOOLEAN, saves : SUBSET Sessions, reused : BOOLEAN]

ASSUME RepositoryAssumption ==
  /\ Ids \in SUBSET (Nat \ {0}) /\ Ids # {} /\ IsFiniteSet(Ids) /\ PageSize \in Nat \ {0}
  /\ None \notin RowSet /\ None \notin [id : Ids, row : RowSet]

VARIABLES
  rows,       \* [Schemas -> [Ids -> row or None]]: committed
  staged,     \* [Sessions -> SUBSET [at, id, row]]: the write, if any, of the open transaction
  ent,        \* [Sessions -> [id, row] or None]: the entity a handler holds
  workedOn,   \* [Sessions -> Schemas or None]: history: where the first transaction of a
              \* schema session had its last statement while the schema existed
  walk,       \* a client walking through the pages
  used,       \* ids that were ever inserted
  committed   \* [Conns -> SUBSET (Tenants \cup {None})]: history: sessions that committed there

rvars == <<rows, staged, ent, workedOn, walk, used, committed>>
repositoryVars == <<tvars, rvars>>

NewRow(t) == [version |-> 1, tenant |-> t, deleted |-> FALSE, saves |-> {}, reused |-> FALSE]
NoWalk == [mode |-> "none", at |-> 0, total |-> 0, items |-> <<>>, stable |-> {}, seen |-> {}]

RepositoryInit ==
  /\ TenancyInit
  /\ used = Ids \ {Max(Ids)}
  /\ \E t \in Tenants : rows = [p \in Schemas |-> [i \in Ids |->
       IF p = "public" /\ i \in used THEN NewRow(t) ELSE None]]
  /\ staged = [s \in Sessions |-> {}]
  /\ ent = [s \in Sessions |-> None]
  /\ workedOn = [s \in Sessions |-> None] /\ walk = NoWalk
  /\ committed = [c \in Conns |-> {}]

-----------------------------------------------------------------------------
(* Statements                                                              *)

\* A write of another transaction that has not ended: the row is locked.
Locked(s, p, i) == \E u \in Sessions \ {s} : \E w \in staged[u] : w.at = p /\ w.id = i

\* What a statement of s sees of a row: its own write, else the last commit.
RowFor(s, p, i) ==
  IF \E w \in staged[s] : w.at = p /\ w.id = i THEN (CHOOSE w \in staged[s] : TRUE).row ELSE rows[p][i]

\* _scope_query: not deleted, and of the tenant in the context if there is one.
InScope(s, row) == ~row.deleted /\ (sess[s].tenant # None => row.tenant = sess[s].tenant)

\* Transactions begun, the client's that walks through the pages counted as one.
Begun(n) ==
  Cardinality({x \in Sessions \X (1 .. MaxTxns + 1) : x[2] <= n[x[1]]}) + (IF walk.mode = "none" THEN 0 ELSE 1)

\* A statement of s on connection c, on the tables of schema p.
Statement(s, c, p) ==
  /\ sess[s].state = "open"
  /\ c \in ConnFor(s) /\ ~aborted[c]
  /\ p = TableSchema(IF sess[s].conn = None THEN path[c] ELSE txPath[c])
  /\ sess' = [sess EXCEPT ![s].conn = c]
  /\ Begins(s) /\ Begun(txns') <= MaxTxns
  /\ workedOn' = [workedOn EXCEPT ![s] =
       IF sess[s].kind = "schema" /\ txns'[s] = 1 /\ sess[s].tenant \in schemas THEN p ELSE @]
  /\ UNCHANGED <<pool, schemas, changes, rows, walk, committed>>

\* get, then the handler changes what it was given.
Get(s, i) ==
  \E c \in Conns, p \in Schemas :
    /\ Statement(s, c, p)
    /\ LET row == RowFor(s, p, i) IN
         ent' = [ent EXCEPT ![s] = IF row # None /\ InScope(s, row)
                                   THEN [id |-> i, row |-> row] ELSE None]
    /\ UNCHANGED <<staged, used>>

\* add: a fresh id.  The entity's own tenant_id is written: its dict always has the key.
Add(s, i, t) ==
  \E c \in Conns, p \in Schemas :
    /\ i \notin used /\ staged[s] = {}
    /\ Statement(s, c, p)
    /\ used' = used \cup {i}
    /\ staged' = [staged EXCEPT ![s] = {[at |-> p, id |-> i, row |-> NewRow(t)]}]
    /\ UNCHANGED ent

\* Mutant of VersionMatches: the UPDATE does not compare versions.
VersionMatchesAlways(e, row) == TRUE

\* WHERE id = ... AND version = current_version: neither tenant nor deleted_at.
VersionMatches(e, row) == row.version = e.row.version

\* save: every column of the entity, the version plus one.
Save(s) ==
  \E c \in Conns, p \in Schemas :
    /\ ent[s] # None
    /\ LET e == ent[s]
           row == RowFor(s, p, e.id)
           new == [e.row EXCEPT !.version = @ + 1, !.saves = @ \cup {s}]
       IN /\ \A w \in staged[s] : w.at = p /\ w.id = e.id
          /\ ~Locked(s, p, e.id) /\ new.version <= MaxVersion
          /\ Statement(s, c, p)
          /\ IF row # None /\ VersionMatches(e, row)
             THEN /\ staged' = [staged EXCEPT ![s] = {[at |-> p, id |-> e.id, row |-> new]}]
                  /\ ent' = [ent EXCEPT ![s].row = new]
             ELSE UNCHANGED <<staged, ent>>
    /\ UNCHANGED used

\* soft_delete and hard_delete: by id alone.
Delete(s, i, hard) ==
  \E c \in Conns, p \in Schemas :
    /\ staged[s] = {} /\ ~Locked(s, p, i)
    /\ Statement(s, c, p)
    /\ LET row == rows[p][i] IN
         staged' = [staged EXCEPT ![s] =
           IF row # None /\ (hard \/ ~row.deleted)
           THEN {[at |-> p, id |-> i, row |-> IF hard THEN None ELSE [row EXCEPT !.deleted = TRUE]]}
           ELSE {}]
    /\ UNCHANGED <<ent, used>>

-----------------------------------------------------------------------------
(* Ends of transactions                                                    *)

Visible(table) == {i \in Ids : table[i] # None /\ ~table[i].deleted}

\* What a commit does to the rows and to what walkers may rely on.
Publish(W) ==
  /\ rows' = [p \in Schemas |-> [i \in Ids |->
       IF \E w \in W : w.at = p /\ w.id = i THEN (CHOOSE w \in W : TRUE).row ELSE rows[p][i]]]
  /\ walk' = IF walk.mode = "none" THEN walk
             ELSE [walk EXCEPT !.stable = @ \cap Visible(rows'["public"]),
                               !.seen = @ \cup Visible(rows'["public"])]

\* The write is gone, the entity in memory keeps the version save() gave it.
Unsaved(s) ==
  [ent EXCEPT ![s] = IF @ # None /\ \E w \in staged[s] : w.id = @.id /\ w.row = @.row
                     THEN [@ EXCEPT !.row.reused = TRUE] ELSE @]

\* A statement has failed: COMMIT rolls back.
Commit(s) ==
  /\ CommitTx(s)
  /\ IF aborted[sess[s].conn]
     THEN ent' = Unsaved(s) /\ UNCHANGED <<rows, walk>>
     ELSE Publish(staged[s]) /\ UNCHANGED ent
  /\ staged' = [staged EXCEPT ![s] = {}]
  /\ committed' = [committed EXCEPT ![sess[s].conn] = IF aborted[sess[s].conn] THEN @ ELSE @ \cup {sess[s].tenant}]
  /\ UNCHANGED <<workedOn, used>>

Rollback(s) ==
  /\ RollbackTx(s)
  /\ staged' = [staged EXCEPT ![s] = {}]
  /\ ent' = Unsaved(s)
  /\ UNCHANGED <<rows, workedOn, walk, used, committed>>

Fail(s) ==
  /\ StatementFails(s) /\ ~aborted[sess[s].conn]
  /\ UNCHANGED rvars

\* Opening and closing sessions, and DROP SCHEMA ... CASCADE.
Tenant ==
  /\ TenancyNext
  /\ staged' = [s \in Sessions |-> IF sess[s].conn # None /\ sess'[s].conn = None THEN {} ELSE staged[s]]
  /\ rows' = [p \in Schemas |-> IF p = "public" \/ p \in schemas' THEN rows[p] ELSE [i \in Ids |-> None]]
  /\ UNCHANGED <<ent, workedOn, walk, used, committed>>

-----------------------------------------------------------------------------
(* Pages                                                                   *)

Slice(seq, from, to) == SubSeq(seq, from, Min({to, Len(seq)}))

\* ORDER BY
Ordered(S) ==
  CHOOSE seq \in [1 .. Cardinality(S) -> S] : \A m, n \in DOMAIN seq : m < n => seq[m] < seq[n]

Listing == Ordered(Visible(rows["public"]))

\* OffsetPagination.offset
Offset(page) == (page - 1) * PageSize

\* OffsetPage.total_pages
TotalPages(total) == (total + PageSize - 1) \div PageSize

StartWalk(mode) ==
  /\ walk.mode = "none" /\ Change /\ Begun(txns) < MaxTxns
  /\ walk' = [NoWalk EXCEPT !.mode = mode, !.at = IF mode = "count" THEN 1 ELSE 0,
                            !.stable = Visible(rows["public"]), !.seen = Visible(rows["public"])]
  /\ UNCHANGED <<pool, sess, txns, schemas, rows, staged, ent, workedOn, used, committed>>

\* list: the count, a statement of its own.
ListCount ==
  /\ walk.mode = "count"
  /\ walk' = [walk EXCEPT !.mode = "page", !.total = Len(Listing)]
  /\ UNCHANGED <<tvars, rows, staged, ent, workedOn, used, committed>>

\* list: the rows of the page; the client goes on while has_next.
ListPage ==
  /\ walk.mode = "page"
  /\ LET items == Slice(Listing, Offset(walk.at) + 1, Offset(walk.at) + PageSize) IN
       walk' = [walk EXCEPT !.items = @ \o items,
                            !.mode = IF walk.at < TotalPages(walk.total) THEN "count" ELSE "paged",
                            !.at = @ + 1]
  /\ UNCHANGED <<tvars, rows, staged, ent, workedOn, used, committed>>

\* Mutant of NextCursor: the cursor is taken from the extra row.
NextCursorOfExtra(fetched) == Last(fetched)

\* The cursor points at the last row yielded.
NextCursor(fetched) == fetched[PageSize]

\* build_cursor_page on PageSize + 1 rows after the cursor.
CursorPage ==
  /\ walk.mode = "cursor"
  /\ LET fetched == Slice(Ordered({i \in Visible(rows["public"]) : i > walk.at}), 1, PageSize + 1)
         hasNext == Len(fetched) > PageSize
     IN walk' = [walk EXCEPT !.items = @ \o Slice(fetched, 1, PageSize),
                             !.mode = IF hasNext THEN "cursor" ELSE "walked",
                             !.at = IF hasNext THEN NextCursor(fetched) ELSE @]
  /\ UNCHANGED <<tvars, rows, staged, ent, workedOn, used, committed>>

-----------------------------------------------------------------------------

RepositoryNext ==
  \/ Tenant
  \/ \E s \in Sessions : Save(s) \/ Commit(s) \/ Rollback(s) \/ Fail(s)
  \/ \E s \in Sessions, i \in Ids : Get(s, i) \/ \E hard \in BOOLEAN : Delete(s, i, hard)
  \/ \E s \in Sessions, i \in Ids, t \in Tenants : Add(s, i, t)
  \/ \E mode \in {"count", "cursor"} : StartWalk(mode)
  \/ ListCount \/ ListPage \/ CursorPage

RepositorySpec == RepositoryInit /\ [][RepositoryNext]_repositoryVars

-----------------------------------------------------------------------------
(* Properties                                                              *)

\* No committed save is overwritten by one that does not contain it, also when the row was
\* soft-deleted in between (which leaves the version alone), with one exception: save() bumps
\* the version of the entity before the commit, so an entity that is used again after a
\* rollback passes for one read from the row another transaction has saved since.
LostOnlyByReuse ==
  [][\A p \in Schemas, i \in Ids :
       rows[p][i] # None /\ rows'[p][i] # None /\ ~rows'[p][i].reused
         => rows[p][i].saves \subseteq rows'[p][i].saves]_repositoryVars

\* In its first transaction a schema session works on its own tenant's tables, whatever the
\* pooled connection was used for before, and a connection is left with a tenant's search_path
\* only if a schema session of that tenant committed on it (the reset is rolled back).
PathContained ==
  /\ \A s \in Sessions : workedOn[s] \in {None, sess[s].tenant}
  /\ \A c \in Conns : path[c] \in committed[c] \cup {"public"}

Count(seq, i) == Cardinality({n \in DOMAIN seq : seq[n] = i})

\* A client that follows cursors gets every row that was there all the time exactly once,
\* although others come and go; one that follows page numbers does if nothing changed.
WalkComplete ==
  walk.mode = "walked" \/ (walk.mode = "paged" /\ walk.stable = walk.seen)
    => \A i \in walk.stable : Count(walk.items, i) = 1

=============================================================================
