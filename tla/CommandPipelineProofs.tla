------------------------ MODULE CommandPipelineProofs ------------------------
(***************************************************************************)
(* What the unit of work guarantees for any number of commands, rows,      *)
(* attempts, handlers and behaviors, whatever fails: committed writes of a *)
(* row form one chain, the outbox has the events of exactly the committed  *)
(* commands, of each those of one instance, and every handler finds the    *)
(* unit of work of its own command.                                        *)
(***************************************************************************)
EXTENDS CommandPipeline, TLAPS

PCs == {"start", "load", "save", "return", "failed", "dispatch", "await", "sql", "rollback", "end"}
Results == {"none", "success", "raised", "rejected", "conflict", "infra"}
Marks == {"Logging", "Tracing", "Metrics"} \X {"success", "raised", "failure"}
Writes == [cmd : Commands, row : Rows, base : Nat, to : Nat]

CmdSet ==
  [pc : PCs, result : Results, row : Rows, attempt : 1 .. MaxAttempts, loaded : Nat, dirty : Nat,
   basis : Nat, pending : SUBSET Instances, tracked : SUBSET Instances, drained : SUBSET Instances,
   broken : BOOLEAN, at : Nat, errors : BOOLEAN, child : Commands \cup {NoCommand},
   watched : SUBSET Marks]

Types ==
  /\ version \in [Rows -> Nat]
  /\ rowLock \in [Rows -> Commands \cup {NoCommand}]
  /\ log \in Seq(Writes)
  /\ cmd \in [Commands -> CmdSet]
  /\ active \in [Roots -> Commands \cup {NoCommand}]

\* Before the drain: the tracked instance is the first of those with events.
Collecting(d) ==
  /\ d.drained = {} /\ 0 \notin d.pending
  /\ \/ d.tracked = {} /\ d.pending = {}
     \/ \E f \in d.pending : d.tracked = {f} /\ \A n \in d.pending : f <= n

\* After it: its events are taken, and those of later instances are left behind.
Collected(d) ==
  \E f \in 1 .. MaxAttempts :
    /\ d.drained = {f} /\ f \notin d.pending
    /\ \A n \in d.pending \ {0} : n > f
    /\ d.attempt \in d.pending \cup {f}

\* What the fields of a command's record say about each other.
Rec(d) ==
  /\ \A n \in d.pending : n <= d.attempt
  /\ d.pc \in {"start", "load", "save", "return", "failed"} => Collecting(d)
  /\ d.pc = "return" => d.attempt \in d.pending
  /\ d.pc = "save" => d.attempt \in d.pending
  /\ d.pc \in {"dispatch", "await", "sql"} => Collected(d)
  /\ d.pc \in {"return", "dispatch", "await", "sql"} => d.dirty # 0
  /\ d.dirty # 0 => d.dirty > d.basis
  /\ d.pc = "start" => d.dirty = 0
  /\ d.pc # "end" => d.watched = {} /\ d.result # "success"

Good == \A c \in Commands : Rec(cmd[c])

\* A transaction that has written a row has it locked: the row is as it found it.
Holds(c) ==
  cmd[c].pc # "end" /\ cmd[c].dirty # 0 => rowLock[Row(c)] = c /\ cmd[c].basis = version[Row(c)]
Locks == \A c \in Commands : Holds(c)

\* A command is committed with the events it drained, or has neither.
FateOf(c) ==
  /\ Written(c) => /\ At(c, "end") /\ EventsOf(c) = cmd[c].drained /\ Collected(cmd[c])
                   /\ cmd[c].result \in {"success", "raised"}
  /\ ~Written(c) => /\ EventsOf(c) = {} /\ cmd[c].result # "success"
                    /\ <<"Metrics", "success">> \notin cmd[c].watched
Fates == \A c \in Commands : FateOf(c)

\* A nested command runs only while the command around it waits for it.
Busy(c) == cmd[c].pc \notin {"start", "end"}
Awaits(c) == At(c, "await") => cmd[c].child \in Commands /\ Parent[cmd[c].child] = c
Inside(c) == Parent[c] # NoCommand /\ Busy(c) => At(Parent[c], "await") /\ cmd[Parent[c]].child = c
Nested == \A c \in Commands : Awaits(c) /\ Inside(c)

\* The context variable of a task, from where its commands are.
Owner(r) ==
  IF ~Busy(r) THEN NoCommand
  ELSE IF At(r, "await") /\ Busy(cmd[r].child) THEN cmd[r].child ELSE r
Owned == \A r \in Roots : active[r] = Owner(r)

\* The version column is what the last write of the row left.
WritesOf(r) == {j \in DOMAIN log : log[j].row = r}
LastWrite(r) ==
  /\ WritesOf(r) = {} => version[r] = 1
  /\ \A j \in WritesOf(r) : (\A k \in WritesOf(r) : k <= j) => version[r] = log[j].to
Chained == WritesChain /\ \A r \in Rows : LastWrite(r)

\* The inductive invariant.
IInv == Types /\ Good /\ Locks /\ Fates /\ Nested /\ Owned /\ Chained

USE PipelineAssumption

-----------------------------------------------------------------------------
(* The initial states and the facts every step uses                        *)

\* A command's record before it is sent.
LEMMA FreshIsGood ==
  ASSUME NEW c \in Commands
  PROVE  Fresh \in CmdSet /\ Rec(Fresh) /\ Fresh.pc = "start" /\ Fresh.result = "none" /\ Fresh.watched = {}
<1>1. (CHOOSE r \in Rows : TRUE) \in Rows
  <2>1. \E r \in Rows : TRUE
    OBVIOUS
  <2>. QED  BY <2>1
<1>2. Fresh \in CmdSet
  <2>1. 1 \in 1 .. MaxAttempts
    OBVIOUS
  <2>. QED  BY <1>1, <2>1 DEF Fresh, CmdSet, PCs, Results
<1>3. /\ Fresh.pc = "start" /\ Fresh.result = "none" /\ Fresh.watched = {} /\ Fresh.dirty = 0
      /\ Fresh.pending = {} /\ Fresh.tracked = {} /\ Fresh.drained = {}
  BY DEF Fresh
<1>4. Rec(Fresh)
  BY <1>3 DEF Rec, Collecting
<1>. QED  BY <1>2, <1>3, <1>4

\* The initial states satisfy the inductive invariant.
LEMMA InitIInv == Init => IInv
<1>. SUFFICES ASSUME Init PROVE IInv
  OBVIOUS
<1>1. /\ version = [r \in Rows |-> 1] /\ rowLock = [r \in Rows |-> NoCommand]
      /\ outbox = {} /\ log = <<>> /\ cmd = [c \in Commands |-> Fresh]
      /\ active = [c \in Roots |-> NoCommand]
  BY DEF Init
<1>2. \A c \in Commands : /\ cmd[c] \in CmdSet /\ Rec(cmd[c]) /\ cmd[c].pc = "start"
                          /\ cmd[c].result = "none" /\ cmd[c].watched = {}
  BY <1>1, FreshIsGood
<1>3. Types
  <2>1. log \in Seq(Writes)
    BY <1>1
  <2>. QED  BY <1>1, <1>2, <2>1 DEF Types
<1>4. Good
  BY <1>2 DEF Good
<1>5. Locks
  BY <1>2 DEF Locks, Holds, Rec
<1>6. Fates
  <2>1. \A c \in Commands : ~Written(c) /\ EventsOf(c) = {}
    BY <1>1 DEF Written, EventsOf
  <2>. QED  BY <1>2, <2>1 DEF Fates, FateOf
<1>7. Nested /\ Owned
  BY <1>1, <1>2 DEF Nested, Owned, Awaits, Inside, Busy, Owner, At, Roots
<1>8. Chained
  BY <1>1 DEF Chained, WritesChain, LastWrite, WritesOf
<1>. QED  BY <1>3, <1>4, <1>5, <1>6, <1>7, <1>8 DEF IInv

\* Commands nest one deep.
LEMMA OneDeep ==
  ASSUME NEW c \in Commands
  PROVE  /\ Parent[c] # c
         /\ Task(c) \in Roots
         /\ Parent[c] # NoCommand => Parent[c] \in Roots /\ Parent[c] \in Commands
         /\ c \in Roots <=> Parent[c] = NoCommand
  BY DEF Roots, Task

\* get_current_uow() of code that runs for c is the unit of work of c.
LEMMA OwnUow ==
  ASSUME IInv, NEW c \in Commands, Busy(c), ~At(c, "await")
  PROVE  active[Task(c)] = c
<1>1. CASE Parent[c] = NoCommand
  BY <1>1 DEF IInv, Owned, Owner, Task, Roots
<1>2. CASE Parent[c] # NoCommand
  <2>1. PICK p \in Roots : p = Parent[c] /\ Task(c) = p
    BY <1>2, OneDeep DEF Task
  <2>2. At(p, "await") /\ cmd[p].child = c
    BY <1>2, <2>1 DEF IInv, Nested, Inside
  <2>3. Owner(p) = c
    BY <2>2 DEF Owner, Busy, At
  <2>. QED  BY <2>1, <2>3 DEF IInv, Owned
<1>. QED  BY <1>1, <1>2

\* The record of one command changes and the others stay.
OneMoves(c, d) ==
  /\ cmd' \in [Commands -> CmdSet] /\ cmd'[c] = d
  /\ \A k \in Commands \ {c} : cmd'[k] = cmd[k]

LEMMA OneMove ==
  ASSUME Types, NEW c \in Commands, NEW d \in CmdSet, cmd' = [cmd EXCEPT ![c] = d]
  PROVE  OneMoves(c, d)
  BY DEF Types, OneMoves

\* The transaction neither writes nor ends: the locks are as they were.
LEMMA LocksStay ==
  ASSUME IInv, NEW c \in Commands, NEW d \in CmdSet, OneMoves(c, d), UNCHANGED <<rowLock, version>>,
         cmd[c].pc # "end", d.row = cmd[c].row, d.dirty = cmd[c].dirty, d.basis = cmd[c].basis
  PROVE  Locks'
<1>. SUFFICES ASSUME NEW k \in Commands PROVE Holds(k)'
  BY DEF Locks
<1>1. Holds(k)
  BY DEF IInv, Locks
<1>2. CASE k = c
  BY <1>1, <1>2 DEF Holds, Row, OneMoves
<1>3. CASE k # c
  BY <1>1, <1>3 DEF Holds, Row, OneMoves
<1>. QED  BY <1>2, <1>3

\* Nobody starts, ends, or begins or stops waiting: the nesting is as it was.
LEMMA NestStays ==
  ASSUME IInv, NEW c \in Commands, ~At(c, "await"), NEW d \in CmdSet, OneMoves(c, d), d.pc # "await",
         d.pc \in {"start", "end"} <=> ~Busy(c), UNCHANGED active
  PROVE  Nested' /\ Owned'
<1>1. cmd'[c] = d /\ \A k \in Commands \ {c} : cmd'[k] = cmd[k]
  BY DEF OneMoves
<1>2. \A k \in Commands : (Busy(k)' <=> Busy(k)) /\ (At(k, "await")' <=> At(k, "await"))
  BY <1>1 DEF Busy, At
<1>3. Nested'
  <2>. SUFFICES ASSUME NEW k \in Commands PROVE Awaits(k)' /\ Inside(k)'
    BY DEF Nested
  <2>1. Awaits(k) /\ Inside(k)
    BY DEF IInv, Nested
  <2>2. Awaits(k)'
    BY <1>1, <1>2, <2>1 DEF Awaits
  <2>3. Inside(k)'
    <3>1. CASE Parent[k] # NoCommand /\ Busy(k)
      <4>1. Parent[k] \in Commands /\ Parent[k] # c
        BY <2>1, <3>1, OneDeep DEF Inside
      <4>. QED  BY <1>1, <1>2, <2>1, <3>1, <4>1 DEF Inside
    <3>2. CASE ~(Parent[k] # NoCommand /\ Busy(k))
      BY <1>2, <3>2 DEF Inside
    <3>. QED  BY <3>1, <3>2
  <2>. QED  BY <2>2, <2>3
<1>4. Owned'
  <2>. SUFFICES ASSUME NEW r \in Roots PROVE active'[r] = Owner(r)'
    BY DEF Owned
  <2>1. r \in Commands /\ active[r] = Owner(r) /\ active' = active /\ Awaits(r)
    BY DEF IInv, Owned, Roots, Nested
  <2>2. CASE At(r, "await")
    <3>1. r # c /\ cmd[r].child \in Commands /\ cmd'[r].child = cmd[r].child
      BY <1>1, <2>1, <2>2 DEF Awaits
    <3>. QED  BY <1>2, <2>1, <2>2, <3>1 DEF Owner
  <2>3. CASE ~At(r, "await")
    BY <1>2, <2>1, <2>3 DEF Owner
  <2>. QED  BY <2>2, <2>3
<1>. QED  BY <1>3, <1>4

\* A step of c that commits nothing keeps the invariant when the new record, the locks
\* and the nesting are in order.
LEMMA CommandStep ==
  ASSUME IInv, NEW c \in Commands, ~At(c, "end"),
         NEW d \in CmdSet, OneMoves(c, d), Rec(d), d.result # "success",
         <<"Metrics", "success">> \notin d.watched, UNCHANGED <<version, outbox, log>>,
         rowLock' \in [Rows -> Commands \cup {NoCommand}], Locks',
         active' \in [Roots -> Commands \cup {NoCommand}], Nested', Owned'
  PROVE  IInv'
<1>1. cmd'[c] = d /\ \A k \in Commands \ {c} : cmd'[k] = cmd[k]
  BY DEF OneMoves
<1>2. Types'
  BY DEF IInv, Types, OneMoves
<1>3. Good'
  BY <1>1 DEF IInv, Good
<1>4. Fates'
  <2>. SUFFICES ASSUME NEW k \in Commands PROVE FateOf(k)'
    BY DEF Fates
  <2>1. FateOf(k) /\ (Written(k)' <=> Written(k)) /\ EventsOf(k)' = EventsOf(k)
    BY DEF IInv, Fates, Written, EventsOf
  <2>2. CASE k # c
    BY <1>1, <2>1, <2>2 DEF FateOf, At
  <2>3. CASE k = c
    <3>1. ~Written(c)
      BY <2>1, <2>3 DEF FateOf
    <3>. QED  BY <1>1, <2>1, <2>3, <3>1 DEF FateOf
  <2>. QED  BY <2>2, <2>3
<1>5. Chained'
  BY DEF IInv, Chained, WritesChain, Earlier, LastWrite, WritesOf
<1>. QED  BY <1>2, <1>3, <1>4, <1>5 DEF IInv

\* A step inside the unit of work of c.
LEMMA InsideStep ==
  ASSUME IInv, NEW c \in Commands, Busy(c), ~At(c, "await"),
         NEW d \in CmdSet, OneMoves(c, d), Rec(d), d.pc \notin {"start", "end", "await"},
         UNCHANGED <<version, outbox, log, active>>,
         rowLock' \in [Rows -> Commands \cup {NoCommand}], Locks'
  PROVE  IInv'
<1>1. ~At(c, "end") /\ d.watched = {} /\ d.result # "success"
  BY DEF Busy, At, Rec
<1>2. Nested' /\ Owned'
  BY NestStays
<1>3. active' \in [Roots -> Commands \cup {NoCommand}]
  BY DEF IInv, Types
<1>. QED  BY <1>1, <1>2, <1>3, CommandStep

-----------------------------------------------------------------------------
(* The handler and its retries                                             *)

\* The fields of a record of CmdSet.
LEMMA Fields ==
  ASSUME NEW d \in CmdSet
  PROVE  /\ d.pc \in PCs /\ d.result \in Results /\ d.row \in Rows /\ d.attempt \in 1 .. MaxAttempts
         /\ d.loaded \in Nat /\ d.dirty \in Nat /\ d.basis \in Nat /\ d.at \in Nat
         /\ d.pending \subseteq Instances /\ d.tracked \subseteq Instances /\ d.drained \subseteq Instances
         /\ d.child \in Commands \cup {NoCommand} /\ d.watched \subseteq Marks
  BY DEF CmdSet

\* A record whose pc moves within the part before the drain, or to the rollback.
LEMMA MoveStep ==
  ASSUME IInv, NEW c \in Commands, cmd[c].pc \in {"load", "save", "return", "failed", "dispatch", "sql"},
         NEW d \in CmdSet, OneMoves(c, d), UNCHANGED <<db, active>>,
         d.row = cmd[c].row, d.dirty = cmd[c].dirty, d.basis = cmd[c].basis, d.watched = cmd[c].watched,
         d.drained = cmd[c].drained, d.tracked = cmd[c].tracked, d.pending = cmd[c].pending,
         d.attempt = cmd[c].attempt, d.result # "success",
         \/ d.pc \in {"failed", "rollback"} /\ cmd[c].pc \in {"load", "save", "return", "failed"}
         \/ d.pc \in {"dispatch", "sql", "rollback"} /\ cmd[c].pc \in {"dispatch", "sql"}
  PROVE  IInv'
<1>1. Busy(c) /\ ~At(c, "await") /\ cmd[c].pc # "end"
  BY DEF Busy, At
<1>2. Rec(cmd[c])
  BY DEF IInv, Good
<1>3. Rec(d)
  BY <1>2 DEF Rec, Collecting, Collected
<1>4. Locks'
  BY <1>1, LocksStay DEF db
<1>5. rowLock' \in [Rows -> Commands \cup {NoCommand}]
  BY DEF IInv, Types, db
<1>. QED  BY <1>1, <1>3, <1>4, <1>5, InsideStep DEF db

\* The aggregate is loaded: its instance is tracked if it is the first.
LEMMA LoadStep ==
  ASSUME IInv, NEW c \in Commands, Load(c) PROVE IInv'
<1>1. cmd[c] \in CmdSet /\ Rec(cmd[c]) /\ cmd[c].pc = "load" /\ Busy(c) /\ ~At(c, "await")
  BY DEF IInv, Types, Good, Load, At, Busy
<1>2. CurrentUow(c) = c
  BY <1>1, OwnUow DEF CurrentUow
<1>3. Visible(c) \in Nat
  BY <1>1, Fields DEF Visible, Row, IInv, Types
<1>4. cmd[c].attempt \in Instances
  BY <1>1, Fields DEF Instances
<1>. DEFINE d == [cmd[c] EXCEPT !.loaded = Visible(c), !.pc = "save",
                                !.pending = @ \cup {cmd[c].attempt},
                                !.tracked = Track(@, cmd[c].attempt)]
<1>5. d \in CmdSet
  BY <1>1, <1>3, <1>4 DEF CmdSet, PCs, Track
<1>6. cmd' = [cmd EXCEPT ![c] = d]
  BY <1>1, <1>2 DEF Load, IInv, Types
<1>7. /\ d.pc = "save" /\ d.pending = cmd[c].pending \cup {cmd[c].attempt}
      /\ d.tracked = Track(cmd[c].tracked, cmd[c].attempt) /\ d.attempt = cmd[c].attempt
      /\ d.row = cmd[c].row /\ d.dirty = cmd[c].dirty /\ d.basis = cmd[c].basis
      /\ d.watched = cmd[c].watched /\ d.result = cmd[c].result /\ d.drained = cmd[c].drained
  BY <1>1 DEF CmdSet
<1>. HIDE DEF d
<1>8. OneMoves(c, d)
  BY <1>5, <1>6, OneMove DEF IInv
<1>9. Rec(d)
  <2>1. Collecting(cmd[c]) /\ \A n \in cmd[c].pending : n <= cmd[c].attempt
    BY <1>1 DEF Rec
  <2>2. cmd[c].attempt \in Nat /\ cmd[c].attempt # 0 /\ cmd[c].pending \subseteq Nat
    BY <1>1, Fields DEF Instances
  <2>3. Collecting(d)
    BY <1>7, <2>1, <2>2 DEF Collecting, Track
  <2>. QED  BY <1>1, <1>7, <2>1, <2>2, <2>3 DEF Rec
<1>10. Locks' /\ rowLock' \in [Rows -> Commands \cup {NoCommand}]
  BY <1>1, <1>5, <1>7, <1>8, LocksStay DEF Load, db, IInv, Types
<1>. QED  BY <1>1, <1>5, <1>7, <1>8, <1>9, <1>10, InsideStep DEF Load, db

\* The version check passes: the row is the transaction's own from here on.
LEMMA SaveStep ==
  ASSUME IInv, NEW c \in Commands, Save(c) PROVE IInv'
<1>1. cmd[c] \in CmdSet /\ Rec(cmd[c]) /\ cmd[c].pc = "save" /\ Busy(c) /\ ~At(c, "await")
  BY DEF IInv, Types, Good, Save, At, Busy
<1>2. /\ Row(c) \in Rows /\ Row(c) = cmd[c].row /\ rowLock[Row(c)] \in {NoCommand, c}
      /\ UNCHANGED <<version, outbox, log, active>>
  BY <1>1, Fields DEF Row, Save
<1>3. CASE ~VersionMatches(c)
  <2>. DEFINE d == [cmd[c] EXCEPT !.result = "conflict", !.pc = "rollback"]
  <2>1. d \in CmdSet
    BY <1>1 DEF CmdSet, PCs, Results
  <2>2. cmd' = [cmd EXCEPT ![c] = d] /\ UNCHANGED rowLock
    BY <1>1, <1>3 DEF Save, IInv, Types
  <2>3. /\ d.pc = "rollback" /\ d.result = "conflict" /\ d.pending = cmd[c].pending
        /\ d.tracked = cmd[c].tracked /\ d.attempt = cmd[c].attempt
        /\ d.row = cmd[c].row /\ d.dirty = cmd[c].dirty /\ d.basis = cmd[c].basis
        /\ d.watched = cmd[c].watched /\ d.drained = cmd[c].drained
    BY <1>1 DEF CmdSet
  <2>. HIDE DEF d
  <2>4. OneMoves(c, d)
    BY <2>1, <2>2, OneMove DEF IInv
  <2>. QED  BY <1>1, <1>2, <2>1, <2>2, <2>3, <2>4, MoveStep DEF db
<1>4. CASE VersionMatches(c)
  <2>. DEFINE b == IF cmd[c].dirty = 0 THEN cmd[c].loaded ELSE cmd[c].basis
              d == [cmd[c] EXCEPT !.dirty = cmd[c].loaded + 1, !.pc = "return", !.basis = b]
  <2>1. cmd[c].loaded \in Nat /\ cmd[c].dirty \in Nat /\ cmd[c].basis \in Nat /\ version[Row(c)] \in Nat
    BY <1>1, <1>2, Fields DEF IInv, Types
  <2>2. d \in CmdSet
    <3>1. b \in Nat /\ cmd[c].loaded + 1 \in Nat
      BY <2>1
    <3>. HIDE DEF b
    <3>. QED  BY <1>1, <3>1 DEF CmdSet, PCs
  <2>3. cmd' = [cmd EXCEPT ![c] = d] /\ rowLock' = [rowLock EXCEPT ![Row(c)] = c]
    BY <1>1, <1>4 DEF Save, IInv, Types
  <2>4. /\ d.pc = "return" /\ d.result = cmd[c].result /\ d.pending = cmd[c].pending
        /\ d.tracked = cmd[c].tracked /\ d.attempt = cmd[c].attempt
        /\ d.row = cmd[c].row /\ d.dirty = cmd[c].loaded + 1 /\ d.basis = b
        /\ d.watched = cmd[c].watched /\ d.drained = cmd[c].drained
    BY <1>1 DEF CmdSet
  <2>. HIDE DEF d
  <2>5. OneMoves(c, d)
    BY <2>2, <2>3, OneMove DEF IInv
  <2>6. (cmd[c].dirty = 0 => cmd[c].loaded = version[Row(c)]) /\ (cmd[c].dirty # 0 => cmd[c].loaded = cmd[c].dirty)
    BY <1>4 DEF VersionMatches, Visible
  <2>7. cmd[c].dirty # 0 => cmd[c].dirty > cmd[c].basis /\ cmd[c].basis = version[Row(c)]
    BY <1>1 DEF IInv, Locks, Holds, Rec
  <2>8. d.dirty # 0 /\ d.dirty > d.basis /\ d.basis = version[Row(c)]
    BY <2>1, <2>4, <2>6, <2>7
  <2>9. Rec(d)
    <3>1. Collecting(cmd[c]) /\ cmd[c].attempt \in cmd[c].pending
      BY <1>1 DEF Rec
    <3>2. Collecting(d)
      BY <3>1, <2>4 DEF Collecting
    <3>. QED  BY <1>1, <2>4, <2>8, <3>1, <3>2 DEF Rec
  <2>10. rowLock' \in [Rows -> Commands \cup {NoCommand}] /\ rowLock'[Row(c)] = c
         /\ \A r \in Rows \ {Row(c)} : rowLock'[r] = rowLock[r]
    BY <1>2, <2>3 DEF IInv, Types
  <2>11. Locks'
    <3>. SUFFICES ASSUME NEW k \in Commands PROVE Holds(k)'
      BY DEF Locks
    <3>1. CASE k = c
      BY <1>2, <2>4, <2>5, <2>8, <2>10, <3>1 DEF Holds, Row, OneMoves
    <3>2. CASE k # c
      <4>1. Holds(k) /\ cmd'[k] = cmd[k] /\ Row(k) \in Rows /\ Row(k)' = Row(k)
        BY <2>5, <3>2, Fields DEF IInv, Locks, OneMoves, Row, Types
      <4>2. CASE Row(k) = Row(c)
        BY <1>2, <3>2, <4>1, <4>2 DEF Holds
      <4>3. CASE Row(k) # Row(c)
        BY <1>2, <2>10, <4>1, <4>3 DEF Holds
      <4>. QED  BY <4>2, <4>3
    <3>. QED  BY <3>1, <3>2
  <2>. QED  BY <1>1, <1>2, <2>2, <2>4, <2>5, <2>9, <2>10, <2>11, InsideStep
<1>. QED  BY <1>3, <1>4

\* A call or an SQL statement of the handler fails, or the failure becomes the result.
LEMMA FailStep ==
  ASSUME IInv, NEW c \in Commands, HandlerFails(c) \/ SqlFails(c) \/ GiveUp(c) PROVE IInv'
<1>1. cmd[c] \in CmdSet /\ Rec(cmd[c]) /\ cmd[c].pc \in {"load", "save", "return", "failed"} /\ UNCHANGED <<db, active>>
  BY DEF IInv, Types, Good, HandlerFails, SqlFails, GiveUp, At
<1>2. PICK p \in {"failed", "rollback"}, b \in BOOLEAN, r \in {"infra", cmd[c].result} :
        cmd' = [cmd EXCEPT ![c].pc = p, ![c].broken = b, ![c].result = r]
  <2>1. cmd[c].broken \in BOOLEAN
    BY <1>1, Zenon DEF CmdSet
  <2>2. CASE HandlerFails(c)
    <3>1. cmd' = [cmd EXCEPT ![c].pc = "failed", ![c].broken = cmd[c].broken, ![c].result = cmd[c].result]
      BY <1>1, <2>2 DEF HandlerFails, IInv, Types, CmdSet
    <3>. QED  BY <2>1, <3>1, Zenon
  <2>3. CASE SqlFails(c)
    <3>1. cmd' = [cmd EXCEPT ![c].pc = "failed", ![c].broken = TRUE, ![c].result = cmd[c].result]
      BY <1>1, <2>3 DEF SqlFails, IInv, Types, CmdSet
    <3>. QED  BY <3>1, Zenon
  <2>4. CASE GiveUp(c)
    <3>1. cmd' = [cmd EXCEPT ![c].pc = "rollback", ![c].broken = cmd[c].broken, ![c].result = "infra"]
      BY <1>1, <2>4 DEF GiveUp, IInv, Types, CmdSet
    <3>. QED  BY <2>1, <3>1, Zenon
  <2>. QED  BY <2>2, <2>3, <2>4
<1>. DEFINE d == [cmd[c] EXCEPT !.pc = p, !.broken = b, !.result = r]
<1>3. d \in CmdSet
  BY <1>1 DEF CmdSet, PCs, Results
<1>4. cmd' = [cmd EXCEPT ![c] = d]
  BY <1>1, <1>2 DEF IInv, Types
<1>5. /\ d.pc \in {"failed", "rollback"} /\ d.result \in {"infra", cmd[c].result} /\ d.pending = cmd[c].pending
      /\ d.tracked = cmd[c].tracked /\ d.attempt = cmd[c].attempt
      /\ d.row = cmd[c].row /\ d.dirty = cmd[c].dirty /\ d.basis = cmd[c].basis
      /\ d.watched = cmd[c].watched /\ d.drained = cmd[c].drained
  BY <1>1 DEF CmdSet
<1>. HIDE DEF d
<1>6. OneMoves(c, d)
  BY <1>3, <1>4, OneMove DEF IInv
<1>7. d.result # "success"
  BY <1>1, <1>5 DEF Rec
<1>. QED  BY <1>1, <1>3, <1>5, <1>6, <1>7, MoveStep

\* The next attempt loads an instance of its own.
LEMMA RetryStep ==
  ASSUME IInv, NEW c \in Commands, Retry(c) PROVE IInv'
<1>1. /\ cmd[c] \in CmdSet /\ Rec(cmd[c]) /\ cmd[c].pc = "failed" /\ Busy(c) /\ ~At(c, "await")
      /\ cmd[c].attempt < MaxAttempts
  BY DEF IInv, Types, Good, Retry, At, Busy
<1>. DEFINE d == [cmd[c] EXCEPT !.pc = "load", !.attempt = cmd[c].attempt + 1]
<1>2. cmd[c].attempt + 1 \in 1 .. MaxAttempts
  BY <1>1, Fields
<1>3. d \in CmdSet
  BY <1>1, <1>2 DEF CmdSet, PCs
<1>4. cmd' = [cmd EXCEPT ![c] = d]
  BY <1>1 DEF Retry, IInv, Types
<1>5. /\ d.pc = "load" /\ d.pending = cmd[c].pending
      /\ d.tracked = cmd[c].tracked /\ d.attempt = cmd[c].attempt + 1
      /\ d.row = cmd[c].row /\ d.dirty = cmd[c].dirty /\ d.basis = cmd[c].basis
      /\ d.watched = cmd[c].watched /\ d.result = cmd[c].result /\ d.drained = cmd[c].drained
  BY <1>1 DEF CmdSet
<1>. HIDE DEF d
<1>6. OneMoves(c, d)
  BY <1>3, <1>4, OneMove DEF IInv
<1>7. Rec(d)
  <2>1. Collecting(cmd[c]) /\ \A n \in cmd[c].pending : n <= cmd[c].attempt
    BY <1>1 DEF Rec
  <2>2. cmd[c].attempt \in Nat /\ cmd[c].pending \subseteq Nat
    BY <1>1, Fields DEF Instances
  <2>3. Collecting(d)
    BY <1>5, <2>1 DEF Collecting
  <2>4. \A n \in d.pending : n <= d.attempt
    BY <1>5, <2>1, <2>2
  <2>. QED  BY <1>1, <1>5, <2>3, <2>4 DEF Rec
<1>8. Locks' /\ rowLock' \in [Rows -> Commands \cup {NoCommand}]
  BY <1>1, <1>3, <1>5, <1>6, LocksStay DEF Retry, db, IInv, Types
<1>. QED  BY <1>1, <1>3, <1>5, <1>6, <1>7, <1>8, InsideStep DEF Retry, db

-----------------------------------------------------------------------------
(* The drain and the handlers of the event                                 *)

\* The events of the tracked instance are taken.
LEMMA DrainStep ==
  ASSUME IInv, NEW c \in Commands, Drain(c) PROVE IInv'
<1>1. cmd[c] \in CmdSet /\ Rec(cmd[c]) /\ cmd[c].pc = "return" /\ Busy(c) /\ ~At(c, "await")
  BY DEF IInv, Types, Good, Drain, At, Busy
<1>. DEFINE d == [cmd[c] EXCEPT !.drained = cmd[c].tracked \cap cmd[c].pending, !.pc = "dispatch",
                                !.pending = cmd[c].pending \ cmd[c].tracked]
<1>2. d \in CmdSet
  BY <1>1 DEF CmdSet, PCs
<1>3. cmd' = [cmd EXCEPT ![c] = d]
  BY <1>1 DEF Drain, IInv, Types
<1>4. /\ d.pc = "dispatch" /\ d.pending = cmd[c].pending \ cmd[c].tracked /\ d.attempt = cmd[c].attempt
      /\ d.drained = cmd[c].tracked \cap cmd[c].pending
      /\ d.row = cmd[c].row /\ d.dirty = cmd[c].dirty /\ d.basis = cmd[c].basis
      /\ d.watched = cmd[c].watched /\ d.result = cmd[c].result
  BY <1>1 DEF CmdSet
<1>. HIDE DEF d
<1>5. OneMoves(c, d)
  BY <1>2, <1>3, OneMove DEF IInv
<1>6. Rec(d)
  <2>1. /\ Collecting(cmd[c]) /\ cmd[c].attempt \in cmd[c].pending
        /\ \A n \in cmd[c].pending : n <= cmd[c].attempt
    BY <1>1 DEF Rec
  <2>2. PICK f \in cmd[c].pending : cmd[c].tracked = {f} /\ \A n \in cmd[c].pending : f <= n
    BY <2>1 DEF Collecting
  <2>3. cmd[c].pending \subseteq 0 .. MaxAttempts /\ f # 0
    BY <1>1, <2>1, Fields DEF Instances, Collecting
  <2>4. d.drained = {f} /\ d.pending = cmd[c].pending \ {f} /\ f \in 1 .. MaxAttempts
    BY <1>4, <2>2, <2>3
  <2>5. Collected(d)
    BY <1>4, <2>1, <2>2, <2>3, <2>4 DEF Collected
  <2>. QED  BY <1>1, <1>4, <2>1, <2>5 DEF Rec
<1>7. Locks' /\ rowLock' \in [Rows -> Commands \cup {NoCommand}]
  BY <1>1, <1>2, <1>4, <1>5, LocksStay DEF Drain, db, IInv, Types
<1>. QED  BY <1>1, <1>2, <1>4, <1>5, <1>6, <1>7, InsideStep DEF Drain, db

\* The next handler of the event has run: it may have left an event behind, or an error.
LEMMA HandlerRan ==
  ASSUME IInv, NEW c \in Commands, cmd[c].pc = "dispatch", UNCHANGED <<db, active>>,
         NEW q \in {cmd[c].pending, cmd[c].pending \cup {0}}, NEW e \in BOOLEAN,
         cmd' = [cmd EXCEPT ![c].at = cmd[c].at + 1, ![c].pending = q, ![c].errors = e]
  PROVE  IInv'
<1>1. cmd[c] \in CmdSet /\ Rec(cmd[c]) /\ Busy(c) /\ ~At(c, "await")
  BY DEF IInv, Types, Good, At, Busy
<1>. DEFINE d == [cmd[c] EXCEPT !.at = cmd[c].at + 1, !.pending = q, !.errors = e]
<1>2. d \in CmdSet
  <2>1. cmd[c].at + 1 \in Nat /\ q \subseteq Instances
    BY <1>1, Fields DEF Instances
  <2>. QED  BY <1>1, <2>1 DEF CmdSet
<1>3. cmd' = [cmd EXCEPT ![c] = d]
  BY <1>1 DEF IInv, Types
<1>4. /\ d.pc = "dispatch" /\ d.pending = q /\ d.attempt = cmd[c].attempt /\ d.drained = cmd[c].drained
      /\ d.row = cmd[c].row /\ d.dirty = cmd[c].dirty /\ d.basis = cmd[c].basis
      /\ d.watched = cmd[c].watched /\ d.result = cmd[c].result
  BY <1>1 DEF CmdSet
<1>. HIDE DEF d
<1>5. OneMoves(c, d)
  BY <1>2, <1>3, OneMove DEF IInv
<1>6. Rec(d)
  <2>1. Collected(cmd[c]) /\ \A n \in cmd[c].pending : n <= cmd[c].attempt
    BY <1>1 DEF Rec
  <2>2. cmd[c].attempt \in Nat
    BY <1>1, Fields
  <2>3. Collected(d)
    BY <1>4, <2>1 DEF Collected
  <2>4. \A n \in d.pending : n <= d.attempt
    BY <1>4, <2>1, <2>2
  <2>. QED  BY <1>1, <1>4, <2>3, <2>4 DEF Rec
<1>7. Locks' /\ rowLock' \in [Rows -> Commands \cup {NoCommand}]
  BY <1>1, <1>2, <1>4, <1>5, LocksStay DEF db, IInv, Types
<1>. QED  BY <1>1, <1>2, <1>4, <1>5, <1>6, <1>7, InsideStep DEF db

\* A handler of the event returns or raises without having sent a command.
LEMMA EventHandlerStep ==
  ASSUME IInv, NEW c \in Commands,
         \/ EventHandlerRaises(c)
         \/ HandleEvent(c) /\ cmd'[c].pc # "await"
  PROVE  IInv'
<1>1. /\ cmd[c] \in CmdSet /\ cmd \in [Commands -> CmdSet] /\ Rec(cmd[c]) /\ cmd[c].pc = "dispatch"
      /\ Busy(c) /\ ~At(c, "await") /\ UNCHANGED <<db, active>>
  BY DEF IInv, Types, Good, EventHandlerRaises, HandleEvent, Dispatching, At, Busy
<1>2. CurrentUow(c) = c
  BY <1>1, OwnUow DEF CurrentUow
<1>3. cmd[c].errors \in BOOLEAN
  BY <1>1, Zenon DEF CmdSet
<1>4. CASE EventHandlerRaises(c)
  <2>1. cmd' = [cmd EXCEPT ![c].at = cmd[c].at + 1, ![c].pending = cmd[c].pending, ![c].errors = TRUE]
    BY <1>1, <1>4 DEF EventHandlerRaises, CmdSet
  <2>. QED  BY <1>1, <2>1, HandlerRan
<1>5. CASE HandleEvent(c) /\ cmd'[c].pc # "await"
  <2>. DEFINE role == RoleOf[Handlers(c)[cmd[c].at]]
              q == IF role = "recorder" THEN cmd[c].pending \cup {0} ELSE cmd[c].pending
  <2>1. \A k \in Children(c) : cmd' # [cmd EXCEPT ![c].pc = "await", ![c].child = k]
    <3>1. \A k \in Children(c) : [cmd EXCEPT ![c].pc = "await", ![c].child = k][c].pc = "await"
      BY <1>1 DEF CmdSet
    <3>. QED  BY <1>5, <3>1
  <2>2. cmd' = [cmd EXCEPT ![c].at = @ + 1,
                           ![CurrentUow(c)].pending = IF role = "recorder" THEN @ \cup {0} ELSE @]
    BY <1>5, <2>1 DEF HandleEvent
  <2>3. cmd' = [cmd EXCEPT ![c].at = @ + 1, ![c].pending = IF role = "recorder" THEN @ \cup {0} ELSE @]
    BY <1>2, <2>2
  <2>. HIDE DEF role
  <2>4. cmd' = [cmd EXCEPT ![c].at = cmd[c].at + 1, ![c].pending = q, ![c].errors = cmd[c].errors]
    BY <1>1, <2>3 DEF CmdSet
  <2>5. q \in {cmd[c].pending, cmd[c].pending \cup {0}}
    OBVIOUS
  <2>. HIDE DEF q
  <2>. QED  BY <1>1, <1>3, <2>4, <2>5, HandlerRan
<1>. QED  BY <1>4, <1>5

\* A handler sends a command and waits for it.
LEMMA AwaitStep ==
  ASSUME IInv, NEW c \in Commands, HandleEvent(c), cmd'[c].pc = "await" PROVE IInv'
<1>1. /\ cmd[c] \in CmdSet /\ cmd \in [Commands -> CmdSet] /\ Rec(cmd[c]) /\ cmd[c].pc = "dispatch"
      /\ Busy(c) /\ ~At(c, "await") /\ UNCHANGED <<db, active>>
  BY DEF IInv, Types, Good, HandleEvent, Dispatching, At, Busy
<1>2. CurrentUow(c) = c
  BY <1>1, OwnUow DEF CurrentUow
<1>3. PICK k \in Children(c) : cmd' = [cmd EXCEPT ![c].pc = "await", ![c].child = k]
  <2>. DEFINE role == RoleOf[Handlers(c)[cmd[c].at]]
              moved == [cmd EXCEPT ![c].at = @ + 1,
                                   ![CurrentUow(c)].pending = IF role = "recorder" THEN @ \cup {0} ELSE @]
  <2>1. moved = [cmd EXCEPT ![c].at = @ + 1, ![c].pending = IF role = "recorder" THEN @ \cup {0} ELSE @]
    BY <1>2
  <2>2. moved[c].pc = "dispatch"
    <3>. HIDE DEF role
    <3>. QED  BY <1>1, <2>1 DEF CmdSet
  <2>3. cmd' # moved
    BY <2>2
  <2>. QED  BY <2>3 DEF HandleEvent
<1>4. k \in Commands /\ Parent[k] = c /\ cmd[k].pc = "start" /\ k # c
  BY <1>1 DEF Children, At
<1>. DEFINE d == [cmd[c] EXCEPT !.pc = "await", !.child = k]
<1>5. d \in CmdSet
  BY <1>1, <1>4 DEF CmdSet, PCs
<1>6. cmd' = [cmd EXCEPT ![c] = d]
  BY <1>1, <1>3
<1>7. /\ d.pc = "await" /\ d.child = k /\ d.pending = cmd[c].pending /\ d.attempt = cmd[c].attempt
      /\ d.drained = cmd[c].drained /\ d.watched = cmd[c].watched /\ d.result = cmd[c].result
      /\ d.row = cmd[c].row /\ d.dirty = cmd[c].dirty /\ d.basis = cmd[c].basis
  BY <1>1 DEF CmdSet
<1>. HIDE DEF d
<1>8. OneMoves(c, d)
  BY <1>5, <1>6, OneMove DEF IInv
<1>9. Rec(d)
  <2>1. Collected(d)
    BY <1>1, <1>7 DEF Rec, Collected
  <2>. QED  BY <1>1, <1>7, <2>1 DEF Rec
<1>10. \A j \in Commands : Busy(j)' <=> Busy(j)
  BY <1>1, <1>7, <1>8 DEF Busy, OneMoves
<1>11. Nested'
  <2>. SUFFICES ASSUME NEW j \in Commands PROVE Awaits(j)' /\ Inside(j)'
    BY DEF Nested
  <2>1. Awaits(j) /\ Inside(j)
    BY DEF IInv, Nested
  <2>2. Awaits(j)'
    BY <1>4, <1>7, <1>8, <2>1 DEF Awaits, At, OneMoves
  <2>3. CASE Parent[j] # NoCommand /\ Busy(j)
    <3>1. Parent[j] \in Commands /\ Parent[j] # c
      BY <1>1, <2>1, <2>3, OneDeep DEF Inside
    <3>. QED  BY <1>8, <2>1, <2>2, <2>3, <3>1 DEF Inside, At, OneMoves
  <2>4. CASE ~(Parent[j] # NoCommand /\ Busy(j))
    BY <1>10, <2>2, <2>4 DEF Inside
  <2>. QED  BY <2>3, <2>4
<1>12. Owned'
  <2>. SUFFICES ASSUME NEW r \in Roots PROVE active'[r] = Owner(r)'
    BY DEF Owned
  <2>1. r \in Commands /\ active[r] = Owner(r) /\ active' = active /\ Awaits(r)
    BY <1>1 DEF IInv, Owned, Roots, Nested
  <2>2. CASE r = c
    <3>1. cmd'[r].child = k /\ ~Busy(k)' /\ Busy(r)'
      BY <1>1, <1>4, <1>7, <1>8, <1>10, <2>2 DEF OneMoves, Busy
    <3>. QED  BY <1>1, <2>1, <2>2, <3>1 DEF Owner
  <2>3. CASE r # c
    <3>1. cmd'[r] = cmd[r] /\ (At(r, "await") => cmd[r].child \in Commands)
      BY <1>8, <2>1, <2>3 DEF OneMoves, Awaits
    <3>. QED  BY <1>10, <2>1, <3>1 DEF Owner, At
  <2>. QED  BY <2>2, <2>3
<1>13. Locks' /\ rowLock' \in [Rows -> Commands \cup {NoCommand}] /\ active' \in [Roots -> Commands \cup {NoCommand}]
  BY <1>1, <1>5, <1>7, <1>8, LocksStay DEF db, IInv, Types
<1>14. ~At(c, "end") /\ d.watched = {} /\ d.result # "success"
  BY <1>1, <1>7 DEF At, Rec
<1>. QED  BY <1>1, <1>5, <1>8, <1>9, <1>11, <1>12, <1>13, <1>14, CommandStep DEF db

\* The nested command has ended, and the unit of work around it is the active one again.
LEMMA ChildEndedStep ==
  ASSUME IInv, NEW c \in Commands, ChildEnded(c) PROVE IInv'
<1>1. /\ cmd[c] \in CmdSet /\ cmd \in [Commands -> CmdSet] /\ Rec(cmd[c]) /\ cmd[c].pc = "await"
      /\ Busy(c) /\ UNCHANGED <<db, active>> /\ Awaits(c)
  BY DEF IInv, Types, Good, ChildEnded, At, Busy, Nested
<1>2. PICK k \in Commands : k = cmd[c].child /\ Parent[k] = c /\ cmd[k].pc = "end"
  BY <1>1 DEF Awaits, At, ChildEnded
<1>3. k # c
  BY <1>1, <1>2
<1>4. PICK e \in BOOLEAN : e = (cmd[c].errors \/ cmd[cmd[c].child].result # "success")
  BY Zenon
<1>. DEFINE d == [cmd[c] EXCEPT !.pc = "dispatch", !.at = cmd[c].at + 1, !.errors = e]
<1>5. d \in CmdSet
  <2>1. cmd[c].at + 1 \in Nat
    BY <1>1, Fields
  <2>. QED  BY <1>1, <2>1 DEF CmdSet, PCs
<1>6. cmd' = [cmd EXCEPT ![c] = d]
  <2>1. cmd' = [cmd EXCEPT ![c].pc = "dispatch", ![c].at = cmd[c].at + 1, ![c].errors = e]
    BY <1>1, <1>4 DEF ChildEnded, CmdSet
  <2>. QED  BY <1>1, <2>1
<1>7. /\ d.pc = "dispatch" /\ d.pending = cmd[c].pending /\ d.attempt = cmd[c].attempt
      /\ d.drained = cmd[c].drained /\ d.watched = cmd[c].watched /\ d.result = cmd[c].result
      /\ d.row = cmd[c].row /\ d.dirty = cmd[c].dirty /\ d.basis = cmd[c].basis
  BY <1>1 DEF CmdSet
<1>. HIDE DEF d
<1>8. OneMoves(c, d)
  BY <1>5, <1>6, OneMove DEF IInv
<1>9. Rec(d)
  <2>1. Collected(d)
    BY <1>1, <1>7 DEF Rec, Collected
  <2>. QED  BY <1>1, <1>7, <2>1 DEF Rec
<1>10. \A j \in Commands : Busy(j)' <=> Busy(j)
  BY <1>1, <1>7, <1>8 DEF Busy, OneMoves
<1>11. Nested'
  <2>. SUFFICES ASSUME NEW j \in Commands PROVE Awaits(j)' /\ Inside(j)'
    BY DEF Nested
  <2>1. Awaits(j) /\ Inside(j)
    BY DEF IInv, Nested
  <2>2. Awaits(j)'
    BY <1>7, <1>8, <2>1 DEF Awaits, At, OneMoves
  <2>3. CASE Parent[j] # NoCommand /\ Busy(j)
    <3>1. Parent[j] \in Commands /\ Parent[j] # c
      BY <1>2, <2>1, <2>3, OneDeep DEF Inside, Busy
    <3>. QED  BY <1>8, <2>1, <2>2, <2>3, <3>1 DEF Inside, At, OneMoves
  <2>4. CASE ~(Parent[j] # NoCommand /\ Busy(j))
    BY <1>10, <2>2, <2>4 DEF Inside
  <2>. QED  BY <2>3, <2>4
<1>12. Owned'
  <2>. SUFFICES ASSUME NEW r \in Roots PROVE active'[r] = Owner(r)'
    BY DEF Owned
  <2>1. r \in Commands /\ active[r] = Owner(r) /\ active' = active /\ Awaits(r)
    BY <1>1 DEF IInv, Owned, Roots, Nested
  <2>2. CASE r = c
    <3>1. ~Busy(k) /\ Busy(r)' /\ cmd'[r].pc = "dispatch"
      BY <1>1, <1>2, <1>7, <1>8, <1>10, <2>2 DEF OneMoves, Busy
    <3>. QED  BY <1>1, <1>2, <2>1, <2>2, <3>1 DEF Owner, At
  <2>3. CASE r # c
    <3>1. cmd'[r] = cmd[r] /\ (At(r, "await") => cmd[r].child \in Commands)
      BY <1>8, <2>1, <2>3 DEF OneMoves, Awaits
    <3>. QED  BY <1>10, <2>1, <3>1 DEF Owner, At
  <2>. QED  BY <2>2, <2>3
<1>13. Locks' /\ rowLock' \in [Rows -> Commands \cup {NoCommand}] /\ active' \in [Roots -> Commands \cup {NoCommand}]
  BY <1>1, <1>5, <1>7, <1>8, LocksStay DEF db, IInv, Types
<1>14. ~At(c, "end") /\ d.watched = {} /\ d.result # "success"
  BY <1>1, <1>7 DEF At, Rec
<1>. QED  BY <1>1, <1>5, <1>8, <1>9, <1>11, <1>12, <1>13, <1>14, CommandStep DEF db

\* The handlers have run, or the commit fails before it takes effect.
LEMMA DispatchedStep ==
  ASSUME IInv, NEW c \in Commands, Dispatched(c) \/ CommitFails(c) PROVE IInv'
<1>1. /\ cmd[c] \in CmdSet /\ cmd \in [Commands -> CmdSet] /\ Rec(cmd[c]) /\ cmd[c].pc \in {"dispatch", "sql"}
      /\ UNCHANGED <<db, active>>
  BY DEF IInv, Types, Good, Dispatched, CommitFails, Dispatching, At
<1>2. PICK p \in {"sql", "rollback"}, r \in {"raised", cmd[c].result} :
        cmd' = [cmd EXCEPT ![c].pc = p, ![c].result = r]
  <2>1. CASE cmd' = [cmd EXCEPT ![c].pc = "rollback", ![c].result = "raised"]
    BY <2>1
  <2>2. CASE cmd' = [cmd EXCEPT ![c].pc = "sql"]
    <3>1. cmd' = [cmd EXCEPT ![c].pc = "sql", ![c].result = cmd[c].result]
      BY <1>1, <2>2 DEF CmdSet
    <3>. QED  BY <3>1
  <2>. QED  BY <2>1, <2>2 DEF Dispatched, CommitFails
<1>. DEFINE d == [cmd[c] EXCEPT !.pc = p, !.result = r]
<1>3. d \in CmdSet
  BY <1>1 DEF CmdSet, PCs, Results
<1>4. cmd' = [cmd EXCEPT ![c] = d]
  BY <1>1, <1>2
<1>5. /\ d.pc \in {"sql", "rollback"} /\ d.result \in {"raised", cmd[c].result} /\ d.pending = cmd[c].pending
      /\ d.tracked = cmd[c].tracked /\ d.attempt = cmd[c].attempt
      /\ d.row = cmd[c].row /\ d.dirty = cmd[c].dirty /\ d.basis = cmd[c].basis
      /\ d.watched = cmd[c].watched /\ d.drained = cmd[c].drained
  BY <1>1 DEF CmdSet
<1>. HIDE DEF d
<1>6. OneMoves(c, d)
  BY <1>3, <1>4, OneMove DEF IInv
<1>7. d.result # "success"
  BY <1>1, <1>5 DEF Rec
<1>. QED  BY <1>1, <1>3, <1>5, <1>6, <1>7, MoveStep

-----------------------------------------------------------------------------
(* Begin and end of a command                                              *)

\* Metrics counts a success only for the result "success".
LEMMA Observed ==
  ASSUME NEW n, NEW r \in Results
  PROVE  /\ Watched(Behaviors, n, Outcome(r)) \subseteq Marks
         /\ <<"Metrics", "success">> \in Watched(Behaviors, n, Outcome(r)) => r = "success"
<1>1. Outcome(r) \in {"success", "raised", "failure"} /\ (Outcome(r) = "success" => r = "success")
  BY DEF Outcome, Results
<1>2. PICK o \in {"success", "raised", "failure"} : o = Outcome(r)
  BY <1>1
<1>3. Watched(Behaviors, n, o) \subseteq {<<"Logging", o>>, <<"Tracing", o>>, <<"Metrics", o>>}
  BY DEF Watched, Logged, Traced, Counted
<1>4. {<<"Logging", o>>, <<"Tracing", o>>, <<"Metrics", o>>} \subseteq Marks
  BY DEF Marks
<1>5. <<"Metrics", "success">> \in {<<"Logging", o>>, <<"Tracing", o>>, <<"Metrics", o>>} => o = "success"
  OBVIOUS
<1>. QED  BY <1>1, <1>2, <1>3, <1>4, <1>5

\* The record of a command that has been answered.
LEMMA EndedRecord ==
  ASSUME IInv, NEW c \in Commands, NEW r \in Results, NEW n
  PROVE  /\ Ended(c, r, n) \in CmdSet
         /\ Ended(c, r, n).pc = "end" /\ Ended(c, r, n).result = r
         /\ Ended(c, r, n).dirty = cmd[c].dirty /\ Ended(c, r, n).basis = cmd[c].basis
         /\ Ended(c, r, n).pending = cmd[c].pending /\ Ended(c, r, n).attempt = cmd[c].attempt
         /\ Ended(c, r, n).drained = cmd[c].drained
         /\ <<"Metrics", "success">> \in Ended(c, r, n).watched => r = "success"
<1>1. cmd[c] \in CmdSet
  BY DEF IInv, Types
<1>2. PICK w \in SUBSET Marks : w = Watched(Behaviors, n, Outcome(r)) /\ (<<"Metrics", "success">> \in w => r = "success")
  BY Observed
<1>3. Ended(c, r, n) = [cmd[c] EXCEPT !.pc = "end", !.result = r, !.watched = w]
  BY <1>2 DEF Ended
<1>4. [cmd[c] EXCEPT !.pc = "end", !.result = r, !.watched = w] \in CmdSet
  BY <1>1 DEF CmdSet, PCs
<1>. QED  BY <1>1, <1>2, <1>3, <1>4 DEF CmdSet

\* The behavior ends: the unit of work around this one, if any, is the active one.
LEMMA EndNest ==
  ASSUME IInv, NEW c \in Commands, Busy(c), ~At(c, "await"), NEW d \in CmdSet, OneMoves(c, d),
         d.pc = "end", active' = Deactivated(c)
  PROVE  Nested' /\ Owned' /\ active' \in [Roots -> Commands \cup {NoCommand}]
<1>1. cmd'[c] = d /\ \A k \in Commands \ {c} : cmd'[k] = cmd[k]
  BY DEF OneMoves
<1>2. /\ active' \in [Roots -> Commands \cup {NoCommand}] /\ active'[Task(c)] = Parent[c]
      /\ \A r \in Roots \ {Task(c)} : active'[r] = active[r]
  BY OneDeep DEF Deactivated, IInv, Types
<1>3. Nested'
  <2>. SUFFICES ASSUME NEW k \in Commands PROVE Awaits(k)' /\ Inside(k)'
    BY DEF Nested
  <2>1. Awaits(k) /\ Inside(k)
    BY DEF IInv, Nested
  <2>2. Awaits(k)'
    BY <1>1, <2>1 DEF Awaits, At
  <2>3. Inside(k)'
    <3>1. CASE Parent[k] # NoCommand /\ Busy(k)'
      <4>1. Busy(k)
        BY <1>1, <3>1 DEF Busy
      <4>2. Parent[k] \in Commands /\ Parent[k] # c
        BY <2>1, <3>1, <4>1, OneDeep DEF Inside
      <4>. QED  BY <1>1, <2>1, <3>1, <4>1, <4>2 DEF Inside, At
    <3>2. CASE ~(Parent[k] # NoCommand /\ Busy(k)')
      BY <3>2 DEF Inside
    <3>. QED  BY <3>1, <3>2
  <2>. QED  BY <2>2, <2>3
<1>4. Owned'
  <2>. SUFFICES ASSUME NEW r \in Roots PROVE active'[r] = Owner(r)'
    BY DEF Owned
  <2>1. r \in Commands /\ active[r] = Owner(r) /\ Awaits(r) /\ Parent[r] = NoCommand
    BY DEF IInv, Owned, Roots, Nested
  <2>2. CASE r = c
    <3>1. Task(c) = c /\ ~Busy(r)'
      BY <1>1, <2>1, <2>2 DEF Task, Busy
    <3>. QED  BY <1>2, <2>1, <2>2, <3>1 DEF Owner
  <2>3. CASE r # c /\ Task(c) = r
    <3>1. Parent[c] = r
      BY <2>3 DEF Task
    <3>2. At(r, "await") /\ cmd[r].child = c /\ cmd'[r] = cmd[r]
      BY <1>1, <2>1, <2>3, <3>1 DEF IInv, Nested, Inside, Roots
    <3>3. ~Busy(c)' /\ Busy(r)' /\ cmd'[r].child = c
      BY <1>1, <3>2 DEF Busy, At
    <3>. QED  BY <1>2, <2>3, <3>1, <3>2, <3>3 DEF Owner, At
  <2>4. CASE Task(c) # r
    <3>1. r # c
      BY <2>1, <2>4 DEF Task
    <3>2. cmd'[r] = cmd[r] /\ active'[r] = active[r]
      BY <1>1, <1>2, <2>1, <2>4, <3>1
    <3>3. At(r, "await") => cmd[r].child \in Commands /\ cmd[r].child # c
      BY <2>1, <2>4 DEF Awaits, Task
    <3>4. At(r, "await") => cmd'[cmd[r].child] = cmd[cmd[r].child]
      BY <1>1, <3>3
    <3>. QED  BY <2>1, <3>2, <3>4 DEF Owner, At, Busy
  <2>. QED  BY <2>2, <2>3, <2>4
<1>. QED  BY <1>2, <1>3, <1>4

\* The locks of c are released, those of the others are not.
LEMMA Released ==
  ASSUME IInv, NEW c \in Commands, NEW d \in CmdSet, OneMoves(c, d), d.pc = "end", rowLock' = Unlocked(c),
         \A k \in Commands \ {c} : cmd[k].pc # "end" /\ cmd[k].dirty # 0 => version'[Row(k)] = version[Row(k)]
  PROVE  Locks' /\ rowLock' \in [Rows -> Commands \cup {NoCommand}]
<1>1. rowLock' \in [Rows -> Commands \cup {NoCommand}]
  BY DEF Unlocked, IInv, Types
<1>2. ASSUME NEW k \in Commands PROVE Holds(k)'
  <2>1. CASE k = c
    BY <2>1 DEF Holds, OneMoves
  <2>2. CASE k # c
    <3>1. Holds(k) /\ cmd'[k] = cmd[k] /\ Row(k) \in Rows /\ Row(k)' = Row(k)
      BY <2>2, Fields DEF IInv, Locks, OneMoves, Row, Types
    <3>2. rowLock[Row(k)] = k => rowLock'[Row(k)] = k
      BY <2>2, <3>1 DEF Unlocked
    <3>. QED  BY <2>2, <3>1, <3>2 DEF Holds
  <2>. QED  BY <2>1, <2>2
<1>. QED  BY <1>1, <1>2 DEF Locks

\* A command is answered before TransactionBehavior, or its unit of work is opened.
LEMMA SendStep ==
  ASSUME IInv, NEW c \in Commands, Send(c) PROVE IInv'
<1>1. /\ cmd[c] \in CmdSet /\ cmd \in [Commands -> CmdSet] /\ Rec(cmd[c]) /\ cmd[c].pc = "start"
      /\ ~Busy(c) /\ ~At(c, "await") /\ ~At(c, "end") /\ Called(c) /\ UNCHANGED db
  BY DEF IInv, Types, Good, Send, At, Busy
<1>2. ASSUME NEW n, NEW r \in {"raised", "rejected"}, cmd' = [cmd EXCEPT ![c] = Ended(c, r, n)], UNCHANGED active
      PROVE  IInv'
  <2>1. PICK d \in CmdSet : d = Ended(c, r, n)
    BY EndedRecord DEF Results
  <2>2. /\ d.pc = "end" /\ d.result = r /\ d.dirty = 0 /\ <<"Metrics", "success">> \notin d.watched
        /\ d.pending = cmd[c].pending /\ d.attempt = cmd[c].attempt
    BY <1>1, <2>1, EndedRecord DEF Results, Rec
  <2>3. OneMoves(c, d)
    BY <1>2, <2>1, OneMove DEF IInv
  <2>4. Rec(d)
    BY <1>1, <2>2 DEF Rec
  <2>5. Nested' /\ Owned'
    BY <1>1, <1>2, <2>2, <2>3, NestStays
  <2>6. Locks'
    <3>. SUFFICES ASSUME NEW k \in Commands PROVE Holds(k)'
      BY DEF Locks
    <3>1. Holds(k)
      BY DEF IInv, Locks
    <3>. QED  BY <1>1, <2>2, <2>3, <3>1 DEF Holds, Row, OneMoves, db
  <2>7. /\ rowLock' \in [Rows -> Commands \cup {NoCommand}] /\ active' \in [Roots -> Commands \cup {NoCommand}]
        /\ UNCHANGED <<version, outbox, log>>
    BY <1>1, <1>2 DEF IInv, Types, db
  <2>. QED  BY <1>1, <2>2, <2>3, <2>4, <2>5, <2>6, <2>7, CommandStep
<1>3. ASSUME NEW r \in RowsOf[c], cmd' = [cmd EXCEPT ![c].pc = "load", ![c].row = r],
             active' = [active EXCEPT ![Task(c)] = c]
      PROVE  IInv'
  <2>. DEFINE d == [cmd[c] EXCEPT !.pc = "load", !.row = r]
  <2>1. d \in CmdSet
    BY <1>1 DEF CmdSet, PCs
  <2>2. cmd' = [cmd EXCEPT ![c] = d]
    BY <1>1, <1>3
  <2>3. /\ d.pc = "load" /\ d.dirty = cmd[c].dirty /\ d.pending = cmd[c].pending
        /\ d.tracked = cmd[c].tracked /\ d.attempt = cmd[c].attempt
        /\ d.watched = cmd[c].watched /\ d.drained = cmd[c].drained /\ d.result = cmd[c].result
    BY <1>1 DEF CmdSet
  <2>. HIDE DEF d
  <2>4. OneMoves(c, d)
    BY <2>1, <2>2, OneMove DEF IInv
  <2>5. d.dirty = 0 /\ d.watched = {} /\ d.result # "success"
    BY <1>1, <2>3 DEF Rec
  <2>6. Rec(d)
    <3>1. Collecting(d)
      BY <1>1, <2>3 DEF Rec, Collecting
    <3>. QED  BY <1>1, <2>3, <2>5, <3>1 DEF Rec
  <2>7. Locks'
    <3>. SUFFICES ASSUME NEW k \in Commands PROVE Holds(k)'
      BY DEF Locks
    <3>1. Holds(k)
      BY DEF IInv, Locks
    <3>. QED  BY <1>1, <2>4, <2>5, <3>1 DEF Holds, Row, OneMoves, db
  <2>8. cmd'[c] = d /\ \A k \in Commands \ {c} : cmd'[k] = cmd[k]
    BY <2>4 DEF OneMoves
  <2>9. /\ active' \in [Roots -> Commands \cup {NoCommand}] /\ active'[Task(c)] = c
        /\ \A x \in Roots \ {Task(c)} : active'[x] = active[x]
    BY <1>3, OneDeep DEF IInv, Types
  <2>10. Parent[c] # NoCommand => At(Parent[c], "await") /\ cmd[Parent[c]].child = c
    BY <1>1 DEF Called
  <2>11. Nested'
    <3>. SUFFICES ASSUME NEW k \in Commands PROVE Awaits(k)' /\ Inside(k)'
      BY DEF Nested
    <3>1. Awaits(k) /\ Inside(k)
      BY DEF IInv, Nested
    <3>2. Awaits(k)'
      BY <2>3, <2>8, <3>1 DEF Awaits, At
    <3>3. Inside(k)'
      <4>1. CASE k = c
        BY <2>8, <2>10, <4>1, OneDeep DEF Inside, At
      <4>2. CASE k # c /\ Parent[k] # NoCommand /\ Busy(k)'
        <5>1. Busy(k)
          BY <2>8, <4>2 DEF Busy
        <5>2. Parent[k] \in Commands /\ Parent[k] # c
          BY <1>1, <3>1, <4>2, <5>1, OneDeep DEF Inside
        <5>. QED  BY <2>8, <3>1, <4>2, <5>1, <5>2 DEF Inside, At
      <4>3. CASE ~(Parent[k] # NoCommand /\ Busy(k)')
        BY <4>3 DEF Inside
      <4>. QED  BY <4>1, <4>2, <4>3
    <3>. QED  BY <3>2, <3>3
  <2>12. Owned'
    <3>. SUFFICES ASSUME NEW x \in Roots PROVE active'[x] = Owner(x)'
      BY DEF Owned
    <3>1. x \in Commands /\ active[x] = Owner(x) /\ Awaits(x) /\ Parent[x] = NoCommand
      BY DEF IInv, Owned, Roots, Nested
    <3>2. CASE x = c
      BY <2>3, <2>8, <2>9, <3>1, <3>2 DEF Owner, Task, Busy, At
    <3>3. CASE x # c /\ Task(c) = x
      <4>1. Parent[c] = x
        BY <3>3 DEF Task
      <4>2. At(x, "await") /\ cmd[x].child = c /\ cmd'[x] = cmd[x]
        BY <2>8, <2>10, <3>1, <3>3, <4>1
      <4>3. Busy(c)' /\ Busy(x)' /\ cmd'[x].child = c
        BY <2>3, <2>8, <4>2 DEF Busy, At
      <4>. QED  BY <2>9, <3>3, <4>2, <4>3 DEF Owner, At
    <3>4. CASE Task(c) # x
      <4>1. x # c
        BY <3>1, <3>4 DEF Task
      <4>2. cmd'[x] = cmd[x] /\ active'[x] = active[x]
        BY <2>8, <2>9, <3>1, <3>4, <4>1
      <4>3. At(x, "await") => cmd[x].child \in Commands /\ cmd[x].child # c
        BY <3>1, <3>4 DEF Awaits, Task
      <4>4. At(x, "await") => cmd'[cmd[x].child] = cmd[cmd[x].child]
        BY <2>8, <4>3
      <4>. QED  BY <3>1, <4>2, <4>4 DEF Owner, At, Busy
    <3>. QED  BY <3>2, <3>3, <3>4
  <2>13. rowLock' \in [Rows -> Commands \cup {NoCommand}] /\ UNCHANGED <<version, outbox, log>>
    BY <1>1 DEF IInv, Types, db
  <2>. QED  BY <1>1, <2>1, <2>4, <2>5, <2>6, <2>7, <2>9, <2>11, <2>12, <2>13, CommandStep
<1>4. PICK m \in Messages, r \in RowsOf[c] :
        \/ /\ cmd' = [cmd EXCEPT ![c] = Ended(c, "raised", 0)] /\ UNCHANGED active
        \/ /\ cmd' = [cmd EXCEPT ![c] = Ended(c, "rejected", ShortCircuit(Behaviors, m)[1])] /\ UNCHANGED active
        \/ /\ cmd' = [cmd EXCEPT ![c].pc = "load", ![c].row = r]
           /\ active' = [active EXCEPT ![Task(c)] = c]
  BY Zenon DEF Send
<1>5. CASE cmd' = [cmd EXCEPT ![c] = Ended(c, "raised", 0)] /\ UNCHANGED active
  BY <1>2, <1>5
<1>6. CASE cmd' = [cmd EXCEPT ![c] = Ended(c, "rejected", ShortCircuit(Behaviors, m)[1])] /\ UNCHANGED active
  BY <1>2, <1>6
<1>7. CASE cmd' = [cmd EXCEPT ![c].pc = "load", ![c].row = r] /\ active' = [active EXCEPT ![Task(c)] = c]
  BY <1>3, <1>7
<1>. QED  BY <1>4, <1>5, <1>6, <1>7

\* __aexit__ after a failure: nothing of the command is left in the database.
LEMMA RollbackStep ==
  ASSUME IInv, NEW c \in Commands, Rollback(c) PROVE IInv'
<1>1. /\ cmd[c] \in CmdSet /\ cmd \in [Commands -> CmdSet] /\ Rec(cmd[c]) /\ cmd[c].pc = "rollback"
      /\ Busy(c) /\ ~At(c, "await") /\ ~At(c, "end") /\ active' = Deactivated(c) /\ rowLock' = Unlocked(c)
      /\ UNCHANGED <<version, outbox, log>>
  BY DEF IInv, Types, Good, Rollback, At, Busy
<1>2. PICK e \in CmdSet : e = Ended(c, cmd[c].result, Len(Behaviors))
  BY <1>1, EndedRecord, Fields
<1>3. /\ e.pc = "end" /\ e.result = cmd[c].result /\ e.pending = cmd[c].pending /\ e.attempt = cmd[c].attempt
      /\ cmd[c].result # "success" /\ <<"Metrics", "success">> \notin e.watched
  BY <1>1, <1>2, EndedRecord, Fields DEF Rec
<1>. DEFINE d == [e EXCEPT !.dirty = 0]
<1>4. d \in CmdSet
  BY DEF CmdSet
<1>5. /\ d.pc = "end" /\ d.result = e.result /\ d.dirty = 0 /\ d.watched = e.watched
      /\ d.pending = e.pending /\ d.attempt = e.attempt
  BY <1>3 DEF CmdSet
<1>6. cmd' = [cmd EXCEPT ![c] = d]
  BY <1>2 DEF Rollback
<1>. HIDE DEF d
<1>7. OneMoves(c, d)
  BY <1>4, <1>6, OneMove DEF IInv
<1>8. Rec(d)
  BY <1>1, <1>3, <1>5 DEF Rec
<1>9. Nested' /\ Owned' /\ active' \in [Roots -> Commands \cup {NoCommand}]
  BY <1>1, <1>4, <1>5, <1>7, EndNest
<1>10. Locks' /\ rowLock' \in [Rows -> Commands \cup {NoCommand}]
  <2>1. \A k \in Commands \ {c} : version'[Row(k)] = version[Row(k)]
    BY <1>1
  <2>. QED  BY <1>1, <1>4, <1>5, <1>7, <2>1, Released
<1>. QED  BY <1>1, <1>3, <1>4, <1>5, <1>7, <1>8, <1>9, <1>10, CommandStep

-----------------------------------------------------------------------------
(* The commit                                                              *)

\* Write i of the log s follows on the last of the writes E before it.
Follows(s, i, E) ==
  /\ s[i].to > s[i].base
  /\ E = {} => s[i].base = 1
  /\ \A j \in E : (\A k \in E : k <= j) => s[i].base = s[j].to

\* WritesChain, write by write.
LEMMA ChainByWrite == WritesChain <=> \A i \in DOMAIN log : Follows(log, i, Earlier(i))
  BY DEF WritesChain, Follows

\* A write that replaces the version it was based on continues the chain of its row.
LEMMA ChainGrows ==
  ASSUME Types, Chained, NEW w \in Writes, log' = Append(log, w),
         w.base = version[w.row], w.to > w.base, version' = [version EXCEPT ![w.row] = w.to]
  PROVE  Chained'
<1>1. /\ log \in Seq(Writes) /\ version \in [Rows -> Nat] /\ w.row \in Rows
  BY DEF Types, Writes
<1>2. PICK n \in Nat : n = Len(log) /\ DOMAIN log = 1 .. n
  BY <1>1
<1>3. DOMAIN log' = 1 .. n + 1 /\ log'[n + 1] = w /\ \A i \in 1 .. n : log'[i] = log[i]
  BY <1>1, <1>2
<1>4. WritesChain'
  <2>1. ASSUME NEW i \in 1 .. n PROVE Follows(log', i, Earlier(i)')
    <3>1. Follows(log, i, Earlier(i))
      BY <1>2, ChainByWrite DEF Chained
    <3>2. Earlier(i)' = Earlier(i)
      BY <1>2, <1>3 DEF Earlier
    <3>3. log'[i] = log[i] /\ \A j \in Earlier(i) : log'[j] = log[j]
      BY <1>2, <1>3 DEF Earlier
    <3>. QED  BY <3>1, <3>2, <3>3 DEF Follows
  <2>2. Follows(log', n + 1, Earlier(n + 1)')
    <3>1. Earlier(n + 1)' = WritesOf(w.row)
      BY <1>2, <1>3 DEF Earlier, WritesOf
    <3>2. \A j \in WritesOf(w.row) : log'[j] = log[j]
      BY <1>2, <1>3 DEF WritesOf
    <3>3. LastWrite(w.row)
      BY <1>1 DEF Chained
    <3>. QED  BY <1>3, <3>1, <3>2, <3>3 DEF LastWrite, Follows
  <2>3. \A i \in 1 .. n + 1 : i \in 1 .. n \/ i = n + 1
    OBVIOUS
  <2>4. \A i \in DOMAIN log' : Follows(log', i, Earlier(i)')
    BY <1>3, <2>1, <2>2, <2>3
  <2>. QED  BY <2>4 DEF WritesChain, Follows
<1>5. ASSUME NEW r \in Rows PROVE LastWrite(r)'
  <2>1. LastWrite(r)
    BY DEF Chained
  <2>2. CASE r = w.row
    <3>1. version'[r] = w.to /\ n + 1 \in WritesOf(r)' /\ \A j \in WritesOf(r)' : j \in 1 .. n + 1
      BY <1>1, <1>2, <1>3, <2>2 DEF WritesOf
    <3>2. ASSUME NEW j \in WritesOf(r)', \A k \in WritesOf(r)' : k <= j PROVE j = n + 1
      BY <3>1, <3>2
    <3>. QED  BY <1>3, <3>1, <3>2 DEF LastWrite
  <2>3. CASE r # w.row
    <3>1. version'[r] = version[r] /\ WritesOf(r)' = WritesOf(r)
      BY <1>1, <1>2, <1>3, <2>3 DEF WritesOf
    <3>2. \A j \in WritesOf(r) : log'[j] = log[j]
      BY <1>2, <1>3 DEF WritesOf
    <3>. QED  BY <2>1, <3>1, <3>2 DEF LastWrite
  <2>. QED  BY <2>2, <2>3
<1>. QED  BY <1>4, <1>5 DEF Chained

\* The row and the events become durable together.
LEMMA SqlCommitStep ==
  ASSUME IInv, NEW c \in Commands, SqlCommit(c) PROVE IInv'
<1>1. /\ cmd[c] \in CmdSet /\ cmd \in [Commands -> CmdSet] /\ Rec(cmd[c]) /\ cmd[c].pc = "sql"
      /\ Busy(c) /\ ~At(c, "await") /\ ~At(c, "end") /\ active' = Deactivated(c) /\ rowLock' = Unlocked(c)
  BY DEF IInv, Types, Good, SqlCommit, At, Busy
<1>2. PICK x \in {"success", "raised"} : cmd' = [cmd EXCEPT ![c] = Ended(c, x, Len(Behaviors))]
  BY DEF SqlCommit
<1>3. PICK d \in CmdSet : d = Ended(c, x, Len(Behaviors))
  BY EndedRecord DEF Results
<1>4. /\ d.pc = "end" /\ d.result = x /\ d.dirty = cmd[c].dirty /\ d.basis = cmd[c].basis
      /\ d.pending = cmd[c].pending /\ d.attempt = cmd[c].attempt /\ d.drained = cmd[c].drained
  BY <1>3, EndedRecord DEF Results
<1>5. OneMoves(c, d)
  BY <1>2, <1>3, OneMove DEF IInv
<1>6. cmd'[c] = d /\ \A k \in Commands \ {c} : cmd'[k] = cmd[k]
  BY <1>5 DEF OneMoves
<1>7. Collected(d) /\ Rec(d)
  BY <1>1, <1>4 DEF Rec, Collected
<1>8. /\ Row(c) \in Rows /\ cmd[c].dirty \in Nat /\ cmd[c].basis \in Nat
      /\ cmd[c].dirty > cmd[c].basis /\ rowLock[Row(c)] = c /\ cmd[c].basis = version[Row(c)]
  BY <1>1, Fields DEF IInv, Locks, Holds, Rec, Row
<1>9. PICK w \in Writes : w = [cmd |-> c, row |-> Row(c), base |-> cmd[c].basis, to |-> cmd[c].dirty]
  BY <1>8 DEF Writes
<1>10. /\ version' = [version EXCEPT ![Row(c)] = cmd[c].dirty] /\ log' = Append(log, w)
       /\ outbox' = outbox \cup {<<c, n>> : n \in cmd[c].drained}
  BY <1>9 DEF SqlCommit, Persisted
<1>11. w.cmd = c /\ w.row = Row(c) /\ w.base = cmd[c].basis /\ w.to = cmd[c].dirty
  BY <1>9
<1>12. Chained'
  BY <1>8, <1>10, <1>11, ChainGrows DEF IInv
<1>13. Nested' /\ Owned' /\ active' \in [Roots -> Commands \cup {NoCommand}]
  BY <1>1, <1>4, <1>5, EndNest
<1>14. Locks' /\ rowLock' \in [Rows -> Commands \cup {NoCommand}]
  <2>1. ASSUME NEW k \in Commands \ {c}, cmd[k].pc # "end", cmd[k].dirty # 0
        PROVE  version'[Row(k)] = version[Row(k)]
    <3>1. Row(k) \in Rows /\ rowLock[Row(k)] = k
      BY <2>1, Fields DEF IInv, Locks, Holds, Row, Types
    <3>2. Row(k) # Row(c)
      BY <1>8, <3>1
    <3>. QED  BY <1>8, <1>10, <3>1, <3>2 DEF IInv, Types
  <2>. QED  BY <1>1, <1>4, <1>5, <2>1, Released
<1>15. Types'
  <2>1. version' \in [Rows -> Nat] /\ log' \in Seq(Writes)
    BY <1>8, <1>10 DEF IInv, Types
  <2>. QED  BY <1>5, <1>13, <1>14, <2>1 DEF Types, OneMoves
<1>16. Good'
  BY <1>6, <1>7 DEF IInv, Good
<1>17. Fates'
  <2>. SUFFICES ASSUME NEW k \in Commands PROVE FateOf(k)'
    BY DEF Fates
  <2>1. FateOf(k)
    BY DEF IInv, Fates
  <2>2. PICK n \in Nat : n = Len(log) /\ DOMAIN log = 1 .. n
    BY DEF IInv, Types
  <2>3. DOMAIN log' = 1 .. n + 1 /\ log'[n + 1] = w /\ \A i \in 1 .. n : log'[i] = log[i]
    BY <1>10, <2>2 DEF IInv, Types
  <2>4. CASE k = c
    <3>1. Written(c)'
      BY <1>11, <2>2, <2>3 DEF Written
    <3>2. EventsOf(c) = {}
      BY <1>1, <2>1, <2>4 DEF FateOf
    <3>3. EventsOf(c)' = cmd[c].drained
      <4>1. \A y \in outbox : y[1] # c
        BY <3>2 DEF EventsOf
      <4>2. EventsOf(c)' = {e[2] : e \in {y \in outbox' : y[1] = c}}
        BY DEF EventsOf
      <4>3. ASSUME NEW m \in cmd[c].drained PROVE m \in EventsOf(c)'
        <5>1. PICK y \in outbox' : y = <<c, m>>
          BY <1>10
        <5>2. y[1] = c /\ y[2] = m
          BY <5>1
        <5>. QED  BY <4>2, <5>2
      <4>4. ASSUME NEW m \in EventsOf(c)' PROVE m \in cmd[c].drained
        <5>1. PICK y \in outbox' : y[1] = c /\ y[2] = m
          BY <4>2
        <5>2. PICK l \in cmd[c].drained : y = <<c, l>>
          BY <1>10, <4>1, <5>1
        <5>. QED  BY <5>1, <5>2
      <4>. QED  BY <4>3, <4>4
    <3>. QED  BY <1>4, <1>6, <1>7, <2>4, <3>1, <3>3 DEF FateOf, At
  <2>5. CASE k # c
    <3>1. Written(k)' <=> Written(k)
      BY <1>11, <2>2, <2>3, <2>5 DEF Written
    <3>2. EventsOf(k)' = EventsOf(k)
      <4>1. {y \in outbox' : y[1] = k} = {y \in outbox : y[1] = k}
        BY <1>10, <2>5
      <4>. QED  BY <4>1 DEF EventsOf
    <3>. QED  BY <1>6, <2>1, <2>5, <3>1, <3>2 DEF FateOf, At
  <2>. QED  BY <2>4, <2>5
<1>. QED  BY <1>12, <1>13, <1>14, <1>15, <1>16, <1>17 DEF IInv

-----------------------------------------------------------------------------
(* The process dies                                                        *)

\* Every running command of the task ends, the others keep their locks.
LEMMA CrashStep ==
  ASSUME IInv, NEW t \in Roots, Crash(t) PROVE IInv'
<1>. DEFINE dead == {c \in Commands : Task(c) = t /\ cmd[c].pc \notin {"start", "end"}}
            Slain(c) == [cmd[c] EXCEPT !.pc = "end", !.result = "raised", !.dirty = 0]
<1>1. /\ cmd' = [c \in Commands |-> IF c \in dead THEN Slain(c) ELSE cmd[c]]
      /\ rowLock' = [r \in Rows |-> IF rowLock[r] \in dead THEN NoCommand ELSE rowLock[r]]
      /\ active' = [active EXCEPT ![t] = NoCommand] /\ UNCHANGED <<version, outbox, log>>
  BY DEF Crash
<1>2. cmd \in [Commands -> CmdSet] /\ \A c \in Commands : Rec(cmd[c])
  BY DEF IInv, Types, Good
<1>3. ASSUME NEW c \in Commands
      PROVE  /\ Slain(c) \in CmdSet /\ Slain(c).pc = "end" /\ Slain(c).result = "raised" /\ Slain(c).dirty = 0
             /\ Slain(c).watched = cmd[c].watched /\ Slain(c).pending = cmd[c].pending
             /\ Slain(c).attempt = cmd[c].attempt
  <2>1. cmd[c] \in CmdSet
    BY <1>2
  <2>. QED  BY <2>1 DEF CmdSet, PCs, Results
<1>4. \A c \in Commands : (c \in dead <=> Task(c) = t /\ Busy(c))
  BY DEF Busy
<1>5. /\ cmd' \in [Commands -> CmdSet] /\ \A c \in dead : c \in Commands /\ cmd'[c] = Slain(c)
      /\ \A c \in Commands \ dead : cmd'[c] = cmd[c]
  <2>. HIDE DEF Slain
  <2>. QED  BY <1>1, <1>2, <1>3
<1>6. \A c \in dead : Rec(Slain(c))
  <2>. TAKE c \in dead
  <2>1. Rec(cmd[c]) /\ c \in Commands
    BY <1>2
  <2>2. PICK d \in CmdSet : d = Slain(c)
    BY <1>3, <2>1
  <2>. HIDE DEF Slain
  <2>. QED  BY <1>3, <2>1, <2>2 DEF Rec
<1>. HIDE DEF dead, Slain
<1>7. rowLock' \in [Rows -> Commands \cup {NoCommand}] /\ active' \in [Roots -> Commands \cup {NoCommand}]
  BY <1>1 DEF IInv, Types
<1>8. Types'
  BY <1>1, <1>5, <1>7 DEF IInv, Types
<1>9. Good'
  BY <1>2, <1>5, <1>6 DEF Good
<1>10. Locks'
  <2>. SUFFICES ASSUME NEW k \in Commands PROVE Holds(k)'
    BY DEF Locks
  <2>1. CASE k \in dead
    BY <1>3, <1>5, <2>1 DEF Holds
  <2>2. CASE k \notin dead
    <3>1. Holds(k) /\ cmd'[k] = cmd[k] /\ Row(k) \in Rows /\ Row(k)' = Row(k)
      BY <1>2, <1>5, <2>2, Fields DEF IInv, Locks, Row
    <3>2. rowLock[Row(k)] = k => rowLock'[Row(k)] = k
      BY <1>1, <2>2, <3>1
    <3>. QED  BY <1>1, <3>1, <3>2 DEF Holds
  <2>. QED  BY <2>1, <2>2
<1>11. Fates'
  <2>. SUFFICES ASSUME NEW k \in Commands PROVE FateOf(k)'
    BY DEF Fates
  <2>1. FateOf(k) /\ (Written(k)' <=> Written(k)) /\ EventsOf(k)' = EventsOf(k)
    BY <1>1 DEF IInv, Fates, Written, EventsOf
  <2>2. CASE k \in dead
    <3>1. ~Written(k)
      BY <1>4, <2>1, <2>2 DEF FateOf, Busy, At
    <3>2. cmd[k].watched = {} /\ cmd'[k] = Slain(k)
      BY <1>2, <1>4, <1>5, <2>2 DEF Rec, Busy
    <3>. QED  BY <1>3, <2>1, <3>1, <3>2 DEF FateOf
  <2>3. CASE k \notin dead
    BY <1>5, <2>1, <2>3 DEF FateOf, At
  <2>. QED  BY <2>2, <2>3
<1>12. Nested'
  <2>. SUFFICES ASSUME NEW k \in Commands PROVE Awaits(k)' /\ Inside(k)'
    BY DEF Nested
  <2>1. Awaits(k) /\ Inside(k)
    BY DEF IInv, Nested
  <2>2. CASE k \in dead
    <3>1. cmd'[k].pc = "end"
      BY <1>3, <1>5, <2>2
    <3>. QED  BY <3>1 DEF Awaits, Inside, At, Busy
  <2>3. CASE k \notin dead
    <3>1. cmd'[k] = cmd[k]
      BY <1>5, <2>3
    <3>2. CASE Parent[k] # NoCommand /\ Busy(k)
      <4>1. Task(k) # t /\ Parent[k] \in Commands /\ Parent[k] # t /\ Task(Parent[k]) = Parent[k]
        BY <1>4, <2>3, <3>2, OneDeep DEF Task
      <4>2. cmd'[Parent[k]] = cmd[Parent[k]]
        BY <1>4, <1>5, <4>1
      <4>. QED  BY <2>1, <3>1, <3>2, <4>2 DEF Awaits, Inside, At
    <3>3. CASE ~(Parent[k] # NoCommand /\ Busy(k))
      BY <2>1, <3>1, <3>3 DEF Awaits, Inside, At, Busy
    <3>. QED  BY <3>2, <3>3
  <2>. QED  BY <2>2, <2>3
<1>13. Owned'
  <2>. SUFFICES ASSUME NEW r \in Roots PROVE active'[r] = Owner(r)'
    BY DEF Owned
  <2>1. r \in Commands /\ active[r] = Owner(r) /\ Awaits(r) /\ Task(r) = r
    BY DEF IInv, Owned, Roots, Nested, Task
  <2>2. CASE r = t
    <3>1. ~Busy(r)'
      BY <1>3, <1>4, <1>5, <2>1, <2>2 DEF Busy
    <3>2. active'[r] = NoCommand
      BY <1>1, <2>2 DEF IInv, Types
    <3>. QED  BY <3>1, <3>2 DEF Owner
  <2>3. CASE r # t
    <3>1. cmd'[r] = cmd[r] /\ active'[r] = active[r]
      BY <1>1, <1>4, <1>5, <2>1, <2>3 DEF IInv, Types
    <3>2. At(r, "await") => cmd[r].child \in Commands /\ Task(cmd[r].child) = r
      BY <2>1 DEF Awaits, Task
    <3>3. At(r, "await") => cmd'[cmd[r].child] = cmd[cmd[r].child]
      BY <1>4, <1>5, <2>3, <3>2
    <3>. QED  BY <2>1, <3>1, <3>3 DEF Owner, At, Busy
  <2>. QED  BY <2>2, <2>3
<1>14. Chained'
  BY <1>1 DEF IInv, Chained, WritesChain, Earlier, LastWrite, WritesOf
<1>. QED  BY <1>8, <1>9, <1>10, <1>11, <1>12, <1>13, <1>14 DEF IInv

-----------------------------------------------------------------------------
(* The theorems                                                            *)

\* Neither the registrations nor a stuttering step touch what the invariant is about.
LEMMA QuietStep ==
  ASSUME IInv, UNCHANGED <<db, cmd, active>> PROVE IInv'
<1>1. version' = version /\ rowLock' = rowLock /\ outbox' = outbox /\ log' = log /\ cmd' = cmd /\ active' = active
  BY DEF db
<1>2. Types' /\ Good' /\ Locks'
  BY <1>1 DEF IInv, Types, Good, Locks, Holds, Row
<1>3. Fates'
  BY <1>1 DEF IInv, Fates, FateOf, Written, EventsOf, At
<1>4. Nested' /\ Owned'
  BY <1>1 DEF IInv, Nested, Awaits, Inside, Busy, At, Owned, Owner
<1>5. Chained'
  BY <1>1 DEF IInv, Chained, WritesChain, Earlier, LastWrite, WritesOf
<1>. QED  BY <1>2, <1>3, <1>4, <1>5 DEF IInv

\* Every step of the system keeps the inductive invariant.
LEMMA NextIInv == IInv /\ [Next]_vars => IInv'
<1>. SUFFICES ASSUME IInv, [Next]_vars PROVE IInv'
  OBVIOUS
<1>1. CASE Startup
  BY <1>1, QuietStep DEF Startup
<1>2. ASSUME NEW c \in Commands, Advance(c) PROVE IInv'
  <2>1. CASE Send(c)
    BY <2>1, SendStep
  <2>2. CASE Load(c)
    BY <2>2, LoadStep
  <2>3. CASE Save(c)
    BY <2>3, SaveStep
  <2>4. CASE SqlFails(c) \/ GiveUp(c)
    BY <2>4, FailStep
  <2>5. CASE Retry(c)
    BY <2>5, RetryStep
  <2>6. CASE Drain(c)
    BY <2>6, DrainStep
  <2>7. CASE HandleEvent(c)
    BY <2>7, EventHandlerStep, AwaitStep
  <2>8. CASE ChildEnded(c)
    BY <2>8, ChildEndedStep
  <2>9. CASE Dispatched(c)
    BY <2>9, DispatchedStep
  <2>10. CASE SqlCommit(c)
    BY <2>10, SqlCommitStep
  <2>11. CASE Rollback(c)
    BY <2>11, RollbackStep
  <2>. QED  BY <1>2, <2>1, <2>2, <2>3, <2>4, <2>5, <2>6, <2>7, <2>8, <2>9, <2>10, <2>11 DEF Advance
<1>3. ASSUME NEW c \in Commands, HandlerFails(c) PROVE IInv'
  BY <1>3, FailStep
<1>4. ASSUME NEW c \in Commands, EventHandlerRaises(c) PROVE IInv'
  BY <1>4, EventHandlerStep
<1>5. ASSUME NEW c \in Commands, CommitFails(c) PROVE IInv'
  BY <1>5, DispatchedStep
<1>6. ASSUME NEW t \in Roots, Crash(t) PROVE IInv'
  BY <1>6, CrashStep
<1>7. CASE Idle \/ UNCHANGED vars
  BY <1>7, QuietStep DEF Idle, vars
<1>. QED  BY <1>1, <1>2, <1>3, <1>4, <1>5, <1>6, <1>7 DEF Next

\* The inductive invariant holds in every reachable state.
THEOREM Invariance == Spec => []IInv
<1>. QED  BY InitIInv, NextIInv, PTL DEF Spec

\* No lost update (repo.save's version check under the row lock): for any number of
\* commands, retries and crashes the committed writes of a row form one chain.
THEOREM NoLostUpdate == Spec => []WritesChain
<1>1. IInv => WritesChain
  BY DEF IInv, Chained
<1>. QED  BY <1>1, Invariance, PTL

\* UnitOfWork.commit: a command has its write and its events committed, or neither, and
\* neither the caller nor the metrics see a success without them.
THEOREM CommitIsAtomic == Spec => []OutboxIsAtomic
<1>1. IInv => OutboxIsAtomic
  <2>. SUFFICES ASSUME IInv, NEW c \in Commands
                PROVE  /\ EventsOf(c) # {} <=> Written(c)
                       /\ cmd[c].result = "success" => Written(c)
                       /\ cmd[c].result \in {"rejected", "conflict", "infra"} => ~Written(c)
                       /\ <<"Metrics", "success">> \in cmd[c].watched => Written(c)
    BY DEF OutboxIsAtomic
  <2>1. FateOf(c)
    BY DEF IInv, Fates
  <2>2. Written(c) => EventsOf(c) # {}
    BY <2>1 DEF FateOf, Collected
  <2>. QED  BY <2>1, <2>2 DEF FateOf
<1>. QED  BY <1>1, Invariance, PTL

\* track and pull_events: exactly the events of the first loaded instance are published, and
\* the ones left in buffers are of instances a retry loaded or come after the drain.
THEOREM EventsAreAccounted == Spec => []EventsAccounted
<1>1. IInv => EventsAccounted
  <2>. SUFFICES ASSUME IInv, NEW c \in Commands, Written(c)
                PROVE  /\ EventsOf(c) \cap cmd[c].pending = {}
                       /\ cmd[c].attempt \in cmd[c].pending \cup EventsOf(c)
                       /\ \E first \in Instances \ {0} :
                            EventsOf(c) = {first} /\ \A n \in cmd[c].pending \ {0} : n > first
    BY DEF EventsAccounted
  <2>1. EventsOf(c) = cmd[c].drained /\ Collected(cmd[c])
    BY DEF IInv, Fates, FateOf
  <2>2. PICK f \in 1 .. MaxAttempts :
          /\ cmd[c].drained = {f} /\ f \notin cmd[c].pending
          /\ \A n \in cmd[c].pending \ {0} : n > f
          /\ cmd[c].attempt \in cmd[c].pending \cup {f}
    BY <2>1 DEF Collected
  <2>3. f \in Instances \ {0}
    BY DEF Instances
  <2>. QED  BY <2>1, <2>2, <2>3
<1>. QED  BY <1>1, Invariance, PTL

\* get_current_uow: code that runs for a command finds the unit of work opened for it, also
\* after a nested command, an early answer, a rollback or a crash of another task.
THEOREM UowStaysOwn == Spec => []UowIsOwn
<1>1. IInv => UowIsOwn
  <2>. SUFFICES ASSUME IInv, NEW c \in Commands
                PROVE  /\ cmd[c].pc \in {"load", "save", "return", "failed", "dispatch", "sql", "rollback"}
                            => active[Task(c)] = c
                       /\ At(c, "await") => active[c] \in {c} \cup {k \in Commands : Parent[k] = c}
    BY DEF UowIsOwn
  <2>1. cmd[c].pc \in {"load", "save", "return", "failed", "dispatch", "sql", "rollback"} => active[Task(c)] = c
    BY OwnUow DEF Busy, At
  <2>2. ASSUME At(c, "await") PROVE active[c] \in {c} \cup {k \in Commands : Parent[k] = c}
    <3>1. cmd[c].child \in Commands /\ Parent[cmd[c].child] = c
      BY <2>2 DEF IInv, Nested, Awaits
    <3>2. c \in Roots
      BY <3>1 DEF Roots
    <3>3. active[c] \in {c, cmd[c].child}
      BY <2>2, <3>2 DEF IInv, Owned, Owner, Busy, At
    <3>. QED  BY <3>1, <3>3
  <2>. QED  BY <2>1, <2>2
<1>. QED  BY <1>1, Invariance, PTL
=============================================================================
