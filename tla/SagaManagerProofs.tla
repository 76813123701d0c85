-------------------------- MODULE SagaManagerProofs --------------------------
(***************************************************************************)
(* What the optimistic version check of SagaStore guarantees for every     *)
(* number of deliveries, tickers and faults, with and without the lock.    *)
(***************************************************************************)
EXTENDS SagaManager, TLAPS

\* The part of the state the argument is about.
RowTypes ==
  /\ row \in RowSet \cup {NoRow}
  /\ pc \in [Processes -> PCs]
  /\ instance \in [Processes -> RowSet \cup {NoRow}]
  /\ saga \in [Processes -> [state : SUBSET Events, status : {"running"} \cup Terminal]]
  /\ tx \in [Processes -> RowSet \cup {NoRow}]

Working == {"handle", "compensate", "save"}

\* PostgreSQL lets one transaction at a time hold the row.
OneWriter == \A p, q \in Processes : tx[p] # NoRow /\ tx[q] # NoRow => p = q

\* What a transaction has written builds on the committed row, which is running.
TxFollows ==
  \A p \in Processes : tx[p] # NoRow /\ row # NoRow =>
    /\ row.status = "running"
    /\ tx[p].version = row.version + 1
    /\ row.state \subseteq tx[p].state

\* Before its save a process has written nothing but a row it created.
TxShape ==
  \A p \in Processes :
    /\ pc[p] \in {"new", "create", "lock", "end"} => tx[p] = NoRow
    /\ pc[p] \in Working /\ tx[p] # NoRow => row = NoRow
    /\ pc[p] \in Working \cup {"lock"} /\ tx[p] = NoRow => row # NoRow

\* The instance a process works on is not ahead of the row, and when it is not
\* behind either, it is the row.
CopyBehind ==
  \A p \in Processes : pc[p] \in Working \cup {"lock"} =>
    /\ instance[p] # NoRow
    /\ instance[p].state \subseteq saga[p].state
    /\ row # NoRow => instance[p].version <= row.version
    /\ row # NoRow /\ instance[p].version = row.version =>
         row.status = "running" /\ row.state = instance[p].state

\* The inductive invariant.
IInv == RowTypes /\ OneWriter /\ TxFollows /\ TxShape /\ CopyBehind

USE SagaAssumption

\* The initial states satisfy the inductive invariant.
LEMMA InitIInv == Init => IInv
  BY DEF Init, IInv, RowTypes, OneWriter, TxFollows, TxShape, CopyBehind, Working, NewSaga, PCs, RowSet, Terminal

\* Loading takes a copy of the committed row.
LEMMA LoadStep ==
  ASSUME IInv, NEW p \in Processes, Load(p) \/ Tick(p) PROVE IInv'
<1>. USE DEF IInv, RowTypes, OneWriter, TxFollows, TxShape, CopyBehind, Working, Goto, NewSaga, PCs, RowSet
<1>1. CASE Load(p)
  <2>1. CASE row = NoRow
    BY <1>1, <2>1 DEF Load
  <2>2. CASE row # NoRow
    <3>1. row \in RowSet /\ row.version \in Nat /\ row.state \in SUBSET Events
      BY <2>2
    <3>2. Done(row) \/ row.status = "running"
      BY <3>1 DEF Done
    <3>3. /\ saga' = [saga EXCEPT ![p] = [state |-> row.state, status |-> "running"]]
          /\ instance' = [instance EXCEPT ![p] = row] /\ row' = row /\ tx' = tx
          /\ pc' = [pc EXCEPT ![p] = IF Done(row) THEN "commit" ELSE "handle"] /\ pc[p] = "new"
      BY <1>1, <2>2 DEF Load
    <3>. QED  BY <2>2, <3>1, <3>2, <3>3
  <2>. QED  BY <2>1, <2>2
<1>2. CASE Tick(p)
  BY <1>2 DEF Tick, TimedOut
<1>. QED  BY <1>1, <1>2

\* The creator of the row is its only writer.
LEMMA CreateStep ==
  ASSUME IInv, NEW p \in Processes, Create(p) PROVE IInv'
<1>. DEFINE fresh == RowOf("running", {}, 0)
<1>1. fresh \in RowSet /\ fresh # NoRow /\ fresh.state = {} /\ fresh.version = 0
  <2>1. fresh \in RowSet
    BY DEF fresh, RowOf, RowSet
  <2>2. fresh.state = {} /\ fresh.version = 0
    BY DEF fresh, RowOf
  <2>. HIDE DEF fresh
  <2>. QED  BY <2>1, <2>2
<1>. HIDE DEF fresh
<1>2. CASE row # NoRow
  BY <1>2 DEF Create, IInv, RowTypes, OneWriter, TxFollows, TxShape, CopyBehind, Working, Goto, PCs
<1>3. CASE row = NoRow
  <2>1. /\ tx' = [tx EXCEPT ![p] = fresh] /\ instance' = [instance EXCEPT ![p] = fresh]
        /\ saga' = [saga EXCEPT ![p] = NewSaga] /\ pc' = [pc EXCEPT ![p] = "handle"]
        /\ row' = row /\ RowFree(p)
    BY <1>3 DEF Create, fresh, Goto
  <2>. QED  BY <1>1, <1>3, <2>1
            DEF IInv, RowTypes, OneWriter, TxFollows, TxShape, CopyBehind, Working, PCs, NewSaga, RowFree
<1>. QED  BY <1>2, <1>3

\* Skipping, handlers, compensation and the lock change neither the row nor any copy of it, and
\* the saga's state only grows.
LEMMA LocalStep ==
  ASSUME IInv, NEW p \in Processes,
         \/ \E o \in Outcomes : Handle(p, o) \/ RunTimeout(p, o)
         \/ \E b \in BOOLEAN : Compensate(p, b)
         \/ Skip(p) \/ AcquireLock(p) \/ ReleaseLock(p)
  PROVE  IInv'
<1>. USE DEF IInv, RowTypes, OneWriter, TxFollows, TxShape, CopyBehind, Working, Goto, PCs, Terminal
<1>1. ASSUME NEW o \in Outcomes, Handle(p, o) PROVE IInv'
  BY <1>1 DEF Handle, Outcomes, NeedsCompensation
<1>2. ASSUME NEW o \in Outcomes, RunTimeout(p, o) PROVE IInv'
  BY <1>2 DEF RunTimeout, Outcomes
<1>3. ASSUME NEW b \in BOOLEAN, Compensate(p, b) PROVE IInv'
  BY <1>3 DEF Compensate
<1>4. CASE AcquireLock(p)
  BY <1>4 DEF AcquireLock
<1>5. CASE ReleaseLock(p)
  BY <1>5 DEF ReleaseLock
<1>6. CASE Skip(p)
  BY <1>6 DEF Skip
<1>. QED  BY <1>1, <1>2, <1>3, <1>4, <1>5, <1>6

\* A save that matches builds on the committed row.
LEMMA SaveStep ==
  ASSUME IInv, NEW p \in Processes, Save(p) PROVE IInv'
<1>. DEFINE seen == IF tx[p] # NoRow THEN tx[p] ELSE row
            new  == RowOf(saga[p].status, saga[p].state, instance[p].version + 1)
<1>1. /\ pc[p] = "save" /\ RowFree(p) /\ row' = row /\ instance' = instance /\ saga' = saga
      /\ tx' = [tx EXCEPT ![p] = IF Matches(p, seen) THEN new ELSE @]
      /\ \E to \in {"release", "commit"} : pc' = [pc EXCEPT ![p] = to]
  BY DEF Save, Goto
<1>2. instance[p] \in RowSet /\ instance[p].version \in Nat /\ instance[p].state \subseteq saga[p].state
  BY <1>1 DEF IInv, RowTypes, CopyBehind, Working, RowSet
<1>3. saga[p].status \in {"running"} \cup Terminal /\ saga[p].state \in SUBSET Events
  BY DEF IInv, RowTypes
<1>4. /\ new \in RowSet /\ new # NoRow /\ new.state = saga[p].state
      /\ new.version = instance[p].version + 1
  <2>1. instance[p].version + 1 \in Nat
    BY <1>2
  <2>. HIDE DEF new
  <2>2. new \in RowSet
    BY <1>3, <2>1 DEF new, RowOf, RowSet
  <2>3. new.state = saga[p].state /\ new.version = instance[p].version + 1
    BY DEF new, RowOf
  <2>. QED  BY <2>2, <2>3
<1>. HIDE DEF new
<1>5. row # NoRow => tx[p] = NoRow
  BY <1>1 DEF IInv, TxShape, Working
<1>6. CASE Matches(p, seen)
  <2>1. tx' = [tx EXCEPT ![p] = new]
    BY <1>1, <1>6
  <2>2. row # NoRow => /\ row.status = "running" /\ new.version = row.version + 1
                       /\ row.state \subseteq new.state
    BY <1>1, <1>2, <1>4, <1>5, <1>6 DEF IInv, CopyBehind, Working, Matches
  <2>. QED  BY <1>1, <1>4, <2>1, <2>2
            DEF IInv, RowTypes, OneWriter, TxFollows, TxShape, CopyBehind, Working, PCs, RowFree
<1>7. CASE ~Matches(p, seen)
  <2>1. tx' = tx
    BY <1>1, <1>7 DEF IInv, RowTypes
  <2>. QED  BY <1>1, <2>1
            DEF IInv, RowTypes, OneWriter, TxFollows, TxShape, CopyBehind, Working, PCs
<1>. QED  BY <1>6, <1>7

\* A commit moves the row one version on, past every other copy.
LEMMA CommitStep ==
  ASSUME IInv, NEW p \in Processes, Commit(p) PROVE IInv'
<1>. USE DEF IInv, RowTypes, OneWriter, TxFollows, TxShape, CopyBehind, Working, Goto, PCs
<1>1. CASE tx[p] = NoRow
  BY <1>1 DEF Commit
<1>2. CASE tx[p] # NoRow
  <2>1. /\ row' = tx[p] /\ tx' = [tx EXCEPT ![p] = NoRow] /\ instance' = instance /\ saga' = saga
        /\ \E to \in {"new", "end"} : pc' = [pc EXCEPT ![p] = to]
    BY <1>2 DEF Commit
  <2>2. \A q \in Processes : tx'[q] = NoRow
    BY <1>2, <2>1
  <2>3. row' \in RowSet /\ row' # NoRow /\ row'.version \in Nat
    BY <1>2, <2>1 DEF RowSet
  <2>4. \A q \in Processes : pc'[q] \in Working \cup {"lock"} =>
          q # p /\ pc'[q] = pc[q] /\ tx[q] = NoRow /\ row # NoRow
    BY <1>2, <2>1
  <2>5. row # NoRow => row.version \in Nat /\ row'.version = row.version + 1
    BY <1>2, <2>1 DEF RowSet
  <2>6. \A q \in Processes : instance[q] # NoRow => instance[q].version \in Nat
    BY DEF RowSet
  <2>7. CopyBehind'
    BY <2>1, <2>3, <2>4, <2>5, <2>6
  <2>. QED  BY <2>1, <2>2, <2>3, <2>4, <2>7
<1>. QED  BY <1>1, <1>2

\* Time changes only the age of the row; a crash only drops a transaction.
LEMMA EnvironmentStep ==
  ASSUME IInv, GrowOld \/ LockExpires \/ Quiet \/ \E p \in Processes : Crash(p) PROVE IInv'
<1>. USE DEF IInv, RowTypes, OneWriter, TxFollows, TxShape, CopyBehind, Working, Goto, PCs
<1>1. CASE GrowOld
  <2>1. row \in RowSet /\ row' = [row EXCEPT !.old = TRUE] /\ row # NoRow
    BY <1>1 DEF GrowOld
  <2>2. /\ row' \in RowSet /\ row' # NoRow /\ row'.status = row.status /\ row'.state = row.state
        /\ row'.version = row.version
    BY <2>1 DEF RowSet
  <2>. QED  BY <1>1, <2>1, <2>2 DEF GrowOld
<1>2. CASE LockExpires
  BY <1>2 DEF LockExpires
<1>3. CASE Quiet
  BY <1>3 DEF Quiet, vars
<1>4. ASSUME NEW p \in Processes, Crash(p) PROVE IInv'
  BY <1>4 DEF Crash
<1>. QED  BY <1>1, <1>2, <1>3, <1>4

\* Every step preserves the inductive invariant.
LEMMA NextIInv == IInv /\ [Next]_vars => IInv'
<1>. SUFFICES ASSUME IInv, [Next]_vars PROVE IInv'
  OBVIOUS
<1>1. CASE UNCHANGED vars
  BY <1>1 DEF vars, IInv, RowTypes, OneWriter, TxFollows, TxShape, CopyBehind
<1>2. ASSUME NEW p \in Processes, Step(p) PROVE IInv'
  BY <1>2, LoadStep, CreateStep, LocalStep, SaveStep, CommitStep DEF Step
<1>. QED  BY <1>1, <1>2, EnvironmentStep DEF Next

\* The inductive invariant holds in every reachable state.
THEOREM Invariance == Spec => []IInv
  BY InitIInv, NextIInv, PTL DEF Spec

\* Only a commit that builds on the committed row changes it, apart from its age.
LEMMA RowChanges ==
  ASSUME IInv, [Next]_vars, row # NoRow
  PROVE  \/ row' = row
         \/ row' # NoRow /\ row'.status = row.status /\ row'.state = row.state /\ row'.version = row.version
         \/ /\ row.status = "running" /\ row' # NoRow /\ row.state \subseteq row'.state
            /\ row'.version = row.version + 1
<1>1. CASE UNCHANGED vars
  BY <1>1 DEF vars
<1>2. ASSUME NEW p \in Processes, Commit(p)
      PROVE  \/ row' = row
             \/ /\ row.status = "running" /\ row' # NoRow /\ row.state \subseteq row'.state
                /\ row'.version = row.version + 1
  BY <1>2 DEF Commit, IInv, TxFollows
<1>3. CASE GrowOld
  <2>1. row \in RowSet /\ row' = [row EXCEPT !.old = TRUE]
    BY <1>3 DEF GrowOld, IInv, RowTypes
  <2>. QED  BY <2>1 DEF RowSet
<1>4. ASSUME NEW p \in Processes, Step(p), ~Commit(p) PROVE row' = row
  BY <1>4 DEF Step, Skip, Load, Create, Handle, Compensate, Save, Tick, AcquireLock, RunTimeout, ReleaseLock
<1>5. ASSUME NEW p \in Processes, Crash(p) PROVE row' = row
  BY <1>5 DEF Crash
<1>6. CASE LockExpires \/ Quiet
  BY <1>6 DEF LockExpires, Quiet, vars
<1>. QED  BY <1>1, <1>2, <1>3, <1>4, <1>5, <1>6 DEF Next

\* A finished saga stays as it is, whatever earlier copies of it are saved later: the
\* WHERE clause of SagaStore.save on id and version.
THEOREM FinalStays == Spec => TerminalIsFinal
<1>1. IInv /\ [Next]_vars =>
        [row # NoRow /\ row.status \in Terminal =>
           row' # NoRow /\ row'.status = row.status /\ row'.state = row.state]_vars
  BY RowChanges DEF Terminal
<1>. QED  BY <1>1, Invariance, PTL DEF Spec, TerminalIsFinal

\* No save of a saga overwrites what another process recorded in its state.
THEOREM NothingLost == Spec => NoLostUpdate
<1>1. IInv /\ [Next]_vars =>
        [row # NoRow => /\ row' # NoRow /\ row.state \subseteq row'.state
                        /\ row'.version \in {row.version, row.version + 1}]_vars
  BY RowChanges
<1>. QED  BY <1>1, Invariance, PTL DEF Spec, NoLostUpdate

-----------------------------------------------------------------------------
(* The timeout lock                                                        *)

\* A ticker creates no row, and inside the timeout handler it holds the lock, unless some
\* holder outlived its TTL.
HolderInside ==
  \A t \in Tickers : pc[t] # "create" /\ (UseLock /\ ~overrun /\ Inside(t) => lock = t)

\* Every step preserves it: only a free lock lets a ticker in, and only the holder's own
\* token frees it.
LEMMA HolderStep == IInv /\ HolderInside /\ [Next]_vars => HolderInside'
<1>. SUFFICES ASSUME IInv, HolderInside, [Next]_vars PROVE HolderInside'
  OBVIOUS
<1>. USE DEF HolderInside, Inside, Goto
<1>0. pc \in [Processes -> PCs] /\ Tickers \subseteq Processes
  BY DEF IInv, RowTypes, Processes
<1>1. CASE UNCHANGED vars
  BY <1>1 DEF vars
<1>2. ASSUME NEW p \in Processes, AcquireLock(p) PROVE HolderInside'
  BY <1>0, <1>2 DEF AcquireLock, Enters, SetNX
<1>3. ASSUME NEW p \in Processes, ReleaseLock(p) PROVE HolderInside'
  BY <1>0, <1>3 DEF ReleaseLock, CompareAndDelete
<1>4. ASSUME NEW p \in Processes, Skip(p) \/ Load(p) \/ Create(p) \/ \E o \in Outcomes : Handle(p, o)
      PROVE  HolderInside'
  <2>1. p \notin Tickers
    BY <1>4 DEF Skip, Load, Create, Handle
  <2>2. lock' = lock /\ overrun' = overrun /\ \E to \in PCs : pc' = [pc EXCEPT ![p] = to]
    BY <1>4 DEF Skip, Load, Create, Handle, PCs
  <2>3. \A t \in Tickers : pc'[t] = pc[t]
    BY <1>0, <2>1, <2>2
  <2>. QED  BY <2>2, <2>3
<1>5. ASSUME NEW p \in Processes,
             Save(p) \/ Commit(p) \/ Tick(p) \/ (\E b \in BOOLEAN : Compensate(p, b))
               \/ \E o \in Outcomes : RunTimeout(p, o)
      PROVE  HolderInside'
  BY <1>0, <1>5 DEF Save, Commit, Tick, Compensate, RunTimeout
<1>6. ASSUME NEW p \in Processes, Crash(p) PROVE HolderInside'
  BY <1>0, <1>6 DEF Crash
<1>7. CASE GrowOld \/ Quiet
  BY <1>7 DEF GrowOld, Quiet, vars
<1>8. CASE LockExpires
  BY <1>8 DEF LockExpires
<1>. QED  BY <1>1, <1>2, <1>3, <1>4, <1>5, <1>6, <1>7, <1>8 DEF Next, Step

\* With a lock factory two tickers are never inside the timeout handler together, however
\* many of them crash, as long as no holder outlives the TTL: tick_timeouts, DistributedLock.
THEOREM TickersExclude == Spec => [](UseLock => TimeoutsExclusive)
<1>1. Init => HolderInside
  BY DEF Init, HolderInside, Inside, Processes
<1>2. HolderInside => (UseLock => TimeoutsExclusive)
  BY DEF HolderInside, TimeoutsExclusive
<1>. QED  BY <1>1, <1>2, HolderStep, Invariance, PTL DEF Spec
=============================================================================
