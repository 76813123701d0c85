------------------------------ MODULE Container ------------------------------
(***************************************************************************)
(* The dependency injection container: providers, singleton caches with    *)
(* their lock, scopes, overrides, a child container, disposal.  Tasks are  *)
(* asyncio tasks: the one that runs keeps the event loop until it awaits a *)
(* lock somebody holds or the result of an async factory.                  *)
(*                                                                         *)
(* A resolution is a stack of frames, one per nested _resolve call.  A     *)
(* frame at "raise" is left by a ResolutionError, which the default of a   *)
(* parameter absorbs, one at "fail" by any other exception.                *)
(***************************************************************************)
EXTENDS Naturals, Sequences, FiniteSets

CONSTANTS
  Tasks, Keys, Scopes,
  None,          \* no task, no provider, no instance, no scope
  Classes,       \* [classes among the keys -> their constructors as transient providers]
  Registries,    \* the registrations the program may start with
  Extra,         \* <<key, provider>> pairs registered, scanned or overridden later
  MaxResolves,   \* bound on calls of resolve and resolve_sync
  MaxChanges     \* bound on registrations, overrides and closings

Containers == {"root", "child"}
Parent == [root |-> None, child |-> "root"]
Lifetimes == {"singleton", "scoped", "transient"}

\* Providers.  deps are the annotated constructor parameters, in order; a
\* parameter that has a default is in opt.
FactoryProvider(life, deps, opt, isAsync) ==
  [life |-> life, deps |-> deps, opt |-> opt, async |-> isAsync, instance |-> None]

InstanceProvider(i) == [life |-> "singleton", deps |-> <<>>, opt |-> {}, async |-> FALSE, instance |-> i]

Providers ==
  [life : Lifetimes, deps : Seq(Keys), opt : SUBSET Nat, async : BOOLEAN, instance : Nat \cup {None}]

\* What the decorators stamp on a class, which is what scan() registers.
Injectable(key, life, deps, opt) == <<key, FactoryProvider(life, deps, opt, FALSE)>>

ASSUME ContainerAssumption ==
  /\ IsFiniteSet(Tasks) /\ None \notin Tasks /\ None \notin Nat
  /\ None \notin Scopes \cup Containers /\ Scopes \cap Containers = {}
  /\ Registries \subseteq [Containers -> [Keys -> Providers \cup {None}]]
  /\ Extra \subseteq Keys \X Providers
  /\ Classes \in [DOMAIN Classes -> Providers]

VARIABLES
  provider,   \* [Containers -> [Keys -> provider or None]]
  override,   \* [Containers -> [Keys -> provider or None]]
  saved,      \* open override(): None or [at, key, provider, single]
  single,     \* [Containers -> [Keys -> instance or None]]: _singletons
  lock,       \* [Containers -> task or None]: _singleton_lock
  cache,      \* [Scopes -> [Keys -> instance or None]]
  disposers,  \* [Containers \cup Scopes -> Seq(instances)]
  phase,      \* [Containers \cup Scopes -> {"new", "open", "closing", "closed"}]
  left,       \* [Containers \cup Scopes -> Nat]: disposers the closing has still to run
  insts,      \* history: Seq([key, home]): every instance built; home is where it is stored
  disposed,   \* history: instances whose disposer ran
  late,       \* history: instances stored while their home was being closed
  reset,      \* history: <<container, key>> whose cached singleton was taken away
  served,     \* history: <<home, key, instance, task>> returned from a cache or stored in it
  stack,      \* [Tasks -> Seq(frames)]
  task,       \* [Tasks -> [state, self, sync]]
  running,    \* the task that has the event loop, or None
  resolves, changes

registry == <<provider, override, saved>>
homes == <<disposers, phase, left, disposed>>
ghosts == <<late, reset, served>>
containerVars == <<provider, override, saved, single, lock, cache, disposers, phase, left, insts, disposed,
          late, reset, served, stack, task, running, resolves, changes>>

ContainerInit ==
  /\ provider \in Registries
  /\ override = [c \in Containers |-> [k \in Keys |-> None]]
  /\ saved = None
  /\ single = [c \in Containers |-> [k \in Keys |-> None]]
  /\ lock = [c \in Containers |-> None]
  /\ cache = [s \in Scopes |-> [k \in Keys |-> None]]
  /\ disposers = [h \in Containers \cup Scopes |-> <<>>]
  /\ phase = [h \in Containers \cup Scopes |-> IF h \in Scopes THEN "new" ELSE "open"]
  /\ left = [h \in Containers \cup Scopes |-> 0]
  /\ insts = <<>> /\ disposed = {} /\ late = {} /\ reset = {} /\ served = {}
  /\ stack = [t \in Tasks |-> <<>>]
  /\ task = [t \in Tasks |-> [state |-> "idle", self |-> "root", sync |-> FALSE]]
  /\ running = None /\ resolves = 0 /\ changes = 0

-----------------------------------------------------------------------------
(* Lookup                                                                  *)

\* _find_provider_with_owner: the override, the own registration, the parent's.
Own(c, k) == IF override[c][k] # None THEN override[c][k] ELSE provider[c][k]

\* A class nobody registered is constructed as a transient of the asking container.
FindProviderWithOwner(c, k) ==
  IF Own(c, k) # None THEN [prov |-> Own(c, k), owner |-> c]
  ELSE IF Parent[c] # None /\ Own(Parent[c], k) # None
       THEN [prov |-> Own(Parent[c], k), owner |-> Parent[c]]
       ELSE [prov |-> IF k \in DOMAIN Classes THEN Classes[k] ELSE None,
             owner |-> c]

\* The keys _check_sync_resolvable visits from k.
Visited(c, k) ==
  LET deps(j) == LET p == FindProviderWithOwner(c, j).prov
                 IN IF p = None THEN {} ELSE {p.deps[i] : i \in DOMAIN p.deps}
      seen[n \in 0 .. Cardinality(Keys)] ==
        IF n = 0 THEN {k} ELSE seen[n - 1] \cup UNION {deps(j) : j \in seen[n - 1]}
  IN seen[Cardinality(Keys)]

\* _check_sync_resolvable: no provider it meets is an async function.
CheckSyncResolvable(c, k) ==
  \A j \in Visited(c, k) : LET p == FindProviderWithOwner(c, j).prov IN p # None => ~p.async

InFlight(t) == {stack[t][i].key : i \in DOMAIN stack[t]}
Top(t) == stack[t][Len(stack[t])]
Pop(t) == SubSeq(stack[t], 1, Len(stack[t]) - 1)
SetTop(t, f) == stack' = [stack EXCEPT ![t] = Append(Pop(t), f)]
MayRun(t) == running \in {None, t} /\ stack[t] # <<>>
At(t, where) == MayRun(t) /\ Top(t).at = where

\* The head of _resolve: a key in flight in this task or an unknown key raises.
NewFrame(t, c, k, s) ==
  LET found == FindProviderWithOwner(c, k)
  IN [key |-> k, scope |-> s, prov |-> found.prov, owner |-> found.owner, next |-> 1,
      at |-> IF k \in InFlight(t) \/ found.prov = None THEN "raise" ELSE "produce"]

-----------------------------------------------------------------------------
(* Resolution                                                              *)

\* scope_dep: a request opens its scope before it resolves anything in it.
OpenScope(s) ==
  phase' = IF s # None /\ phase[s] = "new" THEN [phase EXCEPT ![s] = "open"] ELSE phase

\* resolve
Resolve(t, c, k, s) ==
  /\ running = None /\ task[t].state # "resolving" /\ resolves < MaxResolves
  /\ resolves' = resolves + 1
  /\ OpenScope(s)
  /\ task' = [task EXCEPT ![t] = [state |-> "resolving", self |-> c, sync |-> FALSE]]
  /\ stack' = [stack EXCEPT ![t] = <<NewFrame(t, c, k, s)>>]
  /\ running' = t
  /\ UNCHANGED <<registry, single, lock, cache, disposers, left, disposed, insts, ghosts, changes>>

\* resolve_sync: the walk over the graph first, then the coroutine is driven once.
ResolveSync(t, c, k, s) ==
  /\ running = None /\ task[t].state # "resolving" /\ resolves < MaxResolves
  /\ resolves' = resolves + 1
  /\ OpenScope(s)
  /\ IF CheckSyncResolvable(c, k)
     THEN /\ task' = [task EXCEPT ![t] = [state |-> "resolving", self |-> c, sync |-> TRUE]]
          /\ stack' = [stack EXCEPT ![t] = <<NewFrame(t, c, k, s)>>]
          /\ running' = t
     ELSE /\ task' = [task EXCEPT ![t].state = "error"]
          /\ UNCHANGED <<stack, running>>
  /\ UNCHANGED <<registry, single, lock, cache, disposers, left, disposed, insts, ghosts, changes>>

\* The frame on top returns to the factory that asked, or to the caller of resolve.
Return(t) ==
  LET rest == Pop(t)
  IN IF rest = <<>>
     THEN /\ stack' = [stack EXCEPT ![t] = <<>>]
          /\ task' = [task EXCEPT ![t].state = "value"]
          /\ running' = None
     ELSE /\ stack' = [stack EXCEPT ![t] = [rest EXCEPT ![Len(rest)].next = @ + 1]]
          /\ running' = t /\ UNCHANGED task

\* Where an instance is cached: singletons on the container that owns the provider.
Home(f) == CASE f.prov.life = "singleton" -> f.owner [] f.prov.life = "scoped" -> f.scope [] OTHER -> None

Serve(t, i) ==
  served' = IF Home(Top(t)) = None THEN served ELSE served \cup {<<Home(Top(t)), Top(t).key, i, t>>}

\* _produce up to the lock or the factory.  A cached instance is returned at once.
Produce(t) ==
  /\ At(t, "produce")
  /\ LET f == Top(t)
         hit == CASE f.prov.life = "singleton" -> single[f.owner][f.key]
                  [] f.prov.life = "scoped" /\ f.scope # None -> cache[f.scope][f.key]
                  [] OTHER -> None
     IN IF hit # None
        THEN Return(t) /\ Serve(t, hit)
        ELSE /\ SetTop(t, [f EXCEPT !.at = CASE f.prov.life = "singleton" -> "lock"
                                             [] f.prov.life = "scoped" /\ f.scope = None -> "raise"
                                             [] OTHER -> "call"])
             /\ running' = t /\ UNCHANGED <<task, served>>
  /\ UNCHANGED <<registry, single, lock, cache, homes, insts, late, reset, resolves, changes>>

\* The lock is held, by another task or by this one: the task gives up the loop.
Wait(t) ==
  /\ At(t, "lock") /\ running = t /\ lock[Top(t).owner] # None /\ ~task[t].sync
  /\ running' = None
  /\ UNCHANGED <<registry, single, lock, cache, homes, insts, ghosts, stack, task, resolves, changes>>

\* resolve_sync closes a coroutine that suspends: GeneratorExit leaves every frame, and the
\* ResolutionError is raised outside of them.
SyncSuspends(t) ==
  /\ At(t, "lock") /\ lock[Top(t).owner] # None /\ task[t].sync
  /\ SetTop(t, [Top(t) EXCEPT !.at = "fail"])
  /\ running' = t
  /\ UNCHANGED <<registry, single, lock, cache, homes, insts, ghosts, task, resolves, changes>>

\* Mutant of SecondLook: the cache is not read again under the lock.
SecondLookSkipped(f) == None

\* The second look at the cache, under the lock.
SecondLook(f) == single[f.owner][f.key]

\* Under the lock the cache is read again.
Acquire(t) ==
  /\ At(t, "lock") /\ lock[Top(t).owner] = None
  /\ LET f == Top(t)
         hit == SecondLook(f)
     IN IF hit # None
        THEN Return(t) /\ Serve(t, hit) /\ UNCHANGED lock
        ELSE /\ lock' = [lock EXCEPT ![f.owner] = t]
             /\ SetTop(t, [f EXCEPT !.at = "call"])
             /\ running' = t /\ UNCHANGED <<task, served>>
  /\ UNCHANGED <<registry, single, cache, homes, insts, late, reset, resolves, changes>>

\* Singleton and scoped providers are called without the scope, transient ones with it.
PassedScope(f) == IF f.prov.life = "transient" THEN f.scope ELSE None

\* _call_factory: the next parameter, resolved from the container resolve() was called on.
NextDep(t) ==
  /\ At(t, "call") /\ Top(t).next <= Len(Top(t).prov.deps)
  /\ LET f == Top(t) IN
       stack' = [stack EXCEPT ![t] = Append(@, NewFrame(t, task[t].self, f.prov.deps[f.next], PassedScope(f)))]
  /\ running' = t
  /\ UNCHANGED <<registry, single, lock, cache, homes, insts, ghosts, task, resolves, changes>>

\* All parameters are there: the factory is called, an async one is awaited.
CallFactory(t) ==
  /\ At(t, "call") /\ Top(t).next > Len(Top(t).prov.deps)
  /\ SetTop(t, [Top(t) EXCEPT !.at = "store"])
  /\ running' = IF Top(t).prov.async THEN None ELSE t
  /\ UNCHANGED <<registry, single, lock, cache, homes, insts, ghosts, task, resolves, changes>>

\* The factory raises, or the task is cancelled while it awaits it.  The error is a
\* ResolutionError when the factory asks the container itself for something it lacks.
FactoryRaises(t) ==
  /\ At(t, "store") /\ Top(t).prov.instance = None
  /\ \E how \in {"raise", "fail"} : SetTop(t, [Top(t) EXCEPT !.at = how])
  /\ running' = t
  /\ UNCHANGED <<registry, single, lock, cache, homes, insts, ghosts, task, resolves, changes>>

Release(f, t) == lock' = [lock EXCEPT ![f.owner] = IF f.prov.life = "singleton" THEN None ELSE @]

\* Mutant of RegisterDisposer: the disposer is put in front.
RegisterDisposerFirst(h, i) == disposers' = [disposers EXCEPT ![h] = <<i>> \o @]

\* _register_singleton_disposer, register_disposer
RegisterDisposer(h, i) == disposers' = [disposers EXCEPT ![h] = Append(@, i)]

\* The value is there: it is cached and its disposer registered.
Store(t) ==
  /\ At(t, "store")
  /\ LET f == Top(t)
         given == f.prov.instance # None
         i == IF given THEN f.prov.instance ELSE Len(insts) + 1
     IN /\ Home(f) \in Scopes => phase[Home(f)] = "open"
        /\ insts' = IF given THEN insts ELSE Append(insts, [key |-> f.key, home |-> Home(f)])
        /\ single' = IF f.prov.life = "singleton" THEN [single EXCEPT ![f.owner][f.key] = i] ELSE single
        /\ cache' = IF f.prov.life = "scoped" THEN [cache EXCEPT ![f.scope][f.key] = i] ELSE cache
        /\ IF Home(f) = None THEN UNCHANGED disposers ELSE RegisterDisposer(Home(f), i)
        /\ late' = IF Home(f) # None /\ phase[Home(f)] = "closing" THEN late \cup {i} ELSE late
        /\ Release(f, t)
        /\ Serve(t, i)
        /\ Return(t)
  /\ UNCHANGED <<registry, phase, left, disposed, reset, resolves, changes>>

\* scope.set on a scope that was closed meanwhile: RuntimeError.
StoreRefused(t) ==
  /\ At(t, "store") /\ Top(t).prov.life = "scoped" /\ phase[Top(t).scope] # "open"
  /\ SetTop(t, [Top(t) EXCEPT !.at = "fail"])
  /\ running' = t
  /\ UNCHANGED <<registry, single, lock, cache, homes, insts, ghosts, task, resolves, changes>>

\* Mutant of ReleasedByRaise: the error path leaves the lock taken.
ReleasedByRaiseNever(t, rest) == lock

\* async with: a lock is kept as long as a frame that took it is on the stack.
ReleasedByRaise(t, rest) ==
  [c \in Containers |->
     IF lock[c] = t /\ \A i \in DOMAIN rest :
                         ~(rest[i].owner = c /\ rest[i].at = "call" /\ rest[i].prov.life = "singleton")
     THEN None ELSE lock[c]]

\* An exception leaves the frame: its lock is released and the key is no longer in flight.
\* The factory that asked goes on if it was a ResolutionError and the parameter has a default;
\* otherwise the exception leaves that frame too.
Raise(t) ==
  /\ MayRun(t) /\ Top(t).at \in {"raise", "fail"}
  /\ LET f == Top(t)
         rest == Pop(t)
     IN /\ lock' = ReleasedByRaise(t, rest)
        /\ IF rest = <<>>
           THEN /\ stack' = [stack EXCEPT ![t] = <<>>]
                /\ task' = [task EXCEPT ![t].state = "error"]
                /\ running' = None
           ELSE LET g == rest[Len(rest)]
                    absorbed == f.at = "raise" /\ g.next \in g.prov.opt
                IN /\ stack' = [stack EXCEPT ![t] =
                         [rest EXCEPT ![Len(rest)] = IF absorbed THEN [g EXCEPT !.next = @ + 1]
                                                     ELSE [g EXCEPT !.at = f.at]]]
                   /\ running' = t /\ UNCHANGED task
  /\ UNCHANGED <<registry, single, cache, homes, insts, ghosts, resolves, changes>>

-----------------------------------------------------------------------------
(* Registration, overrides, closing: synchronous code between two awaits   *)

Change == running = None /\ changes < MaxChanges /\ changes' = changes + 1
NoTaskMoves == UNCHANGED <<stack, task, running, resolves, lock, insts, served>>

\* _make_provider: a class or a callable becomes a factory, a bare value (None) the instance i.
\* A bare value that is not to be a singleton raises: there is no provider.
MakeProvider(impl, life, i) ==
  IF impl # None THEN {[impl EXCEPT !.life = life]}
  ELSE IF life = "singleton" THEN {InstanceProvider(i)} ELSE {}

\* The object a caller passes in is its own; the container has no place for it.
Given(k, impl) == insts' = IF impl = None THEN Append(insts, [key |-> k, home |-> None]) ELSE insts

\* register: replaces the provider; a singleton that is cached stays.
Register(c, k, impl, life) ==
  /\ Change
  /\ \E p \in MakeProvider(impl, life, Len(insts) + 1) : provider' = [provider EXCEPT ![c][k] = p]
  /\ Given(k, impl)
  /\ UNCHANGED <<override, saved, single, cache, homes, late, reset, stack, task, running, resolves, lock, served>>

\* register_instance: also the cache.
RegisterInstance(c, k) ==
  /\ Change
  /\ provider' = [provider EXCEPT ![c][k] = InstanceProvider(Len(insts) + 1)]
  /\ Given(k, None)
  /\ single' = [single EXCEPT ![c][k] = Len(insts) + 1]
  /\ reset' = reset \cup {<<c, k>>}
  /\ UNCHANGED <<override, saved, cache, homes, late, stack, task, running, resolves, lock, served>>

\* scan: registers every stamped class of the package.
Scan(c) ==
  /\ Change
  /\ provider' = [provider EXCEPT ![c] =
        [k \in Keys |-> IF \E e \in Extra : e[1] = k THEN (CHOOSE e \in Extra : e[1] = k)[2] ELSE @[k]]]
  /\ UNCHANGED <<override, saved, single, cache, homes, late, reset>> /\ NoTaskMoves

\* override, on entry.
OverrideEnter(c, k, impl, life) ==
  /\ Change /\ saved = None
  /\ saved' = [at |-> c, key |-> k, provider |-> override[c][k], single |-> single[c][k]]
  /\ single' = [single EXCEPT ![c][k] = None]
  /\ \E p \in MakeProvider(impl, life, Len(insts) + 1) : override' = [override EXCEPT ![c][k] = p]
  /\ Given(k, impl)
  /\ reset' = reset \cup {<<c, k>>}
  /\ UNCHANGED <<provider, cache, homes, late, stack, task, running, resolves, lock, served>>

\* override, on exit: provider and cached singleton as they were.
OverrideExit ==
  /\ saved # None /\ running = None
  /\ override' = [override EXCEPT ![saved.at][saved.key] = saved.provider]
  /\ single' = [single EXCEPT ![saved.at][saved.key] = saved.single]
  /\ saved' = None
  /\ UNCHANGED <<provider, cache, homes, late, reset, changes>> /\ NoTaskMoves

\* Scope.close sets its flag first; Container.aclose has no flag.  Closing a closed scope
\* does nothing.
CloseBegin(h) ==
  /\ Change /\ phase[h] = "open"
  /\ phase' = [phase EXCEPT ![h] = "closing"]
  /\ left' = [left EXCEPT ![h] = Len(disposers[h])]
  /\ UNCHANGED <<registry, single, cache, disposers, disposed, late, reset>> /\ NoTaskMoves

\* One disposer, the last registered first; it may be a coroutine.  reversed() does not reach
\* the ones that are registered meanwhile.  A disposer that fails has run too.
CloseStep(h) ==
  /\ phase[h] = "closing" /\ running = None /\ left[h] > 0
  /\ disposed' = disposed \cup {disposers[h][left[h]]}
  /\ left' = [left EXCEPT ![h] = @ - 1]
  /\ UNCHANGED <<registry, single, cache, disposers, phase, late, reset, changes>> /\ NoTaskMoves

\* The lists are cleared.  A container may be closed again later.
CloseEnd(h) ==
  /\ phase[h] = "closing" /\ running = None /\ left[h] = 0
  /\ disposers' = [disposers EXCEPT ![h] = <<>>]
  /\ IF h \in Scopes
     THEN /\ phase' = [phase EXCEPT ![h] = "closed"]
          /\ cache' = [cache EXCEPT ![h] = [k \in Keys |-> None]]
          /\ UNCHANGED <<single, reset>>
     ELSE /\ phase' = [phase EXCEPT ![h] = "open"]
          /\ single' = [single EXCEPT ![h] = [k \in Keys |-> None]]
          /\ reset' = reset \cup ({h} \X Keys)
          /\ UNCHANGED cache
  /\ UNCHANGED <<registry, left, disposed, late, changes>> /\ NoTaskMoves

-----------------------------------------------------------------------------

Step(t) ==
  \/ Produce(t) \/ Wait(t) \/ SyncSuspends(t) \/ Acquire(t) \/ NextDep(t)
  \/ CallFactory(t) \/ FactoryRaises(t) \/ Store(t) \/ StoreRefused(t) \/ Raise(t)

Closing(h) == CloseStep(h) \/ CloseEnd(h)

ContainerNext ==
  \/ \E t \in Tasks : Step(t)
  \/ \E t \in Tasks, c \in Containers, k \in Keys, s \in Scopes \cup {None} :
        Resolve(t, c, k, s) \/ ResolveSync(t, c, k, s)
  \/ \E c \in Containers, e \in Extra :
        \/ RegisterInstance(c, e[1])
        \/ \E impl \in {e[2], None} :
              \/ \E life \in Lifetimes : Register(c, e[1], impl, life)
              \/ OverrideEnter(c, e[1], impl, "singleton")   \* the default
  \/ \E c \in Containers : Scan(c)
  \/ OverrideExit
  \/ \E h \in Containers \cup Scopes : CloseBegin(h) \/ Closing(h)

\* The event loop runs every task that is ready, and async factories and disposers end.
Fairness ==
  /\ \A t \in Tasks : WF_containerVars(Step(t))
  /\ \A h \in Containers \cup Scopes : WF_containerVars(Closing(h))

ContainerSpec == ContainerInit /\ [][ContainerNext]_containerVars /\ Fairness

-----------------------------------------------------------------------------
(* Properties                                                              *)

Instances(h, k) == {x[3] : x \in {y \in served : y[1] = h /\ y[2] = k}}
Resolvers(h, k) == {x[4] : x \in {y \in served : y[1] = h /\ y[2] = k}}

\* Two resolutions are answered with different instances of a singleton only if its cached
\* instance was taken away in between (override, register_instance, aclose); a registration
\* replaced while its factory is awaited is no such case.  A scope, whose cache is filled
\* without its lock, holds one instance per key unless several tasks share it, and never more
\* than tasks.
InstancesShared ==
  \A k \in Keys :
    /\ \A c \in Containers : <<c, k>> \notin reset => Cardinality(Instances(c, k)) <= 1
    /\ \A s \in Scopes : Cardinality(Instances(s, k)) <= Cardinality(Resolvers(s, k))

\* What is stored in a container or a scope is disposed when that is closed.  Only a singleton
\* stored while aclose() awaits a disposer is dropped without its disposer having run.
DisposedUnlessLate ==
  \A i \in DOMAIN insts :
    LET h == insts[i].home
    IN h # None /\ (\A n \in DOMAIN disposers[h] : disposers[h][n] # i) => i \in disposed \cup late

WaitsFor(t) ==
  IF stack[t] # <<>> /\ Top(t).at = "lock" THEN lock[Top(t).owner] ELSE None

\* t waits for a singleton lock whose holder waits in turn, for itself or round a circle.
Deadlocked(t) == \E S \in SUBSET Tasks : t \in S /\ \A u \in S : WaitsFor(u) \in S

\* A resolution ends, with a value or an error, unless holders of the singleton locks wait for
\* each other: the lock is kept while the dependencies are resolved, and it is not reentrant.
ResolveEnds ==
  \A t \in Tasks : task[t].state = "resolving" ~> (task[t].state # "resolving" \/ Deadlocked(t))

=============================================================================
