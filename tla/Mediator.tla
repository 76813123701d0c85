------------------------------ MODULE Mediator ------------------------------
(***************************************************************************)
(* The registrations of the Mediator and what a registered message runs.   *)
(* At startup a service makes a fixed sequence of calls: register_command  *)
(* and its siblings for one class, register_typed for a list of classes,   *)
(* register_decorated for the classes of a module.  A raised MediatorError *)
(* ends the startup and keeps what was registered before it.               *)
(*                                                                         *)
(* A class is a record: name, the stamp a decorator left on it (stamped:   *)
(* "own", "inherited" from a base class, or "no"; kind and target) and the *)
(* protocols among its generic bases, in order.                            *)
(***************************************************************************)
EXTENDS Naturals, Sequences, SequencesExt

CONSTANTS
  Startups   \* set of sequences of calls [via |-> "explicit"|"typed"|"scan", ...]

VARIABLES
  registry,  \* [single, fanout, provided, error]
  calls      \* registration calls still to be made

mediatorVars == <<registry, calls>>

\* A class stamped by command_handler(target) and its siblings.
Stamp(name, kind, target) ==
  [name |-> name, stamped |-> "own", kind |-> kind, target |-> target, bases |-> <<>>]

\* A subclass of a stamped class without a decorator of its own.
Inherits(name, cls) == [cls EXCEPT !.name = name, !.stamped = "inherited"]

\* A class whose bases include the generic protocol of a kind of message.
Implements(name, bases) ==
  [name |-> name, stamped |-> "no", kind |-> "none", target |-> "none", bases |-> bases]

\* requires(...) on a message class adds to the policies it inherits.
Requires(existing, policies) == existing \o policies

Requests == {"command", "query"}
FanOuts == {"event", "integration", "notification"}

MediatorInit ==
  /\ registry = [single |-> <<>>, fanout |-> <<>>, provided |-> {}, error |-> FALSE]
  /\ calls \in Startups

HandlersOf(reg, target) ==
  IF target \in DOMAIN reg.fanout THEN reg.fanout[target] ELSE <<>>

Bound(f, k, v) == [x \in DOMAIN f \cup {k} |-> IF x = k THEN v ELSE f[x]]

\* register_command, register_query: one handler per message type.
RegisterRequest(reg, target, h) ==
  IF target \in DOMAIN reg.single THEN [reg EXCEPT !.error = TRUE]
  ELSE [reg EXCEPT !.single = Bound(@, target, h), !.provided = @ \cup {h}]

\* register_event, register_integration, register_notification: handlers add up,
\* and nothing looks for a handler that is there already.
RegisterFanOut(reg, target, h) ==
  [reg EXCEPT !.fanout = Bound(@, target, Append(HandlersOf(reg, target), h)),
              !.provided = @ \cup {h}]

\* The dispatch on the kind, and the error for a kind there is none for.
RegisterAs(reg, kind, target, h) ==
  CASE reg.error         -> reg
    [] kind \in Requests -> RegisterRequest(reg, target, h)
    [] kind \in FanOuts  -> RegisterFanOut(reg, target, h)
    [] OTHER             -> [reg EXCEPT !.error = TRUE]

\* The first generic base that is a handler protocol.
InspectHandler(cls) ==
  LET i == SelectInSeq(cls.bases, LAMBDA b : b.kind \in Requests \cup FanOuts)
  IN IF i = 0 THEN [kind |-> "none", target |-> "none"] ELSE cls.bases[i]

RegisterTyped(reg, classes) ==
  FoldLeft(LAMBDA r, cls : LET b == InspectHandler(cls)
                           IN RegisterAs(r, b.kind, b.target, cls.name), reg, classes)

\* Classes that carry a stamp of their own, each once per call ("seen").
Scanned(classes) ==
  SelectSeq([i \in DOMAIN classes |->
               [cls |-> classes[i],
                fresh |-> \A j \in 1 .. i - 1 : classes[j].name # classes[i].name]],
            LAMBDA s : s.fresh /\ s.cls.stamped = "own")

RegisterDecorated(reg, classes) ==
  FoldLeft(LAMBDA r, s : RegisterAs(r, s.cls.kind, s.cls.target, s.cls.name),
           reg, Scanned(classes))

\* The next registration call of the startup.
Register ==
  /\ calls # <<>>
  /\ registry' = LET call == Head(calls) IN
       CASE call.via = "explicit" -> RegisterAs(registry, call.kind, call.target, call.name)
         [] call.via = "typed"    -> RegisterTyped(registry, call.classes)
         [] call.via = "scan"     -> RegisterDecorated(registry, call.classes)
  /\ calls' = IF registry'.error THEN <<>> ELSE Tail(calls)

Serving == calls = <<>> /\ ~registry.error

-----------------------------------------------------------------------------
(* Behaviors in front of the handler.  A message m is a record: valid (its *)
(* validate_business and the extra validators succeed), principal (whether *)
(* the request context has one) and policies, a sequence of decisions.     *)

\* One policy, in any of the supported shapes; an unknown shape has no opinion.
EvaluateOne(policy) == IF policy = "deny" THEN "denied" ELSE "ok"

Validate(m) == IF m.valid THEN "ok" ELSE "invalid"

Authorize(m) ==
  LET i == SelectInSeq(m.policies, LAMBDA p : EvaluateOne(p) # "ok") IN
  CASE m.policies = <<>> -> "ok"
    [] m.policies # <<>> /\ ~m.principal -> "unauthorized"
    [] OTHER -> IF i = 0 THEN "ok" ELSE EvaluateOne(m.policies[i])

Verdict(behavior, m) ==
  CASE behavior = "Validation"    -> Validate(m)
    [] behavior = "Authorization" -> Authorize(m)
    [] OTHER                      -> "ok"

\* BehaviorChain: a behavior that answers keeps the ones inside it from running.
\* <<index of the behavior that answers (0 if none), its answer>>
ShortCircuit(chain, m) ==
  LET i == SelectInSeq(chain, LAMBDA b : Verdict(b, m) # "ok")
  IN IF i = 0 THEN <<0, "ok">> ELSE <<i, Verdict(chain[i], m)>>

\* What the behaviors that only watch leave behind when the call inside them
\* returns a result or raises.
Logged(outcome) == {<<"Logging", outcome>>}
Traced(outcome) == {<<"Tracing", outcome>>}
Counted(outcome) == IF outcome = "raised" THEN {} ELSE {<<"Metrics", outcome>>}

Watched(chain, depth, outcome) ==
  {w \in Logged(outcome) \cup Traced(outcome) \cup Counted(outcome) :
     \E i \in 1 .. depth : chain[i] = w[1]}
=============================================================================
