-------------------------------- MODULE Edge --------------------------------
(***************************************************************************)
(* Requests at the edge of a service: the HTTP middleware stack that       *)
(* setup_qx_app and add_middleware build, the gRPC interceptor chain of    *)
(* create_grpc_server, the dependencies in front of a route, and the way   *)
(* back: results, ErrorExceptions and unexpected exceptions become         *)
(* responses, metrics and headers.  Requests run concurrently and share    *)
(* the token buckets, the revocation list and the empty request context.   *)
(* A request enters one layer per step; the way back does not suspend.     *)
(***************************************************************************)
EXTENDS Auth, FiniteSets

CONSTANTS
  Requests,     \* requests in progress at a time
  Inputs,       \* what a client sends: [transport, write, probe, corr, tenant, token, key,
                \*   auth, policies]; corr says whether it sent a usable correlation id
  Tokens,       \* tokens clients hold, one jti each
  Revocable,    \* the ones that may be revoked
  Stacks,       \* middleware stacks an application may build, outermost first
  HomeOf,       \* qx_tenant_regions: [tenants -> regions \cup {"unknown"}]
  DefaultRegion,\* of the resolver, or "unknown"
  Here,         \* this region
  Urls,         \* regions with a configured URL
  HandlerErrors,\* error classes a handler's failed Result may carry
  Checks,       \* possible results of the readiness checks: set of sequences
  Skew,         \* bound on the difference between clocks
  MaxArrivals, MaxTime, MaxFaults

VARIABLES
  stack,      \* the application's middleware stack
  req,        \* [Requests -> record], see NewRequest
  buckets,    \* [keys -> bucket]
  revoked,    \* the revocation list
  shared,     \* principal stored in the attributes of the one empty context
  time, faults, arrived,
  granted,    \* history: [keys -> tokens granted]
  setBack,    \* history: [keys -> takes with a clock behind the one of the last take]
  forgotten,  \* history: [keys -> takes that found the bucket's key expired, see Forgotten]
  withdrawn   \* history: the tokens revoked so far

store == <<buckets, revoked, shared>>
history == <<granted, setBack, forgotten, withdrawn>>
vars == <<stack, req, store, time, faults, arrived, history>>

Keys == {in.key : in \in Inputs} \ {"none"}
NoToken == "none"
NoId == <<"none">>
EmptyId == <<"empty">>   \* of the empty context
Layers == {"RequestContext", "RegionRedirect", "JwtAuth", "RateLimit", "Metrics", "Exception"}

\* setup_qx_app adds RequestContextMiddleware to every application.
ASSUME EdgeAssumption ==
  /\ Inputs # {} /\ NoToken \notin DOMAIN Tokens /\ Revocable \subseteq DOMAIN Tokens
  /\ \A in \in Inputs : /\ in.transport \in {"http", "grpc"} /\ in.token \in DOMAIN Tokens \cup {NoToken}
                        /\ in.probe \in BOOLEAN /\ (in.probe => in.transport = "http")
  /\ \A t \in DOMAIN Tokens : Tokens[t].exp \in Nat
  /\ Stacks \subseteq Seq(Layers) /\ \A s \in Stacks : \E i \in DOMAIN s : s[i] = "RequestContext"
  /\ HandlerErrors \cap {"none", "invalid", "unknown", "cancelled"} = {}
  /\ "none" \notin DOMAIN HomeOf /\ Skew \in Nat

NewRequest ==
  [pc |-> "new", in |-> CHOOSE in \in Inputs : TRUE, at |-> 1,
   ctx |-> "empty",        \* which context current_context() returns
   principal |-> NoToken,  \* the token whose principal is in the own context's attributes
   passed |-> -1,          \* history: when its token passed the check though revoked before
   exc |-> "none",         \* "none", an error class, "invalid", "unknown" or "cancelled"
   status |-> "none",      \* HTTP status or gRPC code the client gets
   metric |-> "none",      \* status or outcome label that was counted
   header |-> NoId,      \* correlation id in the response headers
   body |-> NoId]        \* correlation id in the response envelope

Init ==
  /\ stack \in Stacks
  /\ req = [r \in Requests |-> NewRequest]
  /\ buckets = [k \in Keys |-> Absent] /\ revoked = <<>> /\ shared = NoToken
  /\ time = 0 /\ faults = 0 /\ arrived = 0
  /\ granted = [k \in Keys |-> 0] /\ setBack = [k \in Keys |-> 0]
  /\ forgotten = [k \in Keys |-> 0] /\ withdrawn = {}

Fault == faults < MaxFaults /\ faults' = faults + 1
NoFault == UNCHANGED faults

\* create_grpc_server: RequestContext, Metrics, Exception, then the extra interceptors.
GrpcStack == <<"RequestContext", "Metrics", "Exception", "JwtAuth">>
Http(r) == req[r].in.transport = "http"
StackOf(r) == IF Http(r) THEN stack ELSE GrpcStack
Layer(r) == IF req[r].at <= Len(StackOf(r)) THEN StackOf(r)[req[r].at] ELSE "route"
In(r, layer) == req[r].pc = "down" /\ Layer(r) = layer
Next_(r) == [req[r] EXCEPT !.at = @ + 1]              \* call_next
Answer(r, status) == [req[r] EXCEPT !.pc = "up", !.status = status]
Raise(r, exc) == [req[r] EXCEPT !.pc = "up", !.exc = exc]
Set(r, rec) == req' = [req EXCEPT ![r] = rec]

\* The correlation id: the client's if it is a UUID, else a fresh one.
CorrelationId(r) == <<IF req[r].in.corr THEN "client" ELSE "minted", r>>
\* current_context().attributes["qx.principal"]
CurrentPrincipal(r) == IF req[r].ctx = "own" THEN req[r].principal ELSE shared

-----------------------------------------------------------------------------
(* The way in                                                              *)

Arrive(r) ==
  /\ req[r].pc \in {"new", "done"} /\ arrived < MaxArrivals /\ arrived' = arrived + 1
  /\ \E in \in Inputs : Set(r, [NewRequest EXCEPT !.pc = "down", !.in = in])
  /\ UNCHANGED <<stack, store, time, faults, history>>

\* request_scope(ctx): the rest of the request runs in its own context.
RequestScope(r) == Set(r, [Next_(r) EXCEPT !.ctx = "own"])

\* RequestContextMiddleware
OpenContext(r) ==
  /\ In(r, "RequestContext") /\ Http(r)
  /\ RequestScope(r)
  /\ UNCHANGED <<stack, store, time, arrived, history>> /\ NoFault

\* RequestContextInterceptor
OpenRpcContext(r) ==
  /\ In(r, "RequestContext") /\ ~Http(r)
  /\ RequestScope(r)
  /\ UNCHANGED <<stack, store, time, arrived, history>> /\ NoFault

\* The layers that only act on the way back.
PassThrough(r) ==
  /\ \E l \in {"Metrics", "Exception"} : In(r, l)
  /\ Set(r, Next_(r))
  /\ UNCHANGED <<stack, store, time, arrived, history>> /\ NoFault

\* skip_prefixes: the paths of the probes.
Exempt(r) == req[r].in.probe

\* DbRegionResolver.resolve
Resolve(tenant) == IF HomeOf[tenant] # "unknown" THEN HomeOf[tenant] ELSE DefaultRegion

\* RegionRouter.get_redirect_url
RedirectUrl(tenant) ==
  CASE Resolve(tenant) = "unknown"               -> "NotFoundError"
    [] Resolve(tenant) \in Urls \ {Here}          -> "redirect"
    [] OTHER                                     -> "none"

\* RegionRedirectMiddleware: the tenant is the one of the request context.
RegionRedirect(r) ==
  /\ In(r, "RegionRedirect")
  /\ LET in     == req[r].in
         tenant == IF req[r].ctx = "own" THEN in.tenant ELSE "none"
     IN \/ /\ ~in.write \/ Exempt(r) \/ tenant = "none"
           /\ Set(r, Next_(r)) /\ NoFault
        \/ /\ in.write /\ ~Exempt(r) /\ tenant \in DOMAIN HomeOf
           /\ \/ RedirectUrl(tenant) = "none" /\ Set(r, Next_(r)) /\ NoFault
              \/ RedirectUrl(tenant) = "redirect" /\ Set(r, Answer(r, "307")) /\ NoFault
              \/ RedirectUrl(tenant) = "NotFoundError" /\ Set(r, Raise(r, "NotFoundError")) /\ NoFault
              \/ Fault /\ Set(r, Raise(r, "unknown"))        \* the lookup fails
  /\ UNCHANGED <<stack, store, time, arrived, history>>

\* JwtValidator.validate up to the revocation hook; a request whose token is missing
\* or rejected goes on without a principal.
Validate(r) ==
  LET tok == req[r].in.token IN
  Set(r, IF tok # NoToken /\ Decode(Tokens[tok], time) = "ok"
         THEN [req[r] EXCEPT !.pc = "revocation"] ELSE Next_(r))

\* JwtAuthMiddleware
Authenticate(r) ==
  /\ In(r, "JwtAuth") /\ Http(r)
  /\ Validate(r)
  /\ UNCHANGED <<stack, store, time, arrived, history>> /\ NoFault

\* JwtAuthInterceptor
InjectPrincipal(r) ==
  /\ In(r, "JwtAuth") /\ ~Http(r)
  /\ Validate(r)
  /\ UNCHANGED <<stack, store, time, arrived, history>> /\ NoFault

\* ctx.attributes[principal_key] = principal: the empty context's attributes are one
\* object for the whole process.
Store(r, tok) ==
  LET next == [Next_(r) EXCEPT !.pc = "down", !.passed = IF tok \in withdrawn THEN time ELSE -1]
  IN IF req[r].ctx = "own"
     THEN Set(r, [next EXCEPT !.principal = tok]) /\ UNCHANGED shared
     ELSE Set(r, next) /\ shared' = tok

\* Mutant of CheckRevocation: a failing check lets the token pass.
CheckRevocationOpen(r) ==
  /\ req[r].pc = "revocation"
  /\ LET tok == req[r].in.token IN
     \/ Store(r, tok) /\ (IF IsRevoked(revoked, tok, time) THEN Fault ELSE NoFault)
     \/ /\ IsRevoked(revoked, tok, time) /\ NoFault
        /\ Set(r, [Next_(r) EXCEPT !.pc = "down"]) /\ UNCHANGED shared
  /\ UNCHANGED <<stack, buckets, revoked, time, arrived, history>>

\* The revocation hook answers, or fails, which counts as an invalid token.
CheckRevocation(r) ==
  /\ req[r].pc = "revocation"
  /\ LET tok == req[r].in.token
         bad == IsRevoked(revoked, tok, time) \/ ToPrincipal(Tokens[tok]) # "ok"
     IN \/ ~bad /\ Store(r, tok) /\ NoFault
        \/ /\ IF bad THEN NoFault ELSE Fault
           /\ Set(r, [Next_(r) EXCEPT !.pc = "down"]) /\ UNCHANGED shared
  /\ UNCHANGED <<stack, buckets, revoked, time, arrived, history>>

\* History: the caller's clock is behind the one of the last take.
Behind(b, now) == b # Absent /\ now < b.last

\* History: the key has expired, though the bucket would not have filled since the last take.
Forgotten(b, now) == b # Absent /\ time >= b.expires /\ Refill * (now - b.last) < Full

\* RateLimitMiddleware: the caller's clock is up to Skew ahead of Redis's.
RateLimit(r) ==
  /\ In(r, "RateLimit")
  /\ LET k == req[r].in.key IN
     \/ /\ Exempt(r) \/ k = "none"
        /\ Set(r, Next_(r)) /\ UNCHANGED <<buckets, granted, setBack, forgotten>> /\ NoFault
     \/ /\ ~Exempt(r) /\ k \in Keys
        /\ \E now \in time .. time + Skew :
             LET t == Take(buckets[k], now, time) IN
             /\ buckets' = [buckets EXCEPT ![k] = t.bucket]
             /\ granted' = [granted EXCEPT ![k] = IF t.allowed THEN @ + 1 ELSE @]
             /\ setBack' = [setBack EXCEPT ![k] = IF Behind(buckets[k], now) THEN @ + 1 ELSE @]
             /\ forgotten' = [forgotten EXCEPT ![k] = IF Forgotten(buckets[k], now) THEN @ + 1 ELSE @]
             /\ Set(r, IF Check(t) = "ok" THEN Next_(r) ELSE Answer(r, MappingOf(Check(t)).http))
        /\ NoFault
     \/ /\ ~Exempt(r) /\ k \in Keys                   \* Redis cannot be reached
        /\ Fault /\ Set(r, Raise(r, "unknown")) /\ UNCHANGED <<buckets, granted, setBack, forgotten>>
  /\ UNCHANGED <<stack, revoked, shared, time, arrived, withdrawn>>

-----------------------------------------------------------------------------
(* The route                                                               *)

\* require_auth, then AuthorizationBehavior with the policies of the message.
Admission(r) ==
  LET p == CurrentPrincipal(r) in == req[r].in IN
  CASE p = NoToken /\ (in.auth \/ in.policies # <<>>) -> "UnauthorizedError"
    [] p # NoToken /\ in.policies # <<>> -> Evaluate(in.policies, Tokens[p].grants)
    [] OTHER -> "ok"

\* The endpoint: the mediator's Result is unwrapped, or something raises.
Route(r) ==
  /\ In(r, "route") /\ ~req[r].in.probe
  /\ IF Admission(r) # "ok" THEN Set(r, Raise(r, Admission(r)))   \* unwrap
     ELSE \/ Set(r, Answer(r, IF Http(r) THEN "200" ELSE "OK"))
          \/ \E exc \in HandlerErrors \cup {"invalid", "unknown", "cancelled"} :
               (exc = "cancelled" => ~Http(r)) /\ Set(r, Raise(r, exc))
  /\ UNCHANGED <<stack, store, time, arrived, history>> /\ NoFault

\* _run_one: a check that times out or raises is unhealthy, one that returns nothing
\* is healthy.
RunOne(c) == CASE c \in {"timeout", "raises"} -> "unhealthy" [] c = "nothing" -> "healthy" [] OTHER -> c

RunAll(cs) ==
  LET results == {RunOne(cs[i]) : i \in DOMAIN cs} IN
  CASE "unhealthy" \in results -> "unhealthy"
    [] "unhealthy" \notin results /\ "degraded" \in results -> "degraded"
    [] OTHER -> "healthy"

\* /readyz
Probe(r) ==
  /\ In(r, "route") /\ req[r].in.probe
  /\ \E cs \in Checks : Set(r, Answer(r, IF RunAll(cs) = "unhealthy" THEN "503" ELSE "200"))
  /\ UNCHANGED <<stack, store, time, arrived, history>> /\ NoFault

-----------------------------------------------------------------------------
(* The way back                                                            *)

Around(r) == {StackOf(r)[i] : i \in 1 .. req[r].at - 1}
InRoute(r) == req[r].at > Len(StackOf(r))

\* The exception handlers for ErrorException sit inside the middleware stack: what a
\* middleware raises passes them by, as does every other exception.
Escapes(r) == req[r].exc # "none" /\ (req[r].exc = "unknown" \/ ~InRoute(r))

\* handle_request_validation, handle_pydantic_validation
InvalidStatus == MappingOf("ValidationError").http

\* handle_qx_error, or the last-resort handler of ServerErrorMiddleware.
HttpStatus(r) ==
  CASE req[r].exc = "none"                    -> req[r].status
    [] Escapes(r)                             -> "500"
    [] req[r].exc = "invalid" /\ ~Escapes(r)  -> InvalidStatus
    [] OTHER                                  -> MappingOf(req[r].exc).http

\* Mutant of HttpMetric: only a response that comes back through the stack is known.
HttpMetricOfResponse(r) ==
  IF "Metrics" \notin Around(r) THEN "none" ELSE IF req[r].exc = "none" THEN req[r].status ELSE "200"

\* MetricsMiddleware: 500 when an exception passes.
HttpMetric(r) ==
  IF "Metrics" \notin Around(r) THEN "none" ELSE IF Escapes(r) THEN "500" ELSE HttpStatus(r)

\* RequestContextMiddleware reflects the id of its request unless an exception passes.
HttpHeader(r) == IF "RequestContext" \in Around(r) /\ ~Escapes(r) THEN CorrelationId(r) ELSE NoId

\* envelope_success, envelope_failure: the id of the current context.  The last-resort
\* handler runs outside every request context; answers of middlewares and probes have
\* no envelope.
Envelope(r) ==
  CASE Escapes(r)                        -> EmptyId
    [] ~Escapes(r) /\ InRoute(r) /\ ~req[r].in.probe
                                         -> IF req[r].ctx = "own" THEN CorrelationId(r) ELSE EmptyId
    [] OTHER                             -> NoId

RespondHttp(r) ==
  /\ req[r].pc = "up" /\ Http(r)
  /\ Set(r, [req[r] EXCEPT !.pc = "done", !.status = HttpStatus(r), !.metric = HttpMetric(r),
                           !.header = HttpHeader(r), !.body = Envelope(r)])
  /\ UNCHANGED <<stack, store, time, arrived, history>> /\ NoFault

\* status_from_error, _StatusProxy
StatusFromError(e) == MappingOf(e).grpc

\* ExceptionInterceptor: cancellation passes, a failed validation is an exception like
\* any other.
GrpcCode(r) ==
  CASE req[r].exc = "none"                     -> req[r].status
    [] req[r].exc = "cancelled"                -> "CANCELLED"
    [] req[r].exc \in {"invalid", "unknown"}   -> "UNKNOWN"
    [] OTHER                                   -> StatusFromError(req[r].exc)

\* MetricsInterceptor: CancelledError is no Exception, so the outcome stays "success".
GrpcOutcome(r) == IF req[r].exc \in {"none", "cancelled"} THEN "success" ELSE "failure"

\* The trailing metadata was set when the context was opened.
RespondGrpc(r) ==
  /\ req[r].pc = "up" /\ ~Http(r)
  /\ Set(r, [req[r] EXCEPT !.pc = "done", !.status = GrpcCode(r), !.metric = GrpcOutcome(r),
                           !.header = CorrelationId(r)])
  /\ UNCHANGED <<stack, store, time, arrived, history>> /\ NoFault

-----------------------------------------------------------------------------
\* RedisRevocationStore.revoke
Revoke(j) ==
  /\ time < Tokens[j].exp
  /\ j \notin withdrawn
  /\ revoked' = RevokedFor(revoked, j, Tokens[j].exp)
  /\ withdrawn' = withdrawn \cup {j}
  /\ UNCHANGED <<stack, req, buckets, shared, time, arrived, granted, setBack, forgotten>> /\ NoFault

Tick == time < MaxTime /\ time' = time + 1 /\ UNCHANGED <<stack, req, store, faults, arrived, history>>

Step(r) ==
  \/ OpenContext(r) \/ OpenRpcContext(r) \/ PassThrough(r) \/ RegionRedirect(r)
  \/ Authenticate(r) \/ InjectPrincipal(r) \/ CheckRevocation(r) \/ RateLimit(r) \/ Route(r) \/ Probe(r) \/ RespondHttp(r) \/ RespondGrpc(r)

Next ==
  \/ \E r \in Requests : Arrive(r) \/ Step(r)
  \/ \E j \in Revocable : Revoke(j)
  \/ Tick

Spec == Init /\ [][Next]_vars

-----------------------------------------------------------------------------
(* Properties                                                              *)

Done(r) == req[r].pc = "done"

\* The rate limit: what a bucket granted is covered by its capacity and the elapsed
\* time, up to the clock difference once for the first take and once for every take
\* with a clock behind (rate_limit: last becomes now in any case), and by another full
\* bucket for every take that found the key expired too early.  There is at most one of
\* these per lifetime of a key, and none if a bucket fills within it, clocks included.
BucketBound ==
  \A k \in Keys :
    /\ Unit * granted[k] <= Full * (1 + forgotten[k]) + Refill * (time + Skew * (1 + setBack[k]))
    /\ BucketTtl * forgotten[k] <= time
    /\ forgotten[k] > 0 => Refill * (BucketTtl - Skew) < Full

\* JwtAuthMiddleware, current_context: code behind the stack sees no principal but the
\* one of its own request's token, and no token passes the check once revoked, except
\* between its expiry, when the entry leaves the list, and the end of the leeway.
PrincipalIsOwn ==
  \A r \in Requests : In(r, "route") /\ CurrentPrincipal(r) # NoToken =>
    /\ CurrentPrincipal(r) = req[r].in.token
    /\ req[r].passed # -1 => req[r].passed >= Tokens[req[r].in.token].exp

\* Every answer carries the correlation id of its request, and the status counted is
\* the one the client got; but what a middleware raises and unexpected exceptions leave
\* the request context first, an answer of a layer outside Metrics is not counted, and
\* a cancelled call is counted as a success.
AnswersObservable ==
  \A r \in Requests : Done(r) =>
    LET own == CorrelationId(r) IN
    /\ req[r].header = own \/ (Http(r) /\ req[r].status \in {"429", "500"})
    /\ req[r].body \in {own, NoId} \/ req[r].status = "500"
    /\ Http(r) => req[r].metric = req[r].status \/ "Metrics" \notin Around(r)
    /\ ~Http(r) => (req[r].metric = "success" <=> req[r].status \in {"OK", "CANCELLED"})

=============================================================================
