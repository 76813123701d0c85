-------------------------------- MODULE Auth --------------------------------
(***************************************************************************)
(* What qx-auth decides: whether a bearer token makes a principal, whether *)
(* a principal's permissions satisfy a policy, and whether a token bucket  *)
(* lets a request pass; with the errors of qx-core these decisions and the *)
(* handlers end in.  Pure definitions, used by Edge.                       *)
(*                                                                         *)
(* A permission is a sequence of name segments; a grant is a permission    *)
(* [path, wild], wild for "path.*" and, with an empty path, for "*".       *)
(***************************************************************************)
EXTENDS Integers, Sequences, SequencesExt

CONSTANTS
  Leeway,         \* leeway_seconds of JwtSettings
  Capacity,       \* tokens a bucket holds
  Unit,           \* parts of a token that are counted, so that a refill may be slow
  Refill,         \* refill_per_second, in parts
  SlowRefill,     \* the 0.001 of TokenBucket.take, in parts
  MinTtl          \* its 60 seconds

ASSUME AuthAssumption ==
  /\ Leeway \in Nat /\ Capacity \in Nat \ {0} /\ Unit \in Nat \ {0}
  /\ Refill \in Nat /\ SlowRefill \in Nat \ {0} /\ MinTtl \in Nat

-----------------------------------------------------------------------------
(* Errors and their transport mappings                                     *)

Mapping(http, grpc) == [http |-> http, grpc |-> grpc]

ClientErrors ==
  [ValidationError         |-> Mapping("400", "INVALID_ARGUMENT"),
   UnauthorizedError       |-> Mapping("401", "UNAUTHENTICATED"),
   ForbiddenError          |-> Mapping("403", "PERMISSION_DENIED"),
   NotFoundError           |-> Mapping("404", "NOT_FOUND"),
   ConflictError           |-> Mapping("409", "ALREADY_EXISTS"),
   PreconditionFailedError |-> Mapping("412", "FAILED_PRECONDITION"),
   RateLimitedError        |-> Mapping("429", "RESOURCE_EXHAUSTED"),
   DomainError             |-> Mapping("422", "FAILED_PRECONDITION")]

ServerErrors ==
  [InfrastructureError |-> Mapping("500", "INTERNAL"),
   TimeoutError        |-> Mapping("504", "DEADLINE_EXCEEDED"),
   ConfigurationError  |-> Mapping("500", "FAILED_PRECONDITION")]

\* Custom errors that inherit from Error directly.
BaseError == Mapping("500", "INTERNAL")

MappingOf(e) ==
  CASE e \in DOMAIN ClientErrors -> ClientErrors[e]
    [] e \in DOMAIN ServerErrors -> ServerErrors[e]
    [] OTHER                     -> BaseError

-----------------------------------------------------------------------------
(* Tokens: [keyed, signed, claims, subject, tenant, jti, exp, grants]       *)

\* Everything validate() does before the revocation hook.
Decode(tok, now) ==
  CASE ~tok.keyed            -> "jwks_unavailable"   \* InfrastructureError
    [] ~tok.signed           -> "invalid_token"
    [] now >= tok.exp + Leeway -> "token_expired"
    [] ~tok.claims           -> "invalid_claims"     \* audience, issuer, required claims
    [] OTHER                 -> "ok"

\* ... and after it: the claims become a Principal, or not.
ToPrincipal(tok) ==
  CASE tok.subject # "uuid"       -> "invalid_subject"
    [] tok.tenant = "malformed"   -> "invalid_tenant"
    [] OTHER                      -> "ok"

\* RedisRevocationStore: jti |-> the time its entry expires.
IsRevoked(revoked, jti, now) == jti \in DOMAIN revoked /\ now < revoked[jti]

\* revoke with the token's remaining lifetime as ttl, as the module asks for.
RevokedFor(revoked, jti, exp) ==
  [j \in DOMAIN revoked \cup {jti} |-> IF j = jti THEN exp ELSE revoked[j]]

-----------------------------------------------------------------------------
(* Permissions and policies                                                *)

Matches(perm, granted) ==
  \E g \in granted : IF g.wild THEN IsPrefix(g.path, perm) ELSE g.path = perm

\* Policies: [rule |-> "one" | "any" | "all", perms |-> set of permissions], or an
\* application's own policy with a fixed decision.
RequirePermission(p, granted) ==
  IF \A perm \in p.perms : Matches(perm, granted) THEN "allow" ELSE "deny"
RequireAny(p, granted) ==
  IF \E perm \in p.perms : Matches(perm, granted) THEN "allow" ELSE "deny"
RequireAll(p, granted) ==
  LET missing == {perm \in p.perms : ~Matches(perm, granted)}
  IN IF missing = {} THEN "allow" ELSE "deny"

Decide(p, granted) ==
  CASE p.rule = "one" -> RequirePermission(p, granted)
    [] p.rule = "any" -> RequireAny(p, granted)
    [] p.rule = "all" -> RequireAll(p, granted)
    [] OTHER          -> "not_applicable"

\* The first policy that denies decides; one without an opinion is skipped.
Evaluate(policies, granted) ==
  IF \E i \in DOMAIN policies : Decide(policies[i], granted) = "deny"
  THEN "ForbiddenError" ELSE "ok"

-----------------------------------------------------------------------------
(* The token bucket: [count, last, expires], or Absent                     *)

Absent == [count |-> -1, last |-> 0, expires |-> 0]
Full == Capacity * Unit

\* The lifetime of a key: a full bucket is refilled twice in it, unless the refill is slow.
BucketTtl ==
  LET twice == (2 * Full) \div (IF Refill < SlowRefill THEN SlowRefill ELSE Refill)
  IN IF twice < MinTtl THEN MinTtl ELSE twice

\* The refill of the Lua script; a clock behind the last one refills nothing.
Refilled(b, now) ==
  IF now > b.last
  THEN LET c == b.count + Refill * (now - b.last) IN IF c < Full THEN c ELSE Full
  ELSE b.count

\* Mutant of Take: the time of the refill is not stored.
TakeLastKept(b, now, clock) ==
  LET live == IF clock < b.expires THEN b ELSE [Absent EXCEPT !.count = Full, !.last = now]
      c    == Refilled(live, now)
      ok   == c >= Unit
  IN [allowed |-> ok,
      bucket |-> [count |-> IF ok THEN c - Unit ELSE c, last |-> live.last, expires |-> clock + BucketTtl]]

\* _LUA_TAKE for one token.  now is the clock of the calling process, clock that
\* of the Redis server, which expires keys.  last becomes now, also when now is
\* the earlier of the two.
Take(b, now, clock) ==
  LET live == IF clock < b.expires THEN b ELSE [Absent EXCEPT !.count = Full, !.last = now]
      c    == Refilled(live, now)
      ok   == c >= Unit
  IN [allowed |-> ok,
      bucket |-> [count |-> IF ok THEN c - Unit ELSE c, last |-> now, expires |-> clock + BucketTtl]]

\* TokenBucket.check
Check(taken) == IF taken.allowed THEN "ok" ELSE "RateLimitedError"
=============================================================================
