----------------------------- MODULE Idempotency -----------------------------
(***************************************************************************)
(* qx.cache.IdempotencyStore and the IdempotencyBehavior that uses it: the *)
(* requests that arrive with one idempotency key of one tenant.  The key   *)
(* is a Redis hash with a TTL; begin() is one Lua script, complete() is an *)
(* HSET followed by an EXPIRE.                                             *)
(***************************************************************************)
EXTENDS Naturals, FiniteSets

CONSTANTS
  Requests,    \* requests carrying the key
  Payloads,    \* request bodies, told apart by their fingerprint
  Payload,     \* [Requests -> Payloads]
  Values,      \* Result values a handler may return
  Null,        \* the value None: stored and read back as JSON null
  NoKey,       \* the Redis key does not exist
  NoFp,        \* the hash has no field request_fp
  MaxFaults    \* bound on crashes and Redis errors

ASSUME IdempotencyAssumption ==
  /\ Payload \in [Requests -> Payloads]
  /\ NoFp \notin Payloads
  /\ NoKey \notin [fp : Payloads \cup {NoFp}, status : {"in_progress", "completed"},
                   response : Values \cup {Null}, ttl : BOOLEAN]
  /\ MaxFaults \in Nat

VARIABLES
  key,        \* NoKey or the hash [fp, status, response, ttl]
  pc,         \* [Requests -> PCs]
  answer,     \* [Requests -> Answers]: what the behavior returned
  value,      \* [Requests -> Values \cup {Null}]: result.value, Null when there is none
  claimed,    \* SUBSET Requests: history: the script wrote the request's claim
  ran,        \* SUBSET Requests: history: the handler was called
  succeeded,  \* SUBSET Requests: history: the handler returned success
  expired,    \* history: whether the key expired, and under a running request
  faults

vars == <<key, pc, answer, value, claimed, ran, succeeded, expired, faults>>

PCs == {"new", "claimed", "handler", "hset", "expire", "end"}
Answers == {"none", "success", "replay", "failure", "mismatch", "in_progress", "unavailable"}

Init ==
  /\ key = NoKey
  /\ pc = [r \in Requests |-> "new"]
  /\ answer = [r \in Requests |-> "none"]
  /\ value = [r \in Requests |-> Null]
  /\ claimed = {} /\ ran = {} /\ succeeded = {}
  /\ expired = "never"
  /\ faults = 0

Fault == faults < MaxFaults /\ faults' = faults + 1

\* Allowed to run the handler, or past it.
Running(r) == pc[r] \in {"claimed", "handler", "hset", "expire"}

Answer(r, a) == /\ answer' = [answer EXCEPT ![r] = a]
                /\ pc' = [pc EXCEPT ![r] = "end"]

-----------------------------------------------------------------------------
(* begin()                                                                 *)

\* Mutant of Claims: a key in progress is claimed again.
ClaimsInProgress(r) == IF key = NoKey THEN TRUE ELSE key.status = "in_progress"

\* Mutant of Matches: the fingerprint is not compared.
MatchesAnyBody(r) == key # NoKey

\* The outcomes of the Lua script.
Claims(r)     == key = NoKey
Mismatches(r) == key # NoKey /\ key.fp # Payload[r]
Matches(r)    == key # NoKey /\ key.fp = Payload[r]

\* Mutant of Claimed: the EXPIRE of the script is missing.
ClaimedForever(r) ==
  [fp |-> Payload[r], status |-> "in_progress", response |-> Null, ttl |-> FALSE]

\* The hash a claim writes.
Claimed(r) ==
  [fp |-> Payload[r], status |-> "in_progress", response |-> Null, ttl |-> TRUE]

\* The script writes the claim.
SetClaim(r) == /\ Claims(r)
               /\ key' = Claimed(r)
               /\ claimed' = claimed \cup {r}

\* "claim": Result.success(None), the handler may run.
Claim(r) ==
  /\ pc[r] = "new" /\ SetClaim(r)
  /\ pc' = [pc EXCEPT ![r] = "claimed"]
  /\ UNCHANGED <<answer, value, ran, succeeded, expired, faults>>

\* "conflict": IdempotencyConflictError.
Mismatch(r) ==
  /\ pc[r] = "new" /\ Mismatches(r)
  /\ Answer(r, "mismatch")
  /\ UNCHANGED <<key, value, claimed, ran, succeeded, expired, faults>>

\* "in_progress": ConflictError.
InProgress(r) ==
  /\ pc[r] = "new" /\ Matches(r) /\ key.status = "in_progress"
  /\ Answer(r, "in_progress")
  /\ UNCHANGED <<key, value, claimed, ran, succeeded, expired, faults>>

\* A stored response.  The behavior tests "stored is not None": a stored null is
\* taken for a claim and the handler may run.
Replay(r) ==
  /\ pc[r] = "new" /\ Matches(r) /\ key.status = "completed"
  /\ IF key.response # Null
     THEN /\ Answer(r, "replay")
          /\ value' = [value EXCEPT ![r] = key.response]
     ELSE /\ pc' = [pc EXCEPT ![r] = "claimed"]
          /\ UNCHANGED <<answer, value>>
  /\ UNCHANGED <<key, claimed, ran, succeeded, expired, faults>>

\* eval() raised: InfrastructureError, the handler does not run.  When only the reply was
\* lost the script was executed: a claim it wrote stays, for a body that never runs.
Unavailable(r) ==
  /\ pc[r] = "new" /\ Fault
  /\ Answer(r, "unavailable")
  /\ SetClaim(r) \/ UNCHANGED <<key, claimed>>
  /\ UNCHANGED <<value, ran, succeeded, expired>>

-----------------------------------------------------------------------------
(* The handler and complete()                                              *)

\* next_(message).
StartHandler(r) ==
  /\ pc[r] = "claimed"
  /\ pc' = [pc EXCEPT ![r] = "handler"]
  /\ ran' = ran \cup {r}
  /\ UNCHANGED <<key, answer, value, claimed, succeeded, expired, faults>>

HandlerSucceeds(r, v) ==
  /\ pc[r] = "handler"
  /\ value' = [value EXCEPT ![r] = v]
  /\ succeeded' = succeeded \cup {r}
  /\ pc' = [pc EXCEPT ![r] = "hset"]
  /\ UNCHANGED <<key, answer, claimed, ran, expired, faults>>

\* A failed Result is returned and the key stays as it is.
HandlerFails(r) ==
  /\ pc[r] = "handler"
  /\ Answer(r, "failure")
  /\ UNCHANGED <<key, value, claimed, ran, succeeded, expired, faults>>

\* HSET status, response: it creates the hash, without fingerprint and TTL, when
\* the key has expired in the meantime.
Completed(r) ==
  IF key = NoKey THEN [fp |-> NoFp, status |-> "completed", response |-> value[r], ttl |-> FALSE]
  ELSE [key EXCEPT !.status = "completed", !.response = value[r]]

HSet(r) ==
  /\ pc[r] = "hset"
  /\ key' = Completed(r)
  /\ pc' = [pc EXCEPT ![r] = "expire"]
  /\ UNCHANGED <<answer, value, claimed, ran, succeeded, expired, faults>>

SetTtl(r) ==
  /\ pc[r] = "expire"
  /\ key' = IF key = NoKey THEN NoKey ELSE [key EXCEPT !.ttl = TRUE]
  /\ Answer(r, "success")
  /\ UNCHANGED <<value, claimed, ran, succeeded, expired, faults>>

\* complete() raises: suppressed, the result is returned all the same.
CompleteFails(r) ==
  /\ pc[r] \in {"hset", "expire"} /\ Fault
  /\ Answer(r, "success")
  /\ UNCHANGED <<key, value, claimed, ran, succeeded, expired>>

\* The process dies, or the request is cancelled: also after the claim and before the handler.
Crash(r) ==
  /\ Running(r) /\ Fault
  /\ Answer(r, "failure")
  /\ UNCHANGED <<key, value, claimed, ran, succeeded, expired>>

\* Redis removes the key when its TTL is over; a request may still be running.
Expire ==
  /\ key # NoKey /\ key.ttl
  /\ key' = NoKey
  /\ expired' = IF expired = "overrun" \/ \E r \in Requests : Running(r) THEN "overrun" ELSE "idle"
  /\ UNCHANGED <<pc, answer, value, claimed, ran, succeeded, faults>>

-----------------------------------------------------------------------------
Step(r) ==
  \/ Claim(r) \/ Mismatch(r) \/ InProgress(r) \/ Replay(r)
  \/ StartHandler(r) \/ (\E v \in Values \cup {Null} : HandlerSucceeds(r, v)) \/ HandlerFails(r)
  \/ HSet(r) \/ SetTtl(r)

Finished == (\A r \in Requests : pc[r] = "end") /\ UNCHANGED vars

Next ==
  \/ \E r \in Requests : Step(r) \/ Unavailable(r) \/ CompleteFails(r) \/ Crash(r)
  \/ Expire
  \/ Finished

Spec == Init /\ [][Next]_vars

\* Requests keep running and Redis does expire keys that have a TTL.
FairSpec == Spec /\ (\A r \in Requests : WF_vars(Step(r))) /\ WF_vars(Expire)

-----------------------------------------------------------------------------
(* Properties                                                              *)

\* Within the TTL two requests with the key never both run the handler, however
\* they interleave, unless a null response was stored in between.
AtMostOneRun ==
  \A r, s \in ran : r # s /\ expired = "never" => \E q \in succeeded : value[q] = Null

\* A replay returns the response of a successful run of the same body, also after the key
\* expired and was claimed for another body, and a body is refused only because a request
\* with another body has claimed the key.  Claimed, not run: when the reply to begin() is
\* lost, or the process dies before the handler, the claim refuses every other body, and
\* answers "in progress" to its own, until it expires.  (Only when the key expires under a
\* running request does that one's late complete() overwrite another claim, or recreate the
\* key without fingerprint.)
AnswersJustified ==
  \A r \in Requests : expired # "overrun" =>
    /\ answer[r] = "replay" => \E q \in succeeded : value[q] = value[r] /\ Payload[q] = Payload[r]
    /\ answer[r] = "mismatch" => \E q \in claimed : Payload[q] # Payload[r]

\* A request in progress never blocks the key for ever: the claim has a TTL.
ClaimEnds ==
  (key # NoKey /\ key.status = "in_progress") ~> (key = NoKey \/ key.status = "completed")

=============================================================================
