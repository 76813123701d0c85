------------------------- MODULE DistributedLockOps -------------------------
(***************************************************************************)
(* What the Redis commands behind qx.cache.DistributedLock do to the one   *)
(* key of a lock.  The value of the key is the token of the acquisition    *)
(* that set it, or Free when the key does not exist (never set, deleted,   *)
(* or expired).  Every acquisition draws a fresh uuid4 token.              *)
(***************************************************************************)
CONSTANT Free   \* the key does not exist

\* SET name token NX EX ttl: succeeds only when the key does not exist.
SetNX(key, token) == IF key = Free THEN token ELSE key

\* _RELEASE_SCRIPT: delete the key only when it still holds this token.
CompareAndDelete(key, token) == IF key = token THEN Free ELSE key
=============================================================================
