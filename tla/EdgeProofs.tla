----------------------------- MODULE EdgeProofs -----------------------------
(***************************************************************************)
(* What the edge guarantees for any number of requests, inputs, tokens,    *)
(* buckets and middleware stacks, whatever the clocks do: buckets grant    *)
(* what capacity and time allow, a route sees only the principal of its    *)
(* own request, and answers, headers and metrics agree.                    *)
(***************************************************************************)
EXTENDS Edge, TLAPS

HttpCodes == {"200", "307", "400", "401", "403", "404", "409", "412", "422", "429", "500", "503", "504"}
GrpcErrors == {"INVALID_ARGUMENT", "UNAUTHENTICATED", "PERMISSION_DENIED", "NOT_FOUND", "ALREADY_EXISTS",
               "FAILED_PRECONDITION", "RESOURCE_EXHAUSTED", "INTERNAL", "DEADLINE_EXCEEDED", "UNKNOWN"}
Statuses == HttpCodes \cup GrpcErrors \cup {"none", "OK", "CANCELLED", "success", "failure"}
Excs == HandlerErrors \cup {"none", "invalid", "unknown", "cancelled", "NotFoundError", "UnauthorizedError", "ForbiddenError"}
Ids == {NoId, EmptyId} \cup ({"client", "minted"} \X Requests)

ReqSet ==
  [pc : {"new", "down", "revocation", "up", "done"}, in : Inputs, at : Nat, ctx : {"empty", "own"},
   principal : DOMAIN Tokens \cup {NoToken}, passed : Int, exc : Excs, status : Statuses,
   metric : Statuses, header : Ids, body : Ids]

LiveBuckets == [count : Nat, last : Nat, expires : Nat]

Types ==
  /\ stack \in Stacks
  /\ req \in [Requests -> ReqSet]
  /\ time \in Nat
  /\ buckets \in [Keys -> LiveBuckets \cup {Absent}]
  /\ granted \in [Keys -> Nat] /\ setBack \in [Keys -> Nat] /\ forgotten \in [Keys -> Nat]

\* A bucket that was used: its tokens and the granted ones are covered by the time of the
\* last take, which no clock is far from, and by the keys that expired too early, of which
\* each had its lifetime.
Covered(b, n, forgets, behind, now) ==
  /\ b = Absent => n = 0 /\ forgets = 0
  /\ b # Absent =>
       /\ b.last <= now + Skew
       /\ b.last + BucketTtl <= b.expires + Skew /\ b.expires <= now + BucketTtl
       /\ Unit * n + b.count <= Full * (1 + forgets) + Refill * (b.last + Skew * behind)
       /\ BucketTtl * (1 + forgets) <= b.expires
       /\ forgets > 0 => Refill * (BucketTtl - Skew) < Full
BucketsCovered == \A k \in Keys : Covered(buckets[k], granted[k], forgotten[k], setBack[k], time)

\* The revocation list has the tokens withdrawn so far, each until it expires.
Listed ==
  /\ withdrawn \subseteq DOMAIN Tokens
  /\ DOMAIN revoked = withdrawn /\ \A j \in withdrawn : revoked[j] = Tokens[j].exp

\* The layers of the stack s that request record q has entered.
Path(q, s) == IF q.in.transport = "http" THEN s ELSE GrpcStack
Entered(q, s) == {Path(q, s)[i] : i \in 1 .. q.at - 1}
IdOf(q, r) == <<IF q.in.corr THEN "client" ELSE "minted", r>>

\* AnswersObservable for one answered request.
Observable(q, r, s) ==
  LET http == q.in.transport = "http" IN
  /\ q.header = IdOf(q, r) \/ (http /\ q.status \in {"429", "500"})
  /\ q.body \in {IdOf(q, r), NoId} \/ q.status = "500"
  /\ http => q.metric = q.status \/ "Metrics" \notin Entered(q, s)
  /\ ~http => (q.metric = "success" <=> q.status \in {"OK", "CANCELLED"})

\* What is known of a request: it has its own context exactly inside the layer that opens
\* it, its principal and token are its own, and an answer that was given before the route
\* comes from inside the context, or is a 429.
Sound(q, r, s) ==
  /\ q.at >= 1
  /\ q.pc = "revocation" => /\ q.in.token \in DOMAIN Tokens
                            /\ q.at <= Len(Path(q, s)) /\ Path(q, s)[q.at] = "JwtAuth"
  /\ q.ctx = "own" <=> "RequestContext" \in Entered(q, s)
  /\ q.principal \in {NoToken, q.in.token}
  /\ q.passed # -1 => q.passed >= Tokens[q.in.token].exp
  /\ q.pc \in {"new", "down", "revocation"} => q.exc = "none"
  /\ q.pc # "done" => q.body = NoId
  /\ q.pc = "up" /\ q.exc = "none" =>
       IF q.in.transport = "http" THEN q.at > Len(s) \/ q.ctx = "own" \/ q.status = "429" ELSE q.status = "OK"
  /\ q.pc = "done" => Observable(q, r, s)
AllSound == \A r \in Requests : Sound(req[r], r, stack)

\* The inductive invariant.
IInv == Types /\ BucketsCovered /\ Listed /\ AllSound

-----------------------------------------------------------------------------
(* The token buckets                                                       *)

\* The tokens a bucket gains in a time.
Gain(d) == Refill * d

\* Gains add up and grow with the time.
LEMMA Gains ==
  /\ \A a \in Int : Gain(a) \in Int
  /\ \A a, b \in Int : Gain(a + b) = Gain(a) + Gain(b)
  /\ \A a, b \in Int : a <= b => Gain(a) <= Gain(b)
  /\ \A a \in Nat : Gain(a) >= 0
<1>1. Refill \in Nat
  BY AuthAssumption
<1>2. \A x \in Nat, c \in Int : c >= 0 => x * c >= 0
  OBVIOUS
<1>3. \A a, b \in Int : Refill * (a + b) = Refill * a + Refill * b /\ Refill * a \in Int /\ Refill * b \in Int
  BY <1>1
<1>4. ASSUME NEW a \in Int, NEW b \in Int, a <= b PROVE Refill * a <= Refill * b
  <2>1. PICK d \in Int : d = b - a /\ d >= 0 /\ b = a + d
    BY <1>4
  <2>2. Refill * b = Refill * a + Refill * d /\ Refill * a \in Int /\ Refill * d \in Int
    BY <1>3, <2>1
  <2>3. Refill * d >= 0
    BY <1>1, <1>2, <2>1
  <2>4. PICK u \in Int, v \in Int : u = Refill * a /\ v = Refill * d
    BY <2>2
  <2>. QED  BY <2>2, <2>3, <2>4
<1>. QED  BY <1>1, <1>2, <1>3, <1>4 DEF Gain

\* The constants of a bucket.
LEMMA BucketConstants ==
  Unit \in Nat /\ Full \in Nat /\ Full > 0 /\ Refill \in Nat /\ BucketTtl \in Nat /\ Skew \in Nat
<1>1. Unit \in Nat /\ Refill \in Nat /\ MinTtl \in Nat /\ Skew \in Nat
  BY AuthAssumption, EdgeAssumption
<1>2. Full \in Nat /\ Full > 0
  <2>1. \A x, y \in Nat \ {0} : x * y \in Nat /\ x * y > 0
    OBVIOUS
  <2>. QED  BY <2>1, AuthAssumption DEF Full
<1>3. BucketTtl \in Nat
  <2>. DEFINE rate == IF Refill < SlowRefill THEN SlowRefill ELSE Refill
              twice == (2 * Full) \div rate
  <2>1. rate \in Nat /\ rate > 0
    BY AuthAssumption
  <2>2. 2 * Full \in Nat
    BY <1>2
  <2>. HIDE DEF rate
  <2>3. twice \in Int
    BY <2>1, <2>2
  <2>. HIDE DEF twice
  <2>4. (IF twice < MinTtl THEN MinTtl ELSE twice) \in Nat
    BY <1>1, <2>3
  <2>. QED  BY <2>4 DEF BucketTtl, twice, rate
<1>. QED  BY <1>1, <1>2, <1>3

\* A take counts itself if it forgets, or if its clock is behind.
Forgets(b, now, f) == IF Forgotten(b, now) THEN f + 1 ELSE f
Setbacks(b, now, s) == IF Behind(b, now) THEN s + 1 ELSE s

\* What a take finds in the bucket, with all that was granted, is covered by the caller's
\* clock; a clock behind the last one costs the clock difference once, and a key that
\* expired too early a full bucket.
LEMMA FoundIsCovered ==
  ASSUME NEW b \in LiveBuckets \cup {Absent}, NEW g \in Nat, NEW f \in Nat, NEW s \in Nat, time \in Nat,
         NEW now \in Nat, now >= time, Covered(b, g, f, s, time),
         NEW c \in Nat,
         c = Refilled(IF time < b.expires THEN b ELSE [Absent EXCEPT !.count = Full, !.last = now], now)
  PROVE  Unit * g + c <= Full * (1 + Forgets(b, now, f)) + Refill * (now + Skew * Setbacks(b, now, s))
<1>1. Full \in Nat /\ Full > 0 /\ BucketTtl \in Nat /\ Skew \in Nat /\ Unit \in Nat
  BY BucketConstants
<1>2. PICK skewed \in Nat : skewed = Skew * s
  BY <1>1
<1>3. PICK more \in Nat : more = skewed + Skew /\ more = Skew * (s + 1)
  BY <1>1, <1>2
<1>4. PICK u \in Nat, full \in Nat : u = Unit * g /\ full = Full * (1 + f) /\ full >= Full
  BY <1>1
<1>5. Full * (1 + (f + 1)) = full + Full
  BY <1>1, <1>4
<1>. DEFINE limit == IF Forgotten(b, now) THEN full + Full ELSE full
            back == IF Behind(b, now) THEN more ELSE skewed
<1>6. SUFFICES u + c <= limit + Gain(now + back)
  <2>1. limit = Full * (1 + Forgets(b, now, f))
    BY <1>4, <1>5 DEF Forgets
  <2>2. back = Skew * Setbacks(b, now, s)
    BY <1>2, <1>3 DEF Setbacks
  <2>. HIDE DEF limit, back
  <2>. QED  BY <1>4, <2>1, <2>2 DEF Gain
<1>7. CASE b = Absent
  <2>1. b.expires = 0 /\ u = 0 /\ limit = full /\ back = skewed
    <3>1. b.expires = 0 /\ g = 0 /\ ~Behind(b, now) /\ ~Forgotten(b, now)
      BY <1>7 DEF Absent, Covered, Behind, Forgotten
    <3>. QED  BY <1>1, <1>4, <3>1
  <2>2. c = Full
    BY <2>1 DEF Refilled, Absent
  <2>3. Gain(now + skewed) >= 0 /\ Gain(now + skewed) \in Int
    BY Gains
  <2>. HIDE DEF limit, back
  <2>. QED  BY <1>1, <1>4, <2>1, <2>2, <2>3
<1>8. CASE b # Absent
  <2>1. PICK l \in Nat, n \in Nat, e \in Nat : l = b.last /\ n = b.count /\ e = b.expires
    BY <1>8 DEF LiveBuckets
  <2>2. l <= time + Skew /\ u + n <= full + Gain(l + skewed)
    BY <1>2, <1>4, <1>8, <2>1 DEF Covered, Gain
  <2>3. PICK x \in Int, y \in Int, z \in Int, w \in Int :
          x = Gain(l + skewed) /\ y = Gain(now + skewed) /\ z = Gain(now - l) /\ w = Gain(now + more)
    <3>1. l + skewed \in Int /\ now + skewed \in Int /\ now - l \in Int /\ now + more \in Int
      OBVIOUS
    <3>2. \A a \in Int : Gain(a) \in Int
      BY Gains, Zenon
    <3>. QED  BY <3>1, <3>2, Zenon
  <2>4. y = x + z
    <3>1. PICK i \in Int, j \in Int : i = l + skewed /\ j = now - l /\ i + j = now + skewed
      OBVIOUS
    <3>2. \A a, d \in Int : Gain(a + d) = Gain(a) + Gain(d)
      BY Gains
    <3>3. Gain(i + j) = Gain(i) + Gain(j)
      BY <3>1, <3>2
    <3>. QED  BY <2>3, <3>1, <3>3
  <2>5. now >= l => z >= 0
    <3>1. now >= l => now - l \in Nat
      OBVIOUS
    <3>. QED  BY <2>3, <3>1, Gains
  <2>6. x <= w
    <3>1. PICK i \in Int, j \in Int : i = l + skewed /\ j = now + more /\ i <= j
      BY <1>1, <1>3, <2>2
    <3>2. Gain(i) <= Gain(j)
      BY <3>1, Gains
    <3>. QED  BY <2>3, <3>1, <3>2
  <2>7. /\ Behind(b, now) <=> now < l
        /\ Forgotten(b, now) <=> time >= e /\ z < Full
    BY <1>8, <2>1, <2>3 DEF Behind, Forgotten, Gain
  <2>8. CASE now < l
    <3>1. Gain(now + back) = w
      BY <2>3, <2>7, <2>8
    <3>2. z <= 0
      <4>1. PICK d \in Int : d = now - l /\ d <= 0
        BY <2>8
      <4>2. Gain(d) <= Gain(0)
        BY <4>1, Gains
      <4>3. Gain(0) = 0
        BY BucketConstants DEF Gain
      <4>. QED  BY <2>3, <4>1, <4>2, <4>3
    <3>3. CASE time < e
      <4>1. c = n
        BY <2>1, <2>8, <3>3 DEF Refilled
      <4>2. limit = full
        BY <2>7, <3>3, <2>1
      <4>. HIDE DEF limit
      <4>. QED  BY <1>1, <2>2, <2>3, <2>6, <3>1, <4>1, <4>2
    <3>4. CASE time >= e
      <4>1. c = Full
        BY <1>1, <2>1, <3>4 DEF Refilled, Absent
      <4>2. limit = full + Full
        BY <1>1, <2>7, <3>2, <3>4
      <4>. HIDE DEF limit
      <4>. QED  BY <1>1, <2>2, <2>3, <2>6, <3>1, <4>1, <4>2
    <3>. QED  BY <2>1, <3>3, <3>4
  <2>9. CASE now >= l
    <3>1. Gain(now + back) = y /\ z >= 0
      BY <2>1, <2>3, <2>5, <2>7, <2>9
    <3>3. CASE time < e
      <4>1. now > l => c <= n + z
        BY <1>1, <2>1, <2>3, <3>3 DEF Refilled, Gain
      <4>2. now = l => c = n
        BY <2>1, <3>3 DEF Refilled
      <4>3. limit = full
        BY <2>1, <2>7, <3>3
      <4>. HIDE DEF limit
      <4>. QED  BY <1>1, <2>2, <2>3, <2>4, <2>9, <3>1, <4>1, <4>2, <4>3
    <3>4. CASE time >= e
      <4>1. c = Full
        BY <1>1, <2>1, <3>4 DEF Refilled, Absent
      <4>2. limit = full + Full \/ (limit = full /\ z >= Full)
        BY <1>1, <2>3, <2>7, <3>4
      <4>. HIDE DEF limit
      <4>. QED  BY <1>1, <2>2, <2>3, <2>4, <3>1, <4>1, <4>2
    <3>. QED  BY <2>1, <3>3, <3>4
  <2>. QED  BY <2>1, <2>8, <2>9
<1>. QED  BY <1>7, <1>8

\* A key that expired too early had its lifetime, and a bucket does not fill within that.
LEMMA ForgotIsCovered ==
  ASSUME NEW b \in LiveBuckets \cup {Absent}, NEW g \in Nat, NEW f \in Nat, NEW s \in Nat, time \in Nat,
         NEW now \in Nat, now >= time, Covered(b, g, f, s, time)
  PROVE  /\ BucketTtl * (1 + Forgets(b, now, f)) <= time + BucketTtl
         /\ Forgets(b, now, f) > 0 => Refill * (BucketTtl - Skew) < Full
<1>1. BucketTtl \in Nat /\ Skew \in Nat /\ Full \in Nat
  BY BucketConstants
<1>2. PICK life \in Nat : life = BucketTtl * (1 + f)
  BY <1>1
<1>3. BucketTtl * (1 + (f + 1)) = life + BucketTtl
  BY <1>1, <1>2
<1>4. CASE b = Absent
  <2>1. f = 0 /\ ~Forgotten(b, now)
    BY <1>4 DEF Covered, Forgotten
  <2>2. Forgets(b, now, f) = 0
    BY <2>1 DEF Forgets
  <2>. QED  BY <1>1, <2>2
<1>5. CASE b # Absent
  <2>1. PICK l \in Nat, e \in Nat : l = b.last /\ e = b.expires
    BY <1>5 DEF LiveBuckets
  <2>2. /\ l + BucketTtl <= e + Skew /\ e <= time + BucketTtl /\ life <= e
        /\ f > 0 => Refill * (BucketTtl - Skew) < Full
    BY <1>2, <1>5, <2>1 DEF Covered
  <2>3. CASE Forgotten(b, now)
    <3>1. Forgets(b, now, f) = f + 1 /\ time >= e /\ Gain(now - l) < Full
      BY <2>1, <2>3 DEF Forgets, Forgotten, Gain
    <3>2. BucketTtl * (1 + Forgets(b, now, f)) = life + BucketTtl
      BY <1>3, <3>1
    <3>3. PICK i \in Int, j \in Int : i = BucketTtl - Skew /\ j = now - l /\ i <= j
      BY <1>1, <2>2, <3>1
    <3>4. Gain(i) <= Gain(j) /\ Gain(i) \in Int /\ Gain(j) \in Int
      BY <3>3, Gains
    <3>5. Gain(i) < Full
      BY <1>1, <3>1, <3>3, <3>4
    <3>6. Refill * (BucketTtl - Skew) < Full
      BY <3>3, <3>5 DEF Gain
    <3>. QED  BY <1>1, <2>2, <3>1, <3>2, <3>6
  <2>4. CASE ~Forgotten(b, now)
    <3>1. Forgets(b, now, f) = f
      BY <2>4 DEF Forgets
    <3>. QED  BY <1>1, <1>2, <2>2, <3>1
  <2>. QED  BY <2>3, <2>4
<1>. QED  BY <1>4, <1>5

\* _LUA_TAKE leaves a covered bucket.
LEMMA TakeIsCovered ==
  ASSUME NEW b \in LiveBuckets \cup {Absent}, NEW g \in Nat, NEW f \in Nat, NEW s \in Nat, time \in Nat,
         NEW now \in time .. time + Skew, Covered(b, g, f, s, time), NEW t, t = Take(b, now, time)
  PROVE  /\ t.bucket \in LiveBuckets
         /\ Covered(t.bucket, IF t.allowed THEN g + 1 ELSE g, Forgets(b, now, f), Setbacks(b, now, s), time)
<1>1. /\ Full \in Nat /\ Unit \in Nat /\ Refill \in Nat /\ BucketTtl \in Nat /\ Skew \in Nat
      /\ now \in Nat /\ now >= time /\ now <= time + Skew
  BY BucketConstants
<1>. DEFINE live == IF time < b.expires THEN b ELSE [Absent EXCEPT !.count = Full, !.last = now]
<1>2. live.count \in Nat /\ live.last \in Nat
  BY <1>1 DEF LiveBuckets, Absent
<1>. DEFINE c == Refilled(live, now)
            rest == IF c >= Unit THEN c - Unit ELSE c
<1>3. t = [allowed |-> c >= Unit, bucket |-> [count |-> rest, last |-> now, expires |-> time + BucketTtl]]
  BY DEF Take
<1>. HIDE DEF live
<1>4. c \in Nat
  <2>1. now > live.last => Refill * (now - live.last) \in Nat
    <3>1. now > live.last => now - live.last \in Nat
      BY <1>1, <1>2
    <3>2. \A x, y \in Nat : x * y \in Nat
      OBVIOUS
    <3>. QED  BY <1>1, <3>1, <3>2
  <2>. QED  BY <1>1, <1>2, <2>1 DEF Refilled
<1>5. Unit * g + c <= Full * (1 + Forgets(b, now, f)) + Refill * (now + Skew * Setbacks(b, now, s))
  BY <1>1, <1>4, FoundIsCovered DEF live
<1>. HIDE DEF c
<1>6. rest \in Nat
  BY <1>1, <1>4
<1>7. /\ t.bucket.count = rest /\ t.bucket.last = now /\ t.bucket.expires = time + BucketTtl
      /\ t.bucket \in LiveBuckets
  <2>. HIDE DEF rest
  <2>. QED  BY <1>1, <1>3, <1>6 DEF LiveBuckets
<1>8. t.bucket # Absent
  BY <1>7 DEF LiveBuckets, Absent
<1>9. Unit * (IF t.allowed THEN g + 1 ELSE g) + rest = Unit * g + c
  <2>1. CASE c >= Unit
    <3>1. t.allowed
      <4>1. (c >= Unit) = TRUE
        BY <2>1
      <4>2. t = [allowed |-> TRUE, bucket |-> [count |-> rest, last |-> now, expires |-> time + BucketTtl]]
        BY <1>3, <4>1, Zenon
      <4>. HIDE DEF rest
      <4>. QED  BY <4>2
    <3>2. PICK u \in Nat : u = Unit * g /\ Unit * (g + 1) = u + Unit
      BY <1>1
    <3>3. rest = c - Unit
      BY <2>1
    <3>. HIDE DEF rest
    <3>. QED  BY <1>1, <1>4, <3>1, <3>2, <3>3
  <2>2. CASE ~(c >= Unit)
    <3>1. ~t.allowed
      <4>1. (c >= Unit) = FALSE
        BY <2>2
      <4>2. t = [allowed |-> FALSE, bucket |-> [count |-> rest, last |-> now, expires |-> time + BucketTtl]]
        BY <1>3, <4>1, Zenon
      <4>. HIDE DEF rest
      <4>. QED  BY <4>2
    <3>2. rest = c
      BY <2>2
    <3>. QED  BY <3>1, <3>2
  <2>. QED  BY <2>1, <2>2
<1>10. /\ BucketTtl * (1 + Forgets(b, now, f)) <= time + BucketTtl
       /\ Forgets(b, now, f) > 0 => Refill * (BucketTtl - Skew) < Full
  BY <1>1, ForgotIsCovered
<1>. HIDE DEF rest
<1>. DEFINE n == IF t.allowed THEN g + 1 ELSE g
            forgets == Forgets(b, now, f)
            behind == Setbacks(b, now, s)
<1>11. Unit * n + t.bucket.count <= Full * (1 + forgets) + Refill * (t.bucket.last + Skew * behind)
  BY <1>5, <1>7, <1>9
<1>12. BucketTtl * (1 + forgets) <= t.bucket.expires /\ (forgets > 0 => Refill * (BucketTtl - Skew) < Full)
  BY <1>7, <1>10
<1>. HIDE DEF n, forgets, behind
<1>13. Covered(t.bucket, n, forgets, behind, time)
  BY <1>1, <1>7, <1>8, <1>11, <1>12 DEF Covered
<1>. QED  BY <1>7, <1>13 DEF n, forgets, behind

\* BucketBound for a covered bucket.
Bounded(g, f, s) ==
  /\ Unit * g <= Full * (1 + f) + Refill * (time + Skew * (1 + s))
  /\ BucketTtl * f <= time
  /\ f > 0 => Refill * (BucketTtl - Skew) < Full

\* What a covered bucket has granted and forgotten.
LEMMA CoveredIsBounded ==
  ASSUME NEW b \in LiveBuckets \cup {Absent}, NEW g \in Nat, NEW f \in Nat, NEW s \in Nat, time \in Nat,
         Covered(b, g, f, s, time)
  PROVE  Bounded(g, f, s)
<1>1. Full \in Nat /\ Skew \in Nat /\ Unit \in Nat /\ BucketTtl \in Nat
  BY BucketConstants
<1>2. PICK skewed \in Nat : skewed = Skew * s
  BY <1>1
<1>3. PICK more \in Nat : more = skewed + Skew /\ more = Skew * (1 + s)
  BY <1>1, <1>2
<1>4. PICK u \in Nat, full \in Nat : u = Unit * g /\ full = Full * (1 + f)
  BY <1>1
<1>5. PICK until \in Nat : until = time + more
  OBVIOUS
<1>6. PICK x \in Int : x = Gain(until) /\ x >= 0
  <2>1. until \in Int
    OBVIOUS
  <2>2. Gain(until) \in Int
    BY <2>1, Gains, Zenon
  <2>3. Gain(until) >= 0
    BY Gains, Zenon
  <2>. QED  BY <2>2, <2>3
<1>7. x = Refill * (time + Skew * (1 + s))
  BY <1>3, <1>5, <1>6 DEF Gain
<1>8. CASE b = Absent
  <2>1. g = 0 /\ f = 0
    BY <1>8 DEF Covered
  <2>2. u = 0 /\ BucketTtl * f = 0
    BY <1>1, <1>4, <2>1
  <2>. QED  BY <1>4, <1>6, <1>7, <2>1, <2>2 DEF Bounded
<1>9. CASE b # Absent
  <2>1. PICK l \in Nat, n \in Nat, e \in Nat : l = b.last /\ n = b.count /\ e = b.expires
    BY <1>9 DEF LiveBuckets
  <2>2. l <= time + Skew /\ u + n <= full + Gain(l + skewed)
    BY <1>2, <1>4, <1>9, <2>1 DEF Covered, Gain
  <2>3. PICK i \in Int, j \in Int : i = l + skewed /\ j = until /\ i <= j
    BY <1>1, <1>3, <1>5, <2>2
  <2>4. Gain(i) <= Gain(j) /\ Gain(i) \in Int
    BY <2>3, Gains
  <2>5. PICK y \in Int : y = Gain(i)
    BY <2>4
  <2>6. u <= full + x
    BY <1>1, <1>6, <2>2, <2>3, <2>4, <2>5
  <2>7. BucketTtl * f <= time
    <3>1. PICK m \in Nat : m = BucketTtl * f /\ BucketTtl * (1 + f) = m + BucketTtl
      BY <1>1
    <3>2. m + BucketTtl <= e /\ e <= time + BucketTtl
      BY <1>9, <2>1, <3>1 DEF Covered
    <3>. QED  BY <1>1, <3>1, <3>2
  <2>8. f > 0 => Refill * (BucketTtl - Skew) < Full
    BY <1>9 DEF Covered
  <2>. QED  BY <1>4, <1>7, <2>6, <2>7, <2>8 DEF Bounded
<1>. QED  BY <1>8, <1>9

-----------------------------------------------------------------------------
USE EdgeAssumption

-----------------------------------------------------------------------------
(* The stacks and the records of requests                                  *)

\* Every error class maps to a status of its transport, and to no gRPC success.
LEMMA Codes ==
  ASSUME NEW e
  PROVE  MappingOf(e).http \in HttpCodes /\ MappingOf(e).grpc \in GrpcErrors
<1>1. CASE e \in DOMAIN ClientErrors
  <2>1. e \in {"ValidationError", "UnauthorizedError", "ForbiddenError", "NotFoundError", "ConflictError",
               "PreconditionFailedError", "RateLimitedError", "DomainError"}
    BY <1>1 DEF ClientErrors
  <2>2. e \notin DOMAIN ServerErrors
    BY <2>1 DEF ServerErrors
  <2>3. MappingOf(e) = ClientErrors[e]
    BY <1>1, <2>2 DEF MappingOf
  <2>. QED  BY <2>1, <2>3 DEF ClientErrors, Mapping, HttpCodes, GrpcErrors
<1>2. CASE e \notin DOMAIN ClientErrors /\ e \in DOMAIN ServerErrors
  <2>1. e \in {"InfrastructureError", "TimeoutError", "ConfigurationError"}
    BY <1>2 DEF ServerErrors
  <2>2. MappingOf(e) = ServerErrors[e]
    BY <1>2 DEF MappingOf
  <2>. QED  BY <2>1, <2>2 DEF ServerErrors, Mapping, HttpCodes, GrpcErrors
<1>3. CASE e \notin DOMAIN ClientErrors /\ e \notin DOMAIN ServerErrors
  <2>1. MappingOf(e) = BaseError
    BY <1>3 DEF MappingOf
  <2>. QED  BY <2>1 DEF BaseError, Mapping, HttpCodes, GrpcErrors
<1>. QED  BY <1>1, <1>2, <1>3

\* TokenBucket.check: an exhausted bucket answers 429.
LEMMA Exhausted == MappingOf("RateLimitedError").http = "429"
<1>1. "RateLimitedError" \in DOMAIN ClientErrors /\ ClientErrors["RateLimitedError"] = Mapping("429", "RESOURCE_EXHAUSTED")
  BY DEF ClientErrors
<1>2. "RateLimitedError" \notin DOMAIN ServerErrors
  BY DEF ServerErrors
<1>3. MappingOf("RateLimitedError") = Mapping("429", "RESOURCE_EXHAUSTED")
  BY <1>1, <1>2 DEF MappingOf
<1>. QED  BY <1>3 DEF Mapping

\* A request passes a sequence of layers, one of which opens its context.
LEMMA Paths ==
  ASSUME NEW q \in ReqSet, NEW s \in Stacks
  PROVE  /\ Path(q, s) \in Seq(Layers)
         /\ \E i \in DOMAIN Path(q, s) : Path(q, s)[i] = "RequestContext"
<1>1. GrpcStack \in Seq(Layers) /\ 1 \in DOMAIN GrpcStack /\ GrpcStack[1] = "RequestContext"
  BY DEF GrpcStack, Layers
<1>. QED  BY <1>1 DEF Path

\* The fields of a record of ReqSet.
LEMMA Fields ==
  ASSUME NEW q \in ReqSet
  PROVE  /\ q.in \in Inputs /\ q.at \in Nat /\ q.ctx \in {"empty", "own"} /\ q.exc \in Excs
         /\ q.principal \in DOMAIN Tokens \cup {NoToken} /\ q.passed \in Int
         /\ q.status \in Statuses /\ q.in.transport \in {"http", "grpc"}
         /\ q.in.token \in DOMAIN Tokens \cup {NoToken}
  BY DEF ReqSet

\* A request that is in a layer of its stack, and one that has passed them all.
LEMMA InLayer ==
  ASSUME IInv, NEW r \in Requests, NEW l \in Layers, In(r, l)
  PROVE  /\ req[r] \in ReqSet /\ Sound(req[r], r, stack) /\ stack \in Stacks /\ req[r].pc = "down"
         /\ req[r].at <= Len(Path(req[r], stack)) /\ Path(req[r], stack)[req[r].at] = l
<1>1. l # "route"
  BY DEF Layers
<1>2. StackOf(r) = Path(req[r], stack)
  BY DEF StackOf, Path, Http
<1>. QED  BY <1>1, <1>2 DEF IInv, Types, AllSound, In, Layer

LEMMA AtRoute ==
  ASSUME IInv, NEW r \in Requests, In(r, "route")
  PROVE  /\ req[r] \in ReqSet /\ Sound(req[r], r, stack) /\ stack \in Stacks /\ req[r].pc = "down"
         /\ req[r].at > Len(Path(req[r], stack)) /\ req[r].ctx = "own"
<1>1. req[r] \in ReqSet /\ Sound(req[r], r, stack) /\ stack \in Stacks /\ req[r].pc = "down" /\ req[r].at \in Nat /\ req[r].at >= 1
  BY Fields DEF IInv, Types, AllSound, In, Sound
<1>2. PICK path \in Seq(Layers) : path = Path(req[r], stack) /\ \E i \in DOMAIN path : path[i] = "RequestContext"
  BY <1>1, Paths
<1>3. StackOf(r) = path
  BY <1>2 DEF StackOf, Path, Http
<1>4. req[r].at > Len(path)
  <2>1. SUFFICES ASSUME req[r].at <= Len(path) PROVE FALSE
    BY <1>1
  <2>2. path[req[r].at] = "route"
    BY <1>3, <2>1 DEF In, Layer
  <2>3. path[req[r].at] \in Layers
    BY <1>1, <1>2, <2>1
  <2>. QED  BY <2>2, <2>3 DEF Layers
<1>5. "RequestContext" \in Entered(req[r], stack)
  <2>1. PICK i \in DOMAIN path : path[i] = "RequestContext"
    BY <1>2
  <2>2. i \in 1 .. req[r].at - 1
    BY <1>1, <1>4, <2>1
  <2>. QED  BY <1>2, <2>1, <2>2 DEF Entered
<1>. QED  BY <1>1, <1>2, <1>4, <1>5 DEF Sound

\* call_next: one more layer is around the request.
LEMMA Forward ==
  ASSUME NEW s \in Stacks, NEW r \in Requests, NEW q \in ReqSet, Sound(q, r, s), q.pc \in {"down", "revocation"},
         q.at <= Len(Path(q, s)), NEW n \in ReqSet, n.in = q.in, n.at = q.at + 1, n.pc = "down",
         n.exc = q.exc, n.body = q.body, n.principal \in {NoToken, q.in.token},
         n.passed # -1 => n.passed >= Tokens[q.in.token].exp,
         n.ctx = IF Path(q, s)[q.at] = "RequestContext" THEN "own" ELSE q.ctx
  PROVE  Sound(n, r, s)
<1>1. q.at \in Nat /\ q.at >= 1 /\ q.ctx \in {"empty", "own"}
  BY Fields DEF Sound
<1>2. Path(n, s) = Path(q, s)
  BY DEF Path
<1>3. Entered(n, s) = Entered(q, s) \cup {Path(q, s)[q.at]}
  <2>1. \A i : i \in 1 .. n.at - 1 <=> i \in 1 .. q.at - 1 \/ i = q.at
    BY <1>1
  <2>2. PICK path : path = Path(q, s)
    OBVIOUS
  <2>3. Entered(n, s) = {path[i] : i \in 1 .. n.at - 1} /\ Entered(q, s) = {path[i] : i \in 1 .. q.at - 1}
    BY <1>2, <2>2 DEF Entered
  <2>. QED  BY <2>1, <2>2, <2>3, Zenon
<1>4. n.ctx = "own" <=> "RequestContext" \in Entered(n, s)
  BY <1>1, <1>3 DEF Sound
<1>. QED  BY <1>1, <1>4 DEF Sound

\* A layer or the route answers or raises.
LEMMA TurnBack ==
  ASSUME NEW s \in Stacks, NEW r \in Requests, NEW q \in ReqSet, Sound(q, r, s), q.pc = "down",
         NEW n \in ReqSet, n.pc = "up", n.in = q.in, n.at = q.at, n.ctx = q.ctx, n.body = q.body,
         n.principal = q.principal, n.passed = q.passed,
         n.exc = "none" =>
           IF q.in.transport = "http" THEN q.at > Len(s) \/ q.ctx = "own" \/ n.status = "429" ELSE n.status = "OK"
  PROVE  Sound(n, r, s)
<1>1. Path(n, s) = Path(q, s) /\ Entered(n, s) = Entered(q, s)
  BY DEF Path, Entered
<1>. QED  BY <1>1 DEF Sound

\* The record of one request changes and is sound: so are all.
LEMMA OneRequest ==
  ASSUME IInv, NEW r \in Requests, NEW n \in ReqSet, Set(r, n), Sound(n, r, stack), UNCHANGED stack
  PROVE  req' \in [Requests -> ReqSet] /\ AllSound'
<1>1. req' \in [Requests -> ReqSet] /\ req'[r] = n /\ \A u \in Requests \ {r} : req'[u] = req[u]
  BY DEF IInv, Types, Set
<1>. QED  BY <1>1 DEF IInv, AllSound

\* Such a step that leaves buckets, clocks and revocations alone.
LEMMA OnlyRequests ==
  ASSUME IInv, req' \in [Requests -> ReqSet], AllSound', UNCHANGED <<stack, time, buckets, revoked, history>>
  PROVE  IInv'
<1>2. /\ stack' = stack /\ time' = time /\ buckets' = buckets /\ revoked' = revoked
      /\ granted' = granted /\ setBack' = setBack /\ forgotten' = forgotten /\ withdrawn' = withdrawn
  BY DEF history
<1>3. Types' /\ BucketsCovered' /\ Listed'
  BY <1>2 DEF IInv, Types, BucketsCovered, Listed
<1>. QED  BY <1>3 DEF IInv

LEMMA RequestStep ==
  ASSUME IInv, NEW r \in Requests, NEW n \in ReqSet, Set(r, n), Sound(n, r, stack),
         UNCHANGED <<stack, time, buckets, revoked, history>>
  PROVE  IInv'
<1>1. req' \in [Requests -> ReqSet] /\ AllSound'
  BY OneRequest
<1>. QED  BY <1>1, OnlyRequests

-----------------------------------------------------------------------------
(* The way in                                                              *)

\* A request that has not entered any layer.
LEMMA NewIsSound ==
  ASSUME NEW n \in ReqSet, NEW r \in Requests, NEW s \in Stacks, n.pc \in {"new", "down"}, n.at = 1,
         n.ctx = "empty", n.principal = NoToken, n.passed = -1, n.exc = "none", n.body = NoId
  PROVE  Sound(n, r, s)
<1>1. Entered(n, s) = {}
  <2>1. 1 .. n.at - 1 = {}
    OBVIOUS
  <2>. QED  BY <2>1 DEF Entered
<1>. QED  BY <1>1 DEF Sound

\* The record of a request before it arrives.
LEMMA NewRecord ==
  /\ NewRequest \in ReqSet /\ NewRequest.pc = "new" /\ NewRequest.at = 1 /\ NewRequest.ctx = "empty"
  /\ NewRequest.principal = NoToken /\ NewRequest.passed = -1 /\ NewRequest.exc = "none" /\ NewRequest.body = NoId
<1>1. -1 \in Int /\ NoId \in Ids /\ "none" \in Statuses /\ "none" \in Excs
  BY DEF Ids, Statuses, Excs
<1>2. (CHOOSE in \in Inputs : TRUE) \in Inputs
  <2>1. \E in \in Inputs : TRUE
    OBVIOUS
  <2>. QED  BY <2>1
<1>. QED  BY <1>1, <1>2 DEF NewRequest, ReqSet

\* The initial states satisfy the inductive invariant.
LEMMA InitIInv == Init => IInv
<1>. SUFFICES ASSUME Init PROVE IInv
  OBVIOUS
<1>1. \A r \in Requests : NewRequest \in ReqSet /\ Sound(NewRequest, r, stack)
  BY NewRecord, NewIsSound DEF Init
<1>2. Types /\ AllSound
  BY <1>1 DEF Init, Types, AllSound
<1>3. BucketsCovered
  BY DEF Init, BucketsCovered, Covered
<1>4. Listed
  BY DEF Init, Listed
<1>. QED  BY <1>2, <1>3, <1>4 DEF IInv

LEMMA ArriveStep ==
  ASSUME IInv, NEW r \in Requests, Arrive(r) PROVE IInv'
<1>1. PICK in \in Inputs : Set(r, [NewRequest EXCEPT !.pc = "down", !.in = in])
  BY DEF Arrive
<1>. DEFINE n == [NewRequest EXCEPT !.pc = "down", !.in = in]
<1>2. n \in ReqSet
  BY NewRecord DEF ReqSet
<1>3. /\ n.pc = "down" /\ n.at = 1 /\ n.ctx = "empty" /\ n.principal = NoToken /\ n.passed = -1
      /\ n.exc = "none" /\ n.body = NoId
  BY NewRecord DEF ReqSet
<1>4. Set(r, n)
  BY <1>1
<1>. HIDE DEF n
<1>5. Sound(n, r, stack)
  BY <1>2, <1>3, NewIsSound DEF IInv, Types
<1>. QED  BY <1>2, <1>4, <1>5, RequestStep DEF Arrive, store

\* The record after call_next.
LEMMA NextRecord ==
  ASSUME NEW q \in ReqSet
  PROVE  /\ [q EXCEPT !.at = @ + 1] \in ReqSet
         /\ [q EXCEPT !.at = @ + 1].at = q.at + 1 /\ [q EXCEPT !.at = @ + 1].in = q.in
         /\ [q EXCEPT !.at = @ + 1].pc = q.pc /\ [q EXCEPT !.at = @ + 1].exc = q.exc
         /\ [q EXCEPT !.at = @ + 1].body = q.body /\ [q EXCEPT !.at = @ + 1].ctx = q.ctx
         /\ [q EXCEPT !.at = @ + 1].principal = q.principal /\ [q EXCEPT !.at = @ + 1].passed = q.passed
<1>1. q.at + 1 \in Nat
  BY Fields
<1>. QED  BY <1>1 DEF ReqSet

\* A layer that hands the request on unchanged.
LEMMA PassOn ==
  ASSUME IInv, NEW r \in Requests, NEW l \in Layers \ {"RequestContext"}, In(r, l), Set(r, Next_(r)), UNCHANGED stack
  PROVE  req' \in [Requests -> ReqSet] /\ AllSound'
<1>1. PICK q \in ReqSet : /\ q = req[r] /\ Sound(q, r, stack) /\ stack \in Stacks /\ q.pc = "down"
                          /\ q.at <= Len(Path(q, stack)) /\ Path(q, stack)[q.at] = l
  BY InLayer
<1>. DEFINE n == [q EXCEPT !.at = @ + 1]
<1>2. /\ n \in ReqSet /\ n.at = q.at + 1 /\ n.in = q.in /\ n.pc = q.pc /\ n.exc = q.exc
      /\ n.body = q.body /\ n.ctx = q.ctx /\ n.principal = q.principal /\ n.passed = q.passed
  BY NextRecord
<1>22. Set(r, n)
  BY <1>1 DEF Next_
<1>. HIDE DEF n
<1>3. n.principal \in {NoToken, q.in.token} /\ (n.passed # -1 => n.passed >= Tokens[q.in.token].exp)
  BY <1>1, <1>2 DEF Sound
<1>4. n.ctx = IF Path(q, stack)[q.at] = "RequestContext" THEN "own" ELSE q.ctx
  BY <1>1, <1>2
<1>5. Sound(n, r, stack)
  BY <1>1, <1>2, <1>3, <1>4, Forward
<1>. QED  BY <1>2, <1>22, <1>5, OneRequest

LEMMA PassStep ==
  ASSUME IInv, NEW r \in Requests, NEW l \in Layers \ {"RequestContext"}, In(r, l), Set(r, Next_(r)),
         UNCHANGED <<stack, time, buckets, revoked, history>>
  PROVE  IInv'
<1>1. req' \in [Requests -> ReqSet] /\ AllSound'
  BY PassOn
<1>. QED  BY <1>1, OnlyRequests

\* A layer or the route that answers, or raises.
LEMMA AnswerStep ==
  ASSUME IInv, NEW r \in Requests, In(r, "route") \/ (\E l \in Layers : In(r, l)), NEW st \in Statuses, Set(r, Answer(r, st)),
         Http(r) => In(r, "route") \/ req[r].ctx = "own" \/ st = "429", ~Http(r) => st = "OK"
  PROVE  req' \in [Requests -> ReqSet] /\ (UNCHANGED stack => AllSound')
<1>1. PICK q \in ReqSet : q = req[r] /\ Sound(q, r, stack) /\ stack \in Stacks /\ q.pc = "down"
  BY InLayer, AtRoute
<1>. DEFINE n == [req[r] EXCEPT !.pc = "up", !.status = st]
<1>2. n \in ReqSet /\ Set(r, n)
  BY <1>1 DEF Answer, ReqSet
<1>22. /\ n.pc = "up" /\ n.status = st /\ n.in = q.in /\ n.at = q.at
       /\ n.ctx = q.ctx /\ n.body = q.body /\ n.principal = q.principal /\ n.passed = q.passed
  BY <1>1 DEF ReqSet
<1>. HIDE DEF n
<1>3. IF q.in.transport = "http" THEN q.at > Len(stack) \/ q.ctx = "own" \/ n.status = "429" ELSE n.status = "OK"
  <2>1. Http(r) <=> q.in.transport = "http"
    BY <1>1 DEF Http
  <2>2. In(r, "route") /\ Http(r) => q.at > Len(stack)
    BY <1>1, <2>1, AtRoute DEF Path
  <2>. QED  BY <1>1, <1>22, <2>1, <2>2
<1>4. Sound(n, r, stack)
  BY <1>1, <1>2, <1>22, <1>3, TurnBack
<1>5. req' \in [Requests -> ReqSet]
  BY <1>2 DEF Set, IInv, Types
<1>. QED  BY <1>2, <1>4, <1>5, OneRequest

LEMMA RaiseStep ==
  ASSUME IInv, NEW r \in Requests, In(r, "route") \/ (\E l \in Layers : In(r, l)), NEW e \in Excs \ {"none"}, Set(r, Raise(r, e)),
         UNCHANGED <<stack, time, buckets, revoked, history>>
  PROVE  IInv'
<1>1. PICK q \in ReqSet : q = req[r] /\ Sound(q, r, stack) /\ stack \in Stacks /\ q.pc = "down"
  BY InLayer, AtRoute
<1>. DEFINE n == [req[r] EXCEPT !.pc = "up", !.exc = e]
<1>2. n \in ReqSet /\ Set(r, n)
  BY <1>1 DEF Raise, ReqSet
<1>22. /\ n.pc = "up" /\ n.exc = e /\ n.in = q.in /\ n.at = q.at
       /\ n.ctx = q.ctx /\ n.body = q.body /\ n.principal = q.principal /\ n.passed = q.passed
  BY <1>1 DEF ReqSet
<1>. HIDE DEF n
<1>3. Sound(n, r, stack)
  BY <1>1, <1>2, <1>22, TurnBack
<1>. QED  BY <1>2, <1>3, RequestStep

\* The request context is opened.
LEMMA ContextStep ==
  ASSUME IInv, NEW r \in Requests, OpenContext(r) \/ OpenRpcContext(r) PROVE IInv'
<1>1. In(r, "RequestContext") /\ RequestScope(r) /\ UNCHANGED <<stack, time, buckets, revoked, history>>
  BY DEF OpenContext, OpenRpcContext, store
<1>2. PICK q \in ReqSet : /\ q = req[r] /\ Sound(q, r, stack) /\ stack \in Stacks /\ q.pc = "down"
                          /\ q.at <= Len(Path(q, stack)) /\ Path(q, stack)[q.at] = "RequestContext"
  BY <1>1, InLayer DEF Layers
<1>. DEFINE m == [q EXCEPT !.at = @ + 1]
<1>3. /\ m \in ReqSet /\ m.at = q.at + 1 /\ m.in = q.in /\ m.pc = q.pc /\ m.exc = q.exc
      /\ m.body = q.body /\ m.ctx = q.ctx /\ m.principal = q.principal /\ m.passed = q.passed
  BY NextRecord
<1>33. m = Next_(r)
  BY <1>2 DEF Next_
<1>. HIDE DEF m
<1>. DEFINE n == [m EXCEPT !.ctx = "own"]
<1>4. n \in ReqSet
  BY <1>3 DEF ReqSet
<1>44. /\ n.at = m.at /\ n.in = m.in /\ n.pc = m.pc /\ n.exc = m.exc
       /\ n.body = m.body /\ n.ctx = "own" /\ n.principal = m.principal /\ n.passed = m.passed
  BY <1>3 DEF ReqSet
<1>5. Set(r, n)
  BY <1>1, <1>33 DEF RequestScope
<1>. HIDE DEF n
<1>6. n.principal \in {NoToken, q.in.token} /\ (n.passed # -1 => n.passed >= Tokens[q.in.token].exp)
  BY <1>2, <1>3, <1>44 DEF Sound
<1>7. Sound(n, r, stack)
  BY <1>2, <1>3, <1>4, <1>44, <1>6, Forward
<1>. QED  BY <1>1, <1>4, <1>5, <1>7, RequestStep

LEMMA PassThroughStep ==
  ASSUME IInv, NEW r \in Requests, PassThrough(r) PROVE IInv'
<1>1. PICK l \in {"Metrics", "Exception"} : In(r, l)
  BY DEF PassThrough
<1>2. l \in Layers \ {"RequestContext"}
  BY DEF Layers
<1>. QED  BY <1>1, <1>2, PassStep DEF PassThrough, store

\* No interceptor redirects or limits the rate.
LEMMA HttpOnly ==
  ASSUME IInv, NEW r \in Requests, NEW l \in {"RegionRedirect", "RateLimit"}, In(r, l)
  PROVE  Http(r)
<1>1. SUFFICES ASSUME ~Http(r) PROVE FALSE
  OBVIOUS
<1>2. l \in Layers
  BY DEF Layers
<1>3. /\ Path(req[r], stack) = GrpcStack /\ req[r].at \in Nat /\ req[r].at >= 1
      /\ req[r].at <= Len(Path(req[r], stack)) /\ Path(req[r], stack)[req[r].at] = l
  BY <1>1, <1>2, InLayer, Fields DEF Path, Http, Sound
<1>4. req[r].at \in {1, 2, 3, 4}
  BY <1>3 DEF GrpcStack
<1>. QED  BY <1>3, <1>4 DEF GrpcStack

\* RegionRedirectMiddleware answers or raises only inside the request context.
LEMMA RegionRedirectStep ==
  ASSUME IInv, NEW r \in Requests, RegionRedirect(r) PROVE IInv'
<1>1. In(r, "RegionRedirect") /\ UNCHANGED <<stack, time, buckets, revoked, history>>
  BY DEF RegionRedirect, store
<1>2. "RegionRedirect" \in Layers \ {"RequestContext"} /\ "307" \in Statuses
      /\ "NotFoundError" \in Excs \ {"none"} /\ "unknown" \in Excs \ {"none"}
  BY DEF Layers, Excs, Statuses, HttpCodes
<1>3. CASE Set(r, Next_(r))
  BY <1>1, <1>2, <1>3, PassStep
<1>4. CASE Set(r, Raise(r, "NotFoundError")) \/ Set(r, Raise(r, "unknown"))
  BY <1>1, <1>2, <1>4, RaiseStep
<1>5. CASE Set(r, Answer(r, "307")) /\ In(r, "RegionRedirect")
           /\ (IF req[r].ctx = "own" THEN req[r].in.tenant ELSE "none") # "none"
  <2>1. req[r].ctx = "own"
    BY <1>5
  <2>2. Http(r)
    BY <1>1, HttpOnly
  <2>3. req' \in [Requests -> ReqSet] /\ AllSound'
    BY <1>1, <1>2, <1>5, <2>1, <2>2, AnswerStep
  <2>. QED  BY <1>1, <2>3, OnlyRequests
<1>6. \/ Set(r, Next_(r))
      \/ Set(r, Raise(r, "NotFoundError")) \/ Set(r, Raise(r, "unknown"))
      \/ /\ Set(r, Answer(r, "307")) /\ In(r, "RegionRedirect")
         /\ (IF req[r].ctx = "own" THEN req[r].in.tenant ELSE "none") # "none"
  BY DEF RegionRedirect
<1>. QED  BY <1>3, <1>4, <1>5, <1>6

\* validate up to the revocation hook.
LEMMA ValidateStep ==
  ASSUME IInv, NEW r \in Requests, Authenticate(r) \/ InjectPrincipal(r) PROVE IInv'
<1>1. In(r, "JwtAuth") /\ Validate(r) /\ UNCHANGED <<stack, time, buckets, revoked, history>>
  BY DEF Authenticate, InjectPrincipal, store
<1>2. "JwtAuth" \in Layers \ {"RequestContext"}
  BY DEF Layers
<1>3. CASE Set(r, Next_(r))
  BY <1>1, <1>2, <1>3, PassStep
<1>4. CASE req[r].in.token # NoToken /\ Set(r, [req[r] EXCEPT !.pc = "revocation"])
  <2>1. PICK q \in ReqSet : /\ q = req[r] /\ Sound(q, r, stack) /\ stack \in Stacks /\ q.pc = "down"
                            /\ q.at <= Len(Path(q, stack)) /\ Path(q, stack)[q.at] = "JwtAuth"
    BY <1>1, <1>2, InLayer
  <2>. DEFINE n == [q EXCEPT !.pc = "revocation"]
  <2>2. n \in ReqSet
    BY DEF ReqSet
  <2>3. /\ n.pc = "revocation" /\ n.at = q.at /\ n.in = q.in /\ n.exc = q.exc
        /\ n.body = q.body /\ n.ctx = q.ctx /\ n.principal = q.principal /\ n.passed = q.passed
    BY DEF ReqSet
  <2>4. Set(r, n)
    BY <1>4, <2>1
  <2>. HIDE DEF n
  <2>5. Path(n, stack) = Path(q, stack) /\ Entered(n, stack) = Entered(q, stack)
    BY <2>3 DEF Path, Entered
  <2>6. n.in.token \in DOMAIN Tokens
    BY <1>4, <2>1, <2>3, Fields
  <2>7. Sound(n, r, stack)
    BY <2>1, <2>3, <2>5, <2>6 DEF Sound
  <2>. QED  BY <1>1, <2>2, <2>4, <2>7, RequestStep
<1>. QED  BY <1>1, <1>3, <1>4 DEF Validate

\* The revocation hook: a token that passes though it was withdrawn has expired.
LEMMA CheckRevocationStep ==
  ASSUME IInv, NEW r \in Requests, CheckRevocation(r) PROVE IInv'
<1>1. UNCHANGED <<stack, time, buckets, revoked, history>>
  BY DEF CheckRevocation
<1>2. PICK q \in ReqSet : /\ q = req[r] /\ Sound(q, r, stack) /\ stack \in Stacks /\ q.pc = "revocation"
  BY DEF CheckRevocation, IInv, Types, AllSound
<1>3. PICK tok \in DOMAIN Tokens : tok = q.in.token
  BY <1>2 DEF Sound
<1>4. q.at <= Len(Path(q, stack)) /\ Path(q, stack)[q.at] = "JwtAuth" /\ q.at \in Nat
  BY <1>2, Fields DEF Sound
<1>44. PICK up \in Nat : up = q.at + 1
  BY <1>4
<1>5. ASSUME NEW n \in ReqSet, Set(r, n), n.in = q.in, n.at = q.at + 1, n.pc = "down", n.exc = q.exc,
             n.body = q.body, n.ctx = q.ctx, n.principal \in {NoToken, tok}, n.passed # -1 => n.passed >= Tokens[tok].exp
      PROVE  IInv'
  <2>1. n.ctx = IF Path(q, stack)[q.at] = "RequestContext" THEN "own" ELSE q.ctx
    BY <1>4, <1>5
  <2>2. Sound(n, r, stack)
    BY <1>2, <1>3, <1>4, <1>5, <2>1, Forward
  <2>. QED  BY <1>1, <1>5, <2>2, RequestStep
<1>6. CASE Set(r, [Next_(r) EXCEPT !.pc = "down"])
  <2>. DEFINE n == [q EXCEPT !.at = up, !.pc = "down"]
  <2>1. n \in ReqSet
    BY DEF ReqSet
  <2>2. /\ n.at = up /\ n.in = q.in /\ n.pc = "down" /\ n.exc = q.exc
        /\ n.body = q.body /\ n.ctx = q.ctx /\ n.principal = q.principal /\ n.passed = q.passed
    BY DEF ReqSet
  <2>3. n = [Next_(r) EXCEPT !.pc = "down"]
    BY <1>2, <1>44 DEF Next_, ReqSet
  <2>4. Set(r, n)
    BY <1>6, <2>3
  <2>. HIDE DEF n
  <2>5. n.principal \in {NoToken, tok} /\ (n.passed # -1 => n.passed >= Tokens[tok].exp)
    BY <1>2, <1>3, <2>2 DEF Sound
  <2>. QED  BY <1>44, <1>5, <2>1, <2>2, <2>4, <2>5
<1>7. CASE ~IsRevoked(revoked, tok, time) /\ Store(r, tok)
  <2>. DEFINE since == IF tok \in withdrawn THEN time ELSE -1
              owner == IF q.ctx = "own" THEN tok ELSE q.principal
              n == [q EXCEPT !.at = up, !.pc = "down", !.passed = since, !.principal = owner]
  <2>1. since \in Int /\ (since # -1 => since >= Tokens[tok].exp)
    <3>1. time \in Nat /\ Tokens[tok].exp \in Nat
      BY DEF IInv, Types
    <3>2. tok \in withdrawn => tok \in DOMAIN revoked /\ revoked[tok] = Tokens[tok].exp
      BY DEF IInv, Listed
    <3>3. tok \in withdrawn => time >= Tokens[tok].exp
      BY <1>7, <3>1, <3>2 DEF IsRevoked
    <3>. QED  BY <3>1, <3>3
  <2>2. owner \in {NoToken, tok}
    BY <1>2, <1>3 DEF Sound
  <2>. HIDE DEF since, owner
  <2>3. n \in ReqSet
    BY <2>1, <2>2, <1>3 DEF ReqSet
  <2>4. /\ n.at = up /\ n.in = q.in /\ n.pc = "down" /\ n.exc = q.exc
        /\ n.body = q.body /\ n.ctx = q.ctx /\ n.principal = owner /\ n.passed = since
    BY DEF ReqSet
  <2>5. Set(r, n)
    <3>. DEFINE next == [Next_(r) EXCEPT !.pc = "down", !.passed = IF tok \in withdrawn THEN time ELSE -1]
    <3>1. IF q.ctx = "own" THEN Set(r, [next EXCEPT !.principal = tok]) ELSE Set(r, next)
      BY <1>2, <1>7 DEF Store
    <3>2. q.ctx = "own" => n = [next EXCEPT !.principal = tok]
      BY <1>2, <1>44 DEF since, owner, Next_, ReqSet
    <3>3. q.ctx # "own" => n = next
      BY <1>2, <1>44 DEF since, owner, Next_, ReqSet
    <3>. QED  BY <3>1, <3>2, <3>3
  <2>. HIDE DEF n
  <2>. QED  BY <1>44, <1>5, <2>1, <2>2, <2>3, <2>4, <2>5
<1>8. \/ Set(r, [Next_(r) EXCEPT !.pc = "down"])
      \/ ~IsRevoked(revoked, tok, time) /\ Store(r, tok)
  BY <1>2, <1>3 DEF CheckRevocation
<1>. QED  BY <1>6, <1>7, <1>8

\* RateLimitMiddleware: the bucket stays covered, and an exhausted one answers 429.
LEMMA RateLimitStep ==
  ASSUME IInv, NEW r \in Requests, RateLimit(r) PROVE IInv'
<1>1. In(r, "RateLimit") /\ stack' = stack /\ revoked' = revoked /\ time' = time /\ withdrawn' = withdrawn
  BY DEF RateLimit
<1>2. "RateLimit" \in Layers \ {"RequestContext"} /\ "unknown" \in Excs \ {"none"} /\ "429" \in Statuses
  BY DEF Layers, Excs, Statuses, HttpCodes
<1>3. CASE Set(r, Next_(r)) /\ UNCHANGED <<buckets, granted, setBack, forgotten>>
  BY <1>1, <1>2, <1>3, PassStep DEF history
<1>4. CASE Set(r, Raise(r, "unknown")) /\ UNCHANGED <<buckets, granted, setBack, forgotten>>
  BY <1>1, <1>2, <1>4, RaiseStep DEF history
<1>5. ASSUME NEW k \in Keys, NEW now \in time .. time + Skew, NEW t, t = Take(buckets[k], now, time),
             buckets' = [buckets EXCEPT ![k] = t.bucket],
             granted' = [granted EXCEPT ![k] = IF t.allowed THEN @ + 1 ELSE @],
             setBack' = [setBack EXCEPT ![k] = IF Behind(buckets[k], now) THEN @ + 1 ELSE @],
             forgotten' = [forgotten EXCEPT ![k] = IF Forgotten(buckets[k], now) THEN @ + 1 ELSE @],
             Set(r, IF Check(t) = "ok" THEN Next_(r) ELSE Answer(r, MappingOf(Check(t)).http))
      PROVE  IInv'
  <2>3. Set(r, Next_(r)) \/ Set(r, Answer(r, "429"))
    BY <1>5, Exhausted DEF Check
  <2>4. req' \in [Requests -> ReqSet] /\ AllSound'
    BY <1>1, <1>2, <2>3, PassOn, HttpOnly, AnswerStep
  <2>5. /\ buckets \in [Keys -> LiveBuckets \cup {Absent}]
        /\ granted \in [Keys -> Nat] /\ setBack \in [Keys -> Nat] /\ forgotten \in [Keys -> Nat]
        /\ time \in Nat /\ Covered(buckets[k], granted[k], forgotten[k], setBack[k], time)
    BY DEF IInv, Types, BucketsCovered
  <2>. DEFINE n == IF t.allowed THEN granted[k] + 1 ELSE granted[k]
              f == Forgets(buckets[k], now, forgotten[k])
              s == Setbacks(buckets[k], now, setBack[k])
  <2>6. t.bucket \in LiveBuckets /\ Covered(t.bucket, n, f, s, time)
    BY <1>5, <2>5, TakeIsCovered
  <2>7. /\ buckets'[k] = t.bucket /\ granted'[k] = n /\ forgotten'[k] = f /\ setBack'[k] = s
        /\ \A u \in Keys \ {k} : /\ buckets'[u] = buckets[u] /\ granted'[u] = granted[u]
                                /\ forgotten'[u] = forgotten[u] /\ setBack'[u] = setBack[u]
    BY <1>5, <2>5 DEF Forgets, Setbacks
  <2>8. /\ granted' \in [Keys -> Nat] /\ setBack' \in [Keys -> Nat] /\ forgotten' \in [Keys -> Nat]
        /\ buckets' \in [Keys -> LiveBuckets \cup {Absent}]
    BY <1>5, <2>5, <2>6
  <2>. HIDE DEF n, f, s
  <2>9. BucketsCovered'
    BY <1>1, <2>6, <2>7 DEF IInv, BucketsCovered
  <2>10. Types' /\ Listed'
    BY <1>1, <2>4, <2>5, <2>8 DEF IInv, Types, Listed
  <2>. QED  BY <2>4, <2>9, <2>10 DEF IInv
<1>. QED  BY <1>3, <1>4, <1>5 DEF RateLimit

-----------------------------------------------------------------------------
(* The route and the way back                                              *)

\* The endpoint runs, or refuses the caller.
LEMMA RouteStep ==
  ASSUME IInv, NEW r \in Requests, Route(r) PROVE IInv'
<1>1. In(r, "route") /\ UNCHANGED <<stack, time, buckets, revoked, history>>
  BY DEF Route, store
<1>2. "200" \in Statuses /\ "OK" \in Statuses
  BY DEF Statuses, HttpCodes
<1>3. Admission(r) \in {"ok", "UnauthorizedError", "ForbiddenError"}
  BY DEF Admission, Evaluate
<1>4. CASE \E e \in Excs \ {"none"} : Set(r, Raise(r, e))
  BY <1>1, <1>4, RaiseStep
<1>5. CASE Set(r, Answer(r, IF Http(r) THEN "200" ELSE "OK"))
  <2>1. req' \in [Requests -> ReqSet] /\ AllSound'
    <3>1. CASE Http(r)
      BY <1>1, <1>2, <1>5, <3>1, AnswerStep
    <3>2. CASE ~Http(r)
      BY <1>1, <1>2, <1>5, <3>2, AnswerStep
    <3>. QED  BY <3>1, <3>2
  <2>. QED  BY <1>1, <2>1, OnlyRequests
<1>6. {"UnauthorizedError", "ForbiddenError"} \cup HandlerErrors \cup {"invalid", "unknown", "cancelled"} \subseteq Excs \ {"none"}
  BY DEF Excs
<1>. QED  BY <1>3, <1>4, <1>5, <1>6 DEF Route

\* /readyz
LEMMA ProbeStep ==
  ASSUME IInv, NEW r \in Requests, Probe(r) PROVE IInv'
<1>1. In(r, "route") /\ UNCHANGED <<stack, time, buckets, revoked, history>> /\ req[r].in.probe
  BY DEF Probe, store
<1>2. "200" \in Statuses /\ "503" \in Statuses
  BY DEF Statuses, HttpCodes
<1>3. Http(r)
  <2>1. req[r].in \in Inputs
    BY <1>1, AtRoute, Fields
  <2>. QED  BY <1>1, <2>1 DEF Http
<1>4. Set(r, Answer(r, "200")) \/ Set(r, Answer(r, "503"))
  BY DEF Probe
<1>5. req' \in [Requests -> ReqSet] /\ AllSound'
  BY <1>1, <1>2, <1>3, <1>4, AnswerStep
<1>. QED  BY <1>1, <1>5, OnlyRequests

\* What is known of a request on the way back.
LEMMA GoingUp ==
  ASSUME IInv, NEW r \in Requests, req[r].pc = "up"
  PROVE  /\ req[r] \in ReqSet /\ Sound(req[r], r, stack) /\ stack \in Stacks
         /\ StackOf(r) = Path(req[r], stack) /\ Around(r) = Entered(req[r], stack)
         /\ CorrelationId(r) = IdOf(req[r], r) /\ CorrelationId(r) \in Ids
         /\ InRoute(r) => "RequestContext" \in Around(r)
<1>1. req[r] \in ReqSet /\ Sound(req[r], r, stack) /\ stack \in Stacks
  BY DEF IInv, Types, AllSound
<1>2. StackOf(r) = Path(req[r], stack)
  BY DEF StackOf, Path, Http
<1>3. Around(r) = Entered(req[r], stack)
  BY <1>2 DEF Around, Entered
<1>4. CorrelationId(r) = IdOf(req[r], r) /\ CorrelationId(r) \in Ids
  BY DEF CorrelationId, IdOf, Ids
<1>5. ASSUME InRoute(r) PROVE "RequestContext" \in Around(r)
  <2>1. PICK path \in Seq(Layers) : path = Path(req[r], stack) /\ \E i \in DOMAIN path : path[i] = "RequestContext"
    BY <1>1, Paths
  <2>2. PICK i \in DOMAIN path : path[i] = "RequestContext"
    BY <2>1
  <2>3. req[r].at \in Nat /\ req[r].at > Len(path)
    BY <1>1, <1>2, <1>5, <2>1, Fields DEF InRoute
  <2>4. i \in 1 .. req[r].at - 1
    BY <2>2, <2>3
  <2>. QED  BY <1>2, <2>1, <2>2, <2>4 DEF Around
<1>. QED  BY <1>1, <1>2, <1>3, <1>4, <1>5

\* What the client gets over HTTP.
LEMMA HttpAnswer ==
  ASSUME IInv, NEW r \in Requests, req[r].pc = "up", Http(r)
  PROVE  /\ HttpStatus(r) \in Statuses /\ HttpMetric(r) \in Statuses /\ HttpHeader(r) \in Ids /\ Envelope(r) \in Ids
         /\ HttpHeader(r) = CorrelationId(r) \/ HttpStatus(r) \in {"429", "500"}
         /\ Envelope(r) \in {CorrelationId(r), NoId} \/ HttpStatus(r) = "500"
         /\ HttpMetric(r) = HttpStatus(r) \/ "Metrics" \notin Around(r)
<1>1. /\ req[r] \in ReqSet /\ Sound(req[r], r, stack) /\ StackOf(r) = Path(req[r], stack) /\ Around(r) = Entered(req[r], stack)
      /\ CorrelationId(r) \in Ids /\ (InRoute(r) => "RequestContext" \in Around(r))
  BY GoingUp
<1>2. req[r].ctx = "own" <=> "RequestContext" \in Around(r)
  BY <1>1 DEF Sound
<1>3. NoId \in Ids /\ EmptyId \in Ids /\ "500" \in Statuses /\ "none" \in Statuses /\ HttpCodes \subseteq Statuses
  BY DEF Ids, Statuses, HttpCodes
<1>4. Escapes(r) => HttpStatus(r) = "500"
  BY DEF HttpStatus, Escapes
<1>5. HttpStatus(r) \in Statuses
  <2>1. req[r].status \in Statuses
    BY <1>1, Fields
  <2>2. InvalidStatus \in HttpCodes /\ MappingOf(req[r].exc).http \in HttpCodes
    BY Codes DEF InvalidStatus
  <2>3. HttpStatus(r) \in {req[r].status, "500", InvalidStatus, MappingOf(req[r].exc).http}
    BY DEF HttpStatus
  <2>. QED  BY <1>3, <2>1, <2>2, <2>3
<1>6. HttpMetric(r) \in Statuses /\ (HttpMetric(r) = HttpStatus(r) \/ "Metrics" \notin Around(r))
  BY <1>3, <1>4, <1>5 DEF HttpMetric
<1>7. ~Escapes(r) => InRoute(r) \/ "RequestContext" \in Around(r) \/ HttpStatus(r) = "429"
  <2>1. SUFFICES ASSUME ~Escapes(r), ~InRoute(r), "RequestContext" \notin Around(r) PROVE HttpStatus(r) = "429"
    OBVIOUS
  <2>2. req[r].exc = "none"
    BY <2>1 DEF Escapes
  <2>3. req[r].at \in Nat /\ ~(req[r].at > Len(stack)) /\ req[r].in.transport = "http"
    BY <1>1, <2>1, Fields DEF InRoute, StackOf, Http
  <2>4. req[r].status = "429"
    BY <1>1, <1>2, <2>1, <2>2, <2>3 DEF Sound
  <2>. QED  BY <2>1, <2>2, <2>4 DEF HttpStatus
<1>8. HttpHeader(r) \in Ids /\ (HttpHeader(r) = CorrelationId(r) \/ HttpStatus(r) \in {"429", "500"})
  BY <1>1, <1>3, <1>4, <1>7 DEF HttpHeader
<1>9. Envelope(r) \in Ids /\ (Envelope(r) \in {CorrelationId(r), NoId} \/ HttpStatus(r) = "500")
  BY <1>1, <1>2, <1>3, <1>4 DEF Envelope
<1>. QED  BY <1>5, <1>6, <1>8, <1>9

\* The HTTP response leaves the application.
LEMMA RespondHttpStep ==
  ASSUME IInv, NEW r \in Requests, RespondHttp(r) PROVE IInv'
<1>1. req[r].pc = "up" /\ Http(r) /\ UNCHANGED <<stack, time, buckets, revoked, history>>
  BY DEF RespondHttp, store
<1>2. PICK q \in ReqSet : q = req[r] /\ Sound(q, r, stack) /\ q.in.transport = "http" /\ q.pc = "up"
  BY <1>1, GoingUp DEF Http
<1>3. PICK st \in Statuses, mt \in Statuses, hd \in Ids, bd \in Ids :
        st = HttpStatus(r) /\ mt = HttpMetric(r) /\ hd = HttpHeader(r) /\ bd = Envelope(r)
  BY <1>1, HttpAnswer
<1>4. /\ hd = IdOf(q, r) \/ st \in {"429", "500"}
      /\ bd \in {IdOf(q, r), NoId} \/ st = "500"
      /\ mt = st \/ "Metrics" \notin Entered(q, stack)
  BY <1>1, <1>2, <1>3, HttpAnswer, GoingUp
<1>. DEFINE n == [q EXCEPT !.pc = "done", !.status = st, !.metric = mt, !.header = hd, !.body = bd]
<1>5. n \in ReqSet
  BY DEF ReqSet
<1>6. /\ n.pc = "done" /\ n.status = st /\ n.metric = mt /\ n.header = hd /\ n.body = bd /\ n.in = q.in /\ n.at = q.at
      /\ n.ctx = q.ctx /\ n.principal = q.principal /\ n.passed = q.passed
  BY DEF ReqSet
<1>7. Set(r, n)
  BY <1>2, <1>3 DEF RespondHttp
<1>. HIDE DEF n
<1>8. Path(n, stack) = Path(q, stack) /\ Entered(n, stack) = Entered(q, stack) /\ IdOf(n, r) = IdOf(q, r)
  BY <1>6 DEF Path, Entered, IdOf
<1>9. Observable(n, r, stack)
  BY <1>2, <1>4, <1>6, <1>8 DEF Observable
<1>10. Sound(n, r, stack)
  BY <1>2, <1>6, <1>8, <1>9 DEF Sound
<1>. QED  BY <1>1, <1>5, <1>7, <1>10, RequestStep

\* The status and the counted outcome of a call.
LEMMA GrpcAnswer ==
  ASSUME IInv, NEW r \in Requests, req[r].pc = "up", ~Http(r)
  PROVE  /\ GrpcCode(r) \in Statuses /\ GrpcOutcome(r) \in Statuses
         /\ GrpcOutcome(r) = "success" <=> GrpcCode(r) \in {"OK", "CANCELLED"}
<1>1. PICK q \in ReqSet : q = req[r] /\ Sound(q, r, stack) /\ q.in.transport # "http" /\ q.pc = "up" /\ q.status \in Statuses
  BY GoingUp, Fields DEF Http
<1>2. GrpcErrors \subseteq Statuses /\ "CANCELLED" \in Statuses /\ "UNKNOWN" \in GrpcErrors
      /\ "success" \in Statuses /\ "failure" \in Statuses /\ "OK" \notin GrpcErrors /\ "CANCELLED" \notin GrpcErrors
  BY DEF Statuses, GrpcErrors
<1>3. CASE q.exc = "none"
  <2>1. q.status = "OK"
    BY <1>1, <1>3 DEF Sound
  <2>2. GrpcCode(r) = "OK" /\ GrpcOutcome(r) = "success"
    BY <1>1, <1>3, <2>1 DEF GrpcCode, GrpcOutcome
  <2>. QED  BY <1>1, <1>2, <2>1, <2>2
<1>4. CASE q.exc = "cancelled"
  <2>1. GrpcCode(r) = "CANCELLED" /\ GrpcOutcome(r) = "success"
    BY <1>1, <1>4 DEF GrpcCode, GrpcOutcome
  <2>. QED  BY <1>2, <2>1
<1>5. CASE q.exc \notin {"none", "cancelled"}
  <2>1. GrpcOutcome(r) = "failure"
    BY <1>1, <1>5 DEF GrpcOutcome
  <2>2. GrpcCode(r) \in {"UNKNOWN", MappingOf(q.exc).grpc}
    BY <1>1, <1>5 DEF GrpcCode, StatusFromError
  <2>3. GrpcCode(r) \in GrpcErrors
    BY <1>2, <2>2, Codes
  <2>. QED  BY <1>2, <2>1, <2>3
<1>. QED  BY <1>3, <1>4, <1>5

LEMMA RespondGrpcStep ==
  ASSUME IInv, NEW r \in Requests, RespondGrpc(r) PROVE IInv'
<1>1. req[r].pc = "up" /\ ~Http(r) /\ UNCHANGED <<stack, time, buckets, revoked, history>>
  BY DEF RespondGrpc, store
<1>2. PICK q \in ReqSet : q = req[r] /\ Sound(q, r, stack) /\ q.in.transport # "http" /\ q.pc = "up" /\ q.body = NoId
  BY <1>1, GoingUp DEF Http, Sound
<1>3. PICK st \in Statuses, mt \in Statuses, hd \in Ids :
        st = GrpcCode(r) /\ mt = GrpcOutcome(r) /\ hd = CorrelationId(r)
  BY <1>1, GrpcAnswer, GoingUp
<1>4. hd = IdOf(q, r) /\ (mt = "success" <=> st \in {"OK", "CANCELLED"})
  BY <1>1, <1>2, <1>3, GrpcAnswer, GoingUp
<1>. DEFINE n == [q EXCEPT !.pc = "done", !.status = st, !.metric = mt, !.header = hd]
<1>5. n \in ReqSet
  BY DEF ReqSet
<1>6. /\ n.pc = "done" /\ n.status = st /\ n.metric = mt /\ n.header = hd /\ n.body = q.body /\ n.in = q.in /\ n.at = q.at
      /\ n.ctx = q.ctx /\ n.principal = q.principal /\ n.passed = q.passed
  BY DEF ReqSet
<1>7. Set(r, n)
  BY <1>2, <1>3 DEF RespondGrpc
<1>. HIDE DEF n
<1>8. Path(n, stack) = Path(q, stack) /\ Entered(n, stack) = Entered(q, stack) /\ IdOf(n, r) = IdOf(q, r)
  BY <1>6 DEF Path, Entered, IdOf
<1>9. Observable(n, r, stack)
  BY <1>2, <1>4, <1>6, <1>8 DEF Observable
<1>10. Sound(n, r, stack)
  BY <1>2, <1>6, <1>8, <1>9 DEF Sound
<1>. QED  BY <1>1, <1>5, <1>7, <1>10, RequestStep

-----------------------------------------------------------------------------
(* The rest, and the theorems                                              *)

\* A token enters the revocation list until it expires.
LEMMA RevokeStep ==
  ASSUME IInv, NEW j \in Revocable, Revoke(j) PROVE IInv'
<1>1. /\ UNCHANGED <<stack, req, buckets, time, granted, setBack, forgotten>>
      /\ revoked' = RevokedFor(revoked, j, Tokens[j].exp) /\ withdrawn' = withdrawn \cup {j}
  BY DEF Revoke
<1>2. Types' /\ BucketsCovered' /\ AllSound'
  BY <1>1 DEF IInv, Types, BucketsCovered, AllSound
<1>3. Listed'
  BY <1>1 DEF IInv, Listed, RevokedFor
<1>. QED  BY <1>2, <1>3 DEF IInv

\* Time passes: the clocks of the takes stay as near.
LEMMA TickStep ==
  ASSUME IInv, Tick PROVE IInv'
<1>1. UNCHANGED <<stack, req, buckets, revoked, granted, setBack, forgotten, withdrawn>> /\ time' = time + 1 /\ time \in Nat
  BY DEF Tick, IInv, Types, store, history
<1>2. Types' /\ Listed' /\ AllSound'
  BY <1>1 DEF IInv, Types, Listed, AllSound
<1>3. ASSUME NEW k \in Keys PROVE Covered(buckets[k], granted[k], forgotten[k], setBack[k], time + 1)
  <2>1. Covered(buckets[k], granted[k], forgotten[k], setBack[k], time) /\ buckets[k] \in LiveBuckets \cup {Absent}
    BY DEF IInv, BucketsCovered, Types
  <2>2. buckets[k] # Absent => buckets[k].last \in Nat /\ buckets[k].expires \in Nat
    BY <2>1 DEF LiveBuckets
  <2>. QED  BY <1>1, <2>1, <2>2, BucketConstants DEF Covered
<1>4. BucketsCovered'
  BY <1>1, <1>3 DEF BucketsCovered
<1>. QED  BY <1>2, <1>4 DEF IInv

\* Every step preserves the inductive invariant.
LEMMA NextIInv == IInv /\ [Next]_vars => IInv'
<1>. SUFFICES ASSUME IInv, [Next]_vars PROVE IInv'
  OBVIOUS
<1>1. CASE \E r \in Requests : Arrive(r) \/ Step(r)
  BY <1>1, ArriveStep, ContextStep, PassThroughStep, RegionRedirectStep, ValidateStep, CheckRevocationStep,
     RateLimitStep, RouteStep, ProbeStep, RespondHttpStep, RespondGrpcStep DEF Step
<1>2. CASE \E j \in Revocable : Revoke(j)
  BY <1>2, RevokeStep
<1>3. CASE Tick
  BY <1>3, TickStep
<1>4. CASE UNCHANGED vars
  <2>1. UNCHANGED <<stack, req, time, buckets, revoked, granted, setBack, forgotten, withdrawn>>
    BY <1>4 DEF vars, store, history
  <2>. QED  BY <2>1 DEF IInv, Types, BucketsCovered, Listed, AllSound
<1>. QED  BY <1>1, <1>2, <1>3, <1>4 DEF Next

\* Every reachable state satisfies the inductive invariant.
LEMMA Invariance == Spec => []IInv
  BY InitIInv, NextIInv, PTL DEF Spec

\* TokenBucket: no bucket grants more than its capacity, the refill of the elapsed time
\* and the clock difference for every take with a clock behind allow, unless its key
\* expires before it has filled, which gives it another capacity at most once per
\* lifetime of a key and never if it fills within that.
THEOREM BucketsBounded == Spec => []BucketBound
<1>1. IInv => BucketBound
  <2>. SUFFICES ASSUME IInv, NEW k \in Keys PROVE Bounded(granted[k], forgotten[k], setBack[k])
    BY DEF BucketBound, Bounded
  <2>1. /\ buckets[k] \in LiveBuckets \cup {Absent} /\ granted[k] \in Nat /\ setBack[k] \in Nat
        /\ forgotten[k] \in Nat /\ time \in Nat
        /\ Covered(buckets[k], granted[k], forgotten[k], setBack[k], time)
    BY DEF IInv, Types, BucketsCovered
  <2>. QED  BY <2>1, CoveredIsBounded
<1>. QED  BY <1>1, Invariance, PTL

\* JwtAuthMiddleware: a route sees no principal but the one of its request's own token,
\* and a token that was revoked passes only once it has expired.
THEOREM PrincipalStaysOwn == Spec => []PrincipalIsOwn
<1>1. IInv => PrincipalIsOwn
  <2>. SUFFICES ASSUME IInv, NEW r \in Requests, In(r, "route"), CurrentPrincipal(r) # NoToken
                PROVE  /\ CurrentPrincipal(r) = req[r].in.token
                       /\ req[r].passed # -1 => req[r].passed >= Tokens[req[r].in.token].exp
    BY DEF PrincipalIsOwn
  <2>1. req[r].ctx = "own" /\ Sound(req[r], r, stack)
    BY AtRoute
  <2>. QED  BY <2>1 DEF Sound, CurrentPrincipal
<1>. QED  BY <1>1, Invariance, PTL

\* Responses: every answer carries the correlation id of its request and is counted with
\* the status the client got, but for the exceptions AnswersObservable names.
THEOREM AnswersAreObservable == Spec => []AnswersObservable
<1>1. IInv => AnswersObservable
  <2>. SUFFICES ASSUME IInv, NEW r \in Requests, Done(r)
                PROVE  LET own == CorrelationId(r) IN
                       /\ req[r].header = own \/ (Http(r) /\ req[r].status \in {"429", "500"})
                       /\ req[r].body \in {own, NoId} \/ req[r].status = "500"
                       /\ Http(r) => req[r].metric = req[r].status \/ "Metrics" \notin Around(r)
                       /\ ~Http(r) => (req[r].metric = "success" <=> req[r].status \in {"OK", "CANCELLED"})
    BY DEF AnswersObservable
  <2>1. Observable(req[r], r, stack)
    BY DEF IInv, AllSound, Sound, Done
  <2>2. Around(r) = Entered(req[r], stack) /\ CorrelationId(r) = IdOf(req[r], r)
    BY DEF Around, Entered, StackOf, Path, Http, CorrelationId, IdOf
  <2>. QED  BY <2>1, <2>2 DEF Observable, Http
<1>. QED  BY <1>1, Invariance, PTL

=============================================================================
