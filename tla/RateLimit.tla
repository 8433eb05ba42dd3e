------------------------------ MODULE RateLimit ------------------------------
(***************************************************************************)
(* The rate limiter of the gateway, auth-service and user-service, for one *)
(* scope and one client.  A request reads the clock, which gives the key   *)
(* of the present minute, raises the key's count in Redis, gives the key a *)
(* lifetime if it was the first, and passes if the count is in the limit.  *)
(*                                                                         *)
(* One step is one call.  The clock runs on between them: a request may    *)
(* raise the count of a minute that is over.                               *)
(***************************************************************************)
EXTENDS Integers, FiniteSets

CONSTANTS
    Request,        \* requests being handled at the same time
    Limit,          \* limit_per_minute
    Minute,         \* how many units of time are a minute; 60 in the code
    Slack,          \* how long a request takes at most to reach Redis
    MaxTime,        \* bound on the clock
    MaxCount,       \* bound on the counts, which stay there
    MaxErrors       \* bound on the errors of Redis

ASSUME RateLimitAssumption ==
    /\ Limit \in Nat /\ Slack \in Nat
    /\ Minute \in Nat \ {0} /\ MaxTime \in Nat /\ MaxErrors \in Nat
    /\ MaxCount \in Nat /\ MaxCount > Limit + 1
    /\ IsFiniteSet(Request)

Time == 0 .. MaxTime

\* window_seconds = 61.
Window == Minute + 1

Forever == MaxTime + Window + 1     \* the end of a key that has no lifetime

VARIABLES
    now,        \* the clock
    count,      \* Redis: the count of each minute, 0 when there is no key
    ends,       \* Redis: when the key expires, or Forever
    req,        \* what each request does next, and what it knows
    passes,     \* history: how many requests of a minute passed
    errors      \* history: errors of Redis

vars == <<now, count, ends, req, passes, errors>>

Bucket(t) == t \div Minute
Buckets == {Bucket(t) : t \in Time}

Idle == [pc |-> "idle"]

Running == [pc : {"incr", "expire", "decide"}, bucket : Buckets, since : Time,
            current : Nat]

Init ==
    /\ now    = 0
    /\ count  = [b \in Buckets |-> 0]
    /\ ends   = [b \in Buckets |-> Forever]
    /\ req    = [r \in Request |-> Idle]
    /\ passes = [b \in Buckets |-> 0]
    /\ errors = 0

\* INCR.  Counts of MaxCount and more are all alike: above the limit.
Raise(n) == IF n < MaxCount THEN n + 1 ELSE n

\* No request waits longer than Slack for its calls.
Tick ==
    /\ now < MaxTime
    /\ \A r \in Request : req[r] # Idle => now < req[r].since + Slack
    /\ now' = now + 1
    /\ count' = [b \in Buckets |-> IF ends[b] <= now' THEN 0 ELSE count[b]]
    /\ ends'  = [b \in Buckets |-> IF ends[b] <= now' THEN Forever ELSE ends[b]]
    /\ UNCHANGED <<req, passes, errors>>

check(r) ==
    /\ req[r] = Idle
    /\ req' = [req EXCEPT ![r] = [pc |-> "incr", bucket |-> Bucket(now),
                                  since |-> now, current |-> 0]]
    /\ UNCHANGED <<now, count, ends, passes, errors>>

Incr(r) ==
    LET b == req[r].bucket
        n == Raise(count[b])
    IN
    /\ req[r].pc = "incr"
    /\ count' = [count EXCEPT ![b] = n]
    /\ req' = [req EXCEPT ![r].pc = IF n = 1 THEN "expire" ELSE "decide",
                          ![r].current = n]
    /\ UNCHANGED <<now, ends, passes, errors>>

\* Mutated form: a key that was raised again meanwhile gets no lifetime.
ExpireAlone(r) ==
    LET b == req[r].bucket IN
    /\ req[r].pc = "expire"
    /\ ends' = IF count[b] # 1 THEN ends ELSE [ends EXCEPT ![b] = now + Window]
    /\ req' = [req EXCEPT ![r].pc = "decide"]
    /\ UNCHANGED <<now, count, passes, errors>>

\* EXPIRE does nothing to a key that is gone.
Expire(r) ==
    LET b == req[r].bucket IN
    /\ req[r].pc = "expire"
    /\ ends' = IF count[b] = 0 THEN ends ELSE [ends EXCEPT ![b] = now + Window]
    /\ req' = [req EXCEPT ![r].pc = "decide"]
    /\ UNCHANGED <<now, count, passes, errors>>

Passed(r) == passes' = [passes EXCEPT ![req[r].bucket] = @ + 1]

\* Mutated form: a request passes when Redis fails.
FailOpen(r) ==
    /\ req[r] # Idle /\ req[r].pc \in {"incr", "expire"}
    /\ errors < MaxErrors
    /\ errors' = errors + 1
    /\ Passed(r)
    /\ req' = [req EXCEPT ![r] = Idle]
    /\ UNCHANGED <<now, count, ends>>

\* Redis fails, before or after it has done what it was asked: 503.
RedisError(r) ==
    /\ req[r] # Idle /\ req[r].pc \in {"incr", "expire"}
    /\ errors < MaxErrors
    /\ errors' = errors + 1
    /\ \/ UNCHANGED count
       \/ req[r].pc = "incr" /\ count' = [count EXCEPT ![req[r].bucket] = Raise(@)]
    /\ req' = [req EXCEPT ![r] = Idle]
    /\ UNCHANGED <<now, ends, passes>>

\* The request goes on, or is refused: 429.
Decide(r) ==
    /\ req[r].pc = "decide"
    /\ IF req[r].current > Limit THEN UNCHANGED passes ELSE Passed(r)
    /\ req' = [req EXCEPT ![r] = Idle]
    /\ UNCHANGED <<now, count, ends, errors>>

Next ==
    \/ Tick
    \/ \E r \in Request :
          check(r) \/ Incr(r) \/ Expire(r) \/ RedisError(r) \/ Decide(r)

Spec == Init /\ [][Next]_vars

-----------------------------------------------------------------------------

\* Every variable has its type.
TypeOK ==
    /\ now \in Time
    /\ count \in [Buckets -> Nat]
    /\ ends \in [Buckets -> Nat]
    /\ req \in [Request -> Running \cup {Idle}]
    /\ passes \in [Buckets -> Nat]
    /\ errors \in Nat

\* No more requests of a minute pass than the limit, although requests raise the
\* count of a minute that is over, its key expires soon after, and Redis fails.
\* The minutes are fixed: in sixty seconds that begin anywhere, twice the limit.
LimitPerMinute == \A b \in Buckets : passes[b] <= Limit

\* The request is about to give the key of the minute its lifetime.
Expiring(r, b) == req[r] # Idle /\ req[r].pc = "expire" /\ req[r].bucket = b

\* The minute has a key without a lifetime, and no request will give it one.
Stranded(b) ==
    count[b] > 0 /\ ends[b] = Forever /\ \A r \in Request : ~Expiring(r, b)

\* INCR and EXPIRE are two calls, and other requests raise the key in between.
\* All the same a key is left without a lifetime by nothing but an error of Redis
\* in a request of that very minute, at one of the two calls.
StrandedByError ==
    [][\A b \in Buckets : Stranded(b)' /\ ~Stranded(b) =>
          \E r \in Request : req[r] # Idle /\ req[r].bucket = b /\ RedisError(r)]_vars

-----------------------------------------------------------------------------
(* The inductive invariant. *)

\* A request raises the key of the minute it began in.
OfMinute(r) == req[r] # Idle =>
    /\ req[r].bucket = Bucket(req[r].since)
    /\ req[r].since <= now /\ now <= req[r].since + Slack

\* A key lives a whole window from a moment of its minute on.
LivesOn(b) ==
    ends[b] = Forever \/ \E x \in Time : Bucket(x) = b /\ x + Window <= ends[b]

\* The minute is over, and so are its requests.
Closed(b) ==
    /\ \A x \in Time : Bucket(x) = b => x < now
    /\ \A r \in Request : req[r] # Idle => req[r].bucket # b

\* The requests of the minute that were counted and will pass.
Admitted(b) ==
    {r \in Request : /\ req[r] # Idle /\ req[r].bucket = b
                     /\ req[r].pc \in {"expire", "decide"} /\ req[r].current <= Limit}

\* Who passed and who will is counted by the key as long as it matters.
Accounted(b) ==
    /\ passes[b] + Cardinality(Admitted(b)) <= Limit
    /\ Closed(b) \/ passes[b] + Cardinality(Admitted(b)) <= count[b]

Inv ==
    /\ TypeOK
    /\ \A r \in Request : OfMinute(r)
    /\ \A b \in Buckets : LivesOn(b) /\ Accounted(b)
=============================================================================
