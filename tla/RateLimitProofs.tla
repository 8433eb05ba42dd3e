--------------------------- MODULE RateLimitProofs ---------------------------
(***************************************************************************)
(* The limit per minute for any number of requests, any limit and any      *)
(* length of the minute, if a request reaches Redis within one unit of     *)
(* time: that is the unit by which the window is longer than the minute.   *)
(***************************************************************************)
EXTENDS RateLimit, FiniteSetTheorems, TLAPS

-----------------------------------------------------------------------------
(* Minutes *)

\* The numbers a minute and a window are made of.
LEMMA Units ==
    /\ Limit \in Nat /\ Slack \in Nat /\ Minute \in Nat \ {0} /\ MaxTime \in Nat
    /\ MaxCount \in Nat /\ MaxCount > Limit + 1 /\ Window = Minute + 1
    /\ Forever = MaxTime + Minute + 2
  BY RateLimitAssumption DEF Window, Forever

\* The moments of one minute are less than a minute apart.
LEMMA SameMinute ==
    ASSUME NEW x \in Nat, NEW y \in Nat, Bucket(x) = Bucket(y)
    PROVE  y < x + Minute
<1>1. \A z \in Nat : Minute * (z \div Minute) <= z /\ z < Minute * (z \div Minute) + Minute
  BY RateLimitAssumption
<1> QED
  BY <1>1, RateLimitAssumption DEF Bucket

\* Every minute of the clock is one of the buckets.
LEMMA BucketType == \A x \in Time : Bucket(x) \in Buckets
  BY DEF Buckets

-----------------------------------------------------------------------------
(* Requests *)

\* The type of a request that is being handled.
LEMMA ReqType ==
    ASSUME TypeOK, NEW r \in Request, req[r] # Idle
    PROVE  /\ req[r] \in Running /\ req[r].bucket \in Buckets
           /\ req[r].since \in Time /\ req[r].current \in Nat
  BY DEF TypeOK, Running

\* A request at one of its calls is being handled.
LEMMA PcRuns ==
    ASSUME NEW r \in Request, req[r].pc \in {"incr", "expire", "decide"}
    PROVE  req[r] # Idle
  BY DEF Idle

\* The sets that are counted are finite.
LEMMA AdmittedFinite ==
    \A b : /\ IsFiniteSet(Admitted(b)) /\ Cardinality(Admitted(b)) \in Nat
           /\ IsFiniteSet(Admitted(b))' /\ Cardinality(Admitted(b))' \in Nat
<1> SUFFICES ASSUME NEW b
             PROVE  /\ IsFiniteSet(Admitted(b)) /\ Cardinality(Admitted(b)) \in Nat
                    /\ IsFiniteSet(Admitted(b))' /\ Cardinality(Admitted(b))' \in Nat
  OBVIOUS
<1>1. Admitted(b) \subseteq Request /\ Admitted(b)' \subseteq Request
  BY DEF Admitted
<1>2. IsFiniteSet(Admitted(b)) /\ IsFiniteSet(Admitted(b)')
  BY <1>1, RateLimitAssumption, FS_Subset
<1> QED
  BY <1>2, FS_CardinalityType

\* A request that is running, when it takes a step, is the only one that changes.
LEMMA Others ==
    ASSUME TypeOK, NEW r \in Request, NEW t \in Running \cup {Idle},
           req' = [req EXCEPT ![r] = t]
    PROVE  /\ req'[r] = t /\ \A q \in Request \ {r} : req'[q] = req[q]
           /\ req' \in [Request -> Running \cup {Idle}]
           /\ \A b : Admitted(b)' \ {r} = Admitted(b) \ {r}
<1>1. /\ req'[r] = t /\ \A q \in Request \ {r} : req'[q] = req[q]
      /\ req' \in [Request -> Running \cup {Idle}]
  BY DEF TypeOK
<1> QED
  BY <1>1 DEF Admitted

\* A step of one request keeps the invariant if its own minute stays accounted
\* for: it takes no part in any other.
LEMMA OwnStep ==
    ASSUME Inv, NEW r \in Request, NEW t \in Running \cup {Idle}, NEW m \in Buckets,
           req' = [req EXCEPT ![r] = t], now' = now,
           req[r] # Idle => req[r].bucket = m, t # Idle => t.bucket = m,
           TypeOK', OfMinute(r)', LivesOn(m)', Accounted(m)',
           \A b \in Buckets \ {m} : /\ ends'[b] = ends[b] /\ passes'[b] = passes[b]
                                    /\ count'[b] = count[b]
    PROVE  Inv'
<1>1. req'[r] = t /\ \A q \in Request \ {r} : req'[q] = req[q]
  BY Others DEF Inv
<1>2. \A q \in Request : OfMinute(q)'
  BY <1>1 DEF Inv, OfMinute
<1>3. ASSUME NEW b \in Buckets \ {m}
      PROVE  LivesOn(b)' /\ Accounted(b)'
  <2>1. Admitted(b)' = Admitted(b)
    BY <1>1, <1>3 DEF Admitted
  <2>2. Closed(b) => Closed(b)'
    BY <1>1, <1>3 DEF Closed
  <2> QED
    BY <1>3, <2>1, <2>2 DEF Inv, LivesOn, Accounted
<1> QED
  BY <1>2, <1>3 DEF Inv

\* A minute that has a request is not closed.
LEMMA NotClosed ==
    ASSUME NEW r \in Request, req[r] # Idle
    PROVE  ~Closed(req[r].bucket)
  BY DEF Closed

\* A request begins.
LEMMA CheckStep ==
    ASSUME Inv, NEW r \in Request, check(r)
    PROVE  Inv'
<1> DEFINE t == [pc |-> "incr", bucket |-> Bucket(now), since |-> now, current |-> 0]
<1>1. /\ req[r] = Idle /\ req' = [req EXCEPT ![r] = t]
      /\ UNCHANGED <<now, count, ends, passes, errors>>
  BY DEF check
<1>2. now \in Time /\ now \in Nat
  BY RateLimitAssumption DEF Inv, TypeOK, Time
<1>3. PICK m \in Buckets : m = Bucket(now)
  BY <1>2, BucketType
<1>4. /\ t \in Running /\ t.pc = "incr" /\ t.bucket = m /\ t.since = now
  BY <1>2, <1>3 DEF Running
<1> HIDE DEF t
<1>5. /\ req'[r] = t /\ Admitted(m)' \ {r} = Admitted(m) \ {r}
      /\ req' \in [Request -> Running \cup {Idle}]
  BY <1>1, <1>4, Others DEF Inv
<1>6. Admitted(m)' = Admitted(m)
  <2>1. r \notin Admitted(m)
    BY <1>1 DEF Admitted
  <2>2. r \notin Admitted(m)'
    BY <1>4, <1>5 DEF Admitted
  <2> QED
    BY <1>5, <2>1, <2>2
<1>7. ~Closed(m)
  BY <1>2, <1>3 DEF Closed
<1>8. Accounted(m)'
  BY <1>1, <1>3, <1>6, <1>7 DEF Inv, Accounted
<1>9. TypeOK'
  BY <1>1, <1>5 DEF Inv, TypeOK
<1>10. OfMinute(r)'
  BY <1>1, <1>2, <1>3, <1>4, <1>5, RateLimitAssumption DEF OfMinute
<1>11. LivesOn(m)'
  BY <1>1, <1>3 DEF Inv, LivesOn
<1> QED
  BY <1>1, <1>3, <1>4, <1>8, <1>9, <1>10, <1>11, OwnStep

\* INCR: who is counted within the limit is one more of those who may pass.
LEMMA IncrStep ==
    ASSUME Inv, NEW r \in Request, Incr(r)
    PROVE  Inv'
<1>1. req[r].pc = "incr" /\ req[r] # Idle /\ req[r] \in Running
  BY PcRuns, ReqType DEF Inv, Incr
<1>2. PICK m \in Buckets : m = req[r].bucket
  BY <1>1 DEF Running
<1> DEFINE n == Raise(count[m])
           p == IF n = 1 THEN "expire" ELSE "decide"
           t == [req[r] EXCEPT !.pc = p, !.current = n]
<1>3. /\ req[r].pc = "incr" /\ count' = [count EXCEPT ![m] = n]
      /\ req' = [req EXCEPT ![r] = t] /\ UNCHANGED <<now, ends, passes, errors>>
  BY <1>2 DEF Incr, Inv, TypeOK
<1>4. /\ count[m] \in Nat /\ n \in Nat /\ n >= count[m]
      /\ n <= Limit => n = count[m] + 1
  BY <1>1, <1>2, Units DEF Raise, Inv, TypeOK
<1>5. p \in {"expire", "decide"}
  OBVIOUS
<1> HIDE DEF n, p
<1>6. /\ t \in Running /\ t.pc = p /\ t.bucket = m /\ t.since = req[r].since
      /\ t.current = n
  BY <1>1, <1>2, <1>4, <1>5 DEF Running
<1> HIDE DEF t
<1>7. /\ req'[r] = t /\ Admitted(m)' \ {r} = Admitted(m) \ {r}
      /\ req' \in [Request -> Running \cup {Idle}]
  BY <1>3, <1>6, Others DEF Inv
<1>8. r \notin Admitted(m)
  BY <1>3 DEF Admitted
<1>9. t # Idle
  BY <1>5, <1>6 DEF Idle
<1>10. r \in Admitted(m)' <=> n <= Limit
  BY <1>5, <1>6, <1>7, <1>9 DEF Admitted
<1>11. ~Closed(m)
  BY <1>1, <1>2, NotClosed
<1>12. /\ passes[m] \in Nat /\ passes[m] + Cardinality(Admitted(m)) <= Limit
       /\ passes[m] + Cardinality(Admitted(m)) <= count[m]
  BY <1>1, <1>2, <1>11 DEF Inv, Accounted, TypeOK
<1>13. passes'[m] = passes[m] /\ count'[m] = n
  BY <1>3, <1>2 DEF Inv, TypeOK
<1>14. Accounted(m)'
  <2>1. CASE n <= Limit
    <3>1. Admitted(m)' = Admitted(m) \cup {r}
      BY <1>7, <1>8, <1>10, <2>1
    <3>2. Cardinality(Admitted(m)') = Cardinality(Admitted(m)) + 1
      BY <1>8, <3>1, AdmittedFinite, FS_AddElement
    <3> QED
      BY <1>4, <1>12, <1>13, <2>1, <3>2, AdmittedFinite, Units DEF Accounted
  <2>2. CASE ~(n <= Limit)
    <3>1. Admitted(m)' = Admitted(m)
      BY <1>7, <1>8, <1>10, <2>2
    <3> QED
      BY <1>4, <1>12, <1>13, <3>1, AdmittedFinite, Units DEF Accounted
  <2> QED
    BY <2>1, <2>2
<1>15. TypeOK'
  BY <1>3, <1>4, <1>7 DEF Inv, TypeOK
<1>16. OfMinute(r)'
  BY <1>3, <1>1, <1>2, <1>6, <1>7 DEF Inv, OfMinute
<1>17. LivesOn(m)'
  BY <1>3, <1>2 DEF Inv, LivesOn
<1>18. \A b \in Buckets \ {m} : count'[b] = count[b]
  BY <1>3 DEF Inv, TypeOK
<1> QED
  BY <1>3, <1>1, <1>2, <1>6, <1>14, <1>15, <1>16, <1>17, <1>18, OwnStep

\* EXPIRE: the key lives a window from now on, and the request began before.
LEMMA ExpireStep ==
    ASSUME Inv, NEW r \in Request, Expire(r)
    PROVE  Inv'
<1>1. req[r].pc = "expire" /\ req[r] # Idle /\ req[r] \in Running
  BY PcRuns, ReqType DEF Inv, Expire
<1>2. PICK m \in Buckets : m = req[r].bucket
  BY <1>1 DEF Running
<1> DEFINE t == [req[r] EXCEPT !.pc = "decide"]
<1>3. /\ ends' = IF count[m] = 0 THEN ends ELSE [ends EXCEPT ![m] = now + Window]
      /\ req' = [req EXCEPT ![r] = t] /\ UNCHANGED <<now, count, passes, errors>>
  BY <1>2 DEF Expire, Inv, TypeOK
<1>4. /\ t \in Running /\ t.pc = "decide" /\ t.bucket = m /\ t.since = req[r].since
      /\ t.current = req[r].current
  BY <1>1, <1>2 DEF Running
<1> HIDE DEF t
<1>5. /\ req'[r] = t /\ Admitted(m)' \ {r} = Admitted(m) \ {r}
      /\ req' \in [Request -> Running \cup {Idle}]
  BY <1>3, <1>4, Others DEF Inv
<1>6. t # Idle
  BY <1>4 DEF Idle
<1>7. r \in Admitted(m)' <=> r \in Admitted(m)
  BY <1>1, <1>2, <1>4, <1>5, <1>6 DEF Admitted
<1>8. Admitted(m)' = Admitted(m)
  BY <1>5, <1>7
<1>9. ~Closed(m)
  BY <1>1, <1>2, NotClosed
<1>10. Accounted(m)'
  BY <1>2, <1>3, <1>8, <1>9 DEF Inv, Accounted
<1>11. req[r].since \in Time /\ req[r].since <= now /\ Bucket(req[r].since) = m
  BY <1>1, <1>2 DEF Inv, OfMinute, Running
<1>12. now \in Nat /\ now + Window \in Nat
  BY Units DEF Inv, TypeOK, Time
<1>13. LivesOn(m)'
  <2>1. CASE count[m] = 0
    BY <1>2, <1>3, <2>1 DEF Inv, LivesOn
  <2>2. CASE count[m] # 0
    <3>1. ends'[m] = now + Window
      BY <1>2, <1>3, <2>2 DEF Inv, TypeOK
    <3>2. req[r].since + Window <= ends'[m]
      BY <1>11, <1>12, <3>1, Units DEF Time
    <3> QED
      BY <1>11, <3>2 DEF LivesOn
  <2> QED
    BY <2>1, <2>2
<1>14. TypeOK'
  BY <1>2, <1>3, <1>5, <1>12 DEF Inv, TypeOK
<1>15. OfMinute(r)'
  BY <1>1, <1>2, <1>3, <1>4, <1>5 DEF Inv, OfMinute
<1>16. \A b \in Buckets \ {m} : ends'[b] = ends[b]
  BY <1>3 DEF Inv, TypeOK
<1> QED
  BY <1>1, <1>2, <1>3, <1>4, <1>10, <1>13, <1>14, <1>15, <1>16, OwnStep

\* A request that ends leaves the set of those who may pass.
LEMMA Leaves ==
    ASSUME Inv, NEW r \in Request, req' = [req EXCEPT ![r] = Idle]
    PROVE  /\ req' \in [Request -> Running \cup {Idle}] /\ OfMinute(r)'
           /\ \A m \in Buckets : Admitted(m)' = Admitted(m) \ {r}
<1>1. req'[r] = Idle /\ \A q \in Request \ {r} : req'[q] = req[q]
  BY DEF Inv, TypeOK
<1>2. \A m \in Buckets : Admitted(m)' \ {r} = Admitted(m) \ {r} /\ r \notin Admitted(m)'
  BY <1>1, Others DEF Inv, Admitted
<1> QED
  BY <1>1, <1>2, Others DEF Inv, OfMinute

\* An error of Redis ends the request, counted or not.
LEMMA ErrorStep ==
    ASSUME Inv, NEW r \in Request, RedisError(r)
    PROVE  Inv'
<1>1. req[r] # Idle /\ req[r] \in Running
  BY ReqType DEF Inv, RedisError
<1>2. PICK m \in Buckets : m = req[r].bucket
  BY <1>1 DEF Running
<1>3. /\ count' = count \/ count' = [count EXCEPT ![m] = Raise(count[m])]
      /\ req' = [req EXCEPT ![r] = Idle] /\ errors' = errors + 1
      /\ UNCHANGED <<now, ends, passes>>
  BY <1>2 DEF RedisError, Inv, TypeOK
<1>4. count[m] \in Nat /\ Raise(count[m]) \in Nat /\ Raise(count[m]) >= count[m]
  BY <1>2, Units DEF Raise, Inv, TypeOK
<1>5. /\ count' \in [Buckets -> Nat] /\ count'[m] >= count[m]
      /\ \A b \in Buckets \ {m} : count'[b] = count[b]
  BY <1>2, <1>3, <1>4 DEF Inv, TypeOK
<1>6. /\ req' \in [Request -> Running \cup {Idle}] /\ OfMinute(r)'
      /\ Admitted(m)' = Admitted(m) \ {r}
  BY <1>2, <1>3, Leaves
<1>7. Cardinality(Admitted(m)') <= Cardinality(Admitted(m))
  BY <1>6, AdmittedFinite, FS_Subset
<1>8. ~Closed(m)
  BY <1>1, <1>2, NotClosed
<1>9. /\ passes[m] \in Nat /\ passes[m] + Cardinality(Admitted(m)) <= Limit
      /\ passes[m] + Cardinality(Admitted(m)) <= count[m]
  BY <1>2, <1>8 DEF Inv, Accounted, TypeOK
<1>10. Accounted(m)'
  <2>1. passes'[m] = passes[m] /\ count'[m] \in Nat
    BY <1>2, <1>3, <1>5
  <2> QED
    BY <1>4, <1>5, <1>7, <1>9, <2>1, AdmittedFinite, Units DEF Accounted
<1>11. TypeOK'
  BY <1>3, <1>5, <1>6 DEF Inv, TypeOK
<1>12. LivesOn(m)'
  BY <1>2, <1>3 DEF Inv, LivesOn
<1> QED
  BY <1>1, <1>2, <1>3, <1>5, <1>6, <1>10, <1>11, <1>12, OwnStep

\* The decision turns one of those who may pass into one who did.
LEMMA DecideStep ==
    ASSUME Inv, NEW r \in Request, Decide(r)
    PROVE  Inv'
<1>1. req[r].pc = "decide" /\ req[r] # Idle /\ req[r] \in Running
  BY PcRuns, ReqType DEF Inv, Decide
<1>2. PICK m \in Buckets : m = req[r].bucket
  BY <1>1 DEF Running
<1>3. /\ passes' = IF req[r].current > Limit THEN passes
                   ELSE [passes EXCEPT ![m] = passes[m] + 1]
      /\ req' = [req EXCEPT ![r] = Idle] /\ UNCHANGED <<now, count, ends, errors>>
  BY <1>2 DEF Decide, Passed, Inv, TypeOK
<1>4. req[r].current \in Nat /\ passes[m] \in Nat /\ count[m] \in Nat
  BY <1>1, <1>2 DEF Running, Inv, TypeOK
<1>5. /\ passes' \in [Buckets -> Nat] /\ \A b \in Buckets \ {m} : passes'[b] = passes[b]
      /\ passes'[m] = IF req[r].current > Limit THEN passes[m] ELSE passes[m] + 1
  BY <1>2, <1>3, <1>4 DEF Inv, TypeOK
<1>6. /\ req' \in [Request -> Running \cup {Idle}] /\ OfMinute(r)'
      /\ Admitted(m)' = Admitted(m) \ {r}
  BY <1>2, <1>3, Leaves
<1>7. r \in Admitted(m) <=> ~(req[r].current > Limit)
  BY <1>1, <1>2, <1>4, Units DEF Admitted
<1>8. Cardinality(Admitted(m)') = IF r \in Admitted(m) THEN Cardinality(Admitted(m)) - 1
                                  ELSE Cardinality(Admitted(m))
  BY <1>6, AdmittedFinite, FS_RemoveElement
<1>9. passes'[m] + Cardinality(Admitted(m)') = passes[m] + Cardinality(Admitted(m))
  BY <1>4, <1>5, <1>7, <1>8, AdmittedFinite
<1>10. ~Closed(m)
  BY <1>1, <1>2, NotClosed
<1>11. Accounted(m)'
  BY <1>2, <1>3, <1>9, <1>10 DEF Inv, Accounted
<1>12. TypeOK'
  BY <1>3, <1>5, <1>6 DEF Inv, TypeOK
<1>13. LivesOn(m)'
  BY <1>2, <1>3 DEF Inv, LivesOn
<1> QED
  BY <1>1, <1>2, <1>3, <1>5, <1>6, <1>11, <1>12, <1>13, OwnStep

\* The clock: when a key expires its minute is over, and no request of that
\* minute is left to raise the count anew.
LEMMA TickStep ==
    ASSUME Slack <= 1, Inv, Tick
    PROVE  Inv'
<1>1. /\ now < MaxTime /\ now' = now + 1 /\ UNCHANGED <<req, passes, errors>>
      /\ \A r \in Request : req[r] # Idle => now < req[r].since + Slack
      /\ count' = [b \in Buckets |-> IF ends[b] <= now' THEN 0 ELSE count[b]]
      /\ ends'  = [b \in Buckets |-> IF ends[b] <= now' THEN Forever ELSE ends[b]]
  BY DEF Tick
<1>2. now \in Nat /\ now \in Time /\ now' \in Nat /\ now' \in Time /\ now' <= MaxTime
  BY <1>1, Units DEF Inv, TypeOK, Time
<1>3. TypeOK'
  <2>1. count' \in [Buckets -> Nat]
    BY <1>1 DEF Inv, TypeOK
  <2>2. ends' \in [Buckets -> Nat]
    BY <1>1, Units DEF Inv, TypeOK
  <2> QED
    BY <1>1, <1>2, <2>1, <2>2 DEF Inv, TypeOK
<1>4. \A r \in Request : OfMinute(r)'
  <2> SUFFICES ASSUME NEW r \in Request, req[r] # Idle
               PROVE  OfMinute(r)'
    BY <1>1 DEF OfMinute
  <2>1. /\ req[r].since \in Nat /\ req[r].bucket = Bucket(req[r].since)
        /\ req[r].since <= now /\ now < req[r].since + Slack
    BY <1>1, Units, ReqType DEF Inv, OfMinute, Time
  <2> QED
    BY <1>1, <1>2, <2>1, Units DEF OfMinute
<1>5. ASSUME NEW b \in Buckets
      PROVE  LivesOn(b)' /\ Accounted(b)'
  <2>1. LivesOn(b) /\ Accounted(b) /\ ends[b] \in Nat
    BY DEF Inv, TypeOK
  <2>2. Admitted(b)' = Admitted(b) /\ passes'[b] = passes[b]
    BY <1>1 DEF Admitted
  <2>3. CASE ends[b] <= now'
    <3>1. ends'[b] = Forever
      BY <1>1, <2>3
    <3>2. ends[b] # Forever
      BY <1>2, <2>1, <2>3, Units
    <3>3. PICK x \in Time : Bucket(x) = b /\ x + Window <= ends[b]
      BY <2>1, <3>2 DEF LivesOn
    <3>4. x \in Nat /\ x + Minute + 1 <= now'
      BY <1>2, <2>1, <2>3, <3>3, Units DEF Time
    <3>5. \A y \in Time : Bucket(y) = b => y < now
      <4> SUFFICES ASSUME NEW y \in Time, Bucket(y) = b
                   PROVE  y < now
        OBVIOUS
      <4>1. y \in Nat /\ y < x + Minute
        BY <3>3, <3>4, SameMinute, Units DEF Time
      <4> QED
        BY <1>1, <1>2, <3>4, <4>1, Units
    <3>6. \A r \in Request : req[r] # Idle => req[r].bucket # b
      <4> SUFFICES ASSUME NEW r \in Request, req[r] # Idle, req[r].bucket = b
                   PROVE  FALSE
        OBVIOUS
      <4>1. req[r].since \in Time /\ req[r].since \in Nat /\ Bucket(req[r].since) = b
        BY ReqType, Units DEF Inv, OfMinute, Time
      <4>2. req[r].since < now /\ now < req[r].since + Slack
        BY <1>1, <3>5, <4>1
      <4> QED
        BY <1>2, <4>1, <4>2, Units
    <3>7. Closed(b)'
      <4>1. \A y \in Time : Bucket(y) = b => y < now'
        BY <1>1, <1>2, <3>5, Units DEF Time
      <4> QED
        BY <1>1, <3>6, <4>1 DEF Closed
    <3> QED
      BY <2>1, <2>2, <3>1, <3>7 DEF LivesOn, Accounted
  <2>4. CASE ~(ends[b] <= now')
    <3>1. ends'[b] = ends[b] /\ count'[b] = count[b]
      BY <1>1, <2>4
    <3>2. Closed(b) => Closed(b)'
      BY <1>1, <1>2, Units DEF Closed, Time
    <3> QED
      BY <2>1, <2>2, <3>1, <3>2 DEF LivesOn, Accounted
  <2> QED
    BY <2>3, <2>4
<1> QED
  BY <1>3, <1>4, <1>5 DEF Inv

\* At the start nothing was counted.
LEMMA InitInv == Init => Inv
<1> SUFFICES ASSUME Init
             PROVE  Inv
  OBVIOUS
<1>1. TypeOK
  BY Units DEF Init, TypeOK, Time
<1>2. \A r \in Request : req[r] = Idle
  BY DEF Init
<1>3. \A b \in Buckets : count[b] = 0 /\ ends[b] = Forever /\ passes[b] = 0
  BY DEF Init
<1>4. \A b \in Buckets : Cardinality(Admitted(b)) = 0
  <2>1. \A b \in Buckets : Admitted(b) = {}
    BY <1>2 DEF Admitted
  <2> QED
    BY <2>1, FS_EmptySet
<1>5. \A b \in Buckets : LivesOn(b) /\ Accounted(b)
  BY <1>3, <1>4, Units DEF LivesOn, Accounted
<1>6. \A r \in Request : OfMinute(r)
  BY <1>2 DEF OfMinute
<1> QED
  BY <1>1, <1>5, <1>6 DEF Inv

-----------------------------------------------------------------------------
(* Keys and their lifetimes, however long a request takes *)

\* Every step keeps the types.
LEMMA TypeStep ==
    ASSUME TypeOK, [Next]_vars
    PROVE  TypeOK'
<1>1. CASE UNCHANGED vars
  BY <1>1 DEF vars, TypeOK
<1>2. CASE Tick
  <2>1. now' \in Time
    BY <1>2, Units DEF Tick, TypeOK, Time
  <2>2. count' \in [Buckets -> Nat] /\ ends' \in [Buckets -> Nat]
    BY <1>2, Units DEF Tick, TypeOK
  <2> QED
    BY <1>2, <2>1, <2>2 DEF Tick, TypeOK
<1>3. ASSUME NEW r \in Request, check(r)
      PROVE  TypeOK'
  <2>1. Bucket(now) \in Buckets
    BY BucketType DEF TypeOK
  <2>2. [pc |-> "incr", bucket |-> Bucket(now), since |-> now, current |-> 0] \in Running
    BY <2>1 DEF Running, TypeOK
  <2> QED
    BY <1>3, <2>2 DEF check, TypeOK
<1>4. ASSUME NEW r \in Request, Incr(r)
      PROVE  TypeOK'
  <2> DEFINE b == req[r].bucket
             n == Raise(count[b])
             p == IF n = 1 THEN "expire" ELSE "decide"
  <2>1. req[r] \in Running /\ b \in Buckets
    BY <1>4, PcRuns, ReqType DEF Incr
  <2>2. n \in Nat /\ p \in {"expire", "decide"}
    BY <2>1, Units DEF Raise, TypeOK
  <2>3. /\ count' = [count EXCEPT ![b] = n]
        /\ req' = [req EXCEPT ![r] = [req[r] EXCEPT !.pc = p, !.current = n]]
        /\ UNCHANGED <<now, ends, passes, errors>>
    BY <1>4 DEF Incr, TypeOK
  <2> HIDE DEF n, p
  <2>4. [req[r] EXCEPT !.pc = p, !.current = n] \in Running
    BY <2>1, <2>2 DEF Running
  <2> QED
    BY <2>1, <2>2, <2>3, <2>4 DEF TypeOK
<1>5. ASSUME NEW r \in Request, Expire(r)
      PROVE  TypeOK'
  <2>1. req[r] \in Running /\ req[r].bucket \in Buckets
    BY <1>5, PcRuns, ReqType DEF Expire
  <2>2. [req[r] EXCEPT !.pc = "decide"] \in Running
    BY <2>1 DEF Running
  <2>3. now + Window \in Nat
    BY Units DEF TypeOK, Time
  <2> QED
    BY <1>5, <2>1, <2>2, <2>3 DEF Expire, TypeOK
<1>6. ASSUME NEW r \in Request, RedisError(r)
      PROVE  TypeOK'
  <2>1. req[r].bucket \in Buckets
    BY <1>6, ReqType DEF RedisError
  <2>2. Raise(count[req[r].bucket]) \in Nat
    BY <2>1, Units DEF Raise, TypeOK
  <2> QED
    BY <1>6, <2>1, <2>2 DEF RedisError, TypeOK
<1>7. ASSUME NEW r \in Request, Decide(r)
      PROVE  TypeOK'
  <2>1. req[r].bucket \in Buckets
    BY <1>7, PcRuns, ReqType DEF Decide
  <2> QED
    BY <1>7, <2>1 DEF Decide, Passed, TypeOK
<1> QED
  BY <1>1, <1>2, <1>3, <1>4, <1>5, <1>6, <1>7 DEF Next

\* A step that neither begins the minute's key nor takes its lifetime nor
\* disturbs a request that is about to start one.
LEMMA LifetimeKept ==
    ASSUME NEW b \in Buckets, ~Stranded(b),
           count'[b] > 0 /\ ends'[b] = Forever => count[b] > 0 /\ ends[b] = Forever,
           \A q \in Request : Expiring(q, b) => req'[q] = req[q]
    PROVE  ~Stranded(b)'
<1> SUFFICES ASSUME count'[b] > 0, ends'[b] = Forever
             PROVE  \E q \in Request : Expiring(q, b)'
  BY DEF Stranded
<1>1. PICK q \in Request : Expiring(q, b)
  BY DEF Stranded
<1> QED
  BY <1>1 DEF Expiring

\* No step but an error strands a key.
LEMMA LifetimeStep ==
    ASSUME TypeOK, [Next]_vars, NEW b \in Buckets, Stranded(b)', ~Stranded(b)
    PROVE  \E r \in Request : req[r] # Idle /\ req[r].bucket = b /\ RedisError(r)
<1>1. count[b] \in Nat
  BY DEF TypeOK
<1>2. CASE UNCHANGED vars
  BY <1>2, LifetimeKept DEF vars
<1>3. CASE Tick
  <2>1. /\ count'[b] = IF ends[b] <= now' THEN 0 ELSE count[b]
        /\ ends'[b] = IF ends[b] <= now' THEN Forever ELSE ends[b]
        /\ req' = req
    BY <1>3 DEF Tick
  <2>2. count'[b] > 0 /\ ends'[b] = Forever => count[b] > 0 /\ ends[b] = Forever
    BY <2>1
  <2> QED
    BY <2>1, <2>2, LifetimeKept
<1>4. ASSUME NEW r \in Request, check(r)
      PROVE  FALSE
  <2>1. /\ req[r] = Idle /\ \A q \in Request \ {r} : req'[q] = req[q]
        /\ UNCHANGED <<count, ends>>
    BY <1>4 DEF check, TypeOK
  <2> QED
    BY <2>1, LifetimeKept DEF Expiring
<1>5. ASSUME NEW r \in Request, Incr(r)
      PROVE  FALSE
  <2> DEFINE m == req[r].bucket
             n == Raise(count[m])
             p == IF n = 1 THEN "expire" ELSE "decide"
             t == [req[r] EXCEPT !.pc = p, !.current = n]
  <2>1. req[r].pc = "incr" /\ req[r] # Idle /\ req[r] \in Running
    BY <1>5, PcRuns, ReqType DEF Incr
  <2>2. /\ count' = [count EXCEPT ![m] = n] /\ req' = [req EXCEPT ![r] = t]
        /\ ends' = ends
    BY <1>5 DEF Incr, TypeOK
  <2>3. t.pc = p /\ t.bucket = m /\ p # "idle"
    BY <2>1 DEF Running
  <2>4. req'[r] = t /\ \A q \in Request \ {r} : req'[q] = req[q]
    BY <2>2 DEF TypeOK
  <2>5. CASE b = m /\ count[b] = 0
    <3>1. n = 1
      BY <2>5, Units DEF Raise
    <3>2. t # Idle
      BY <2>3 DEF Idle
    <3>3. Expiring(r, b)'
      BY <2>3, <2>4, <2>5, <3>1, <3>2 DEF Expiring
    <3> QED
      BY <3>3 DEF Stranded
  <2>6. CASE ~(b = m /\ count[b] = 0)
    <3>1. count'[b] > 0 => count[b] > 0
      BY <1>1, <2>2, <2>6 DEF TypeOK
    <3>2. \A q \in Request : Expiring(q, b) => req'[q] = req[q]
      BY <2>1, <2>4 DEF Expiring
    <3> QED
      BY <2>2, <3>1, <3>2, LifetimeKept
  <2> QED
    BY <2>5, <2>6
<1>6. ASSUME NEW r \in Request, Expire(r)
      PROVE  FALSE
  <2> DEFINE m == req[r].bucket
  <2>1. /\ ends' = IF count[m] = 0 THEN ends ELSE [ends EXCEPT ![m] = now + Window]
        /\ count' = count /\ \A q \in Request \ {r} : req'[q] = req[q]
    BY <1>6 DEF Expire, TypeOK
  <2>2. now + Window # Forever
    BY Units DEF TypeOK, Time
  <2>3. CASE b = m
    BY <1>1, <2>1, <2>2, <2>3 DEF TypeOK, Stranded
  <2>4. CASE b # m
    <3>1. ends'[b] = ends[b]
      BY <2>1, <2>4 DEF TypeOK
    <3>2. \A q \in Request : Expiring(q, b) => req'[q] = req[q]
      BY <2>1, <2>4 DEF Expiring
    <3> QED
      BY <2>1, <3>1, <3>2, LifetimeKept
  <2> QED
    BY <2>3, <2>4
<1>7. ASSUME NEW r \in Request, RedisError(r)
      PROVE  req[r] # Idle /\ req[r].bucket = b
  <2>1. /\ req[r] # Idle /\ ends' = ends /\ \A q \in Request \ {r} : req'[q] = req[q]
        /\ count' = count \/ count' = [count EXCEPT ![req[r].bucket] = Raise(@)]
    BY <1>7 DEF RedisError, TypeOK
  <2>2. CASE req[r].bucket # b
    <3>1. count'[b] = count[b]
      BY <2>1, <2>2 DEF TypeOK
    <3>2. \A q \in Request : Expiring(q, b) => req'[q] = req[q]
      BY <2>1, <2>2 DEF Expiring
    <3> QED
      BY <2>1, <3>1, <3>2, LifetimeKept
  <2> QED
    BY <2>1, <2>2
<1>8. ASSUME NEW r \in Request, Decide(r)
      PROVE  FALSE
  <2>1. /\ req[r].pc = "decide" /\ \A q \in Request \ {r} : req'[q] = req[q]
        /\ UNCHANGED <<count, ends>>
    BY <1>8 DEF Decide, TypeOK
  <2> QED
    BY <2>1, LifetimeKept DEF Expiring
<1> QED
  BY <1>2, <1>3, <1>4, <1>5, <1>6, <1>7, <1>8 DEF Next

-----------------------------------------------------------------------------
(* The theorems *)

\* Every variable keeps its type.
THEOREM TypeCorrect == Spec => []TypeOK
<1>1. Init => TypeOK
  BY InitInv DEF Inv
<1>2. TypeOK /\ [Next]_vars => TypeOK'
  BY TypeStep
<1> QED
  BY <1>1, <1>2, PTL DEF Spec

\* INCR and EXPIRE are two calls, but however requests interleave between them
\* and however long they take, only an error of Redis in a request of the minute
\* leaves the minute's key without a lifetime.
THEOREM KeysStrandedByError == Spec => StrandedByError
<1>1. TypeOK /\ [Next]_vars =>
        \A b \in Buckets : Stranded(b)' /\ ~Stranded(b) =>
           \E r \in Request : req[r] # Idle /\ req[r].bucket = b /\ RedisError(r)
  BY LifetimeStep
<1> QED
  BY <1>1, TypeCorrect, PTL DEF Spec, StrandedByError

\* The window of EXPIRE is one unit longer than the minute.  If every request has
\* reached Redis one unit after it read the clock, what passed and what will pass
\* is counted by the key as long as it matters.
THEOREM Invariance ==
    ASSUME Slack <= 1
    PROVE  Spec => []Inv
<1>1. Inv /\ [Next]_vars => Inv'
  <2> SUFFICES ASSUME Inv, [Next]_vars
               PROVE  Inv'
    OBVIOUS
  <2>1. CASE UNCHANGED vars
    <3>1. UNCHANGED <<now, count, ends, req, passes, errors>>
      BY <2>1 DEF vars
    <3>2. TypeOK' /\ (\A r \in Request : OfMinute(r)') /\ \A b \in Buckets : LivesOn(b)'
      BY <3>1 DEF Inv, TypeOK, OfMinute, LivesOn
    <3>3. \A b \in Buckets : Accounted(b)'
      BY <3>1 DEF Inv, Accounted, Closed, Admitted
    <3> QED
      BY <3>2, <3>3 DEF Inv
  <2> QED
    BY <2>1, TickStep, CheckStep, IncrStep, ExpireStep, ErrorStep, DecideStep DEF Next
<1>2. Init => Inv
  BY InitInv
<1> QED
  BY <1>1, <1>2, PTL DEF Spec

\* Then no more requests of a minute pass than the limit, although requests raise
\* the count of a minute that is over, its key expires and Redis fails.
THEOREM LimitHolds ==
    ASSUME Slack <= 1
    PROVE  Spec => []LimitPerMinute
<1>1. Inv => LimitPerMinute
  <2> SUFFICES ASSUME Inv, NEW b \in Buckets
               PROVE  passes[b] <= Limit
    BY DEF LimitPerMinute
  <2>1. passes[b] \in Nat /\ passes[b] + Cardinality(Admitted(b)) <= Limit
    BY DEF Inv, TypeOK, Accounted
  <2> QED
    BY <2>1, AdmittedFinite, Units
<1> QED
  BY <1>1, Invariance, PTL
=============================================================================
