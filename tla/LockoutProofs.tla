---------------------------- MODULE LockoutProofs ----------------------------
(***************************************************************************)
(* Proofs about the limiter of brute force, for any number of requests and *)
(* addresses, in its two uses.                                             *)
(*                                                                         *)
(* Lockout: its types, that no count of failures outlives its window for   *)
(* want of an EXPIRE, and that guesses are bounded.  LoginChallenge: that  *)
(* a challenge that is over stays over, and that wrong codes are bounded.  *)
(*                                                                         *)
(* Both bounds rest on one argument (GuessInv, CodeInv): a wrong guess is  *)
(* in the count, or held by a request that has yet to count it, or was     *)
(* forgotten with a count that a request deleted late; and each request    *)
(* deletes one count at a time.                                            *)
(***************************************************************************)
EXTENDS Lockout, LoginChallenge, FiniteSetTheorems, TLAPS

\* A request that is in the middle of a guess.
LEMMA RunningType ==
    ASSUME TypeOK, NEW r \in Request, req[r].pc # "idle"
    PROVE  /\ req[r] \in Running
           /\ KeyOf(r) \in Key
  BY DEF TypeOK, Idle, Running, KeyOf, Key

\* The initial state is well typed.
LEMMA InitType == Init => TypeOK
  BY LockoutAssumption DEF Init, TypeOK, Key, AllOps, Idle

\* Each step of one request, and each expiry in Redis, keeps the types.
LEMMA NextType == TypeOK /\ [Next]_vars => TypeOK'
<1> SUFFICES ASSUME TypeOK, [Next]_vars PROVE TypeOK'
  OBVIOUS
<1> USE DEF TypeOK
<1>1. ASSUME NEW k \in Key, WindowPasses(k) PROVE TypeOK'
  BY <1>1 DEF WindowPasses, Anew, Key
<1>2. ASSUME NEW k \in Key, LockExpires(k) PROVE TypeOK'
  BY <1>2 DEF LockExpires, Anew, Key
<1>3. ASSUME NEW r \in Request, NEW o \in AllOps, NEW a \in Address, Begin(r, o, a)
      PROVE  TypeOK'
  BY <1>3 DEF Begin, Running, redis, hist
<1>4. ASSUME NEW r \in Request, GetByEmail(r) PROVE TypeOK'
  <2>1. req[r] \in Running
    BY <1>4, RunningType DEF GetByEmail
  <2> QED
    BY <1>4, <2>1 DEF GetByEmail, Done, Running, redis, hist
<1>5. ASSUME NEW r \in Request, AssertNotLocked(r) PROVE TypeOK'
  <2>1. req[r] \in Running
    BY <1>5, RunningType DEF AssertNotLocked
  <2> QED
    BY <1>5, <2>1 DEF AssertNotLocked, Done, Running, redis, hist
<1>6. ASSUME NEW r \in Request, Right(r) PROVE TypeOK'
  <2>1. req[r] \in Running
    BY <1>6, RunningType DEF Right
  <2> QED
    BY <1>6, <2>1 DEF Right, Done, Goto, Running, redis, hist
<1>7. ASSUME NEW r \in Request, Wrong(r) PROVE TypeOK'
  <2>1. req[r] \in Running
    BY <1>7, RunningType DEF Wrong
  <2> QED
    BY <1>7, <2>1 DEF Wrong, Goto, Running, redis
<1>8. ASSUME NEW r \in Request, Incr(r) PROVE TypeOK'
  <2>1. req[r] \in Running /\ KeyOf(r) \in Key
    BY <1>8, RunningType DEF Incr
  <2> QED
    BY <1>8, <2>1 DEF Incr, Counted, NextRecord, Running, hist
<1>9. ASSUME NEW r \in Request, Expire(r) PROVE TypeOK'
  <2>1. req[r] \in Running /\ KeyOf(r) \in Key
    BY <1>9, RunningType DEF Expire
  <2>2. req' \in [Request -> Running \cup {Idle}]
    BY <1>9, <2>1 DEF Expire, Counted, NextRecord, Running
  <2> QED
    BY <1>9, <2>1, <2>2 DEF Expire, Started, hist
<1>10. ASSUME NEW r \in Request, SetLock(r) PROVE TypeOK'
  <2>1. req[r] \in Running /\ KeyOf(r) \in Key
    BY <1>10, RunningType DEF SetLock
  <2> QED
    BY <1>10, <2>1 DEF SetLock, Started, Goto, Running, hist
<1>11. ASSUME NEW r \in Request, DeleteFails(r) PROVE TypeOK'
  <2>1. req[r] \in Running /\ KeyOf(r) \in Key
    BY <1>11, RunningType DEF DeleteFails
  <2>2. req' \in [Request -> Running \cup {Idle}]
    BY <1>11, <2>1 DEF DeleteFails, NextRecord, Running
  <2> QED
    BY <1>11, <2>1, <2>2 DEF DeleteFails, Ended, hist
<1>12. ASSUME NEW r \in Request, FailCommit(r) PROVE TypeOK'
  <2>1. req[r] \in Running
    BY <1>12, RunningType DEF FailCommit
  <2> QED
    BY <1>12, <2>1 DEF FailCommit, Done, Running, redis, hist
<1>13. ASSUME NEW r \in Request, ClearFailures(r) PROVE TypeOK'
  <2>1. req[r] \in Running /\ KeyOf(r) \in Key
    BY <1>13, RunningType DEF ClearFailures
  <2>2. req' \in [Request -> Running \cup {Idle}]
    BY <1>13, <2>1 DEF ClearFailures, Goto, Running
  <2> QED
    BY <1>13, <2>1, <2>2 DEF ClearFailures, Anew, Ended, Key
<1>14. ASSUME NEW r \in Request, CommitLogin(r) PROVE TypeOK'
  BY <1>14 DEF CommitLogin, Done, redis, hist
<1>15. ASSUME NEW r \in Request, CommitReset(r) PROVE TypeOK'
  BY <1>15 DEF CommitReset, Done, redis, AllOps
<1>16. ASSUME NEW r \in Request, Die(r) PROVE TypeOK'
  BY <1>16 DEF Die, Done, redis
<1>17. CASE UNCHANGED vars
  BY <1>17 DEF vars, redis, hist
<1> QED
  BY <1>1, <1>2, <1>3, <1>4, <1>5, <1>6, <1>7, <1>8, <1>9, <1>10, <1>11, <1>12,
     <1>13, <1>14, <1>15, <1>16, <1>17 DEF Next

\* The variables of Lockout always have their types.
THEOREM TypeCorrect == Spec => []TypeOK
<1> QED
  BY InitType, NextType, PTL DEF Spec

-----------------------------------------------------------------------------

\* A step that neither begins a count of the key nor takes its lifetime nor
\* disturbs a request that is about to start one.
LEMMA LifetimeKept ==
    ASSUME NEW k \in Key, ~Stranded(k), fails[k] \in Nat,
           fails'[k] > 0 /\ k \notin timed' => fails[k] > 0 /\ k \notin timed,
           \A q \in Request : Expiring(q, k) => req'[q] = req[q]
    PROVE  ~Stranded(k)'
<1> SUFFICES ASSUME fails'[k] > 0, k \notin timed'
             PROVE  \E q \in Request : Expiring(q, k)'
  BY DEF Stranded
<1>1. PICK q \in Request : Expiring(q, k)
  BY DEF Stranded
<1>2. Expiring(q, k)'
  BY <1>1 DEF Expiring, KeyOf
<1> QED
  BY <1>2

\* No step but a death strands a count.  Incr begins a count and goes on to
\* Expire; no request is about to expire two keys.
LEMMA NextStranded ==
    ASSUME TypeOK, [Next]_vars, NEW j \in Key, Stranded(j)', ~Stranded(j)
    PROVE  \E r \in Request : Expiring(r, j) /\ Die(r)
<1>0. fails \in [Key -> Nat] /\ req \in [Request -> Running \cup {Idle}] /\ fails[j] \in Nat
  BY DEF TypeOK
<1>1. ASSUME NEW k \in Key, WindowPasses(k) PROVE FALSE
  BY <1>0, <1>1, LifetimeKept DEF WindowPasses
<1>2. ASSUME NEW k \in Key, LockExpires(k) PROVE FALSE
  BY <1>0, <1>2, LifetimeKept DEF LockExpires
<1>3. ASSUME NEW r \in Request, NEW o \in AllOps, NEW a \in Address, Begin(r, o, a)
      PROVE  FALSE
  BY <1>0, <1>3, LifetimeKept DEF Begin, redis, Expiring
<1>4. ASSUME NEW r \in Request, GetByEmail(r) PROVE FALSE
  BY <1>0, <1>4, LifetimeKept DEF GetByEmail, Expiring, Done, redis
<1>5. ASSUME NEW r \in Request, AssertNotLocked(r) PROVE FALSE
  BY <1>0, <1>5, LifetimeKept DEF AssertNotLocked, Expiring, Done, redis
<1>6. ASSUME NEW r \in Request, Right(r) PROVE FALSE
  BY <1>0, <1>6, LifetimeKept DEF Right, Expiring, Goto, Done, redis
<1>7. ASSUME NEW r \in Request, Wrong(r) PROVE FALSE
  BY <1>0, <1>7, LifetimeKept DEF Wrong, Expiring, Goto, redis
<1>8. ASSUME NEW r \in Request, Incr(r) PROVE FALSE
  <2>0. PICK k \in Key : k = KeyOf(r)
    BY <1>8, RunningType DEF Incr
  <2>1. req[r] \in Running
    BY <1>8, RunningType DEF Incr
  <2>2. /\ timed' = timed /\ \A x \in Key \ {k} : fails'[x] = fails[x]
        /\ \A q \in Request \ {r} : req'[q] = req[q]
    BY <1>0, <1>8, <2>0 DEF Incr, Counted, NextRecord
  <2>3. \A q \in Request : Expiring(q, j) => req'[q] = req[q]
    BY <1>8, <2>2 DEF Incr, Expiring
  <2>4. CASE j = k /\ fails[k] = 0
    <3>1. Expiring(r, j)'
      BY <1>0, <1>8, <2>0, <2>1, <2>4 DEF Incr, Expiring, KeyOf, Running, Idle
    <3> QED
      BY <3>1 DEF Stranded
  <2>5. CASE j # k \/ fails[k] > 0
    BY <1>0, <1>8, <2>0, <2>2, <2>3, <2>5, LifetimeKept
  <2> QED
    BY <1>0, <2>4, <2>5
<1>9. ASSUME NEW r \in Request, Expire(r) PROVE FALSE
  <2>1. fails' = fails /\ \A q \in Request \ {r} : req'[q] = req[q]
    BY <1>0, <1>9 DEF Expire, Counted, NextRecord
  <2>2. CASE j = KeyOf(r)
    BY <1>0, <1>9, <2>2 DEF Expire, Stranded
  <2>3. CASE j # KeyOf(r)
    <3>1. \A q \in Request : Expiring(q, j) => req'[q] = req[q]
      BY <2>1, <2>3 DEF Expiring
    <3>2. j \notin timed' => j \notin timed
      BY <1>9 DEF Expire
    <3> QED
      BY <1>0, <2>1, <3>1, <3>2, LifetimeKept
  <2> QED
    BY <2>2, <2>3
<1>10. ASSUME NEW r \in Request, SetLock(r) PROVE FALSE
  BY <1>0, <1>10, LifetimeKept DEF SetLock, Expiring, Goto
<1>11. ASSUME NEW r \in Request, DeleteFails(r) PROVE FALSE
  <2>1. KeyOf(r) \in Key
    BY <1>11, RunningType DEF DeleteFails
  <2>2. \A q \in Request \ {r} : req'[q] = req[q]
    BY <1>0, <1>11 DEF DeleteFails, NextRecord
  <2> QED
    BY <1>0, <1>11, <2>1, <2>2, LifetimeKept DEF DeleteFails, Expiring
<1>12. ASSUME NEW r \in Request, FailCommit(r) PROVE FALSE
  BY <1>0, <1>12, LifetimeKept DEF FailCommit, Expiring, Done, redis
<1>13. ASSUME NEW r \in Request, ClearFailures(r) PROVE FALSE
  <2>1. KeyOf(r) \in Key
    BY <1>13, RunningType DEF ClearFailures
  <2>2. \A q \in Request \ {r} : req'[q] = req[q]
    BY <1>0, <1>13 DEF ClearFailures, Goto
  <2> QED
    BY <1>0, <1>13, <2>1, <2>2, LifetimeKept DEF ClearFailures, Expiring
<1>14. ASSUME NEW r \in Request, CommitLogin(r) PROVE FALSE
  BY <1>0, <1>14, LifetimeKept DEF CommitLogin, Expiring, Done, redis
<1>15. ASSUME NEW r \in Request, CommitReset(r) PROVE FALSE
  BY <1>0, <1>15, LifetimeKept DEF CommitReset, Expiring, Done, redis
<1>16. ASSUME NEW r \in Request, Die(r) PROVE Expiring(r, j)
  <2> SUFFICES ASSUME ~Expiring(r, j)
               PROVE  FALSE
    OBVIOUS
  <2> QED
    BY <1>0, <1>16, LifetimeKept DEF Die, Done, redis, Expiring
<1>17. CASE UNCHANGED vars
  BY <1>0, <1>17, LifetimeKept DEF vars, redis
<1> QED
  BY <1>1, <1>2, <1>3, <1>4, <1>5, <1>6, <1>7, <1>8, <1>9, <1>10, <1>11, <1>12,
     <1>13, <1>14, <1>15, <1>16, <1>17 DEF Next

\* However record_failure, its deletions and the clearing of the counts
\* interleave, a count is left without a lifetime only by a request that dies
\* between INCR and EXPIRE on its key.
THEOREM CountsStrandedByDeath == Spec => StrandedByDeath
<1>1. TypeOK /\ [Next]_vars =>
        \A k \in Key : Stranded(k)' /\ ~Stranded(k) =>
           \E r \in Request : Expiring(r, k) /\ Die(r)
  BY NextStranded
<1> QED
  BY <1>1, TypeCorrect, PTL DEF Spec, StrandedByDeath

-----------------------------------------------------------------------------
(* Counting requests.  One step moves one request.                           *)

\* T is S but for r, which may have entered or left.
Moves(S, T, r) ==
    /\ Cardinality(S) \in Nat /\ Cardinality(T) \in Nat
    /\ (r \in S) = (r \in T) => Cardinality(T) = Cardinality(S)
    /\ r \in S /\ r \notin T => Cardinality(T) = Cardinality(S) - 1
    /\ r \notin S /\ r \in T => Cardinality(T) = Cardinality(S) + 1

\* How the size of a set of requests changes when one request moves.
LEMMA OneMoves ==
    ASSUME NEW S \in SUBSET Request, NEW T \in SUBSET Request, NEW r \in Request,
           \A q \in Request \ {r} : q \in S <=> q \in T
    PROVE  Moves(S, T, r)
<1>1. /\ IsFiniteSet(S) /\ IsFiniteSet(T)
      /\ Cardinality(S) \in Nat /\ Cardinality(T) \in Nat
  BY AttemptsAssumption, FS_Subset, FS_CardinalityType
<1>2. CASE (r \in S) = (r \in T)
  <2>1. S = T
    BY <1>2
  <2> QED
    BY <1>1, <1>2, <2>1 DEF Moves
<1>3. CASE r \in S /\ r \notin T
  <2>1. T = S \ {r}
    BY <1>3
  <2>2. Cardinality(T) = Cardinality(S) - 1
    BY <1>1, <1>3, <2>1, FS_RemoveElement
  <2> QED
    BY <1>1, <1>3, <2>2 DEF Moves
<1>4. CASE r \notin S /\ r \in T
  <2>1. T = S \cup {r}
    BY <1>4
  <2>2. Cardinality(T) = Cardinality(S) + 1
    BY <1>1, <1>4, <2>1, FS_AddElement
  <2> QED
    BY <1>1, <1>4, <2>2 DEF Moves
<1> QED
  BY <1>2, <1>3, <1>4

\* A set of requests is no larger than Request; without r it is smaller; two that
\* have no request in common are together no larger.
LEMMA RequestBound ==
    ASSUME NEW S \in SUBSET Request
    PROVE  /\ Cardinality(Request) \in Nat /\ Cardinality(S) \in Nat
           /\ Cardinality(S) <= Cardinality(Request)
           /\ \A r \in Request \ S : Cardinality(S) <= Cardinality(Request) - 1
           /\ \A T \in SUBSET Request : S \cap T = {} =>
                 /\ Cardinality(T) \in Nat
                 /\ Cardinality(S) + Cardinality(T) <= Cardinality(Request)
<1>1. IsFiniteSet(Request) /\ Cardinality(Request) \in Nat
  BY AttemptsAssumption, FS_CardinalityType
<1>2. \A T \in SUBSET Request :
         IsFiniteSet(T) /\ Cardinality(T) \in Nat /\ Cardinality(T) <= Cardinality(Request)
  BY <1>1, FS_Subset, FS_CardinalityType
<1>3. ASSUME NEW r \in Request \ S PROVE Cardinality(S) <= Cardinality(Request) - 1
  <2>1. Cardinality(S \cup {r}) = Cardinality(S) + 1
    BY <1>2, FS_AddElement
  <2> QED
    BY <1>1, <1>2, <2>1
<1>4. ASSUME NEW T \in SUBSET Request, S \cap T = {}
      PROVE  Cardinality(S) + Cardinality(T) <= Cardinality(Request)
  <2>1. Cardinality(S \cap T) = 0
    BY <1>4, FS_EmptySet
  <2>2. Cardinality(S \cup T) = Cardinality(S) + Cardinality(T) - Cardinality(S \cap T)
    BY <1>2, FS_Union
  <2> QED
    BY <1>1, <1>2, <2>1, <2>2
<1> QED
  BY <1>1, <1>2, <1>3, <1>4

\* The three sets of requests when one request moves.
LEMMA RequestMoves ==
    ASSUME NEW o \in AllOps, NEW r \in Request,
           \A q \in Request \ {r} : req'[q] = req[q]
    PROVE  /\ Moves(Uncounted(o), Uncounted(o)', r)
           /\ Moves(Deleting(o), Deleting(o)', r)
           /\ Moves(Admitted(o), Admitted(o)', r)
<1>1. Moves(Uncounted(o), Uncounted(o)', r)
  <2>1. \A q \in Request \ {r} : q \in Uncounted(o) <=> q \in Uncounted(o)'
    BY DEF Uncounted
  <2>2. Uncounted(o) \in SUBSET Request /\ Uncounted(o)' \in SUBSET Request
    BY DEF Uncounted
  <2> QED
    BY <2>1, <2>2, OneMoves
<1>2. Moves(Deleting(o), Deleting(o)', r)
  <2>1. \A q \in Request \ {r} : q \in Deleting(o) <=> q \in Deleting(o)'
    BY DEF Deleting
  <2>2. Deleting(o) \in SUBSET Request /\ Deleting(o)' \in SUBSET Request
    BY DEF Deleting
  <2> QED
    BY <2>1, <2>2, OneMoves
<1>3. Moves(Admitted(o), Admitted(o)', r)
  <2>1. \A q \in Request \ {r} : q \in Admitted(o) <=> q \in Admitted(o)'
    BY DEF Admitted
  <2>2. Admitted(o) \in SUBSET Request /\ Admitted(o)' \in SUBSET Request
    BY DEF Admitted
  <2> QED
    BY <2>1, <2>2, OneMoves
<1> QED
  BY <1>1, <1>2, <1>3

\* Products of natural numbers that the bounds below need.
LEMMA Products ==
    ASSUME NEW m \in Nat, NEW x \in Int, NEW y \in Int
    PROVE  /\ m * x \in Int
           /\ m * (x + 1) = m * x + m
           /\ x <= y => m * x <= m * y
           /\ x >= 0 => m * x >= 0
  BY SMT

-----------------------------------------------------------------------------
(* The account of guesses, in numbers: t guesses; a requests admitted, u that  *)
(* are uncounted, d that delete; a count worth c; and n requests that died.    *)

WhenLocked(t, a, n) == t + a <= MaxAttempts * Cardinality(Request) + n
WhenOpen(t, c, u, d, n) ==
    t <= n + c + u + (MaxAttempts - 1) * (Cardinality(Request) - 1 - d)

\* The limit, and what is worth at most one less, times the requests.
LEMMA Limits ==
    ASSUME NEW d \in Nat
    PROVE  /\ Cardinality(Request) \in Nat /\ MaxAttempts \in Nat /\ MaxAttempts - 1 \in Nat
           /\ Cardinality(Request) - 1 - d \in Int
           /\ MaxAttempts * Cardinality(Request) \in Nat
           /\ Cardinality(Request) <= MaxAttempts * Cardinality(Request)
           /\ (MaxAttempts - 1) * (Cardinality(Request) - 1 - d) \in Int
           /\ (MaxAttempts - 1) + (MaxAttempts - 1) * (Cardinality(Request) - 1 - d)
                + Cardinality(Request) <= MaxAttempts * Cardinality(Request)
<1> DEFINE N == Cardinality(Request)
           m == MaxAttempts - 1
<1>1. N \in Nat
  BY AttemptsAssumption, FS_CardinalityType
<1>2. m \in Nat /\ MaxAttempts = m + 1
  BY AttemptsAssumption
<1> HIDE DEF N, m
<1>3. /\ m * (N - 1 - d) \in Int /\ (m + 1) * N \in Nat
      /\ m + m * (N - 1 - d) + N <= (m + 1) * N
  <2>1. m * (N - 1 - d) \in Int
    BY <1>1, <1>2, Products
  <2>2. m * (N - 1 - d) + m = m * (N - d) /\ m * (N - d) <= m * N
    BY <1>1, <1>2, SMT
  <2>3. (m + 1) * N = m * N + N /\ (m + 1) * N \in Nat
    BY <1>1, <1>2, SMT
  <2> QED
    BY <1>1, <1>2, <2>1, <2>2, <2>3
<1>4. N <= (m + 1) * N
  BY <1>1, <1>2, SMT
<1> QED
  BY <1>1, <1>2, <1>3, <1>4 DEF N, m

\* The fewer requests still delete, the more guesses may have been lost.
LEMMA FewerDelete ==
    ASSUME NEW d \in Nat, NEW d1 \in Nat, d1 <= d
    PROVE  /\ (MaxAttempts - 1) * (Cardinality(Request) - 1 - d) \in Int
           /\ (MaxAttempts - 1) * (Cardinality(Request) - 1 - d1) \in Int
           /\ (MaxAttempts - 1) * (Cardinality(Request) - 1 - d)
                <= (MaxAttempts - 1) * (Cardinality(Request) - 1 - d1)
<1> DEFINE N == Cardinality(Request)
<1>1. MaxAttempts - 1 \in Nat /\ N \in Nat
  BY Limits
<1>2. N - 1 - d \in Int /\ N - 1 - d1 \in Int /\ N - 1 - d <= N - 1 - d1
  BY <1>1
<1> QED
  BY <1>1, <1>2, Products

\* A wrong guess is uncounted at first.
LEMMA OpenWrong ==
    ASSUME NEW t \in Nat, NEW c \in Nat, NEW u \in Nat, NEW d \in Nat, NEW n \in Nat,
           t = 0 \/ WhenOpen(t, c, u, d, n), d <= Cardinality(Request) - 1
    PROVE  WhenOpen(t + 1, c, u + 1, d, n)
<1> DEFINE N == Cardinality(Request)
<1>1. MaxAttempts - 1 \in Nat /\ N - 1 - d \in Int /\ N - 1 - d >= 0
  <2>1. N \in Nat /\ MaxAttempts - 1 \in Nat
    BY Limits
  <2> QED
    BY <2>1
<1>2. (MaxAttempts - 1) * (N - 1 - d) \in Int /\ (MaxAttempts - 1) * (N - 1 - d) >= 0
  BY <1>1, Products
<1> QED
  BY <1>2 DEF WhenOpen

\* Under the lock a wrong guess comes from a request that was admitted before.
LEMMA LockedWrong ==
    ASSUME NEW t \in Nat, NEW a \in Nat, NEW n \in Nat, a # 0,
           t = 0 \/ WhenLocked(t, a, n), a <= Cardinality(Request)
    PROVE  WhenLocked(t + 1, a - 1, n)
<1>1. /\ Cardinality(Request) \in Nat /\ MaxAttempts * Cardinality(Request) \in Nat
      /\ Cardinality(Request) <= MaxAttempts * Cardinality(Request)
  BY Limits
<1> QED
  BY <1>1 DEF WhenLocked

\* The lock is set: whoever is admitted now is not uncounted.
LEMMA OpenLocks ==
    ASSUME NEW t \in Nat, NEW c \in Nat, NEW u \in Nat, NEW d \in Nat, NEW n \in Nat,
           NEW a \in Nat,
           WhenOpen(t, c, u, d, n), c <= MaxAttempts - 1, u + a <= Cardinality(Request)
    PROVE  WhenLocked(t, a, n)
<1> DEFINE N == Cardinality(Request)
<1>1. /\ N \in Nat /\ MaxAttempts - 1 \in Nat /\ MaxAttempts * N \in Nat
      /\ (MaxAttempts - 1) * (N - 1 - d) \in Int
      /\ (MaxAttempts - 1) + (MaxAttempts - 1) * (N - 1 - d) + N <= MaxAttempts * N
  BY Limits
<1> QED
  BY <1>1 DEF WhenOpen, WhenLocked

\* The count is deleted, by one of the requests that delete.
LEMMA OpenDeletes ==
    ASSUME NEW t \in Nat, NEW c \in Nat, NEW u \in Nat, NEW d \in Nat, NEW n \in Nat,
           WhenOpen(t, c, u, d, n), c <= MaxAttempts - 1, d # 0
    PROVE  WhenOpen(t, 0, u, d - 1, n)
<1> DEFINE N == Cardinality(Request)
<1>1. MaxAttempts - 1 \in Nat /\ N - 1 - d \in Int /\ N \in Nat
  BY Limits
<1>2. /\ (MaxAttempts - 1) * (N - 1 - d) \in Int
      /\ (MaxAttempts - 1) * ((N - 1 - d) + 1)
           = (MaxAttempts - 1) * (N - 1 - d) + (MaxAttempts - 1)
  BY <1>1, Products
<1>3. N - 1 - (d - 1) = (N - 1 - d) + 1
  BY <1>1
<1> QED
  BY <1>1, <1>2, <1>3 DEF WhenOpen

-----------------------------------------------------------------------------
(* The guesses are accounted for: what each kind of step does to the account *)

\* The sizes of the three sets are natural numbers, and so is the worth of a count.
LEMMA Sizes ==
    ASSUME TypeOK, NEW o \in AllOps
    PROVE  /\ Cardinality(Request) \in Nat
           /\ Cardinality(Uncounted(o)) \in Nat
           /\ Cardinality(Deleting(o)) \in Nat
           /\ Cardinality(Admitted(o)) \in Nat
           /\ <<o, "account">> \in Key
           /\ fails[<<o, "account">>] \in Nat
           /\ Low(fails[<<o, "account">>]) \in Nat
           /\ Low(fails[<<o, "account">>]) <= MaxAttempts - 1
           /\ deaths \in Nat /\ tries[o] \in Nat
<1>1. /\ Uncounted(o) \in SUBSET Request /\ Deleting(o) \in SUBSET Request
      /\ Admitted(o) \in SUBSET Request
  BY DEF Uncounted, Deleting, Admitted
<1>2. <<o, "account">> \in Key
  BY DEF Key
<1> QED
  BY <1>1, <1>2, RequestBound, AttemptsAssumption DEF TypeOK, Low, AtLimit

\* The same after a step.
LEMMA SizesNext ==
    ASSUME TypeOK', NEW o \in AllOps
    PROVE  /\ Cardinality(Uncounted(o)') \in Nat
           /\ Cardinality(Deleting(o)') \in Nat
           /\ Cardinality(Admitted(o)') \in Nat
           /\ fails'[<<o, "account">>] \in Nat
           /\ Low(fails'[<<o, "account">>]) \in Nat
           /\ deaths' \in Nat /\ tries'[o] \in Nat
<1>1. /\ Uncounted(o)' \in SUBSET Request /\ Deleting(o)' \in SUBSET Request
      /\ Admitted(o)' \in SUBSET Request
  BY DEF Uncounted, Deleting, Admitted
<1>2. <<o, "account">> \in Key
  BY DEF Key
<1> QED
  BY <1>1, <1>2, RequestBound, AttemptsAssumption DEF TypeOK, Low, AtLimit

\* A step that adds no guess and lets no request in, and hides none: what leaves
\* the uncounted guesses enters the count or the deaths.
LEMMA QuietStep ==
    ASSUME TypeOK, TypeOK', NEW o \in AllOps, GuessesAccounted(o),
           tries'[o] <= tries[o],
           <<o, "account">> \in lock' <=> <<o, "account">> \in lock,
           deaths <= deaths',
           deaths + Low(fails[<<o, "account">>]) + Cardinality(Uncounted(o))
             <= deaths' + Low(fails'[<<o, "account">>]) + Cardinality(Uncounted(o)'),
           Cardinality(Deleting(o)') <= Cardinality(Deleting(o)),
           <<o, "account">> \in lock =>
               Cardinality(Admitted(o)') <= Cardinality(Admitted(o))
    PROVE  GuessesAccounted(o)'
<1> DEFINE k == <<o, "account">>
<1>1. CASE k \in lock
  <2>1. MaxAttempts * Cardinality(Request) \in Nat
    BY Limits
  <2> QED
    BY <1>1, <2>1, Sizes, SizesNext DEF GuessesAccounted
<1>2. CASE k \notin lock
  <2>1. /\ tries[o] \in Nat /\ Low(fails[k]) \in Nat /\ deaths \in Nat
        /\ Cardinality(Uncounted(o)) \in Nat /\ Cardinality(Deleting(o)) \in Nat
    BY Sizes
  <2>2. /\ tries'[o] \in Nat /\ Low(fails'[k]) \in Nat /\ deaths' \in Nat
        /\ Cardinality(Uncounted(o)') \in Nat /\ Cardinality(Deleting(o)') \in Nat
    BY SizesNext
  <2> QED
    BY <1>2, <2>1, <2>2, FewerDelete DEF GuessesAccounted
<1> QED
  BY <1>1, <1>2

\* A request that moves and neither guesses nor touches the account's count:
\* it stays uncounted, or it dies.
LEMMA QuietMove ==
    ASSUME TypeOK, TypeOK', NEW o \in AllOps, NEW r \in Request, GuessesAccounted(o),
           \A q \in Request \ {r} : req'[q] = req[q],
           tries'[o] <= tries[o],
           <<o, "account">> \in lock' <=> <<o, "account">> \in lock,
           fails'[<<o, "account">>] = fails[<<o, "account">>],
           deaths <= deaths',
           r \in Uncounted(o) => r \in Uncounted(o)' \/ deaths' = deaths + 1,
           r \in Deleting(o)' => r \in Deleting(o),
           r \in Admitted(o)' => r \in Admitted(o) \/ <<o, "account">> \notin lock
    PROVE  GuessesAccounted(o)'
<1>1. /\ Moves(Uncounted(o), Uncounted(o)', r)
      /\ Moves(Deleting(o), Deleting(o)', r)
      /\ Moves(Admitted(o), Admitted(o)', r)
  BY RequestMoves
<1>2. deaths \in Nat /\ deaths' \in Nat /\ Low(fails[<<o, "account">>]) \in Nat
  BY Sizes, SizesNext
<1>3. Cardinality(Deleting(o)') <= Cardinality(Deleting(o))
  BY <1>1 DEF Moves
<1>4. <<o, "account">> \in lock => Cardinality(Admitted(o)') <= Cardinality(Admitted(o))
  BY <1>1 DEF Moves
<1>5. deaths + Low(fails[<<o, "account">>]) + Cardinality(Uncounted(o))
        <= deaths' + Low(fails'[<<o, "account">>]) + Cardinality(Uncounted(o)')
  BY <1>1, <1>2 DEF Moves
<1> QED
  BY <1>3, <1>4, <1>5, QuietStep

\* Wrong: one more guess and one more that is not counted.
LEMMA WrongAccounted ==
    ASSUME TypeOK, TypeOK', NEW o \in AllOps, NEW r \in Request,
           tries[o] = 0 \/ GuessesAccounted(o), Wrong(r), req[r].op = o, user # "none"
    PROVE  GuessesAccounted(o)'
<1> DEFINE k == <<o, "account">>
           N == Cardinality(Request)
<1>1. req[r] \in Running
  BY RunningType DEF Wrong
<1>2. /\ Moves(Uncounted(o), Uncounted(o)', r)
      /\ Moves(Deleting(o), Deleting(o)', r)
      /\ Moves(Admitted(o), Admitted(o)', r)
  <2>1. \A q \in Request \ {r} : req'[q] = req[q]
    BY DEF Wrong, Goto, TypeOK
  <2> QED
    BY <2>1, RequestMoves
<1>3. /\ req'[r].pc = "incr" /\ req'[r].op = o /\ req'[r] # Idle
      /\ req'[r].on \in {"address", "account"}
  BY <1>1 DEF Wrong, Goto, TypeOK, Running, Idle
<1>4. /\ r \notin Uncounted(o) /\ r \in Uncounted(o)'
      /\ r \notin Deleting(o) /\ r \notin Deleting(o)'
      /\ r \in Admitted(o) /\ r \notin Admitted(o)'
  BY <1>1, <1>3 DEF Wrong, Uncounted, Deleting, Admitted, Running, Idle
<1>5. tries'[o] = tries[o] + 1 /\ UNCHANGED <<fails, lock, deaths>>
  BY DEF Wrong, TypeOK, redis
<1>6. Cardinality(Deleting(o)) <= N - 1 /\ Cardinality(Admitted(o)) <= N /\ N \in Nat
  <2>1. Deleting(o) \in SUBSET Request /\ Admitted(o) \in SUBSET Request
    BY DEF Deleting, Admitted
  <2> QED
    BY <1>4, <2>1, RequestBound
<1>7. CASE k \in lock
  <2>1. WhenLocked(tries[o] + 1, Cardinality(Admitted(o)) - 1, deaths)
    <3>1. tries[o] = 0 \/ WhenLocked(tries[o], Cardinality(Admitted(o)), deaths)
      BY <1>7 DEF GuessesAccounted, WhenLocked
    <3>2. Cardinality(Admitted(o)) # 0
      BY <1>2, <1>4 DEF Moves
    <3> QED
      BY <1>6, <3>1, <3>2, Sizes, LockedWrong
  <2>2. Cardinality(Admitted(o)') = Cardinality(Admitted(o)) - 1
    BY <1>2, <1>4 DEF Moves
  <2> QED
    BY <1>5, <1>7, <2>1, <2>2 DEF GuessesAccounted, WhenLocked
<1>8. CASE k \notin lock
  <2>1. WhenOpen(tries[o] + 1, Low(fails[k]), Cardinality(Uncounted(o)) + 1,
                 Cardinality(Deleting(o)), deaths)
    <3>1. tries[o] = 0 \/ WhenOpen(tries[o], Low(fails[k]), Cardinality(Uncounted(o)),
                                   Cardinality(Deleting(o)), deaths)
      BY <1>8 DEF GuessesAccounted, WhenOpen
    <3> QED
      BY <1>6, <3>1, Sizes, OpenWrong
  <2>2. /\ Cardinality(Uncounted(o)') = Cardinality(Uncounted(o)) + 1
        /\ Cardinality(Deleting(o)') = Cardinality(Deleting(o))
    BY <1>2, <1>4 DEF Moves
  <2> QED
    BY <1>5, <1>8, <2>1, <2>2 DEF GuessesAccounted, WhenOpen
<1> QED
  BY <1>7, <1>8

\* Incr of the account's count: the guess is counted now, or it is at the limit.
LEMMA IncrAccounted ==
    ASSUME TypeOK, TypeOK', NEW o \in AllOps, NEW r \in Request,
           GuessesAccounted(o), Incr(r), req[r].op = o, req[r].on = "account"
    PROVE  GuessesAccounted(o)'
<1> DEFINE k == <<o, "account">>
<1>1. req[r] \in Running /\ KeyOf(r) = k /\ k \in Key
  BY RunningType DEF Incr, KeyOf
<1>2. \A q \in Request \ {r} : req'[q] = req[q]
  BY DEF Incr, Counted, NextRecord, TypeOK
<1>3. /\ Moves(Uncounted(o), Uncounted(o)', r)
      /\ Moves(Deleting(o), Deleting(o)', r)
      /\ Moves(Admitted(o), Admitted(o)', r)
  BY <1>2, RequestMoves
<1>4. fails'[k] = fails[k] + 1 /\ fails[k] \in Nat /\ UNCHANGED <<lock, deaths, tries>>
  BY <1>1 DEF Incr, hist, TypeOK
<1>5. /\ req'[r] # Idle /\ req'[r].op = o /\ req'[r].on = "account"
      /\ req'[r].pc \in {"expire", "lock", "fail"}
      /\ req'[r].pc = "expire" => req'[r].hits = fails'[k]
      /\ req'[r].pc = "fail" => ~AtLimit(fails'[k])
  BY <1>1, <1>4 DEF Incr, Counted, NextRecord, AccountNext, TypeOK, Running, Idle
<1>6. /\ r \in Uncounted(o) /\ (r \in Uncounted(o)' <=> AtLimit(fails'[k]) \/ req'[r].pc = "lock")
      /\ r \notin Deleting(o)'
      /\ r \notin Admitted(o)'
  BY <1>1, <1>5 DEF Incr, Uncounted, Deleting, Admitted, Running, Idle
<1>7. Cardinality(Deleting(o)') <= Cardinality(Deleting(o))
  BY <1>3, <1>6 DEF Moves
<1>8. Cardinality(Admitted(o)') <= Cardinality(Admitted(o))
  BY <1>3, <1>6 DEF Moves
<1>9. deaths + Low(fails[k]) + Cardinality(Uncounted(o))
        <= deaths' + Low(fails'[k]) + Cardinality(Uncounted(o)')
  <2>1. deaths \in Nat /\ deaths' = deaths /\ Low(fails[k]) \in Nat
    BY <1>4, Sizes
  <2>2. CASE r \in Uncounted(o)'
    <3>1. Low(fails[k]) <= Low(fails'[k]) /\ Low(fails'[k]) \in Nat
      BY <1>4, AttemptsAssumption DEF Low, AtLimit
    <3> QED
      BY <1>3, <1>6, <2>1, <2>2, <3>1 DEF Moves
  <2>3. CASE r \notin Uncounted(o)'
    <3>1. Low(fails'[k]) = Low(fails[k]) + 1
      BY <1>4, <1>6, <2>3, AttemptsAssumption DEF Low, AtLimit
    <3> QED
      BY <1>3, <1>6, <2>1, <2>3, <3>1 DEF Moves
  <2> QED
    BY <2>2, <2>3
<1> QED
  BY <1>4, <1>7, <1>8, <1>9, Sizes, QuietStep

\* SetLock of the account: what was uncounted and what was admitted are different
\* requests, so that all of it fits under the limit.
LEMMA SetLockAccounted ==
    ASSUME TypeOK, TypeOK', NEW o \in AllOps, NEW r \in Request,
           GuessesAccounted(o), SetLock(r), req[r].op = o, req[r].on = "account"
    PROVE  GuessesAccounted(o)'
<1> DEFINE k == <<o, "account">>
<1>1. req[r] \in Running /\ KeyOf(r) = k
  BY RunningType DEF SetLock, KeyOf
<1>2. /\ \A q \in Request \ {r} : req'[q] = req[q]
      /\ k \in lock' /\ UNCHANGED <<deaths, tries>>
  BY <1>1 DEF SetLock, Goto, hist, TypeOK
<1>3. /\ req'[r].pc = "delete" /\ req'[r].op = o /\ req'[r].on = "account"
  BY <1>1 DEF SetLock, Goto, TypeOK, Running
<1>4. Moves(Admitted(o), Admitted(o)', r) /\ r \notin Admitted(o)'
  BY <1>2, <1>3, RequestMoves DEF Admitted
<1>5. Cardinality(Admitted(o)') <= Cardinality(Admitted(o))
  BY <1>4 DEF Moves
<1>6. CASE k \in lock
  <2>1. MaxAttempts * Cardinality(Request) \in Nat
    BY Limits
  <2> QED
    BY <1>2, <1>5, <1>6, <2>1, Sizes, SizesNext DEF GuessesAccounted
<1>7. CASE k \notin lock
  <2>1. Cardinality(Uncounted(o)) + Cardinality(Admitted(o)') <= Cardinality(Request)
    <3>1. Uncounted(o) \in SUBSET Request /\ Admitted(o) \in SUBSET Request
      BY DEF Uncounted, Admitted
    <3>2. Uncounted(o) \cap Admitted(o) = {}
      BY DEF Uncounted, Admitted
    <3>3. Cardinality(Uncounted(o)) + Cardinality(Admitted(o)) <= Cardinality(Request)
      BY <3>1, <3>2, RequestBound
    <3>4. /\ Cardinality(Uncounted(o)) \in Nat /\ Cardinality(Admitted(o)) \in Nat
          /\ Cardinality(Request) \in Nat
      BY Sizes
    <3>5. Cardinality(Admitted(o)') \in Nat
      BY SizesNext
    <3> QED
      BY <1>5, <3>3, <3>4, <3>5
  <2>2. WhenOpen(tries[o], Low(fails[k]), Cardinality(Uncounted(o)), Cardinality(Deleting(o)),
                 deaths)
    BY <1>7 DEF GuessesAccounted, WhenOpen
  <2>3. WhenLocked(tries[o], Cardinality(Admitted(o)'), deaths)
    BY <2>1, <2>2, Sizes, SizesNext, OpenLocks
  <2> QED
    BY <1>2, <2>3 DEF GuessesAccounted, WhenLocked
<1> QED
  BY <1>6, <1>7

\* DeleteFails of the account: the guesses in the count are lost, fewer than the
\* limit, and so is one of the requests that delete.
LEMMA DeleteAccounted ==
    ASSUME TypeOK, TypeOK', NEW o \in AllOps, NEW r \in Request,
           GuessesAccounted(o), DeleteFails(r), req[r].op = o, req[r].on = "account"
    PROVE  GuessesAccounted(o)'
<1> DEFINE k == <<o, "account">>
<1>1. req[r] \in Running /\ KeyOf(r) = k /\ k \in Key
  BY RunningType DEF DeleteFails, KeyOf
<1>2. /\ \A q \in Request \ {r} : req'[q] = req[q]
      /\ fails'[k] = 0 /\ UNCHANGED <<lock, deaths, tries>>
  BY <1>1 DEF DeleteFails, NextRecord, hist, TypeOK
<1>3. req'[r].pc = "fail" /\ req'[r].on = "account"
  BY <1>1 DEF DeleteFails, NextRecord, AccountNext, TypeOK, Running
<1>4. /\ Moves(Uncounted(o), Uncounted(o)', r)
      /\ Moves(Deleting(o), Deleting(o)', r)
      /\ Moves(Admitted(o), Admitted(o)', r)
  BY <1>2, RequestMoves
<1>5. /\ r \notin Uncounted(o) /\ r \notin Uncounted(o)'
      /\ r \in Deleting(o) /\ r \notin Deleting(o)' /\ r \notin Admitted(o)'
  BY <1>1, <1>3 DEF DeleteFails, Uncounted, Deleting, Admitted, Running, Idle
<1>6. Cardinality(Admitted(o)') <= Cardinality(Admitted(o))
  BY <1>4, <1>5 DEF Moves
<1>7. CASE k \in lock
  <2>1. MaxAttempts * Cardinality(Request) \in Nat
    BY Limits
  <2> QED
    BY <1>2, <1>6, <1>7, <2>1, Sizes, SizesNext DEF GuessesAccounted
<1>8. CASE k \notin lock
  <2>1. WhenOpen(tries[o], Low(fails[k]), Cardinality(Uncounted(o)), Cardinality(Deleting(o)),
                 deaths)
    BY <1>8 DEF GuessesAccounted, WhenOpen
  <2>2. /\ Cardinality(Deleting(o)') = Cardinality(Deleting(o)) - 1
        /\ Cardinality(Deleting(o)) # 0
        /\ Cardinality(Uncounted(o)') = Cardinality(Uncounted(o))
    BY <1>4, <1>5 DEF Moves
  <2>3. WhenOpen(tries[o], 0, Cardinality(Uncounted(o)), Cardinality(Deleting(o)) - 1, deaths)
    BY <2>1, <2>2, Sizes, OpenDeletes
  <2>4. Low(fails'[k]) = 0
    BY <1>2, AttemptsAssumption DEF Low, AtLimit
  <2> QED
    BY <1>2, <1>8, <2>2, <2>3, <2>4 DEF GuessesAccounted, WhenOpen
<1> QED
  BY <1>7, <1>8

-----------------------------------------------------------------------------

\* A request that has loaded the users row knows whether there is an account, and
\* there are no guesses at the password of none.
LEMMA NextLoaded ==
    ASSUME TypeOK, TypeOK', GuessInv, [Next]_vars
    PROVE  /\ \A r \in Request : Loaded(r)' /\ user' # "none" => req'[r].seen # "none"
           /\ user' = "none" => \A o \in AllOps : tries'[o] = 0
<1>1. user' = user
  BY DEF Next, WindowPasses, LockExpires, Begin, GetByEmail, AssertNotLocked, Right,
         Wrong, Incr, Expire, SetLock, DeleteFails, FailCommit, ClearFailures,
         CommitLogin, CommitReset, Die, vars
<1>2. user' = "none" => \A o \in AllOps : tries'[o] = 0
  <2> SUFFICES ASSUME user = "none" PROVE \A o \in AllOps : tries'[o] = 0
    BY <1>1
  <2>1. \A o \in AllOps : tries[o] = 0
    BY DEF GuessInv
  <2>2. ASSUME NEW k \in Key, WindowPasses(k) \/ LockExpires(k)
        PROVE  \A o \in AllOps : tries'[o] = 0
    BY <2>1, <2>2 DEF WindowPasses, LockExpires, Anew, Key, TypeOK
  <2>3. ASSUME NEW r \in Request, Wrong(r) PROVE \A o \in AllOps : tries'[o] = 0
    BY <2>1, <2>3 DEF Wrong, TypeOK
  <2>4. ASSUME NEW r \in Request, ClearFailures(r) PROVE \A o \in AllOps : tries'[o] = 0
    <3>1. KeyOf(r) \in Key
      BY <2>4, RunningType DEF ClearFailures
    <3> QED
      BY <2>1, <2>4, <3>1 DEF ClearFailures, Anew, TypeOK, Key
  <2>5. ASSUME NEW r \in Request, CommitReset(r) PROVE \A o \in AllOps : tries'[o] = 0
    BY <2>1, <2>5 DEF CommitReset, TypeOK
  <2>6. ASSUME tries' = tries PROVE \A o \in AllOps : tries'[o] = 0
    BY <2>1, <2>6
  <2> QED
    BY <2>2, <2>3, <2>4, <2>5, <2>6 DEF Next, Begin, GetByEmail, AssertNotLocked, Right,
       Incr, Expire, SetLock, DeleteFails, FailCommit, CommitLogin, Die, vars, hist
<1>3. \A r \in Request : Loaded(r)' /\ user' # "none" => req'[r].seen # "none"
  <2> SUFFICES ASSUME user # "none", NEW q \in Request, Loaded(q)'
               PROVE  req'[q].seen # "none"
    BY <1>1
  <2>0. Loaded(q) => req[q].seen # "none"
    BY DEF GuessInv
  <2>1. CASE req'[q] = req[q]
    BY <2>0, <2>1 DEF Loaded
  <2>2. ASSUME req'[q] # req[q], req'[q] # Idle,
               NEW o \in AllOps, NEW a \in Address, Begin(q, o, a)
        PROVE  req'[q].seen # "none"
    BY <2>2 DEF Begin, Loaded, TypeOK, Idle, AllOps
  <2>3. ASSUME req'[q] # Idle, GetByEmail(q) PROVE req'[q].seen # "none"
    <3>1. req[q] \in Running
      BY <2>3, RunningType DEF GetByEmail
    <3> QED
      BY <2>3, <3>1 DEF GetByEmail, Done, TypeOK, Running
  <2>4. ASSUME req'[q] # Idle, AssertNotLocked(q) PROVE req'[q].seen # "none"
    <3>1. req[q] \in Running
      BY <2>4, RunningType DEF AssertNotLocked
    <3>2. req'[q].seen = req[q].seen /\ req'[q].op = req[q].op /\ req'[q].pc \in {"assert", "guess", "load"}
      BY <2>4, <3>1 DEF AssertNotLocked, Done, TypeOK, Running
    <3>3. req'[q].pc = "guess" => req[q].op = "login"
      BY <2>4, <3>1 DEF AssertNotLocked, Done, TypeOK, Running
    <3>4. req[q].op = "login"
      BY <3>1, <3>2, <3>3 DEF Loaded, Running, AllOps
    <3> QED
      BY <2>0, <2>4, <3>1, <3>2, <3>4 DEF Loaded, AssertNotLocked, Idle, Running
  <2>5. ASSUME req'[q] # Idle,
               Right(q) \/ Wrong(q) \/ Incr(q) \/ Expire(q) \/ SetLock(q) \/ DeleteFails(q)
                 \/ FailCommit(q) \/ ClearFailures(q) \/ CommitLogin(q) \/ CommitReset(q)
                 \/ Die(q)
        PROVE  req'[q].seen # "none"
    <3>1. req[q].pc \notin {"load", "assert", "idle"}
      BY <2>5 DEF Right, Wrong, Incr, Expire, SetLock, DeleteFails, FailCommit,
           ClearFailures, CommitLogin, CommitReset, Die, Done, TypeOK
    <3>2. req[q] \in Running
      BY <3>1, RunningType
    <3>3. Loaded(q)
      BY <3>1, <3>2 DEF Loaded, Idle, Running
    <3>4. req'[q].seen = req[q].seen
      BY <2>5, <3>2 DEF Right, Wrong, Incr, Counted, NextRecord, Expire, SetLock,
           DeleteFails, FailCommit, ClearFailures, CommitLogin, CommitReset, Die, Done,
           Goto, TypeOK, Running
    <3> QED
      BY <2>0, <3>3, <3>4
  <2>6. req'[q] # Idle
    BY DEF Loaded
  <2>7. ASSUME NEW r \in Request, r # q,
               \/ \E o \in AllOps, a \in Address : Begin(r, o, a)
               \/ GetByEmail(r) \/ AssertNotLocked(r) \/ Right(r) \/ Wrong(r)
               \/ Incr(r) \/ Expire(r) \/ SetLock(r) \/ DeleteFails(r) \/ FailCommit(r)
               \/ ClearFailures(r) \/ CommitLogin(r) \/ CommitReset(r) \/ Die(r)
        PROVE  req'[q] = req[q]
    <3>1. req \in [Request -> Running \cup {Idle}]
      BY DEF TypeOK
    <3> QED
      BY <2>7, <3>1 DEF Begin, GetByEmail, AssertNotLocked, Right, Wrong, Incr, Counted,
         NextRecord, Expire, SetLock, DeleteFails, FailCommit, ClearFailures, CommitLogin,
         CommitReset, Die, Done, Goto
  <2>8. ASSUME NEW k \in Key, WindowPasses(k) \/ LockExpires(k) PROVE req'[q] = req[q]
    BY <2>8 DEF WindowPasses, LockExpires
  <2>9. ASSUME UNCHANGED vars PROVE req'[q] = req[q]
    BY <2>9 DEF vars
  <2> QED
    BY <2>1, <2>2, <2>3, <2>4, <2>5, <2>6, <2>7, <2>8, <2>9 DEF Next
<1> QED
  BY <1>2, <1>3

\* Every step keeps the guesses at o accounted for, where it does not begin anew.
LEMMA NextAccounted ==
    ASSUME TypeOK, TypeOK', GuessInv, [Next]_vars, NEW o \in AllOps, tries'[o] # 0
    PROVE  GuessesAccounted(o)'
<1> DEFINE k == <<o, "account">>
<1>0. /\ k \in Key /\ deaths \in Nat /\ tries[o] \in Nat
      /\ req \in [Request -> Running \cup {Idle}] /\ fails \in [Key -> Nat]
  BY Sizes DEF TypeOK
<1>1. tries[o] = 0 \/ GuessesAccounted(o)
  BY DEF GuessInv
<1>2. ASSUME NEW j \in Key, WindowPasses(j) PROVE GuessesAccounted(o)'
  <2>1. j # k /\ tries'[o] = tries[o]
    BY <1>0, <1>2 DEF WindowPasses, Anew, TypeOK, Key
  <2>2. /\ Uncounted(o)' = Uncounted(o) /\ Deleting(o)' = Deleting(o)
        /\ Admitted(o)' = Admitted(o)
    BY <1>2 DEF WindowPasses, Uncounted, Deleting, Admitted
  <2>3. fails'[k] = fails[k] /\ lock' = lock /\ deaths' = deaths
    BY <1>0, <1>2, <2>1 DEF WindowPasses
  <2> QED
    BY <1>1, <2>1, <2>2, <2>3 DEF GuessesAccounted
<1>3. ASSUME NEW j \in Key, LockExpires(j) PROVE GuessesAccounted(o)'
  <2>1. j # k /\ tries'[o] = tries[o]
    BY <1>0, <1>3 DEF LockExpires, Anew, TypeOK, Key
  <2>2. /\ Uncounted(o)' = Uncounted(o) /\ Deleting(o)' = Deleting(o)
        /\ Admitted(o)' = Admitted(o)
    BY <1>3 DEF LockExpires, Uncounted, Deleting, Admitted
  <2>3. fails' = fails /\ (k \in lock' <=> k \in lock) /\ deaths' = deaths
    BY <1>3, <2>1 DEF LockExpires
  <2> QED
    BY <1>1, <2>1, <2>2, <2>3 DEF GuessesAccounted
<1>4. ASSUME NEW r \in Request, NEW p \in AllOps, NEW a \in Address, Begin(r, p, a)
      PROVE  GuessesAccounted(o)'
  <2>1. /\ \A q \in Request \ {r} : req'[q] = req[q]
        /\ UNCHANGED <<fails, lock, tries, deaths>>
    BY <1>0, <1>4 DEF Begin, redis, hist
  <2>2. r \notin Uncounted(o) /\ r \notin Deleting(o)' /\ r \notin Admitted(o)'
    BY <1>0, <1>4 DEF Begin, Uncounted, Deleting, Admitted, AllOps
  <2> QED
    BY <1>0, <1>1, <2>1, <2>2, QuietMove
<1>5. ASSUME NEW r \in Request, GetByEmail(r) PROVE GuessesAccounted(o)'
  <2>0. req[r] \in Running
    BY <1>5, RunningType DEF GetByEmail
  <2>1. /\ \A q \in Request \ {r} : req'[q] = req[q]
        /\ UNCHANGED <<fails, lock, tries, deaths>>
    BY <1>0, <1>5 DEF GetByEmail, Done, redis, hist
  <2>2. /\ r \notin Uncounted(o) /\ r \notin Deleting(o)'
        /\ r \in Admitted(o)' => r \in Admitted(o)
    BY <1>0, <1>5, <2>0 DEF GetByEmail, Done, Uncounted, Deleting, Admitted, Idle, Running, AllOps
  <2> QED
    BY <1>0, <1>1, <2>1, <2>2, QuietMove
<1>6. ASSUME NEW r \in Request, AssertNotLocked(r) PROVE GuessesAccounted(o)'
  <2>0. req[r] \in Running
    BY <1>6, RunningType DEF AssertNotLocked
  <2>1. /\ \A q \in Request \ {r} : req'[q] = req[q]
        /\ UNCHANGED <<fails, lock, tries, deaths>>
    BY <1>0, <1>6 DEF AssertNotLocked, Done, redis, hist
  <2>2. r \notin Uncounted(o) /\ r \notin Deleting(o)'
    BY <1>0, <1>6, <2>0 DEF AssertNotLocked, Done, Uncounted, Deleting, Idle, Running
  <2>3. ASSUME r \in Admitted(o)' PROVE k \notin lock
    <3>1. req'[r] # Idle /\ req'[r].op = o /\ req'[r].pc \in {"guess", "load"}
      BY <2>3 DEF Admitted
    <3>2. req[r].op = o /\ ~AccountNext(r) /\ KeyOf(r) \notin lock
      BY <1>0, <1>6, <2>0, <3>1 DEF AssertNotLocked, Done, Running, Idle
    <3>3. user # "none"
      BY <1>0, <1>1, <2>1 DEF GuessInv
    <3>4. req[r].op = "login" => req[r].seen # "none"
      BY <1>6, <2>0, <3>3 DEF GuessInv, Loaded, AssertNotLocked, Idle, Running
    <3>5. req[r].on = "account"
      BY <2>0, <3>2, <3>4 DEF AccountNext, Running, AllOps
    <3> QED
      BY <3>2, <3>5 DEF KeyOf
  <2> QED
    BY <1>0, <1>1, <2>1, <2>2, <2>3, QuietMove
<1>7. ASSUME NEW r \in Request, Right(r) PROVE GuessesAccounted(o)'
  <2>0. req[r] \in Running
    BY <1>7, RunningType DEF Right
  <2>1. /\ \A q \in Request \ {r} : req'[q] = req[q]
        /\ UNCHANGED <<fails, lock, tries, deaths>>
    BY <1>0, <1>7 DEF Right, Done, Goto, redis, hist
  <2>2. r \notin Uncounted(o) /\ r \notin Deleting(o)' /\ r \notin Admitted(o)'
    BY <1>0, <1>7, <2>0 DEF Right, Done, Goto, Uncounted, Deleting, Admitted, Idle, Running
  <2> QED
    BY <1>0, <1>1, <2>1, <2>2, QuietMove
<1>8. ASSUME NEW r \in Request, Wrong(r) PROVE GuessesAccounted(o)'
  <2>0. req[r] \in Running
    BY <1>8, RunningType DEF Wrong
  <2>1. CASE req[r].op = o
    <3>1. user # "none"
      BY <1>0, <1>8, <2>1 DEF Wrong, GuessInv, TypeOK
    <3> QED
      BY <1>1, <1>8, <2>1, <3>1, WrongAccounted
  <2>2. CASE req[r].op # o
    <3>1. /\ \A q \in Request \ {r} : req'[q] = req[q]
          /\ UNCHANGED <<fails, lock, deaths>> /\ tries'[o] = tries[o]
      BY <1>0, <1>8, <2>2 DEF Wrong, Goto, redis, TypeOK
    <3>2. r \notin Uncounted(o) /\ r \notin Deleting(o)' /\ r \notin Admitted(o)'
      BY <1>0, <1>8, <2>0, <2>2 DEF Wrong, Goto, Uncounted, Deleting, Admitted, Running
    <3> QED
      BY <1>0, <1>1, <3>1, <3>2, QuietMove
  <2> QED
    BY <2>1, <2>2
<1>9. ASSUME NEW r \in Request, Incr(r) PROVE GuessesAccounted(o)'
  <2>0. req[r] \in Running /\ KeyOf(r) \in Key
    BY <1>9, RunningType DEF Incr
  <2>1. GuessesAccounted(o)
    BY <1>1, <1>9 DEF Incr, hist
  <2>2. CASE req[r].op = o /\ req[r].on = "account"
    BY <1>9, <2>1, <2>2, IncrAccounted
  <2>3. CASE ~(req[r].op = o /\ req[r].on = "account")
    <3>1. /\ \A q \in Request \ {r} : req'[q] = req[q]
          /\ UNCHANGED <<lock, deaths, tries>> /\ fails'[k] = fails[k]
      <4>1. KeyOf(r) # k
        BY <2>0, <2>3, LockoutAssumption DEF KeyOf, Running
      <4> QED
        BY <1>0, <1>9, <2>0, <4>1 DEF Incr, Counted, NextRecord, hist
    <3>2. req'[r] # Idle /\ req'[r].op = req[r].op /\ req'[r].pc \in {"expire", "lock", "incr", "fail"}
      BY <1>0, <1>9, <2>0 DEF Incr, Counted, NextRecord, Running, Idle
    <3>3. r \notin Deleting(o)' /\ r \notin Admitted(o)'
      BY <3>2 DEF Deleting, Admitted
    <3>4. ASSUME r \in Uncounted(o) PROVE r \in Uncounted(o)'
      <4>1. req[r].op = o /\ req[r].on = "address"
        BY <2>0, <2>3, <3>4 DEF Uncounted, Running
      <4>2. user # "none"
        BY <1>0, <1>1, <3>1 DEF GuessInv
      <4>3. AccountNext(r)
        BY <1>9, <2>0, <4>1, <4>2 DEF GuessInv, Loaded, AccountNext, Incr, Idle, Running
      <4>4. \/ req'[r].on = "address" /\ req'[r].pc \in {"expire", "lock"}
            \/ req'[r].on = "account" /\ req'[r].pc = "incr"
        BY <1>0, <1>9, <2>0, <4>1, <4>3 DEF Incr, Counted, NextRecord, Running
      <4> QED
        BY <3>2, <4>1, <4>4 DEF Uncounted
    <3> QED
      BY <1>0, <2>1, <3>1, <3>3, <3>4, QuietMove
  <2> QED
    BY <2>2, <2>3
<1>10. ASSUME NEW r \in Request, Expire(r) PROVE GuessesAccounted(o)'
  <2>0. req[r] \in Running
    BY <1>10, RunningType DEF Expire
  <2>1. /\ \A q \in Request \ {r} : req'[q] = req[q]
        /\ UNCHANGED <<fails, lock, deaths, tries>>
    BY <1>0, <1>10, <2>0 DEF Expire, Counted, NextRecord, hist
  <2>2. req'[r] # Idle /\ req'[r].op = req[r].op /\ req'[r].pc \in {"lock", "incr", "fail"}
    BY <1>0, <1>10, <2>0 DEF Expire, Counted, NextRecord, Running, Idle
  <2>3. r \notin Deleting(o)' /\ r \notin Admitted(o)'
    BY <2>2 DEF Deleting, Admitted
  <2>4. ASSUME r \in Uncounted(o) PROVE r \in Uncounted(o)'
    <3>1. CASE req[r].on = "address"
      <4>1. user # "none"
        BY <1>0, <1>1, <2>1 DEF GuessInv
      <4>2. AccountNext(r)
        BY <1>10, <2>0, <3>1, <4>1 DEF GuessInv, Loaded, AccountNext, Expire, Idle, Running
      <4>3. \/ req'[r].on = "address" /\ req'[r].pc = "lock"
            \/ req'[r].on = "account" /\ req'[r].pc = "incr"
        BY <1>0, <1>10, <2>0, <3>1, <4>2 DEF Expire, Counted, NextRecord, Running
      <4> QED
        BY <2>2, <2>4, <4>3 DEF Uncounted
    <3>2. CASE req[r].on = "account"
      <4>1. AtLimit(req[r].hits)
        BY <1>10, <2>4, <3>2 DEF Uncounted, Expire
      <4>2. req'[r].on = "account" /\ req'[r].pc = "lock"
        BY <1>0, <1>10, <2>0, <3>2, <4>1 DEF Expire, Counted, Running
      <4> QED
        BY <2>2, <2>4, <4>2 DEF Uncounted
    <3> QED
      BY <2>0, <3>1, <3>2 DEF Running
  <2> QED
    BY <1>0, <1>1, <2>1, <2>3, <2>4, QuietMove
<1>11. ASSUME NEW r \in Request, SetLock(r) PROVE GuessesAccounted(o)'
  <2>0. req[r] \in Running
    BY <1>11, RunningType DEF SetLock
  <2>1. GuessesAccounted(o)
    BY <1>1, <1>11 DEF SetLock, hist
  <2>2. CASE req[r].op = o /\ req[r].on = "account"
    BY <1>11, <2>1, <2>2, SetLockAccounted
  <2>3. CASE ~(req[r].op = o /\ req[r].on = "account")
    <3>1. KeyOf(r) # k
      BY <2>0, <2>3, LockoutAssumption DEF KeyOf, Running
    <3>2. /\ \A q \in Request \ {r} : req'[q] = req[q]
          /\ UNCHANGED <<fails, deaths, tries>> /\ (k \in lock' <=> k \in lock)
      BY <1>0, <1>11, <3>1 DEF SetLock, Goto, hist
    <3>3. /\ req'[r] # Idle /\ req'[r].op = req[r].op /\ req'[r].on = req[r].on
          /\ req'[r].pc = "delete"
      BY <1>0, <1>11, <2>0 DEF SetLock, Goto, Running, Idle
    <3>4. r \notin Deleting(o)' /\ r \notin Admitted(o)' /\ (r \in Uncounted(o) => r \in Uncounted(o)')
      BY <2>0, <2>3, <3>3 DEF Deleting, Admitted, Uncounted, Running
    <3> QED
      BY <1>0, <2>1, <3>2, <3>4, QuietMove
  <2> QED
    BY <2>2, <2>3
<1>12. ASSUME NEW r \in Request, DeleteFails(r) PROVE GuessesAccounted(o)'
  <2>0. req[r] \in Running /\ KeyOf(r) \in Key
    BY <1>12, RunningType DEF DeleteFails
  <2>1. GuessesAccounted(o)
    BY <1>1, <1>12 DEF DeleteFails, hist
  <2>2. CASE req[r].op = o /\ req[r].on = "account"
    BY <1>12, <2>1, <2>2, DeleteAccounted
  <2>3. CASE ~(req[r].op = o /\ req[r].on = "account")
    <3>1. KeyOf(r) # k
      BY <2>0, <2>3, LockoutAssumption DEF KeyOf, Running
    <3>2. /\ \A q \in Request \ {r} : req'[q] = req[q]
          /\ UNCHANGED <<lock, deaths, tries>> /\ fails'[k] = fails[k]
      BY <1>0, <1>12, <2>0, <3>1 DEF DeleteFails, NextRecord, hist
    <3>3. /\ req'[r] # Idle /\ req'[r].op = req[r].op /\ req'[r].pc \in {"incr", "fail"}
      BY <1>0, <1>12, <2>0 DEF DeleteFails, NextRecord, Running, Idle
    <3>4. r \notin Deleting(o)' /\ r \notin Admitted(o)'
      BY <3>3 DEF Deleting, Admitted
    <3>5. ASSUME r \in Uncounted(o) PROVE r \in Uncounted(o)'
      <4>1. req[r].op = o /\ req[r].on = "address"
        BY <2>0, <2>3, <3>5 DEF Uncounted, Running
      <4>2. user # "none"
        BY <1>0, <1>1, <3>2 DEF GuessInv
      <4>3. AccountNext(r)
        BY <1>12, <2>0, <4>1, <4>2 DEF GuessInv, Loaded, AccountNext, DeleteFails, Idle, Running
      <4>4. req'[r].on = "account" /\ req'[r].pc = "incr"
        BY <1>0, <1>12, <2>0, <4>3 DEF DeleteFails, NextRecord, Running
      <4> QED
        BY <3>3, <4>1, <4>4 DEF Uncounted
    <3> QED
      BY <1>0, <2>1, <3>2, <3>4, <3>5, QuietMove
  <2> QED
    BY <2>2, <2>3
<1>13. ASSUME NEW r \in Request, FailCommit(r) \/ CommitLogin(r) PROVE GuessesAccounted(o)'
  <2>1. /\ \A q \in Request \ {r} : req'[q] = req[q]
        /\ UNCHANGED <<fails, lock, tries, deaths>>
    BY <1>0, <1>13 DEF FailCommit, CommitLogin, Done, redis, hist
  <2>2. r \notin Uncounted(o) /\ r \notin Deleting(o)' /\ r \notin Admitted(o)'
    BY <1>0, <1>13 DEF FailCommit, CommitLogin, Done, Uncounted, Deleting, Admitted
  <2> QED
    BY <1>0, <1>1, <2>1, <2>2, QuietMove
<1>14. ASSUME NEW r \in Request, ClearFailures(r) PROVE GuessesAccounted(o)'
  <2>0. req[r] \in Running /\ KeyOf(r) \in Key
    BY <1>14, RunningType DEF ClearFailures
  <2>1. KeyOf(r) # k /\ tries'[o] = tries[o]
    BY <1>0, <1>14, <2>0 DEF ClearFailures, Anew, Key, TypeOK
  <2>2. /\ \A q \in Request \ {r} : req'[q] = req[q]
        /\ deaths' = deaths /\ (k \in lock' <=> k \in lock) /\ fails'[k] = fails[k]
    BY <1>0, <1>14, <2>0, <2>1 DEF ClearFailures, Goto
  <2>3. r \notin Uncounted(o) /\ r \notin Deleting(o)' /\ r \notin Admitted(o)'
    BY <1>0, <1>14, <2>0 DEF ClearFailures, Goto, Uncounted, Deleting, Admitted, Running
  <2> QED
    BY <1>0, <1>1, <2>1, <2>2, <2>3, QuietMove
<1>15. ASSUME NEW r \in Request, CommitReset(r) PROVE GuessesAccounted(o)'
  <2>1. /\ \A q \in Request \ {r} : req'[q] = req[q]
        /\ UNCHANGED <<fails, lock, deaths>> /\ tries'[o] = tries[o]
    BY <1>0, <1>15 DEF CommitReset, Done, redis, TypeOK
  <2>2. r \notin Uncounted(o) /\ r \notin Deleting(o)' /\ r \notin Admitted(o)'
    BY <1>0, <1>15 DEF CommitReset, Done, Uncounted, Deleting, Admitted
  <2> QED
    BY <1>0, <1>1, <2>1, <2>2, QuietMove
<1>16. ASSUME NEW r \in Request, Die(r) PROVE GuessesAccounted(o)'
  <2>1. /\ \A q \in Request \ {r} : req'[q] = req[q]
        /\ UNCHANGED <<fails, lock, tries>> /\ deaths' = deaths + 1
    BY <1>0, <1>16 DEF Die, Done, redis
  <2>2. r \notin Deleting(o)' /\ r \notin Admitted(o)'
    BY <1>0, <1>16 DEF Die, Done, Deleting, Admitted
  <2> QED
    BY <1>0, <1>1, <2>1, <2>2, QuietMove
<1>17. CASE UNCHANGED vars
  <2>1. /\ Uncounted(o)' = Uncounted(o) /\ Deleting(o)' = Deleting(o)
        /\ Admitted(o)' = Admitted(o)
    BY <1>17 DEF vars, Uncounted, Deleting, Admitted
  <2> QED
    BY <1>1, <1>17, <2>1 DEF vars, redis, hist, GuessesAccounted
<1> QED
  BY <1>2, <1>3, <1>4, <1>5, <1>6, <1>7, <1>8, <1>9, <1>10, <1>11, <1>12, <1>13, <1>14,
     <1>15, <1>16, <1>17 DEF Next

\* The inductive invariant of the guesses holds in every reachable state.
LEMMA GuessInvariance == Spec => [](TypeOK /\ GuessInv)
<1>1. Init => TypeOK /\ GuessInv
  BY InitType DEF Init, GuessInv, Loaded
<1>2. TypeOK /\ GuessInv /\ [Next]_vars => (TypeOK /\ GuessInv)'
  <2> SUFFICES ASSUME TypeOK, GuessInv, [Next]_vars PROVE TypeOK' /\ GuessInv'
    OBVIOUS
  <2>1. TypeOK'
    BY NextType
  <2>2. \A o \in AllOps : tries'[o] = 0 \/ GuessesAccounted(o)'
    BY <2>1, NextAccounted
  <2> QED
    BY <2>1, <2>2, NextLoaded DEF GuessInv
<1> QED
  BY <1>1, <1>2, PTL DEF Spec

\* However the checks of the locks, the guesses, the counts and the deletions of
\* login and reset_password interleave, and whichever requests die, the wrong
\* guesses at a password or a code stay within the limit for each request.
THEOREM GuessesAreBounded == Spec => []BoundedGuesses
<1>1. TypeOK /\ GuessInv => BoundedGuesses
  <2> SUFFICES ASSUME TypeOK, GuessInv, NEW o \in AllOps
               PROVE  tries[o] <= MaxAttempts * Cardinality(Request) + deaths
    BY DEF BoundedGuesses
  <2> DEFINE k == <<o, "account">>
  <2>1. /\ MaxAttempts * Cardinality(Request) \in Nat /\ deaths \in Nat /\ tries[o] \in Nat
        /\ Cardinality(Admitted(o)) \in Nat
    BY Limits, Sizes
  <2>2. CASE tries[o] = 0
    BY <2>1, <2>2
  <2>3. CASE GuessesAccounted(o) /\ k \in lock
    BY <2>1, <2>3 DEF GuessesAccounted
  <2>4. CASE GuessesAccounted(o) /\ k \notin lock
    <3>1. WhenOpen(tries[o], Low(fails[k]), Cardinality(Uncounted(o)),
                   Cardinality(Deleting(o)), deaths)
      BY <2>4 DEF GuessesAccounted, WhenOpen
    <3>2. Cardinality(Uncounted(o)) + 0 <= Cardinality(Request)
      <4>1. Uncounted(o) \in SUBSET Request
        BY DEF Uncounted
      <4> QED
        BY <4>1, RequestBound
    <3>3. WhenLocked(tries[o], 0, deaths)
      BY <3>1, <3>2, Sizes, OpenLocks
    <3> QED
      BY <2>1, <3>3 DEF WhenLocked
  <2> QED
    BY <2>2, <2>3, <2>4 DEF GuessInv
<1> QED
  BY <1>1, GuessInvariance, PTL

-----------------------------------------------------------------------------
(* The second step of the sign-in, module LoginChallenge: its requests are   *)
(* guarded by the same record_failure and clear_failures.  Its state is a    *)
(* state of its own, and nothing below relates it to that of Lockout.        *)

\* A request that is not idle, and the pair it is about.
LEMMA VerifyingType ==
    ASSUME ChallengeTypeOK, NEW r \in Request, call[r].pc # "idle"
    PROVE  /\ call[r] \in Call /\ call[r] # NoCall
           /\ call[r].ch \in Challenge /\ call[r].addr \in Address
           /\ CodeKeyOf(r) \in CodeKey
<1>1. call[r] \in Call
  BY DEF ChallengeTypeOK, NoCall
<1>2. call[r] # NoCall
  BY DEF ChallengeTypeOK, NoCall
<1>3. call[r].ch \in Challenge /\ call[r].addr \in Address
  BY <1>1 DEF Call
<1> QED
  BY <1>1, <1>2, <1>3 DEF CodeKeyOf, CodeKey

\* The steps of verify_login_challenge.
Steps == {"assert", "get", "mismatch", "user", "inactive", "verify", "incr", "lock",
          "delete fails", "refuse", "clear", "delete", "commit"}

\* Request r goes on with step p; what was sent with it stays.
Advances(r, p) ==
    /\ call' \in [Request -> Call \cup {NoCall}]
    /\ \A q \in Request \ {r} : call'[q] = call[q]
    /\ call'[r] # NoCall /\ call'[r].pc = p
    /\ call'[r].ch = call[r].ch /\ call'[r].addr = call[r].addr
    /\ call'[r].late = call[r].late /\ call'[r].barred = call[r].barred

\* Goto advances a request and leaves its verdict alone.
LEMMA GotoAdvances ==
    ASSUME ChallengeTypeOK, NEW r \in Request, call[r].pc # "idle",
           NEW p \in Steps, CodeGoto(r, p)
    PROVE  Advances(r, p) /\ call'[r].bad = call[r].bad
<1> DEFINE y == [call[r] EXCEPT !.pc = p]
<1>1. call[r] \in Call
  BY VerifyingType
<1>2. y \in Call
  BY <1>1 DEF Call, Steps
<1>3. /\ y.pc = p /\ y.ch = call[r].ch /\ y.addr = call[r].addr
      /\ y.bad = call[r].bad /\ y.late = call[r].late
      /\ y.barred = call[r].barred
  BY <1>1 DEF Call
<1>4. y # NoCall
  BY <1>3 DEF NoCall, Steps
<1>5. call' = [call EXCEPT ![r] = y]
  BY DEF CodeGoto
<1> HIDE DEF y
<1> QED
  BY <1>2, <1>3, <1>4, <1>5 DEF Advances, ChallengeTypeOK

\* The same where the verdict changes.
LEMMA VerdictAdvances ==
    ASSUME ChallengeTypeOK, NEW r \in Request, call[r].pc # "idle",
           NEW p \in Steps, NEW b \in BOOLEAN,
           call' = [call EXCEPT ![r].bad = b, ![r].pc = p]
    PROVE  Advances(r, p) /\ call'[r].bad = b
<1> DEFINE y == [call[r] EXCEPT !.bad = b, !.pc = p]
<1>1. call[r] \in Call
  BY VerifyingType
<1>2. y \in Call
  BY <1>1 DEF Call, Steps
<1>3. /\ y.pc = p /\ y.ch = call[r].ch /\ y.addr = call[r].addr
      /\ y.bad = b /\ y.late = call[r].late /\ y.barred = call[r].barred
  BY <1>1 DEF Call
<1>4. y # NoCall
  BY <1>3 DEF NoCall, Steps
<1>5. call' = [call EXCEPT ![r] = y]
  OBVIOUS
<1> HIDE DEF y
<1> QED
  BY <1>2, <1>3, <1>4, <1>5 DEF Advances, ChallengeTypeOK

\* Request r ends.
Ends(r) ==
    /\ call' \in [Request -> Call \cup {NoCall}]
    /\ \A q \in Request \ {r} : call'[q] = call[q]
    /\ call'[r] = NoCall

\* Done ends it.
LEMMA DoneEnds ==
    ASSUME ChallengeTypeOK, NEW r \in Request, CodeDone(r) PROVE Ends(r)
  BY DEF ChallengeTypeOK, CodeDone, Ends

\* What each call does to the request that makes it.
LEMMA AssertMoves ==
    ASSUME ChallengeTypeOK, NEW r \in Request, assert_not_locked(r)
    PROVE  /\ call[r].pc = "assert"
           /\ \/ CodeKeyOf(r) \in codeLock /\ Ends(r)
              \/ /\ CodeKeyOf(r) \notin codeLock
                 /\ Advances(r, "get") /\ call'[r].bad = call[r].bad
  BY GotoAdvances, DoneEnds DEF assert_not_locked, Steps


\* The challenge is gone; it is from this address; it is from another.
LEMMA GetMoves ==
    ASSUME ChallengeTypeOK, NEW r \in Request, _get_login_challenge(r)
    PROVE  /\ call[r].pc = "get"
           /\ \/ stored[call[r].ch] = Nothing /\ Ends(r)
              \/ /\ stored[call[r].ch] # Nothing
                 /\ stored[call[r].ch] = call[r].addr
                 /\ Advances(r, "user") /\ call'[r].bad = call[r].bad
              \/ /\ stored[call[r].ch] # Nothing
                 /\ Advances(r, "incr") /\ call'[r].bad = TRUE
<1>1. call[r].pc = "get"
  BY DEF _get_login_challenge
<1>2. CASE stored[call[r].ch] = Nothing
  BY <1>1, <1>2, DoneEnds DEF _get_login_challenge
<1>3. CASE stored[call[r].ch] # Nothing /\ stored[call[r].ch] = call[r].addr
  <2>1. CodeGoto(r, "user")
    BY <1>3 DEF _get_login_challenge, _challenge_context_matches
  <2> QED
    BY <1>1, <1>3, <2>1, GotoAdvances DEF Steps
<1>4. CASE stored[call[r].ch] # Nothing /\ stored[call[r].ch] # call[r].addr
  <2>1. call' = [call EXCEPT ![r].bad = TRUE, ![r].pc = "incr"]
    <3>1. call' = [call EXCEPT ![r].pc = "incr", ![r].bad = TRUE]
      BY <1>4 DEF _get_login_challenge, _challenge_context_matches
    <3>2. call[r] \in Call
      BY <1>1, VerifyingType
    <3>3. [call[r] EXCEPT !.pc = "incr", !.bad = TRUE]
            = [call[r] EXCEPT !.bad = TRUE, !.pc = "incr"]
      BY <3>2 DEF Call
    <3> QED
      BY <3>1, <3>3
  <2>2. Advances(r, "incr") /\ call'[r].bad = TRUE
    BY <1>1, <2>1, VerdictAdvances DEF Steps
  <2> QED
    BY <1>1, <1>4, <2>2
<1> QED
  BY <1>2, <1>3, <1>4


\* An active account and an inactive one.
LEMMA UserMoves ==
    ASSUME ChallengeTypeOK, NEW r \in Request, GetUser(r)
    PROVE  /\ call[r].pc = "user"
           /\ Advances(r, IF active THEN "verify" ELSE "inactive")
           /\ call'[r].bad = call[r].bad
  BY GotoAdvances DEF GetUser, Steps


\* A right code, a wrong one, and what nothing counts.
LEMMA VerifyMoves ==
    ASSUME ChallengeTypeOK, NEW r \in Request, VerifyForLogin(r)
    PROVE  /\ call[r].pc = "verify"
           /\ \/ /\ Advances(r, "clear") /\ call'[r].bad = call[r].bad
                 /\ wrong' = wrong
              \/ /\ Advances(r, "incr") /\ call'[r].bad = call[r].bad
                 /\ wrong' = [wrong EXCEPT ![CodeKeyOf(r)] = @ + 1]
              \/ Ends(r) /\ wrong' = wrong
  BY GotoAdvances, DoneEnds DEF VerifyForLogin, Steps


\* The count is raised.
LEMMA IncrMoves ==
    ASSUME ChallengeTypeOK, NEW r \in Request, CodeIncr(r)
    PROVE  /\ call[r].pc = "incr"
           /\ Advances(r, IF codeFails[CodeKeyOf(r)] + 1 >= MaxAttempts THEN "lock"
                          ELSE AfterRecord(r))
           /\ call'[r].bad = call[r].bad
<1>1. AfterRecord(r) \in Steps
  BY DEF AfterRecord, Steps
<1> QED
  BY <1>1, GotoAdvances DEF CodeIncr, Steps


\* The lock is set.
LEMMA SetLockMoves ==
    ASSUME ChallengeTypeOK, NEW r \in Request, CodeSetLock(r)
    PROVE  /\ call[r].pc = "lock" /\ Advances(r, "delete fails")
           /\ call'[r].bad = call[r].bad
  BY GotoAdvances DEF CodeSetLock, Steps


\* The count is deleted.
LEMMA DeleteFailsMoves ==
    ASSUME ChallengeTypeOK, NEW r \in Request, CodeDeleteFails(r)
    PROVE  /\ call[r].pc = "delete fails" /\ Advances(r, AfterRecord(r))
           /\ call'[r].bad = call[r].bad
<1>1. AfterRecord(r) \in Steps
  BY DEF AfterRecord, Steps
<1> QED
  BY <1>1, GotoAdvances DEF CodeDeleteFails, Steps


\* The count and the lock are cleared.
LEMMA ClearMoves ==
    ASSUME ChallengeTypeOK, NEW r \in Request, clear_failures(r)
    PROVE  /\ call[r].pc = "clear" /\ Advances(r, "delete")
           /\ call'[r].bad = call[r].bad
  BY GotoAdvances DEF clear_failures, Steps


\* The challenge is deleted; only the request that signs in is not refused.
LEMMA DeleteMoves ==
    ASSUME ChallengeTypeOK, NEW r \in Request, _delete_login_challenge(r)
    PROVE  /\ call[r].pc \in {"mismatch", "inactive", "delete"}
           /\ Advances(r, "commit")
           /\ call[r].pc = "delete" => call'[r].bad = FALSE
           /\ call[r].pc # "delete" => call'[r].bad = TRUE
<1>1. call[r].pc \in {"mismatch", "inactive", "delete"}
  BY DEF _delete_login_challenge
<1>2. CASE call[r].pc = "delete"
  <2>1. call' = [call EXCEPT ![r].bad = FALSE, ![r].pc = "commit"]
    BY <1>2 DEF _delete_login_challenge
  <2> QED
    BY <1>2, <2>1, VerdictAdvances DEF Steps
<1>3. CASE call[r].pc # "delete"
  <2>1. call' = [call EXCEPT ![r].bad = TRUE, ![r].pc = "commit"]
    BY <1>3 DEF _delete_login_challenge
  <2>2. Advances(r, "commit") /\ call'[r].bad = TRUE
    BY <1>1, <2>1, VerdictAdvances DEF Steps
  <2> QED
    BY <1>1, <1>3, <2>2
<1> QED
  BY <1>2, <1>3


\* A new request: nothing of the verdict is known.
LEMMA BeginMoves ==
    ASSUME ChallengeTypeOK, NEW c \in Challenge, NEW a \in Address, NEW u \in Agent,
           NEW r \in Request, CodeBegin(r, c, a, u)
    PROVE  /\ call' \in [Request -> Call \cup {NoCall}]
           /\ \A q \in Request \ {r} : call'[q] = call[q]
           /\ call[r] = NoCall
           /\ call'[r].pc = "assert" /\ call'[r].ch = c /\ call'[r].addr = a
           /\ ~call'[r].bad
           /\ call'[r].late = (c \in over) /\ call'[r].barred = ~active
<1> DEFINE y(l, b) == [pc |-> "assert", ch |-> c, addr |-> a, agent |-> u,
                       bad |-> FALSE, late |-> l, barred |-> b]
<1>1. ASSUME NEW l \in BOOLEAN, NEW b \in BOOLEAN PROVE y(l, b) \in Call
  BY <1>1 DEF Call
<1>2. \A l, b \in BOOLEAN :
         /\ y(l, b).pc = "assert" /\ y(l, b).ch = c /\ y(l, b).addr = a
         /\ ~y(l, b).bad /\ y(l, b).late = l /\ y(l, b).barred = b
  OBVIOUS
<1>3. PICK l \in BOOLEAN : l = (c \in over)
  <2>1. (c \in over) \in BOOLEAN
    OBVIOUS
  <2> WITNESS (c \in over) \in BOOLEAN
  <2> QED
    OBVIOUS
<1>4. PICK b \in BOOLEAN : b = ~active
  BY Zenon
<1>5. call' = [call EXCEPT ![r] = y(l, b)] /\ call[r] = NoCall
  BY <1>3, <1>4 DEF CodeBegin
<1>6. y(l, b) \in Call
  BY <1>1
<1>7. /\ y(l, b).pc = "assert" /\ y(l, b).ch = c /\ y(l, b).addr = a
      /\ ~y(l, b).bad /\ y(l, b).late = l /\ y(l, b).barred = b
  BY <1>2
<1> HIDE DEF y
<1>8. /\ call' \in [Request -> Call \cup {NoCall}]
      /\ call'[r] = y(l, b)
      /\ \A q \in Request \ {r} : call'[q] = call[q]
  BY <1>5, <1>6 DEF ChallengeTypeOK
<1> QED
  BY <1>3, <1>4, <1>5, <1>7, <1>8

\* The initial state is well typed.
LEMMA SecondInitType == ChallengeInit => ChallengeTypeOK
  BY DEF ChallengeInit, ChallengeTypeOK, CodeKey, NoCall

\* Each step keeps the types.
LEMMA SecondNextType == ChallengeTypeOK /\ [ChallengeNext]_codeVars => ChallengeTypeOK'
<1> SUFFICES ASSUME ChallengeTypeOK, [ChallengeNext]_codeVars PROVE ChallengeTypeOK'
  OBVIOUS
<1>1. CASE Deactivate
  BY <1>1 DEF Deactivate, codeRedis, codeHist, ChallengeTypeOK
<1>2. ASSUME NEW c \in Challenge, ChallengeExpires(c) PROVE ChallengeTypeOK'
  BY <1>2 DEF ChallengeExpires, codeHist, ChallengeTypeOK
<1>3. ASSUME NEW c \in Challenge, NEW a \in Address, NEW u \in Agent, Create(c, a, u)
      PROVE  ChallengeTypeOK'
  BY <1>3 DEF Create, ChallengeTypeOK
<1>4. ASSUME NEW c \in Challenge, NEW a \in Address, NEW u \in Agent, NEW r \in Request,
             CodeBegin(r, c, a, u)
      PROVE  ChallengeTypeOK'
  <2>1. call' \in [Request -> Call \cup {NoCall}]
    BY <1>4, BeginMoves
  <2> QED
    BY <1>4, <2>1 DEF CodeBegin, codeRedis, codeHist, ChallengeTypeOK
<1>5. ASSUME NEW r \in Request, assert_not_locked(r) PROVE ChallengeTypeOK'
  <2>1. call' \in [Request -> Call \cup {NoCall}]
    BY <1>5, AssertMoves DEF Advances, Ends
  <2> QED
    BY <1>5, <2>1 DEF assert_not_locked, codeRedis, codeHist, ChallengeTypeOK
<1>6. ASSUME NEW r \in Request, _get_login_challenge(r) PROVE ChallengeTypeOK'
  <2>1. call' \in [Request -> Call \cup {NoCall}]
    BY <1>6, GetMoves DEF Advances, Ends
  <2> QED
    BY <1>6, <2>1 DEF _get_login_challenge, codeRedis, codeHist, ChallengeTypeOK
<1>7. ASSUME NEW r \in Request, GetUser(r) PROVE ChallengeTypeOK'
  <2>1. call' \in [Request -> Call \cup {NoCall}]
    BY <1>7, UserMoves DEF Advances, Ends
  <2> QED
    BY <1>7, <2>1 DEF GetUser, codeRedis, codeHist, ChallengeTypeOK
<1>8. ASSUME NEW r \in Request, VerifyForLogin(r) PROVE ChallengeTypeOK'
  <2>1. call' \in [Request -> Call \cup {NoCall}]
    BY <1>8, VerifyMoves DEF Advances, Ends
  <2>2. CodeKeyOf(r) \in CodeKey
    BY <1>8, VerifyingType DEF VerifyForLogin
  <2> QED
    BY <1>8, <2>1, <2>2 DEF VerifyForLogin, codeRedis, codeHist, ChallengeTypeOK
<1>9. ASSUME NEW r \in Request, CodeIncr(r) PROVE ChallengeTypeOK'
  <2>1. call' \in [Request -> Call \cup {NoCall}]
    BY <1>9, IncrMoves DEF Advances, Ends
  <2>2. CodeKeyOf(r) \in CodeKey
    BY <1>9, VerifyingType DEF CodeIncr
  <2> QED
    BY <1>9, <2>1, <2>2 DEF CodeIncr, codeRedis, codeHist, ChallengeTypeOK
<1>10. ASSUME NEW r \in Request, CodeSetLock(r) PROVE ChallengeTypeOK'
  <2>1. call' \in [Request -> Call \cup {NoCall}]
    BY <1>10, SetLockMoves DEF Advances, Ends
  <2>2. CodeKeyOf(r) \in CodeKey
    BY <1>10, VerifyingType DEF CodeSetLock
  <2> QED
    BY <1>10, <2>1, <2>2 DEF CodeSetLock, codeRedis, codeHist, ChallengeTypeOK
<1>11. ASSUME NEW r \in Request, CodeDeleteFails(r) PROVE ChallengeTypeOK'
  <2>1. call' \in [Request -> Call \cup {NoCall}]
    BY <1>11, DeleteFailsMoves DEF Advances, Ends
  <2>2. CodeKeyOf(r) \in CodeKey
    BY <1>11, VerifyingType DEF CodeDeleteFails
  <2> QED
    BY <1>11, <2>1, <2>2 DEF CodeDeleteFails, codeRedis, codeHist, ChallengeTypeOK
<1>12. ASSUME NEW r \in Request, Refuse(r) PROVE ChallengeTypeOK'
  <2>1. call' \in [Request -> Call \cup {NoCall}]
    BY <1>12, DoneEnds DEF Advances, Ends, Refuse
  <2> QED
    BY <1>12, <2>1 DEF Refuse, codeRedis, codeHist, ChallengeTypeOK
<1>13. ASSUME NEW r \in Request, clear_failures(r) PROVE ChallengeTypeOK'
  <2>1. call' \in [Request -> Call \cup {NoCall}]
    BY <1>13, ClearMoves DEF Advances, Ends
  <2>2. CodeKeyOf(r) \in CodeKey
    BY <1>13, VerifyingType DEF clear_failures
  <2> QED
    BY <1>13, <2>1, <2>2 DEF clear_failures, codeRedis, codeHist, ChallengeTypeOK
<1>14. ASSUME NEW r \in Request, _delete_login_challenge(r) PROVE ChallengeTypeOK'
  <2>1. call' \in [Request -> Call \cup {NoCall}]
    BY <1>14, DeleteMoves DEF Advances, Ends
  <2> QED
    BY <1>14, <2>1 DEF _delete_login_challenge, codeRedis, codeHist, ChallengeTypeOK
<1>15. ASSUME NEW r \in Request, Commit(r) PROVE ChallengeTypeOK'
  <2>1. call' \in [Request -> Call \cup {NoCall}]
    BY <1>15, DoneEnds DEF Advances, Ends, Commit
  <2>2. call[r].ch \in Challenge
    BY <1>15, VerifyingType DEF Commit
  <2> QED
    BY <1>15, <2>1, <2>2 DEF Commit, codeRedis, codeHist, ChallengeTypeOK
<1>16. ASSUME NEW r \in Request, CodeDie(r) PROVE ChallengeTypeOK'
  <2>1. call' \in [Request -> Call \cup {NoCall}]
    BY <1>16, DoneEnds DEF Advances, Ends, CodeDie
  <2> QED
    BY <1>16, <2>1 DEF CodeDie, codeRedis, codeHist, ChallengeTypeOK
<1>17. CASE UNCHANGED codeVars
  BY <1>17 DEF codeVars, codeRedis, codeHist, ChallengeTypeOK
<1> QED
  BY <1>1, <1>2, <1>3, <1>4, <1>5, <1>6, <1>7, <1>8, <1>9, <1>10, <1>11, <1>12, <1>13,
     <1>14, <1>15, <1>16, <1>17 DEF ChallengeNext

-----------------------------------------------------------------------------
(* A challenge that is over stays so                                         *)

\* What a request knows, and what is known of the challenges, as they are used.
LEMMA KnowsParts ==
    ASSUME NEW r \in Request, Knows(r), call[r] # NoCall
    PROVE  /\ call[r].pc \notin {"assert", "get"} =>
                 made[call[r].ch] # Nothing /\ ~call[r].late
           /\ call[r].pc \in {"user", "verify", "clear", "delete"} =>
                 /\ made[call[r].ch][1] = call[r].addr
                 /\ call[r].pc # "user" => ~call[r].barred
           /\ call[r].pc = "commit" => stored[call[r].ch] = Nothing
           /\ call[r].late => call[r].ch \in over
           /\ call[r].barred => ~active
<1> USE DEF Knows, Holding, SigningIn
<1>1. call[r].pc \notin {"assert", "get"} =>
                 made[call[r].ch] # Nothing /\ ~call[r].late
  OBVIOUS
<1>2. call[r].pc \in {"user", "verify", "clear", "delete"} =>
                 /\ made[call[r].ch][1] = call[r].addr
                 /\ call[r].pc # "user" => ~call[r].barred
  OBVIOUS
<1> QED
  BY <1>1, <1>2

\* A request that does not move keeps what it knows: challenges are made once,
\* deleted for good, and an account is not activated again.
LEMMA OthersKnow ==
    ASSUME ChallengeTypeOK, NEW q \in Request, Knows(q), call'[q] = call[q],
           over \subseteq over', active' => active,
           \A c \in Challenge : made[c] # Nothing => made'[c] = made[c],
           \A c \in Challenge : made[c] # Nothing /\ stored[c] = Nothing => stored'[c] = Nothing
    PROVE  Knows(q)'
<1>1. CASE call[q] = NoCall
  BY <1>1 DEF Knows, Holding, SigningIn
<1>2. CASE call[q] # NoCall
  <2>1. call[q] \in Call /\ call[q].ch \in Challenge
    BY <1>2 DEF ChallengeTypeOK, Call
  <2>2. Holding(q) => made[call[q].ch] # Nothing /\ made'[call[q].ch] = made[call[q].ch]
    BY <2>1 DEF Knows
  <2>3. SigningIn(q) => Holding(q)
    BY DEF SigningIn, Holding
  <2>4. (SigningIn(q)' <=> SigningIn(q)) /\ (Holding(q)' <=> Holding(q))
    BY DEF SigningIn, Holding
  <2>5. call[q].pc = "commit" => stored'[call[q].ch] = Nothing
    BY <1>2, <2>1, <2>2 DEF Knows, Holding
  <2> QED
    BY <1>2, <2>1, <2>2, <2>3, <2>4, <2>5 DEF Knows
<1> QED
  BY <1>1, <1>2

\* A request that ends has nothing to know.
LEMMA EndedKnows ==
    ASSUME NEW r \in Request, Ends(r) PROVE Knows(r)'
  BY DEF Ends, Knows, Holding, SigningIn

\* A request that goes on with a call that changes neither Redis nor the account
\* knows what it knew, and what its next step p requires.
LEMMA AdvancedKnows ==
    ASSUME ChallengeTypeOK, NEW r \in Request, NEW p, Knows(r),
           call[r] # NoCall, Advances(r, p),
           UNCHANGED <<made, over>>, active' => active,
           p \notin {"assert", "get"} =>
               made[call[r].ch] # Nothing /\ ~call[r].late,
           p \in {"user", "verify", "clear", "delete"} \/ (p = "commit" /\ ~call'[r].bad)
             => /\ made[call[r].ch][1] = call[r].addr
                /\ p = "user" \/ ~call[r].barred,
           p = "commit" => stored'[call[r].ch] = Nothing
    PROVE  Knows(r)'
<1>1. call[r].late => call[r].ch \in over
  BY KnowsParts
<1>2. call[r].barred => ~active
  BY KnowsParts
<1>3. Holding(r)' => p \notin {"assert", "get"}
  BY DEF Advances, Holding
<1>4. SigningIn(r)' => p \in {"user", "verify", "clear", "delete"}
                                \/ (p = "commit" /\ ~call'[r].bad)
  BY DEF Advances, SigningIn
<1> QED
  BY <1>1, <1>2, <1>3, <1>4 DEF Advances, Knows


\* Nothing is known of a challenge but by its row in Redis and its history.
LEMMA ChallengesKept ==
    ASSUME ChallengesKnown, UNCHANGED <<made, over>>,
           \A c \in Challenge : stored'[c] \in {stored[c], Nothing}
    PROVE  ChallengesKnown'
  BY DEF ChallengesKnown

\* Every step keeps what is known of challenges and requests.
LEMMA NextOver ==
    ASSUME ChallengeTypeOK, OverInv, [ChallengeNext]_codeVars
    PROVE  OverInv'
<1>0. /\ ChallengesKnown /\ \A q \in Request : Knows(q)
      /\ stored \in [Challenge -> Address \cup {Nothing}]
      /\ made \in [Challenge -> (Address \X Agent) \cup {Nothing}]
  BY DEF OverInv, ChallengeTypeOK
<1>1. CASE Deactivate
  <2>1. UNCHANGED <<stored, call, made, over>> /\ ~active'
    BY <1>1 DEF Deactivate, codeRedis, codeHist
  <2>2. ChallengesKnown'
    BY <1>0, <2>1 DEF ChallengesKnown
  <2> QED
    BY <1>0, <2>1, <2>2, OthersKnow DEF OverInv
<1>2. ASSUME NEW c \in Challenge, ChallengeExpires(c) PROVE OverInv'
  <2>1. UNCHANGED <<active, call, made, over>> /\ stored' = [stored EXCEPT ![c] = Nothing]
    BY <1>2 DEF ChallengeExpires, codeHist
  <2>2. ChallengesKnown'
    BY <1>0, <2>1, ChallengesKept
  <2> QED
    BY <1>0, <2>1, <2>2, OthersKnow DEF OverInv
<1>3. ASSUME NEW c \in Challenge, NEW a \in Address, NEW u \in Agent, Create(c, a, u)
      PROVE  OverInv'
  <2>1. /\ UNCHANGED <<active, call, over>> /\ made[c] = Nothing
        /\ stored' = [stored EXCEPT ![c] = a] /\ made' = [made EXCEPT ![c] = <<a, u>>]
    BY <1>3 DEF Create
  <2>2. <<a, u>> # Nothing
    BY LoginChallengeAssumption
  <2>3. ChallengesKnown'
    BY <1>0, <2>1, <2>2 DEF ChallengesKnown
  <2>4. \A d \in Challenge : made[d] # Nothing => made'[d] = made[d] /\ stored'[d] = stored[d]
    BY <1>0, <2>1
  <2> QED
    BY <1>0, <2>1, <2>3, <2>4, OthersKnow DEF OverInv
<1>4. ASSUME NEW c \in Challenge, NEW a \in Address, NEW u \in Agent, NEW r \in Request,
             CodeBegin(r, c, a, u)
      PROVE  OverInv'
  <2>1. UNCHANGED <<stored, active, made, over>>
    BY <1>4 DEF CodeBegin, codeRedis, codeHist
  <2>2. ChallengesKnown'
    BY <1>0, <2>1 DEF ChallengesKnown
  <2>3. Knows(r)'
    <3>1. /\ call'[r].pc = "assert" /\ call'[r].ch = c
          /\ call'[r].late = (c \in over) /\ call'[r].barred = ~active
      BY <1>4, BeginMoves
    <3>2. (call'[r].late => call'[r].ch \in over) /\ (call'[r].barred => ~active)
      BY <3>1, Zenon
    <3>3. ~Holding(r)' /\ ~SigningIn(r)'
      BY <3>1 DEF Holding, SigningIn
    <3> QED
      BY <2>1, <3>1, <3>2, <3>3 DEF Knows
  <2>4. ASSUME NEW q \in Request \ {r} PROVE Knows(q)'
    BY <1>0, <1>4, <2>1, BeginMoves, OthersKnow
  <2> QED
    BY <2>2, <2>3, <2>4 DEF OverInv
<1>5. ASSUME NEW r \in Request, assert_not_locked(r) PROVE OverInv'
  <2>1. UNCHANGED <<stored, active, made, over>>
    BY <1>5 DEF assert_not_locked, codeRedis, codeHist
  <2>3. ChallengesKnown'
    BY <1>0, <2>1, ChallengesKept
  <2>4. ASSUME NEW q \in Request \ {r} PROVE Knows(q)'
    BY <1>0, <1>5, <2>1, AssertMoves, OthersKnow DEF Advances, Ends
  <2>5. Knows(r)'
    <3>1. CASE Ends(r)
      BY <3>1, EndedKnows
    <3>2. CASE Advances(r, "get")
      <4>1. call[r] # NoCall
        BY <1>5, AssertMoves, VerifyingType
      <4> QED
        BY <1>0, <2>1, <3>2, <4>1, AdvancedKnows
    <3> QED
      BY <1>5, <3>1, <3>2, AssertMoves
  <2> QED
    BY <2>3, <2>4, <2>5 DEF OverInv
<1>6. ASSUME NEW r \in Request, _get_login_challenge(r) PROVE OverInv'
  <2>1. UNCHANGED <<stored, active, made, over>>
    BY <1>6 DEF _get_login_challenge, codeRedis, codeHist
  <2>3. ChallengesKnown'
    BY <1>0, <2>1, ChallengesKept
  <2>4. ASSUME NEW q \in Request \ {r} PROVE Knows(q)'
    BY <1>0, <1>6, <2>1, GetMoves, OthersKnow DEF Advances, Ends
  <2>5. Knows(r)'
    <3>1. CASE Ends(r)
      BY <3>1, EndedKnows
    <3>2. CASE ~Ends(r)
      <4>1. /\ stored[call[r].ch] # Nothing /\ call[r].ch \in Challenge
            /\ call[r] # NoCall
        BY <1>6, <3>2, GetMoves, VerifyingType
      <4>2. /\ made[call[r].ch] # Nothing /\ call[r].ch \notin over
            /\ made[call[r].ch][1] = stored[call[r].ch]
        BY <1>0, <4>1 DEF ChallengesKnown
      <4>3. ~call[r].late
        BY <1>0, <4>1, <4>2, KnowsParts
      <4>4. CASE stored[call[r].ch] = call[r].addr /\ Advances(r, "user")
        BY <1>0, <2>1, <4>1, <4>2, <4>3, <4>4, AdvancedKnows
      <4>5. CASE Advances(r, "incr")
        BY <1>0, <2>1, <4>1, <4>2, <4>3, <4>5, AdvancedKnows
      <4> QED
        BY <1>6, <3>2, <4>4, <4>5, GetMoves
    <3> QED
      BY <3>1, <3>2
  <2> QED
    BY <2>3, <2>4, <2>5 DEF OverInv
<1>7. ASSUME NEW r \in Request, GetUser(r) PROVE OverInv'
  <2>1. UNCHANGED <<stored, active, made, over>>
    BY <1>7 DEF GetUser, codeRedis, codeHist
  <2>3. ChallengesKnown'
    BY <1>0, <2>1, ChallengesKept
  <2>4. ASSUME NEW q \in Request \ {r} PROVE Knows(q)'
    BY <1>0, <1>7, <2>1, UserMoves, OthersKnow DEF Advances, Ends
  <2>5. Knows(r)'
    <3>1. call[r] # NoCall /\ call[r].pc = "user"
      BY <1>7, UserMoves, VerifyingType
    <3>2. /\ made[call[r].ch] # Nothing /\ ~call[r].late
          /\ call[r].pc \in {"user", "verify", "clear", "delete"} =>
               /\ made[call[r].ch][1] = call[r].addr
               /\ call[r].pc # "user" => ~call[r].barred
      BY <1>0, <3>1, KnowsParts
    <3>3. call[r].barred => ~active
      BY <1>0, <3>1, KnowsParts
    <3>4. CASE active
      <4>1. Advances(r, "verify")
        BY <1>7, <3>4, UserMoves
      <4> QED
        BY <1>0, <2>1, <3>1, <3>2, <3>3, <3>4, <4>1, AdvancedKnows
    <3>5. CASE ~active
      <4>1. Advances(r, "inactive")
        BY <1>7, <3>5, UserMoves
      <4> QED
        BY <1>0, <2>1, <3>1, <3>2, <4>1, AdvancedKnows
    <3> QED
      BY <3>4, <3>5
  <2> QED
    BY <2>3, <2>4, <2>5 DEF OverInv
<1>8. ASSUME NEW r \in Request, VerifyForLogin(r) PROVE OverInv'
  <2>1. UNCHANGED <<stored, active, made, over>>
    BY <1>8 DEF VerifyForLogin, codeRedis, codeHist
  <2>3. ChallengesKnown'
    BY <1>0, <2>1, ChallengesKept
  <2>4. ASSUME NEW q \in Request \ {r} PROVE Knows(q)'
    BY <1>0, <1>8, <2>1, VerifyMoves, OthersKnow DEF Advances, Ends
  <2>5. Knows(r)'
    <3>1. call[r] # NoCall /\ call[r].pc = "verify"
      BY <1>8, VerifyMoves, VerifyingType
    <3>2. /\ made[call[r].ch] # Nothing /\ ~call[r].late
          /\ call[r].pc \in {"user", "verify", "clear", "delete"} =>
               /\ made[call[r].ch][1] = call[r].addr
               /\ call[r].pc # "user" => ~call[r].barred
      BY <1>0, <3>1, KnowsParts
    <3>3. CASE Ends(r)
      BY <3>3, EndedKnows
    <3>4. CASE Advances(r, "clear")
      BY <1>0, <2>1, <3>1, <3>2, <3>4, AdvancedKnows
    <3>5. CASE Advances(r, "incr")
      BY <1>0, <2>1, <3>1, <3>2, <3>5, AdvancedKnows
    <3> QED
      BY <1>8, <3>3, <3>4, <3>5, VerifyMoves
  <2> QED
    BY <2>3, <2>4, <2>5 DEF OverInv
<1>9. ASSUME NEW r \in Request, CodeIncr(r) PROVE OverInv'
  <2>1. UNCHANGED <<stored, active, made, over>>
    BY <1>9 DEF CodeIncr, codeRedis, codeHist
  <2>3. ChallengesKnown'
    BY <1>0, <2>1, ChallengesKept
  <2>4. ASSUME NEW q \in Request \ {r} PROVE Knows(q)'
    BY <1>0, <1>9, <2>1, IncrMoves, OthersKnow DEF Advances, Ends
  <2>5. Knows(r)'
    <3>1. call[r] # NoCall /\ call[r].pc = "incr"
      BY <1>9, IncrMoves, VerifyingType
    <3>2. /\ made[call[r].ch] # Nothing /\ ~call[r].late
          /\ call[r].pc \in {"user", "verify", "clear", "delete"} =>
               /\ made[call[r].ch][1] = call[r].addr
               /\ call[r].pc # "user" => ~call[r].barred
      BY <1>0, <3>1, KnowsParts
    <3>3. PICK p \in {"mismatch", "refuse", "lock", "delete fails"} : Advances(r, p)
      BY <1>9, IncrMoves DEF AfterRecord
    <3> QED
      BY <1>0, <2>1, <3>1, <3>2, <3>3, AdvancedKnows
  <2> QED
    BY <2>3, <2>4, <2>5 DEF OverInv
<1>10. ASSUME NEW r \in Request, CodeSetLock(r) PROVE OverInv'
  <2>1. UNCHANGED <<stored, active, made, over>>
    BY <1>10 DEF CodeSetLock, codeRedis, codeHist
  <2>3. ChallengesKnown'
    BY <1>0, <2>1, ChallengesKept
  <2>4. ASSUME NEW q \in Request \ {r} PROVE Knows(q)'
    BY <1>0, <1>10, <2>1, SetLockMoves, OthersKnow DEF Advances, Ends
  <2>5. Knows(r)'
    <3>1. call[r] # NoCall /\ call[r].pc = "lock"
      BY <1>10, SetLockMoves, VerifyingType
    <3>2. /\ made[call[r].ch] # Nothing /\ ~call[r].late
          /\ call[r].pc \in {"user", "verify", "clear", "delete"} =>
               /\ made[call[r].ch][1] = call[r].addr
               /\ call[r].pc # "user" => ~call[r].barred
      BY <1>0, <3>1, KnowsParts
    <3>3. PICK p \in {"mismatch", "refuse", "lock", "delete fails"} : Advances(r, p)
      BY <1>10, SetLockMoves DEF AfterRecord
    <3> QED
      BY <1>0, <2>1, <3>1, <3>2, <3>3, AdvancedKnows
  <2> QED
    BY <2>3, <2>4, <2>5 DEF OverInv
<1>11. ASSUME NEW r \in Request, CodeDeleteFails(r) PROVE OverInv'
  <2>1. UNCHANGED <<stored, active, made, over>>
    BY <1>11 DEF CodeDeleteFails, codeRedis, codeHist
  <2>3. ChallengesKnown'
    BY <1>0, <2>1, ChallengesKept
  <2>4. ASSUME NEW q \in Request \ {r} PROVE Knows(q)'
    BY <1>0, <1>11, <2>1, DeleteFailsMoves, OthersKnow DEF Advances, Ends
  <2>5. Knows(r)'
    <3>1. call[r] # NoCall /\ call[r].pc = "delete fails"
      BY <1>11, DeleteFailsMoves, VerifyingType
    <3>2. /\ made[call[r].ch] # Nothing /\ ~call[r].late
          /\ call[r].pc \in {"user", "verify", "clear", "delete"} =>
               /\ made[call[r].ch][1] = call[r].addr
               /\ call[r].pc # "user" => ~call[r].barred
      BY <1>0, <3>1, KnowsParts
    <3>3. PICK p \in {"mismatch", "refuse", "lock", "delete fails"} : Advances(r, p)
      BY <1>11, DeleteFailsMoves DEF AfterRecord
    <3> QED
      BY <1>0, <2>1, <3>1, <3>2, <3>3, AdvancedKnows
  <2> QED
    BY <2>3, <2>4, <2>5 DEF OverInv
<1>12. ASSUME NEW r \in Request, Refuse(r) PROVE OverInv'
  <2>1. UNCHANGED <<stored, active, made, over>>
    BY <1>12 DEF Refuse, codeRedis, codeHist
  <2>2. Ends(r)
    BY <1>12, DoneEnds DEF Refuse
  <2>3. ChallengesKnown'
    BY <1>0, <2>1, ChallengesKept
  <2>4. ASSUME NEW q \in Request \ {r} PROVE Knows(q)'
    BY <1>0, <2>1, <2>2, OthersKnow DEF Ends
  <2>5. Knows(r)'
    BY <2>2, EndedKnows
  <2> QED
    BY <2>3, <2>4, <2>5 DEF OverInv
<1>13. ASSUME NEW r \in Request, clear_failures(r) PROVE OverInv'
  <2>1. UNCHANGED <<stored, active, made, over>>
    BY <1>13 DEF clear_failures, codeRedis, codeHist
  <2>3. ChallengesKnown'
    BY <1>0, <2>1, ChallengesKept
  <2>4. ASSUME NEW q \in Request \ {r} PROVE Knows(q)'
    BY <1>0, <1>13, <2>1, ClearMoves, OthersKnow DEF Advances, Ends
  <2>5. Knows(r)'
    <3>1. call[r] # NoCall /\ call[r].pc = "clear"
      BY <1>13, ClearMoves, VerifyingType
    <3>2. /\ made[call[r].ch] # Nothing /\ ~call[r].late
          /\ call[r].pc \in {"user", "verify", "clear", "delete"} =>
               /\ made[call[r].ch][1] = call[r].addr
               /\ call[r].pc # "user" => ~call[r].barred
      BY <1>0, <3>1, KnowsParts
    <3>3. Advances(r, "delete")
      BY <1>13, ClearMoves
    <3> QED
      BY <1>0, <2>1, <3>1, <3>2, <3>3, AdvancedKnows
  <2> QED
    BY <2>3, <2>4, <2>5 DEF OverInv
<1>14. ASSUME NEW r \in Request, _delete_login_challenge(r) PROVE OverInv'
  <2>1. UNCHANGED <<active, made, over>>
    BY <1>14 DEF _delete_login_challenge, codeRedis, codeHist
  <2>2. /\ stored' = [stored EXCEPT ![call[r].ch] = Nothing]
        /\ call[r].ch \in Challenge /\ call[r] # NoCall
    BY <1>14, DeleteMoves, VerifyingType DEF _delete_login_challenge
  <2>3. ChallengesKnown'
    BY <1>0, <2>1, <2>2, ChallengesKept
  <2>4. ASSUME NEW q \in Request \ {r} PROVE Knows(q)'
    BY <1>0, <1>14, <2>1, <2>2, DeleteMoves, OthersKnow DEF Advances
  <2>5. Knows(r)'
    <3>1. /\ made[call[r].ch] # Nothing /\ ~call[r].late
      BY <1>0, <1>14, <2>2, DeleteMoves, KnowsParts
    <3>2. Advances(r, "commit") /\ stored'[call[r].ch] = Nothing
      BY <1>0, <1>14, <2>2, DeleteMoves
    <3>3. CASE call[r].pc = "delete"
      <4>1. made[call[r].ch][1] = call[r].addr /\ ~call[r].barred
        BY <1>0, <2>2, <3>3, KnowsParts
      <4> QED
        BY <1>0, <2>1, <2>2, <3>1, <3>2, <4>1, AdvancedKnows
    <3>4. CASE call[r].pc # "delete"
      <4>1. call'[r].bad = TRUE
        BY <1>14, <3>4, DeleteMoves
      <4> QED
        BY <1>0, <2>1, <2>2, <3>1, <3>2, <4>1, AdvancedKnows
    <3> QED
      BY <3>3, <3>4
  <2> QED
    BY <2>3, <2>4, <2>5 DEF OverInv
<1>15. ASSUME NEW r \in Request, Commit(r) PROVE OverInv'
  <2>1. UNCHANGED <<stored, active, made>>
    BY <1>15 DEF Commit, codeRedis, codeHist
  <2>2. /\ Ends(r) /\ over' = over \cup {call[r].ch}
        /\ call[r].ch \in Challenge /\ call[r] # NoCall
        /\ call[r].pc = "commit"
    BY <1>15, DoneEnds, VerifyingType DEF Commit
  <2>3. ChallengesKnown'
    <3>1. made[call[r].ch] # Nothing /\ stored[call[r].ch] = Nothing
      BY <1>0, <2>2, KnowsParts
    <3> QED
      BY <1>0, <2>1, <2>2, <3>1 DEF ChallengesKnown
  <2>4. ASSUME NEW q \in Request \ {r} PROVE Knows(q)'
    BY <1>0, <2>1, <2>2, OthersKnow DEF Ends
  <2>5. Knows(r)'
    BY <2>2, EndedKnows
  <2> QED
    BY <2>3, <2>4, <2>5 DEF OverInv
<1>16. ASSUME NEW r \in Request, CodeDie(r) PROVE OverInv'
  <2>1. UNCHANGED <<stored, active, made, over>>
    BY <1>16 DEF CodeDie, codeRedis, codeHist
  <2>2. Ends(r)
    BY <1>16, DoneEnds DEF CodeDie
  <2>3. ChallengesKnown'
    BY <1>0, <2>1, ChallengesKept
  <2>4. ASSUME NEW q \in Request \ {r} PROVE Knows(q)'
    BY <1>0, <2>1, <2>2, OthersKnow DEF Ends
  <2>5. Knows(r)'
    BY <2>2, EndedKnows
  <2> QED
    BY <2>3, <2>4, <2>5 DEF OverInv
<1>17. CASE UNCHANGED codeVars
  <2>1. UNCHANGED <<stored, active, call, made, over>>
    BY <1>17 DEF codeVars, codeRedis, codeHist
  <2>2. ChallengesKnown'
    BY <1>0, <2>1 DEF ChallengesKnown
  <2> QED
    BY <1>0, <2>1, <2>2, OthersKnow DEF OverInv
<1> QED
  BY <1>1, <1>2, <1>3, <1>4, <1>5, <1>6, <1>7, <1>8, <1>9, <1>10, <1>11, <1>12, <1>13,
     <1>14, <1>15, <1>16, <1>17 DEF ChallengeNext

\* Once a challenge was answered no request that begins later signs in with it,
\* none signs in that begins after the account was deactivated, and every one
\* comes from the address of the login: verify_login_challenge reads the challenge,
\* the account and the code in separate calls, and deletes the challenge after.
THEOREM ChallengeIsOver == ChallengeSpec => OverIsOver
<1>1. ChallengeInit => ChallengeTypeOK /\ OverInv
  <2>1. ChallengeInit => OverInv
    BY DEF ChallengeInit, OverInv, ChallengesKnown, Knows,
           Holding, SigningIn
  <2> QED
    BY <2>1, SecondInitType
<1>2. ChallengeTypeOK /\ OverInv /\ [ChallengeNext]_codeVars
        => (ChallengeTypeOK /\ OverInv)'
  BY SecondNextType, NextOver
<1>3. ChallengeTypeOK /\ OverInv /\ [ChallengeNext]_codeVars =>
        [\A r \in Request : SignsIn(r) =>
            /\ ~call[r].late /\ ~call[r].barred
            /\ made[call[r].ch][1] = call[r].addr]_codeVars
  <2> SUFFICES ASSUME ChallengeTypeOK, OverInv, NEW r \in Request, SignsIn(r)
               PROVE  /\ ~call[r].late /\ ~call[r].barred
                      /\ made[call[r].ch][1] = call[r].addr
    OBVIOUS
  <2>1. call[r].pc = "commit" /\ call[r] # NoCall /\ ~call[r].bad
    BY VerifyingType DEF SignsIn, Commit
  <2>2. Knows(r)
    BY DEF OverInv
  <2> QED
    BY <2>1, <2>2 DEF Knows, Holding, SigningIn
<1> QED
  BY <1>1, <1>2, <1>3, PTL DEF ChallengeSpec, OverIsOver

-----------------------------------------------------------------------------
(* The wrong codes are accounted for, as the guesses are                     *)

\* The sizes of the three sets are natural numbers, and so is the worth of a count.
LEMMA CodeSizes ==
    ASSUME ChallengeTypeOK, NEW k \in CodeKey
    PROVE  /\ Cardinality(Request) \in Nat
           /\ Cardinality(CodeUncounted(k)) \in Nat
           /\ Cardinality(CodeDeleting(k)) \in Nat
           /\ Cardinality(CodeAdmitted(k)) \in Nat
           /\ codeFails[k] \in Nat /\ CodeLow(codeFails[k]) \in Nat
           /\ CodeLow(codeFails[k]) <= MaxAttempts - 1
           /\ lost \in Nat /\ wrong[k] \in Nat
<1>1. /\ CodeUncounted(k) \in SUBSET Request /\ CodeDeleting(k) \in SUBSET Request
      /\ CodeAdmitted(k) \in SUBSET Request
  BY DEF CodeUncounted, CodeDeleting, CodeAdmitted
<1>2. codeFails[k] \in Nat /\ lost \in Nat /\ wrong[k] \in Nat
  BY DEF ChallengeTypeOK
<1> QED
  BY <1>1, <1>2, RequestBound, AttemptsAssumption DEF CodeLow

\* The same after a step.
LEMMA CodeSizesNext ==
    ASSUME ChallengeTypeOK', NEW k \in CodeKey
    PROVE  /\ Cardinality(CodeUncounted(k)') \in Nat
           /\ Cardinality(CodeDeleting(k)') \in Nat
           /\ Cardinality(CodeAdmitted(k)') \in Nat
           /\ codeFails'[k] \in Nat /\ CodeLow(codeFails'[k]) \in Nat
           /\ lost' \in Nat /\ wrong'[k] \in Nat
<1>1. /\ CodeUncounted(k)' \in SUBSET Request /\ CodeDeleting(k)' \in SUBSET Request
      /\ CodeAdmitted(k)' \in SUBSET Request
  BY DEF CodeUncounted, CodeDeleting, CodeAdmitted
<1>2. codeFails'[k] \in Nat /\ lost' \in Nat /\ wrong'[k] \in Nat
  BY DEF ChallengeTypeOK
<1> QED
  BY <1>1, <1>2, RequestBound, AttemptsAssumption DEF CodeLow

\* The number of elements, in both modules.
LEMMA SameCardinality ==
    ASSUME NEW S
    PROVE  Cardinality(S) = Cardinality(S)
  BY DEF Cardinality, Cardinality

\* The two inequalities of the codes, as those of the guesses.
LEMMA CodeForms ==
    ASSUME NEW k
    PROVE  /\ k \in codeLock =>
                (CodesAccounted(k) <=>
                   WhenLocked(wrong[k], Cardinality(CodeAdmitted(k)), lost))
           /\ k \notin codeLock =>
                (CodesAccounted(k) <=>
                   WhenOpen(wrong[k], CodeLow(codeFails[k]),
                            Cardinality(CodeUncounted(k)),
                            Cardinality(CodeDeleting(k)), lost))
  BY SameCardinality DEF CodesAccounted, WhenLocked, WhenOpen

\* The same after a step.
LEMMA CodeFormsNext ==
    ASSUME NEW k
    PROVE  /\ k \in codeLock' =>
                (CodesAccounted(k)' <=>
                   WhenLocked(wrong'[k], Cardinality(CodeAdmitted(k)'), lost'))
           /\ k \notin codeLock' =>
                (CodesAccounted(k)' <=>
                   WhenOpen(wrong'[k], CodeLow(codeFails'[k]),
                            Cardinality(CodeUncounted(k)'),
                            Cardinality(CodeDeleting(k)'), lost'))
  BY SameCardinality DEF CodesAccounted, WhenLocked, WhenOpen, CodeLow

\* The three sets when one request moves.
LEMMA VerifyingMoves ==
    ASSUME NEW k, NEW r \in Request, \A q \in Request \ {r} : call'[q] = call[q]
    PROVE  /\ Moves(CodeUncounted(k), CodeUncounted(k)', r)
           /\ Moves(CodeDeleting(k), CodeDeleting(k)', r)
           /\ Moves(CodeAdmitted(k), CodeAdmitted(k)', r)
<1>1. Moves(CodeUncounted(k), CodeUncounted(k)', r)
  <2>1. \A q \in Request \ {r} : q \in CodeUncounted(k) <=> q \in CodeUncounted(k)'
    BY DEF CodeUncounted, CodeKeyOf
  <2>2. CodeUncounted(k) \in SUBSET Request /\ CodeUncounted(k)' \in SUBSET Request
    BY DEF CodeUncounted
  <2> QED
    BY <2>1, <2>2, OneMoves
<1>2. Moves(CodeDeleting(k), CodeDeleting(k)', r)
  <2>1. \A q \in Request \ {r} : q \in CodeDeleting(k) <=> q \in CodeDeleting(k)'
    BY DEF CodeDeleting, CodeKeyOf
  <2>2. CodeDeleting(k) \in SUBSET Request /\ CodeDeleting(k)' \in SUBSET Request
    BY DEF CodeDeleting
  <2> QED
    BY <2>1, <2>2, OneMoves
<1>3. Moves(CodeAdmitted(k), CodeAdmitted(k)', r)
  <2>1. \A q \in Request \ {r} : q \in CodeAdmitted(k) <=> q \in CodeAdmitted(k)'
    BY DEF CodeAdmitted, CodeKeyOf
  <2>2. CodeAdmitted(k) \in SUBSET Request /\ CodeAdmitted(k)' \in SUBSET Request
    BY DEF CodeAdmitted
  <2> QED
    BY <2>1, <2>2, OneMoves
<1> QED
  BY <1>1, <1>2, <1>3

\* A request that moves and presents no wrong code for k: what leaves the uncounted
\* enters the count or the deaths, and nobody is admitted under the lock.
LEMMA CodesQuiet ==
    ASSUME ChallengeTypeOK, ChallengeTypeOK', NEW k \in CodeKey, NEW r \in Request,
           CodesAccounted(k),
           \A q \in Request \ {r} : call'[q] = call[q],
           wrong'[k] = wrong[k], k \in codeLock' <=> k \in codeLock,
           lost' = lost \/ lost' = lost + 1,
           \/ /\ codeFails'[k] = codeFails[k]
              /\ r \in CodeUncounted(k) => r \in CodeUncounted(k)' \/ lost' = lost + 1
           \/ /\ codeFails'[k] = codeFails[k] + 1
              /\ codeFails[k] + 1 >= MaxAttempts => r \in CodeUncounted(k)',
           r \in CodeDeleting(k)' => r \in CodeDeleting(k),
           r \in CodeAdmitted(k)' => r \in CodeAdmitted(k) \/ k \notin codeLock
    PROVE  CodesAccounted(k)'
<1>1. /\ Moves(CodeUncounted(k), CodeUncounted(k)', r)
      /\ Moves(CodeDeleting(k), CodeDeleting(k)', r)
      /\ Moves(CodeAdmitted(k), CodeAdmitted(k)', r)
  BY VerifyingMoves
<1>2. /\ wrong[k] \in Nat /\ CodeLow(codeFails[k]) \in Nat /\ lost \in Nat
      /\ codeFails[k] \in Nat
      /\ Cardinality(CodeUncounted(k)) \in Nat /\ Cardinality(CodeDeleting(k)) \in Nat
      /\ Cardinality(CodeAdmitted(k)) \in Nat
  BY CodeSizes
<1>3. /\ wrong'[k] \in Nat /\ CodeLow(codeFails'[k]) \in Nat /\ lost' \in Nat
      /\ Cardinality(CodeUncounted(k)') \in Nat /\ Cardinality(CodeDeleting(k)') \in Nat
      /\ Cardinality(CodeAdmitted(k)') \in Nat
  BY CodeSizesNext
<1>4. Cardinality(CodeDeleting(k)') <= Cardinality(CodeDeleting(k))
  BY <1>1 DEF Moves
<1>5. k \in codeLock =>
        Cardinality(CodeAdmitted(k)') <= Cardinality(CodeAdmitted(k))
  BY <1>1 DEF Moves
<1>6. lost + CodeLow(codeFails[k]) + Cardinality(CodeUncounted(k))
        <= lost' + CodeLow(codeFails'[k]) + Cardinality(CodeUncounted(k)')
  <2>1. CASE codeFails'[k] = codeFails[k]
    BY <1>1, <1>2, <1>3, <2>1 DEF Moves
  <2>2. CASE codeFails'[k] = codeFails[k] + 1 /\ codeFails[k] + 1 >= MaxAttempts
    <3>1. CodeLow(codeFails[k]) <= CodeLow(codeFails'[k])
      BY <1>2, <2>2, AttemptsAssumption DEF CodeLow
    <3>2. Cardinality(CodeUncounted(k)) <= Cardinality(CodeUncounted(k)')
      BY <1>1, <1>2, <2>2 DEF Moves
    <3> QED
      BY <1>2, <1>3, <3>1, <3>2
  <2>3. CASE codeFails'[k] = codeFails[k] + 1 /\ ~(codeFails[k] + 1 >= MaxAttempts)
    <3>1. CodeLow(codeFails'[k]) = CodeLow(codeFails[k]) + 1
      BY <1>2, <2>3, AttemptsAssumption DEF CodeLow
    <3>2. Cardinality(CodeUncounted(k)) - 1 <= Cardinality(CodeUncounted(k)')
      BY <1>1 DEF Moves
    <3> QED
      BY <1>2, <1>3, <3>1, <3>2
  <2> QED
    BY <2>1, <2>2, <2>3
<1>7. CASE k \in codeLock
  <2>1. MaxAttempts * Cardinality(Request) \in Nat
    BY Limits
  <2>8. WhenLocked(wrong[k], Cardinality(CodeAdmitted(k)), lost)
    BY <1>7, CodeForms
  <2>9. WhenLocked(wrong'[k], Cardinality(CodeAdmitted(k)'), lost')
    BY <1>2, <1>3, <1>5, <1>7, <2>1, <2>8 DEF WhenLocked
  <2> QED
    BY <1>7, <2>9, CodeFormsNext
<1>8. CASE k \notin codeLock
  <2>1. WhenOpen(wrong[k], CodeLow(codeFails[k]), Cardinality(CodeUncounted(k)),
                 Cardinality(CodeDeleting(k)), lost)
    BY <1>8, CodeForms
  <2>2. LET P(d) == (MaxAttempts - 1) * (Cardinality(Request) - 1 - d) IN
        /\ P(Cardinality(CodeDeleting(k))) \in Int
        /\ P(Cardinality(CodeDeleting(k)')) \in Int
        /\ P(Cardinality(CodeDeleting(k))) <= P(Cardinality(CodeDeleting(k)'))
    BY <1>2, <1>3, <1>4, FewerDelete
  <2>3. WhenOpen(wrong'[k], CodeLow(codeFails'[k]), Cardinality(CodeUncounted(k)'),
                 Cardinality(CodeDeleting(k)'), lost')
    BY <1>2, <1>3, <1>6, <2>1, <2>2 DEF WhenOpen
  <2> QED
    BY <1>8, <2>3, CodeFormsNext
<1> QED
  BY <1>7, <1>8

\* A wrong code for k.
LEMMA WrongCodeAccounted ==
    ASSUME ChallengeTypeOK, NEW k \in CodeKey, NEW r \in Request,
           wrong[k] = 0 \/ CodesAccounted(k),
           VerifyForLogin(r), CodeKeyOf(r) = k, wrong' # wrong,
           ~call[r].bad
    PROVE  CodesAccounted(k)'
<1>1. /\ call[r].pc = "verify" /\ call[r] # NoCall
      /\ call[r] \in Call
  BY VerifyMoves, VerifyingType
<1>2. /\ Advances(r, "incr") /\ call'[r].bad = call[r].bad
      /\ wrong' = [wrong EXCEPT ![k] = @ + 1]
  BY VerifyMoves
<1>3. wrong'[k] = wrong[k] + 1 /\ UNCHANGED <<codeFails, codeLock, lost>>
  BY <1>2 DEF ChallengeTypeOK, VerifyForLogin, codeRedis
<1>4. /\ Moves(CodeUncounted(k), CodeUncounted(k)', r)
      /\ Moves(CodeDeleting(k), CodeDeleting(k)', r)
      /\ Moves(CodeAdmitted(k), CodeAdmitted(k)', r)
  BY <1>2, VerifyingMoves DEF Advances
<1>5. /\ r \notin CodeUncounted(k) /\ r \notin CodeDeleting(k)
      /\ r \notin CodeDeleting(k)'
      /\ r \in CodeAdmitted(k) /\ r \notin CodeAdmitted(k)'
  BY <1>1, <1>2 DEF Advances, CodeUncounted, CodeDeleting, CodeAdmitted
<1>6. Cardinality(CodeDeleting(k)) <= Cardinality(Request) - 1
      /\ Cardinality(CodeAdmitted(k)) <= Cardinality(Request)
  <2>1. CodeDeleting(k) \in SUBSET Request /\ CodeAdmitted(k) \in SUBSET Request
    BY DEF CodeDeleting, CodeAdmitted
  <2> QED
    BY <1>5, <2>1, RequestBound
<1>7. CASE k \in codeLock
  <2>1. WhenLocked(wrong[k] + 1, Cardinality(CodeAdmitted(k)) - 1, lost)
    <3>1. wrong[k] = 0 \/ WhenLocked(wrong[k], Cardinality(CodeAdmitted(k)), lost)
      BY <1>7, CodeForms
    <3>2. Cardinality(CodeAdmitted(k)) # 0
      BY <1>4, <1>5 DEF Moves
    <3> QED
      BY <1>6, <3>1, <3>2, CodeSizes, LockedWrong
  <2>2. Cardinality(CodeAdmitted(k)') = Cardinality(CodeAdmitted(k)) - 1
    BY <1>4, <1>5 DEF Moves
  <2> QED
    BY <1>3, <1>7, <2>1, <2>2, CodeFormsNext
<1>8. CASE k \notin codeLock
  <2>0. r \in CodeUncounted(k)'
    BY <1>2 DEF Advances, CodeUncounted, CodeKeyOf
  <2>1. WhenOpen(wrong[k] + 1, CodeLow(codeFails[k]),
                 Cardinality(CodeUncounted(k)) + 1, Cardinality(CodeDeleting(k)), lost)
    <3>1. wrong[k] = 0 \/ WhenOpen(wrong[k], CodeLow(codeFails[k]),
              Cardinality(CodeUncounted(k)), Cardinality(CodeDeleting(k)), lost)
      BY <1>8, CodeForms
    <3> QED
      BY <1>6, <3>1, CodeSizes, OpenWrong
  <2>2. /\ Cardinality(CodeUncounted(k)') = Cardinality(CodeUncounted(k)) + 1
        /\ Cardinality(CodeDeleting(k)') = Cardinality(CodeDeleting(k))
    BY <1>4, <1>5, <2>0 DEF Moves
  <2> QED
    BY <1>3, <1>8, <2>1, <2>2, CodeFormsNext
<1> QED
  BY <1>7, <1>8

\* The lock of k is set.
LEMMA CodeLockAccounted ==
    ASSUME ChallengeTypeOK, ChallengeTypeOK', NEW k \in CodeKey, NEW r \in Request,
           CodesAccounted(k), CodeSetLock(r), CodeKeyOf(r) = k
    PROVE  CodesAccounted(k)'
<1>1. Advances(r, "delete fails")
  BY SetLockMoves
<1>2. k \in codeLock' /\ UNCHANGED <<codeFails, wrong, lost>>
  BY DEF CodeSetLock, codeHist
<1>3. Moves(CodeAdmitted(k), CodeAdmitted(k)', r) /\ r \notin CodeAdmitted(k)'
  BY <1>1, VerifyingMoves DEF Advances, CodeAdmitted
<1>4. Cardinality(CodeAdmitted(k)') <= Cardinality(CodeAdmitted(k))
  BY <1>3 DEF Moves
<1>5. /\ wrong[k] \in Nat /\ CodeLow(codeFails[k]) \in Nat /\ lost \in Nat
      /\ CodeLow(codeFails[k]) <= MaxAttempts - 1
      /\ Cardinality(CodeUncounted(k)) \in Nat /\ Cardinality(CodeDeleting(k)) \in Nat
      /\ Cardinality(CodeAdmitted(k)) \in Nat /\ Cardinality(Request) \in Nat
  BY CodeSizes
<1>6. Cardinality(CodeAdmitted(k)') \in Nat
  BY CodeSizesNext
<1>7. CASE k \in codeLock
  <2>1. MaxAttempts * Cardinality(Request) \in Nat
    BY Limits
  <2>8. WhenLocked(wrong[k], Cardinality(CodeAdmitted(k)), lost)
    BY <1>7, CodeForms
  <2>9. WhenLocked(wrong'[k], Cardinality(CodeAdmitted(k)'), lost')
    BY <1>2, <1>4, <1>5, <1>6, <1>7, <2>1, <2>8 DEF WhenLocked
  <2> QED
    BY <1>2, <1>7, <2>9, CodeFormsNext
<1>8. CASE k \notin codeLock
  <2>1. Cardinality(CodeUncounted(k)) + Cardinality(CodeAdmitted(k)') <= Cardinality(Request)
    <3>1. CodeUncounted(k) \in SUBSET Request /\ CodeAdmitted(k) \in SUBSET Request
      BY DEF CodeUncounted, CodeAdmitted
    <3>2. CodeUncounted(k) \cap CodeAdmitted(k) = {}
      BY DEF CodeUncounted, CodeAdmitted
    <3>3. Cardinality(CodeUncounted(k)) + Cardinality(CodeAdmitted(k)) <= Cardinality(Request)
      BY <3>1, <3>2, RequestBound
    <3> QED
      BY <1>4, <1>5, <1>6, <3>3
  <2>2. WhenOpen(wrong[k], CodeLow(codeFails[k]), Cardinality(CodeUncounted(k)),
                 Cardinality(CodeDeleting(k)), lost)
    BY <1>8, CodeForms
  <2>3. WhenLocked(wrong[k], Cardinality(CodeAdmitted(k)'), lost)
    BY <1>5, <1>6, <2>1, <2>2, OpenLocks
  <2> QED
    BY <1>2, <2>3, CodeFormsNext
<1> QED
  BY <1>7, <1>8

\* The count of k is deleted.
LEMMA CodeDeleteAccounted ==
    ASSUME ChallengeTypeOK, ChallengeTypeOK', NEW k \in CodeKey, NEW r \in Request,
           CodesAccounted(k), CodeDeleteFails(r), CodeKeyOf(r) = k
    PROVE  CodesAccounted(k)'
<1>1. /\ call[r].pc = "delete fails" /\ call[r] # NoCall
      /\ \E p \in {"mismatch", "refuse"} : Advances(r, p)
  BY DeleteFailsMoves, VerifyingType DEF AfterRecord
<1>2. codeFails'[k] = 0 /\ UNCHANGED <<codeLock, wrong, lost>>
  BY DEF CodeDeleteFails, codeHist, ChallengeTypeOK
<1>3. /\ Moves(CodeUncounted(k), CodeUncounted(k)', r)
      /\ Moves(CodeDeleting(k), CodeDeleting(k)', r)
      /\ Moves(CodeAdmitted(k), CodeAdmitted(k)', r)
  BY <1>1, VerifyingMoves DEF Advances
<1>4. /\ r \notin CodeUncounted(k) /\ r \notin CodeUncounted(k)'
      /\ r \in CodeDeleting(k) /\ r \notin CodeDeleting(k)'
      /\ r \notin CodeAdmitted(k)'
  BY <1>1 DEF Advances, CodeUncounted, CodeDeleting, CodeAdmitted
<1>5. Cardinality(CodeAdmitted(k)') <= Cardinality(CodeAdmitted(k))
  BY <1>3, <1>4 DEF Moves
<1>6. /\ wrong[k] \in Nat /\ CodeLow(codeFails[k]) \in Nat /\ lost \in Nat
      /\ CodeLow(codeFails[k]) <= MaxAttempts - 1
      /\ Cardinality(CodeUncounted(k)) \in Nat /\ Cardinality(CodeDeleting(k)) \in Nat
      /\ Cardinality(CodeAdmitted(k)) \in Nat
  BY CodeSizes
<1>7. CASE k \in codeLock
  <2>1. MaxAttempts * Cardinality(Request) \in Nat
    BY Limits
  <2>2. Cardinality(CodeAdmitted(k)') \in Nat
    BY CodeSizesNext
  <2>8. WhenLocked(wrong[k], Cardinality(CodeAdmitted(k)), lost)
    BY <1>7, CodeForms
  <2>9. WhenLocked(wrong'[k], Cardinality(CodeAdmitted(k)'), lost')
    BY <1>2, <1>5, <1>6, <1>7, <2>1, <2>2, <2>8 DEF WhenLocked
  <2> QED
    BY <1>2, <1>7, <2>9, CodeFormsNext
<1>8. CASE k \notin codeLock
  <2>1. WhenOpen(wrong[k], CodeLow(codeFails[k]), Cardinality(CodeUncounted(k)),
                 Cardinality(CodeDeleting(k)), lost)
    BY <1>8, CodeForms
  <2>2. /\ Cardinality(CodeDeleting(k)') = Cardinality(CodeDeleting(k)) - 1
        /\ Cardinality(CodeDeleting(k)) # 0
        /\ Cardinality(CodeUncounted(k)') = Cardinality(CodeUncounted(k))
    BY <1>3, <1>4 DEF Moves
  <2>3. WhenOpen(wrong[k], 0, Cardinality(CodeUncounted(k)),
                 Cardinality(CodeDeleting(k)) - 1, lost)
    BY <1>6, <2>1, <2>2, OpenDeletes
  <2>4. CodeLow(codeFails'[k]) = 0
    BY <1>2, AttemptsAssumption DEF CodeLow
  <2> QED
    BY <1>2, <1>8, <2>2, <2>3, <2>4, CodeFormsNext
<1> QED
  BY <1>7, <1>8

\* A request about k that moves between calls which neither count nor lock.
LEMMA CodesPass ==
    ASSUME ChallengeTypeOK, ChallengeTypeOK', NEW k \in CodeKey, NEW r \in Request,
           CodesAccounted(k), UNCHANGED <<codeFails, codeLock, wrong, lost>>,
           call[r].pc \notin {"lock", "incr"},
           \/ Ends(r)
           \/ \E p \in Steps \ {"get", "delete fails"} :
                 /\ Advances(r, p)
                 /\ p \in {"user", "verify"} => call[r].pc \in {"get", "user", "verify"}
    PROVE  CodesAccounted(k)'
<1>1. \A q \in Request \ {r} : call'[q] = call[q]
  BY DEF Advances, Ends
<1>2. r \notin CodeUncounted(k)
  BY DEF CodeUncounted
<1>3. r \notin CodeDeleting(k)' /\ (r \in CodeAdmitted(k)' => r \in CodeAdmitted(k))
  <2>1. CASE Ends(r)
    BY <2>1 DEF Ends, CodeDeleting, CodeAdmitted
  <2>2. CASE \E p \in Steps \ {"get", "delete fails"} :
               /\ Advances(r, p)
               /\ p \in {"user", "verify"} => call[r].pc \in {"get", "user", "verify"}
    <3>1. PICK p \in Steps \ {"get", "delete fails"} :
               /\ Advances(r, p)
               /\ p \in {"user", "verify"} => call[r].pc \in {"get", "user", "verify"}
      BY <2>2
    <3>2. call'[r].pc = p /\ CodeKeyOf(r)' = CodeKeyOf(r)
      BY <3>1 DEF Advances, CodeKeyOf
    <3>3. call[r].pc \in {"get", "user", "verify"} => call[r] # NoCall
      BY VerifyingType
    <3> QED
      BY <3>1, <3>2, <3>3 DEF CodeDeleting, CodeAdmitted
  <2> QED
    BY <2>1, <2>2
<1>4. /\ wrong'[k] = wrong[k] /\ lost' = lost /\ codeFails'[k] = codeFails[k]
      /\ k \in codeLock' <=> k \in codeLock
  OBVIOUS
<1> QED
  BY <1>1, <1>2, <1>3, <1>4, CodesQuiet

\* A request about another pair than k.
LEMMA CodesElsewhere ==
    ASSUME ChallengeTypeOK, ChallengeTypeOK', NEW k \in CodeKey, NEW r \in Request,
           CodesAccounted(k), CodeKeyOf(r) # k, wrong'[k] = wrong[k],
           codeFails'[k] = codeFails[k], k \in codeLock' <=> k \in codeLock, lost' = lost,
           \E p \in Steps : Advances(r, p)
    PROVE  CodesAccounted(k)'
<1>1. \A q \in Request \ {r} : call'[q] = call[q]
  BY DEF Advances
<1>2. CodeKeyOf(r)' # k
  BY DEF Advances, CodeKeyOf
<1>3. /\ r \notin CodeUncounted(k) /\ r \notin CodeDeleting(k)'
      /\ r \notin CodeAdmitted(k)'
  BY <1>2 DEF CodeUncounted, CodeDeleting, CodeAdmitted
<1> QED
  BY <1>1, <1>3, CodesQuiet

\* Each step keeps the account of a pair, or the pair is cleared.
LEMMA NextCodes ==
    ASSUME ChallengeTypeOK, ChallengeTypeOK', Unjudged, NEW k \in CodeKey,
           wrong[k] = 0 \/ CodesAccounted(k), [ChallengeNext]_codeVars
    PROVE  wrong'[k] = 0 \/ CodesAccounted(k)'
<1> SUFFICES ASSUME wrong'[k] # 0 PROVE CodesAccounted(k)'
  OBVIOUS
<1>0. wrong'[k] = wrong[k] => CodesAccounted(k)
  OBVIOUS
<1>1. CASE UNCHANGED <<codeFails, codeLock, wrong, lost, call>>
  BY <1>0, <1>1 DEF CodesAccounted, CodeUncounted, CodeDeleting, CodeAdmitted,
                    CodeKeyOf, CodeLow
<1>2. ASSUME Deactivate \/ (\E c \in Challenge : ChallengeExpires(c))
               \/ (\E c \in Challenge, a \in Address, u \in Agent : Create(c, a, u))
               \/ UNCHANGED codeVars
      PROVE  CodesAccounted(k)'
  BY <1>1, <1>2 DEF Deactivate, ChallengeExpires, Create, codeVars,
                    codeRedis, codeHist
<1>3. ASSUME NEW c \in Challenge, NEW a \in Address, NEW u \in Agent, NEW r \in Request,
             CodeBegin(r, c, a, u)
      PROVE  CodesAccounted(k)'
  <2>1. UNCHANGED <<codeFails, codeLock, wrong, lost>>
    BY <1>3 DEF CodeBegin, codeRedis, codeHist
  <2>2. /\ \A q \in Request \ {r} : call'[q] = call[q]
        /\ call[r] = NoCall /\ call'[r].pc = "assert"
    BY <1>3, BeginMoves
  <2>3. /\ r \notin CodeUncounted(k) /\ r \notin CodeDeleting(k)'
        /\ r \notin CodeAdmitted(k)'
    BY <2>2 DEF CodeUncounted, CodeDeleting, CodeAdmitted
  <2> QED
    BY <1>0, <2>1, <2>2, <2>3, CodesQuiet
<1>4. ASSUME NEW r \in Request, assert_not_locked(r) PROVE CodesAccounted(k)'
  <2>1. UNCHANGED <<codeFails, codeLock, wrong, lost>>
    BY <1>4 DEF assert_not_locked, codeRedis, codeHist
  <2>2. call[r].pc = "assert"
    BY <1>4, AssertMoves
  <2>3. CASE Ends(r)
    BY <1>0, <2>1, <2>2, <2>3, CodesPass
  <2>4. CASE CodeKeyOf(r) \notin codeLock /\ Advances(r, "get")
    <3>1. CodeKeyOf(r)' = CodeKeyOf(r) /\ call'[r].pc = "get"
          /\ \A q \in Request \ {r} : call'[q] = call[q]
      BY <2>4 DEF Advances, CodeKeyOf
    <3>2. /\ r \notin CodeUncounted(k) /\ r \notin CodeDeleting(k)'
          /\ r \in CodeAdmitted(k)' => k \notin codeLock
      BY <2>2, <2>4, <3>1 DEF CodeUncounted, CodeDeleting, CodeAdmitted
    <3> QED
      BY <1>0, <2>1, <3>1, <3>2, CodesQuiet
  <2> QED
    BY <1>4, <2>3, <2>4, AssertMoves
<1>5. ASSUME NEW r \in Request, _get_login_challenge(r)
      PROVE  CodesAccounted(k)'
  <2>1. UNCHANGED <<codeFails, codeLock, wrong, lost>>
    BY <1>5 DEF _get_login_challenge, codeRedis, codeHist
  <2>2. call[r].pc = "get"
    BY <1>5, GetMoves
  <2> QED
    BY <1>0, <1>5, <2>1, <2>2, GetMoves, CodesPass DEF Steps
<1>6. ASSUME NEW r \in Request, GetUser(r) PROVE CodesAccounted(k)'
  <2>1. UNCHANGED <<codeFails, codeLock, wrong, lost>>
    BY <1>6 DEF GetUser, codeRedis, codeHist
  <2> QED
    BY <1>0, <1>6, <2>1, UserMoves, CodesPass DEF Steps
<1>7. ASSUME NEW r \in Request, VerifyForLogin(r) PROVE CodesAccounted(k)'
  <2>1. UNCHANGED <<codeFails, codeLock, lost>> /\ call[r].pc = "verify"
    BY <1>7, VerifyMoves DEF VerifyForLogin, codeRedis
  <2>2. CASE wrong' = wrong
    BY <1>0, <1>7, <2>1, <2>2, VerifyMoves, CodesPass DEF Steps
  <2>3. CASE wrong' # wrong /\ CodeKeyOf(r) = k
    <3>1. ~call[r].bad
      BY <2>1, VerifyingType DEF Unjudged
    <3> QED
      BY <1>7, <2>3, <3>1, WrongCodeAccounted
  <2>4. CASE wrong' # wrong /\ CodeKeyOf(r) # k
    <3>1. /\ Advances(r, "incr") /\ wrong' = [wrong EXCEPT ![CodeKeyOf(r)] = @ + 1]
          /\ CodeKeyOf(r) \in CodeKey
      BY <1>7, <2>1, <2>4, VerifyMoves, VerifyingType
    <3>2. wrong'[k] = wrong[k]
      BY <2>4, <3>1 DEF ChallengeTypeOK
    <3> QED
      BY <1>0, <2>1, <2>4, <3>1, <3>2, CodesElsewhere DEF Steps
  <2> QED
    BY <2>2, <2>3, <2>4
<1>8. ASSUME NEW r \in Request, CodeIncr(r) PROVE CodesAccounted(k)'
  <2>0. /\ UNCHANGED <<codeLock, wrong, lost>> /\ CodeKeyOf(r) \in CodeKey
        /\ codeFails' = [codeFails EXCEPT ![CodeKeyOf(r)] = codeFails[CodeKeyOf(r)] + 1]
    BY <1>8, VerifyingType DEF CodeIncr, codeHist
  <2>1. PICK p \in Steps \ {"get", "user", "verify", "delete fails"} :
           /\ Advances(r, p)
           /\ codeFails[CodeKeyOf(r)] + 1 >= MaxAttempts => p = "lock"
    BY <1>8, IncrMoves DEF AfterRecord, Steps
  <2>2. CASE CodeKeyOf(r) # k
    <3>1. codeFails'[k] = codeFails[k]
      BY <2>0, <2>2 DEF ChallengeTypeOK
    <3> QED
      BY <1>0, <2>0, <2>1, <2>2, <3>1, CodesElsewhere
  <2>3. CASE CodeKeyOf(r) = k
    <3>1. codeFails'[k] = codeFails[k] + 1
      BY <2>0, <2>3 DEF ChallengeTypeOK
    <3>2. /\ \A q \in Request \ {r} : call'[q] = call[q]
          /\ call'[r] # NoCall /\ call'[r].pc = p /\ CodeKeyOf(r)' = k
      BY <2>1, <2>3 DEF Advances, CodeKeyOf
    <3>3. codeFails[k] + 1 >= MaxAttempts => r \in CodeUncounted(k)'
      BY <2>1, <2>3, <3>2 DEF CodeUncounted
    <3>4. r \notin CodeDeleting(k)' /\ r \notin CodeAdmitted(k)'
      BY <2>1, <3>2 DEF CodeDeleting, CodeAdmitted
    <3>5. wrong'[k] = wrong[k] /\ lost' = lost /\ (k \in codeLock' <=> k \in codeLock)
      BY <2>0
    <3>6. CodesAccounted(k)
      BY <1>0, <2>0
    <3> QED
      BY <3>1, <3>2, <3>3, <3>4, <3>5, <3>6, CodesQuiet
  <2> QED
    BY <2>2, <2>3
<1>9. ASSUME NEW r \in Request, CodeSetLock(r) PROVE CodesAccounted(k)'
  <2>1. UNCHANGED <<codeFails, wrong, lost>> /\ codeLock' = codeLock \cup {CodeKeyOf(r)}
    BY <1>9 DEF CodeSetLock, codeHist
  <2>2. CASE CodeKeyOf(r) = k
    BY <1>0, <1>9, <2>1, <2>2, CodeLockAccounted
  <2>3. CASE CodeKeyOf(r) # k
    <3>1. k \in codeLock' <=> k \in codeLock
      BY <2>1, <2>3
    <3> QED
      BY <1>0, <1>9, <2>1, <2>3, <3>1, SetLockMoves, CodesElsewhere DEF Steps
  <2> QED
    BY <2>2, <2>3
<1>10. ASSUME NEW r \in Request, CodeDeleteFails(r) PROVE CodesAccounted(k)'
  <2>1. /\ UNCHANGED <<codeLock, wrong, lost>>
        /\ codeFails' = [codeFails EXCEPT ![CodeKeyOf(r)] = 0]
    BY <1>10 DEF CodeDeleteFails, codeHist
  <2>2. CASE CodeKeyOf(r) = k
    BY <1>0, <1>10, <2>1, <2>2, CodeDeleteAccounted
  <2>3. CASE CodeKeyOf(r) # k
    <3>1. codeFails'[k] = codeFails[k]
      BY <2>1, <2>3 DEF ChallengeTypeOK
    <3>2. \E p \in Steps : Advances(r, p)
      BY <1>10, DeleteFailsMoves DEF AfterRecord, Steps
    <3> QED
      BY <1>0, <2>1, <2>3, <3>1, <3>2, CodesElsewhere
  <2> QED
    BY <2>2, <2>3
<1>11. ASSUME NEW r \in Request, Refuse(r) \/ Commit(r)
       PROVE  CodesAccounted(k)'
  <2>1. /\ UNCHANGED <<codeFails, codeLock, wrong, lost>>
        /\ call[r].pc \in {"refuse", "commit"} /\ Ends(r)
    BY <1>11, DoneEnds DEF Refuse, Commit, codeRedis, codeHist
  <2> QED
    BY <1>0, <2>1, CodesPass
<1>12. ASSUME NEW r \in Request, clear_failures(r) PROVE CodesAccounted(k)'
  <2>0. CodeKeyOf(r) \in CodeKey
    BY <1>12, VerifyingType DEF clear_failures
  <2>1. /\ lost' = lost /\ codeFails' = [codeFails EXCEPT ![CodeKeyOf(r)] = 0]
        /\ codeLock' = codeLock \ {CodeKeyOf(r)}
        /\ wrong' = [wrong EXCEPT ![CodeKeyOf(r)] = 0]
    BY <1>12 DEF clear_failures
  <2>2. CodeKeyOf(r) # k
    BY <2>1 DEF ChallengeTypeOK
  <2>3. /\ codeFails'[k] = codeFails[k] /\ wrong'[k] = wrong[k]
        /\ k \in codeLock' <=> k \in codeLock
    BY <2>0, <2>1, <2>2 DEF ChallengeTypeOK
  <2> QED
    BY <1>0, <1>12, <2>1, <2>2, <2>3, ClearMoves, CodesElsewhere DEF Steps
<1>13. ASSUME NEW r \in Request, _delete_login_challenge(r)
       PROVE  CodesAccounted(k)'
  <2>1. UNCHANGED <<codeFails, codeLock, wrong, lost>>
    BY <1>13 DEF _delete_login_challenge, codeHist
  <2>2. call[r].pc \notin {"lock", "incr"} /\ Advances(r, "commit")
    BY <1>13, DeleteMoves
  <2>3. CodesAccounted(k) /\ "commit" \in Steps \ {"get", "delete fails"}
    BY <1>0, <2>1 DEF Steps
  <2> QED
    BY <2>1, <2>2, <2>3, CodesPass
<1>14. ASSUME NEW r \in Request, CodeDie(r) PROVE CodesAccounted(k)'
  <2>1. /\ UNCHANGED <<codeFails, codeLock, wrong>> /\ lost' = lost + 1 /\ Ends(r)
    BY <1>14, DoneEnds DEF CodeDie, codeRedis
  <2>2. r \notin CodeDeleting(k)' /\ r \notin CodeAdmitted(k)'
    BY <2>1 DEF Ends, CodeDeleting, CodeAdmitted
  <2>3. \A q \in Request \ {r} : call'[q] = call[q]
    BY <2>1 DEF Ends
  <2> QED
    BY <1>0, <2>1, <2>2, <2>3, CodesQuiet
<1> QED
  BY <1>2, <1>3, <1>4, <1>5, <1>6, <1>7, <1>8, <1>9, <1>10, <1>11, <1>12, <1>13, <1>14
     DEF ChallengeNext

\* A request is judged only when it is refused: by its address, or after its code.
LEMMA NextUnjudged ==
    ASSUME ChallengeTypeOK, Unjudged, [ChallengeNext]_codeVars
    PROVE  Unjudged'
<1> DEFINE Early == {"assert", "get", "user", "verify"}
<1>1. ASSUME NEW r \in Request, \A q \in Request \ {r} : call'[q] = call[q],
             call'[r] # NoCall /\ call'[r].pc \in Early => ~call'[r].bad
      PROVE  Unjudged'
  BY <1>1 DEF Unjudged
<1>2. ASSUME NEW r \in Request, NEW p, Advances(r, p), p \notin Early
      PROVE  Unjudged'
  BY <1>1, <1>2 DEF Advances
<1>3. ASSUME NEW r \in Request, Ends(r) PROVE Unjudged'
  BY <1>1, <1>3 DEF Ends
<1>4. ASSUME NEW r \in Request, NEW p, Advances(r, p), call'[r].bad = call[r].bad,
             call[r].pc \in Early
      PROVE  Unjudged'
  <2>1. ~call[r].bad
    BY <1>4, VerifyingType DEF Unjudged
  <2> QED
    BY <1>1, <1>4, <2>1 DEF Advances
<1>5. CASE call' = call
  BY <1>5 DEF Unjudged
<1>6. ASSUME NEW c \in Challenge, NEW a \in Address, NEW u \in Agent, NEW r \in Request,
             CodeBegin(r, c, a, u)
      PROVE  Unjudged'
  BY <1>1, <1>6, BeginMoves
<1>7. ASSUME NEW r \in Request, assert_not_locked(r) PROVE Unjudged'
  BY <1>3, <1>4, <1>7, AssertMoves
<1>8. ASSUME NEW r \in Request, _get_login_challenge(r) PROVE Unjudged'
  BY <1>2, <1>3, <1>4, <1>8, GetMoves
<1>9. ASSUME NEW r \in Request, GetUser(r) PROVE Unjudged'
  BY <1>4, <1>9, UserMoves
<1>10. ASSUME NEW r \in Request, VerifyForLogin(r) PROVE Unjudged'
  BY <1>2, <1>3, <1>10, VerifyMoves
<1>11. ASSUME NEW r \in Request, CodeIncr(r) PROVE Unjudged'
  <2>1. PICK p \in {"lock", "mismatch", "refuse"} : Advances(r, p)
    BY <1>11, IncrMoves DEF AfterRecord
  <2> QED
    BY <1>2, <2>1
<1>12. ASSUME NEW r \in Request, CodeSetLock(r) \/ CodeDeleteFails(r)
       PROVE  Unjudged'
  <2>1. PICK p \in {"delete fails", "mismatch", "refuse"} : Advances(r, p)
    BY <1>12, SetLockMoves, DeleteFailsMoves DEF AfterRecord
  <2> QED
    BY <1>2, <2>1
<1>13. ASSUME NEW r \in Request, Refuse(r) \/ Commit(r) \/ CodeDie(r)
       PROVE  Unjudged'
  BY <1>3, <1>13, DoneEnds DEF Refuse, Commit, CodeDie
<1>14. ASSUME NEW r \in Request, clear_failures(r) \/ _delete_login_challenge(r)
       PROVE  Unjudged'
  BY <1>2, <1>14, ClearMoves, DeleteMoves
<1>15. ASSUME Deactivate \/ (\E c \in Challenge : ChallengeExpires(c))
               \/ (\E c \in Challenge, a \in Address, u \in Agent : Create(c, a, u))
               \/ UNCHANGED codeVars
       PROVE  Unjudged'
  BY <1>5, <1>15 DEF Deactivate, ChallengeExpires, Create, codeVars
<1> QED
  BY <1>6, <1>7, <1>8, <1>9, <1>10, <1>11, <1>12, <1>13, <1>14, <1>15 DEF ChallengeNext

\* However the checks of the lock, the codes, the counts, the locks and the clearing
\* of verify_login_challenge interleave, and whichever requests die, a challenge sees
\* no more wrong codes from an address than the limit for each request.
THEOREM CodesAreBounded == ChallengeSpec => []BoundedCodes
<1>1. ChallengeInit => ChallengeTypeOK /\ CodeInv
  BY SecondInitType DEF ChallengeInit, CodeInv, Unjudged
<1>2. ChallengeTypeOK /\ CodeInv /\ [ChallengeNext]_codeVars
        => (ChallengeTypeOK /\ CodeInv)'
  <2> SUFFICES ASSUME ChallengeTypeOK, CodeInv, [ChallengeNext]_codeVars
               PROVE  ChallengeTypeOK' /\ CodeInv'
    OBVIOUS
  <2>1. ChallengeTypeOK'
    BY SecondNextType
  <2>2. Unjudged'
    BY NextUnjudged DEF CodeInv
  <2>3. ASSUME NEW k \in CodeKey PROVE (wrong[k] = 0 \/ CodesAccounted(k))'
    BY <2>1, NextCodes DEF CodeInv
  <2> QED
    BY <2>1, <2>2, <2>3 DEF CodeInv, CodeKey
<1>3. ChallengeTypeOK /\ CodeInv => BoundedCodes
  <2> SUFFICES ASSUME ChallengeTypeOK, CodeInv, NEW k \in CodeKey
               PROVE  wrong[k] <= MaxAttempts * Cardinality(Request) + lost
    BY DEF BoundedCodes
  <2>1. /\ MaxAttempts * Cardinality(Request) \in Nat
        /\ Cardinality(Request) = Cardinality(Request)
    BY Limits, SameCardinality
  <2>2. /\ lost \in Nat /\ wrong[k] \in Nat /\ CodeLow(codeFails[k]) \in Nat
        /\ CodeLow(codeFails[k]) <= MaxAttempts - 1
        /\ Cardinality(CodeAdmitted(k)) \in Nat /\ Cardinality(CodeUncounted(k)) \in Nat
        /\ Cardinality(CodeDeleting(k)) \in Nat
    BY CodeSizes
  <2>3. wrong[k] = 0 \/ CodesAccounted(k)
    BY DEF CodeInv
  <2>4. CASE wrong[k] = 0
    BY <2>1, <2>2, <2>4
  <2>5. CASE CodesAccounted(k) /\ k \in codeLock
    <3>1. WhenLocked(wrong[k], Cardinality(CodeAdmitted(k)), lost)
      BY <2>5, CodeForms
    <3> QED
      BY <2>1, <2>2, <3>1 DEF WhenLocked
  <2>6. CASE CodesAccounted(k) /\ k \notin codeLock
    <3>1. WhenOpen(wrong[k], CodeLow(codeFails[k]), Cardinality(CodeUncounted(k)),
                   Cardinality(CodeDeleting(k)), lost)
      BY <2>6, CodeForms
    <3>2. Cardinality(CodeUncounted(k)) + 0 <= Cardinality(Request)
      <4>1. CodeUncounted(k) \in SUBSET Request
        BY DEF CodeUncounted
      <4> QED
        BY <4>1, RequestBound
    <3>3. WhenLocked(wrong[k], 0, lost)
      BY <2>2, <3>1, <3>2, OpenLocks
    <3> QED
      BY <2>1, <2>2, <3>3 DEF WhenLocked
  <2> QED
    BY <2>3, <2>4, <2>5, <2>6
<1> QED
  BY <1>1, <1>2, <1>3, PTL DEF ChallengeSpec
=============================================================================
