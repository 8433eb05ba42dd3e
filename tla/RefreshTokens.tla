--------------------------- MODULE RefreshTokens ---------------------------
(***************************************************************************)
(* Refresh-token families of auth-service: login, rotation with reuse      *)
(* detection, logout of one token or of the family, and the revocation     *)
(* that ends a password reset, as they interleave on one PostgreSQL        *)
(* database (READ COMMITTED) and one Redis.                                *)
(*                                                                         *)
(* One step is one awaited database or Redis call of a request, so other   *)
(* requests run between any two of them.  What a transaction has written   *)
(* but not committed is invisible to the others; the rows it has locked    *)
(* make them wait.                                                         *)
(***************************************************************************)
EXTENDS Naturals, FiniteSets

CONSTANTS
    User,       \* accounts
    Session,    \* rows of user_sessions; a session has one refresh family
    Jti,        \* rows of refresh_tokens, by jti
    Request,    \* HTTP requests being handled at the same time
    Owner,      \* the account each session is opened for
    Ops,        \* what happens: the requests clients send, and expiry
    None        \* SQL NULL

TokenOps == {"refresh", "logout", "logout_family"}
AllOps   == TokenOps \cup {"reset", "expire"}

ASSUME ConstantsAssumption ==
    /\ Owner \in [Session -> User]
    /\ Ops \subseteq AllOps
    /\ None \notin Session /\ None \notin Jti

VARIABLES
    status,     \* refresh_tokens: free (no row), pending (inserted by a
                \* transaction still open), live (revoked_at IS NULL),
                \* rotated or revoked
    family,     \* refresh_tokens.family_id, named by its session
    parent,     \* refresh_tokens.parent_jti
    expired,    \* tokens whose expires_at has passed
    session,    \* user_sessions: none (no row), active or revoked
    pc,         \* what each request does next
    op,         \* what each request was sent for
    tok,        \* the refresh token it presented
    scope,      \* the sessions its revoking UPDATEs are about
    todo,       \* rows its running UPDATE refresh_tokens still has to lock
    kill,       \* refresh_tokens rows it has revoked, not committed
    stodo,      \* rows its running UPDATE user_sessions still has to lock
    close,      \* user_sessions rows it has revoked, not committed
    marks,      \* sessions whose Redis marker it still has to set
    child,      \* the token it has inserted, not committed
    tlock,      \* refresh_tokens rows its transaction has locked
    slock,      \* user_sessions rows its transaction has locked
    denied,     \* access tokens, each named by the refresh token issued with
                \* it, that a marker of their session was set after
    late        \* history: tokens committed into a revoked session

rows  == <<status, family, parent, expired, session>>
redis == <<denied>>
local == <<pc, op, tok, scope, todo, kill, stodo, close, marks, child,
           tlock, slock>>
vars  == <<rows, redis, local, late>>

-----------------------------------------------------------------------------
(* Row states and row locks *)

Issued(j)  == status[j] \in {"live", "rotated", "revoked"}
Tokens(s)  == {j \in Jti : family[j] = s}
Live(s)    == {j \in Tokens(s) : status[j] = "live"}
SessionsOf(u) == {s \in Session : Owner[s] = u}

\* The bound on the number of tokens: a uuid4 is always fresh, so nothing that
\* may need a new row begins unless a row is left for it.
JtiToSpare ==
    Cardinality({j \in Jti : status[j] = "free"})
      > Cardinality({r \in Request : op[r] = "refresh"
                                     /\ pc[r] \in {"select", "check", "touch"}})

IsFamilyActive(s) == session[s] = "active"

\* A row lock is granted when no other open transaction holds it.
\* Mutated form: a plain SELECT, which waits for nobody.
RowUnlocked(r, j) == TRUE
TokenRowFree(r, j) == \A q \in Request \ {r} : j \notin tlock[q]

\* Mutated form: the UPDATE of user_sessions does not wait.
SessionUnlocked(r, s) == TRUE
SessionRowFree(r, s) == \A q \in Request \ {r} : s \notin slock[q]

-----------------------------------------------------------------------------

Init ==
    /\ status  = [j \in Jti |-> "free"]
    /\ family  = [j \in Jti |-> None]
    /\ parent  = [j \in Jti |-> None]
    /\ expired = {}
    /\ session = [s \in Session |-> "none"]
    /\ pc      = [r \in Request |-> "idle"]
    /\ op      = [r \in Request |-> "refresh"]
    /\ tok     = [r \in Request |-> None]
    /\ scope   = [r \in Request |-> {}]
    /\ todo    = [r \in Request |-> {}]
    /\ kill    = [r \in Request |-> {}]
    /\ stodo   = [r \in Request |-> {}]
    /\ close   = [r \in Request |-> {}]
    /\ marks   = [r \in Request |-> {}]
    /\ child   = [r \in Request |-> None]
    /\ tlock   = [r \in Request |-> {}]
    /\ slock   = [r \in Request |-> {}]
    /\ denied  = {}
    /\ late    = {}

\* issue_for_user and the commit that follows it in login and in
\* verify_login_challenge: a new session with its first token.  Nothing of it
\* is visible, and nothing is locked, before the commit.
IssueForUser(s, j) ==
    /\ session[s] = "none"
    /\ status[j] = "free" /\ JtiToSpare
    /\ session' = [session EXCEPT ![s] = "active"]
    /\ status'  = [status EXCEPT ![j] = "live"]
    /\ family'  = [family EXCEPT ![j] = s]
    /\ UNCHANGED <<parent, expired, redis, local, late>>

\* The end of a token's lifetime.  Past it decode_and_validate refuses the
\* token, so no request begins with it.
Expire(j) ==
    /\ "expire" \in Ops
    /\ Issued(j) /\ j \notin expired
    /\ expired' = expired \cup {j}
    /\ UNCHANGED <<status, family, parent, session, redis, local, late>>

\* rotate and revoke decode the presented token, then read its row.
Begin(r, o, j) ==
    /\ pc[r] = "idle"
    /\ o \in Ops
    /\ o = "refresh" => JtiToSpare
    /\ Issued(j) /\ j \notin expired
    /\ pc'    = [pc EXCEPT ![r] = "select"]
    /\ op'    = [op EXCEPT ![r] = o]
    /\ tok'   = [tok EXCEPT ![r] = j]
    /\ scope' = [scope EXCEPT ![r] = {family[j]}]
    /\ UNCHANGED <<rows, redis, todo, kill, stodo, close, marks, child,
                   tlock, slock, late>>

\* Mutated form of GetByJtiForUpdate: a logout of one token sets no marker.
GetByJtiUnmarked(r) ==
    /\ pc[r] = "select"
    /\ TokenRowFree(r, tok[r])
    /\ tlock' = [tlock EXCEPT ![r] = {tok[r]}]
    /\ pc'    = [pc EXCEPT ![r] = IF op[r] = "refresh" THEN "check"
                                  ELSE IF op[r] = "logout" THEN "mark"
                                  ELSE "scan"]
    /\ kill'  = [kill EXCEPT ![r] = IF op[r] = "logout" THEN {tok[r]} ELSE {}]
    /\ marks' = [marks EXCEPT ![r] =
                    IF op[r] = "logout_family" THEN scope[r] ELSE {}]
    /\ UNCHANGED <<rows, redis, op, tok, scope, todo, stodo, close, child,
                   slock, late>>

\* SELECT ... FOR UPDATE on the presented token.  A logout of one token then
\* only sets revoked_at on that row before it goes on to the marker.
GetByJtiForUpdate(r) ==
    /\ pc[r] = "select"
    /\ TokenRowFree(r, tok[r])
    /\ tlock' = [tlock EXCEPT ![r] = {tok[r]}]
    /\ pc'    = [pc EXCEPT ![r] = IF op[r] = "refresh" THEN "check"
                                  ELSE IF op[r] = "logout" THEN "mark"
                                  ELSE "scan"]
    /\ kill'  = [kill EXCEPT ![r] = IF op[r] = "logout" THEN {tok[r]} ELSE {}]
    /\ marks' = [marks EXCEPT ![r] = IF op[r] = "refresh" THEN {} ELSE scope[r]]
    /\ UNCHANGED <<rows, redis, op, tok, scope, todo, stodo, close, child,
                   slock, late>>

-----------------------------------------------------------------------------
(* The end of a transaction *)

\* Commit, rollback and crash all leave a request with nothing.
Done(r) ==
    /\ pc'    = [pc EXCEPT ![r] = "idle"]
    /\ op'    = [op EXCEPT ![r] = "refresh"]
    /\ tok'   = [tok EXCEPT ![r] = None]
    /\ scope' = [scope EXCEPT ![r] = {}]
    /\ todo'  = [todo EXCEPT ![r] = {}]
    /\ kill'  = [kill EXCEPT ![r] = {}]
    /\ stodo' = [stodo EXCEPT ![r] = {}]
    /\ close' = [close EXCEPT ![r] = {}]
    /\ marks' = [marks EXCEPT ![r] = {}]
    /\ child' = [child EXCEPT ![r] = None]
    /\ tlock' = [tlock EXCEPT ![r] = {}]
    /\ slock' = [slock EXCEPT ![r] = {}]

\* get_session closes the database session of a request that failed (an error
\* of the database or of Redis, a killed process), which rolls it back.  The
\* markers it has set in Redis stay.
Abort(r) ==
    /\ pc[r] # "idle"
    /\ status' = [j \in Jti |-> IF j = child[r] THEN "free" ELSE status[j]]
    /\ family' = [j \in Jti |-> IF j = child[r] THEN None ELSE family[j]]
    /\ parent' = [j \in Jti |-> IF j = child[r] THEN None ELSE parent[j]]
    /\ denied' = denied \ {child[r]}
    /\ Done(r)
    /\ UNCHANGED <<expired, session, late>>

-----------------------------------------------------------------------------
(* Rotation *)

\* "Session is revoked" or "Refresh token expired": the request fails, and
\* refresh_tokens commits nothing but an audit row.
RotateRejected(r) ==
    /\ pc[r] = "check"
    /\ ~IsFamilyActive(family[tok[r]]) \/ tok[r] \in expired
    /\ Done(r)
    /\ UNCHANGED <<rows, redis, late>>

\* The session is active and the presented token was used before: revoke the
\* family, then set the marker of the session.
RotateReuse(r) ==
    /\ pc[r] = "check"
    /\ IsFamilyActive(family[tok[r]])
    /\ tok[r] \notin expired
    /\ status[tok[r]] \in {"rotated", "revoked"}
    /\ pc'    = [pc EXCEPT ![r] = "scan"]
    /\ marks' = [marks EXCEPT ![r] = scope[r]]
    /\ UNCHANGED <<rows, redis, op, tok, scope, todo, kill, stodo, close,
                   child, tlock, slock, late>>

\* Mutated form of RotateAccepted: revoked_at and rotated_at are not looked at.
RotateAnyToken(r) ==
    /\ pc[r] = "check"
    /\ IsFamilyActive(family[tok[r]])
    /\ tok[r] \notin expired
    /\ pc' = [pc EXCEPT ![r] = "touch"]
    /\ UNCHANGED <<rows, redis, op, tok, scope, todo, kill, stodo, close,
                   marks, child, tlock, slock, late>>

RotateAccepted(r) ==
    /\ pc[r] = "check"
    /\ IsFamilyActive(family[tok[r]])
    /\ tok[r] \notin expired
    /\ status[tok[r]] = "live"
    /\ pc' = [pc EXCEPT ![r] = "touch"]
    /\ UNCHANGED <<rows, redis, op, tok, scope, todo, kill, stodo, close,
                   marks, child, tlock, slock, late>>

\* The rows touch_family locks: the session's, if it is still active.
TouchFamily(s) == IF IsFamilyActive(s) THEN {s} ELSE {}

\* mark_rotated and create write the old and the new row, invisible until the
\* commit; touch_family updates the session row if it is still active, which
\* waits for its lock; then the access token is issued.
RotateTouch(r, k) ==
    LET s == family[tok[r]] IN
    /\ pc[r] = "touch"
    /\ status[k] = "free"
    /\ SessionRowFree(r, s)
    /\ slock'  = [slock EXCEPT ![r] = TouchFamily(s)]
    /\ child'  = [child EXCEPT ![r] = k]
    /\ status' = [status EXCEPT ![k] = "pending"]
    /\ family' = [family EXCEPT ![k] = s]
    /\ parent' = [parent EXCEPT ![k] = tok[r]]
    /\ pc'     = [pc EXCEPT ![r] = "rotated"]
    /\ UNCHANGED <<expired, session, redis, op, tok, scope, todo, kill, stodo,
                   close, marks, tlock, late>>

\* Mutated form of RotateCommit: it may come before the new row is written.
RotateCommitEarly(r) ==
    LET s == family[tok[r]] IN
    /\ pc[r] \in {"touch", "rotated"}
    /\ status' = [status EXCEPT ![tok[r]] = "rotated", ![child[r]] = "live"]
    /\ late'   = IF session[s] = "revoked" THEN late \cup {child[r]} ELSE late
    /\ Done(r)
    /\ UNCHANGED <<family, parent, expired, session, redis>>

RotateCommit(r) ==
    LET s == family[tok[r]] IN
    /\ pc[r] = "rotated"
    /\ status' = [status EXCEPT ![tok[r]] = "rotated", ![child[r]] = "live"]
    /\ late'   = IF session[s] = "revoked" THEN late \cup {child[r]} ELSE late
    /\ Done(r)
    /\ UNCHANGED <<family, parent, expired, session, redis>>

-----------------------------------------------------------------------------
(* Revocation: UPDATE refresh_tokens, UPDATE user_sessions, then the markers *)

\* reset_password once the code is accepted: the UPDATE of the users row,
\* which a second reset of the account waits for, then
\* list_active_session_ids_for_user.
ResetList(r, u) ==
    /\ pc[r] = "idle"
    /\ "reset" \in Ops
    /\ \A q \in Request : op[q] = "reset" => scope[q] # SessionsOf(u)
    /\ pc'    = [pc EXCEPT ![r] = "scan"]
    /\ op'    = [op EXCEPT ![r] = "reset"]
    /\ scope' = [scope EXCEPT ![r] = SessionsOf(u)]
    /\ marks' = [marks EXCEPT ![r] =
                    {s \in SessionsOf(u) : session[s] = "active"}]
    /\ UNCHANGED <<rows, redis, tok, todo, kill, stodo, close, child, tlock,
                   slock, late>>

\* Mutated form of TokenScan: the sessions are locked before the tokens.
TokenScanSessionsFirst(r) ==
    /\ pc[r] = "scan"
    /\ \A s \in scope[r] : SessionRowFree(r, s)
    /\ slock' = [slock EXCEPT ![r] = scope[r]]
    /\ todo'  = [todo EXCEPT ![r] =
                    {j \in Jti : family[j] \in scope[r] /\ status[j] = "live"}]
    /\ pc'    = [pc EXCEPT ![r] = "tokens"]
    /\ UNCHANGED <<rows, redis, op, tok, scope, kill, stodo, close, marks,
                   child, tlock, late>>

\* revoke_family, or revoke_all_for_user: the statement's snapshot is the
\* unrevoked tokens committed when it starts.
TokenScan(r) ==
    /\ pc[r] = "scan"
    /\ todo' = [todo EXCEPT ![r] =
                    {j \in Jti : family[j] \in scope[r] /\ status[j] = "live"}]
    /\ pc'   = [pc EXCEPT ![r] = "tokens"]
    /\ UNCHANGED <<rows, redis, op, tok, scope, kill, stodo, close, marks,
                   child, tlock, slock, late>>

\* It locks the rows of its snapshot one by one, waiting where another
\* transaction holds one, and evaluates revoked_at IS NULL again on the row it
\* then finds.
LockToken(r, j) ==
    /\ pc[r] = "tokens"
    /\ j \in todo[r]
    /\ TokenRowFree(r, j)
    /\ todo'  = [todo EXCEPT ![r] = @ \ {j}]
    /\ tlock' = [tlock EXCEPT ![r] = @ \cup {j}]
    /\ kill'  = [kill EXCEPT ![r] = IF status[j] = "live" THEN @ \cup {j} ELSE @]
    /\ UNCHANGED <<rows, redis, pc, op, tok, scope, stodo, close, marks,
                   child, slock, late>>

\* revoke_family of the session service, or revoke_user_sessions.
SessionScan(r) ==
    /\ pc[r] = "tokens"
    /\ todo[r] = {}
    /\ stodo' = [stodo EXCEPT ![r] = {s \in scope[r] : session[s] = "active"}]
    /\ pc'    = [pc EXCEPT ![r] = "sessions"]
    /\ UNCHANGED <<rows, redis, op, tok, scope, todo, kill, close, marks,
                   child, tlock, slock, late>>

LockSession(r, s) ==
    /\ pc[r] = "sessions"
    /\ s \in stodo[r]
    /\ SessionRowFree(r, s)
    /\ stodo' = [stodo EXCEPT ![r] = @ \ {s}]
    /\ slock' = [slock EXCEPT ![r] = @ \cup {s}]
    /\ close' = [close EXCEPT ![r] =
                    IF session[s] = "active" THEN @ \cup {s} ELSE @]
    /\ UNCHANGED <<rows, redis, pc, op, tok, scope, todo, kill, marks, child,
                   tlock, late>>

SessionsLocked(r) ==
    /\ pc[r] = "sessions"
    /\ stodo[r] = {}
    /\ pc' = [pc EXCEPT ![r] = "mark"]
    /\ UNCHANGED <<rows, redis, op, tok, scope, todo, kill, stodo, close,
                   marks, child, tlock, slock, late>>

\* _mark_access_session_revoked: the marker refuses every access token of the
\* session that exists when it is set, for as long as that token is valid
\* (module AccessMarker).
Mark(r, s) ==
    /\ pc[r] = "mark"
    /\ s \in marks[r]
    /\ denied' = denied \cup Tokens(s)
    /\ marks'  = [marks EXCEPT ![r] = @ \ {s}]
    /\ UNCHANGED <<rows, pc, op, tok, scope, todo, kill, stodo, close, child,
                   tlock, slock, late>>

RevokeCommit(r) ==
    /\ pc[r] = "mark"
    /\ marks[r] = {}
    /\ status'  = [j \in Jti |-> IF j \in kill[r] /\ status[j] = "live"
                                 THEN "revoked" ELSE status[j]]
    /\ session' = [s \in Session |-> IF s \in close[r] THEN "revoked"
                                     ELSE session[s]]
    /\ Done(r)
    /\ UNCHANGED <<family, parent, expired, redis, late>>

-----------------------------------------------------------------------------
(* The specification *)

\* The steps at which a request may have to wait for a row lock.
Acquire(r) ==
    \/ GetByJtiForUpdate(r)
    \/ \E k \in Jti : RotateTouch(r, k)
    \/ \E j \in Jti : LockToken(r, j)
    \/ \E s \in Session : LockSession(r, s)

\* The steps of a handler that wait for nobody.
Proceed(r) ==
    \/ RotateRejected(r) \/ RotateReuse(r) \/ RotateAccepted(r)
    \/ RotateCommit(r)
    \/ TokenScan(r) \/ SessionScan(r) \/ SessionsLocked(r)
    \/ \E s \in Session : Mark(r, s)
    \/ RevokeCommit(r)

Next ==
    \/ \E s \in Session, j \in Jti : IssueForUser(s, j)
    \/ \E j \in Jti : Expire(j)
    \/ \E r \in Request :
          \/ \E o \in TokenOps, j \in Jti : Begin(r, o, j)
          \/ \E u \in User : ResetList(r, u)
          \/ Acquire(r)
          \/ Proceed(r)
          \/ Abort(r)

Spec == Init /\ [][Next]_vars

\* A handler keeps running, and PostgreSQL grants a row lock to whoever waits
\* for it often enough: a lock that is released again and again is eventually
\* granted.  Clients send requests, and requests fail, as they like.
Fairness ==
    \A r \in Request : WF_vars(Proceed(r)) /\ SF_vars(Acquire(r))

FairSpec == Spec /\ Fairness

-----------------------------------------------------------------------------
(* Properties *)

\* Every variable has its type.
TypeOK ==
    /\ status  \in [Jti -> {"free", "pending", "live", "rotated", "revoked"}]
    /\ family  \in [Jti -> Session \cup {None}]
    /\ parent  \in [Jti -> Jti \cup {None}]
    /\ expired \in SUBSET Jti
    /\ session \in [Session -> {"none", "active", "revoked"}]
    /\ pc \in [Request -> {"idle", "select", "check", "touch", "rotated",
                           "scan", "tokens", "sessions", "mark"}]
    /\ op      \in [Request -> TokenOps \cup {"reset"}]
    /\ tok     \in [Request -> Jti \cup {None}]
    /\ scope   \in [Request -> SUBSET Session]
    /\ todo    \in [Request -> SUBSET Jti]
    /\ kill    \in [Request -> SUBSET Jti]
    /\ stodo   \in [Request -> SUBSET Session]
    /\ close   \in [Request -> SUBSET Session]
    /\ marks   \in [Request -> SUBSET Session]
    /\ child   \in [Request -> Jti \cup {None}]
    /\ tlock   \in [Request -> SUBSET Jti]
    /\ slock   \in [Request -> SUBSET Session]
    /\ denied  \in SUBSET Jti
    /\ late    \in SUBSET Jti

\* However many requests present the tokens of one family at the same time, at
\* most one token of it is unrevoked: rotate replaces a token in one
\* transaction, under the row lock get_by_jti_for_update takes.
SingleLive ==
    \A j, k \in Jti :
        /\ status[j] = "live" /\ status[k] = "live"
        /\ family[j] = family[k]
        => j = k

\* A token is exchanged for at most one successor, the second of two racing
\* refreshes that present it included.
OneSuccessor ==
    \A j, k \in Jti :
        /\ Issued(j) /\ Issued(k)
        /\ parent[j] = parent[k] /\ parent[j] # None
        => j = k

\* rotate reads the session before it takes the session row's lock, so a
\* rotation that passed is_family_active can commit after the session was
\* revoked.  It happens at most once in the life of a session.
AtMostOneLate ==
    \A j, k \in late : family[j] = family[k] => j = k

\* Once a session is revoked, every access token it ever had is refused by the
\* gateway's check of the Redis marker, the one issued by a late rotation
\* excepted.
RevokedIsDenied ==
    \A j \in Jti :
        Issued(j) /\ session[family[j]] = "revoked" => j \in denied \cup late

\* A family all of whose tokens were revoked or expired out of use never gets a
\* usable token again: only a login, in a new family, does.
DeadFamilyStaysDead ==
    [][\A s \in Session :
         session[s] # "none" /\ Live(s) = {} => Live(s)' = {}]_vars

\* Requests wait for each other's rows, tokens before sessions: no set of them
\* waits for ever, and every request gets its answer.
EveryRequestEnds ==
    \A r \in Request : pc[r] # "idle" ~> pc[r] = "idle"

\* The abstract specification this one implements.
Tip == [s \in Session |-> IF Live(s) = {} THEN None ELSE CHOOSE j \in Live(s) : TRUE]

Abstract == INSTANCE TokenFamilies WITH
    phase   <- session,
    tip     <- Tip,
    used    <- {j \in Jti : status[j] \in {"rotated", "revoked"}},
    overrun <- {family[j] : j \in late}

\* Seen from outside, the interleaved transactions are the atomic operations of
\* TokenFamilies.
ImplementsTokenFamilies == Abstract!Spec

\* Logging out of the token in use, or of its family, ends every access token
\* of the session as well: when no usable refresh token is left, each access
\* token was there to be refused when the marker was set.
LoggedOutIsDenied ==
    \A j \in Jti : Issued(j) /\ Live(family[j]) = {} => j \in denied

\* What auth-flow.md and the revocation runbook say of a revoked family: all
\* its tokens are revoked.
FamilyFullyRevoked ==
    \A s \in Session : session[s] = "revoked" => Live(s) = {}

-----------------------------------------------------------------------------
(* The inductive invariant behind the properties *)

\* No row is locked by two transactions.
InvLocks ==
    \A q, r \in Request : q # r =>
        /\ \A j \in Jti : ~(j \in tlock[q] /\ j \in tlock[r])
        /\ \A s \in Session : ~(s \in slock[q] /\ s \in slock[r])

\* A row that exists belongs to a session that exists, and a pending row to the
\* rotation that inserted it.
InvRows ==
    \A j \in Jti :
        /\ status[j] = "free" => family[j] = None /\ parent[j] = None
        /\ status[j] # "free" => family[j] \in Session
                                 /\ session[family[j]] # "none"
        /\ status[j] = "pending" =>
              \E r \in Request : pc[r] = "rotated" /\ child[r] = j
        /\ j \in late => Issued(j)

\* A rotation that passed its checks holds the lock of a token that stays live
\* until it commits; a request revokes only rows it has locked.
InvRequests ==
    \A r \in Request :
        /\ pc[r] \in {"select", "check", "touch", "rotated"} =>
              tok[r] \in Jti /\ Issued(tok[r])
        /\ pc[r] \in {"check", "touch", "rotated"} => tok[r] \in tlock[r]
        /\ pc[r] \in {"touch", "rotated"} => status[tok[r]] = "live"
        /\ pc[r] = "rotated" =>
              /\ child[r] \in Jti /\ status[child[r]] = "pending"
              /\ family[child[r]] = family[tok[r]]
              /\ parent[child[r]] = tok[r]
        /\ pc[r] # "rotated" => child[r] = None
        /\ kill[r] \subseteq tlock[r]

\* A request revokes only active sessions it has locked.
InvClose ==
    \A r \in Request :
        /\ close[r] \subseteq slock[r]
        /\ \A s \in close[r] : session[s] = "active"
        /\ pc[r] \notin {"sessions", "mark"} => close[r] = {}

\* A successor exists only of a token that was rotated, or is being rotated.
InvLineage ==
    \A j \in Jti :
        status[j] # "free" /\ parent[j] # None =>
            /\ parent[j] \in Jti /\ Issued(parent[j])
            /\ Issued(j) => status[parent[j]] = "rotated"

\* A session that saw a late rotation is revoked and no rotation is left in it.
InvLate ==
    \A j \in late :
        /\ session[family[j]] = "revoked"
        /\ \A r \in Request :
              pc[r] \in {"touch", "rotated"} => family[tok[r]] # family[j]

Inv ==
    /\ TypeOK /\ InvLocks /\ InvRows /\ InvRequests /\ InvClose
    /\ SingleLive /\ InvLineage /\ OneSuccessor /\ InvLate /\ AtMostOneLate

\* Without password resets a request works within one session.
InvScope ==
    \A r \in Request :
        /\ op[r] # "reset"
        /\ pc[r] = "idle" => scope[r] = {}
        /\ pc[r] # "idle" => /\ tok[r] \in Jti /\ Issued(tok[r])
                             /\ scope[r] = {family[tok[r]]}
        /\ pc[r] \in {"scan", "tokens", "sessions"} => marks[r] = scope[r]
        /\ marks[r] \subseteq scope[r]
        /\ \A j \in todo[r] \cup kill[r] : Issued(j) /\ family[j] \in scope[r]
        /\ stodo[r] \subseteq scope[r] /\ close[r] \subseteq scope[r]

\* What request r is about to take from session s: the session or its token.
Doomed(r, s) ==
    \/ s \in close[r]
    \/ \E k \in kill[r] : status[k] = "live" /\ family[k] = s

\* From the marker on, a request holds the locks that keep new access tokens of
\* what it is about to revoke from being issued.
InvMarks ==
    \A r \in Request : pc[r] = "mark" /\ marks[r] = {} =>
        \A j \in Jti : Doomed(r, family[j]) => j \in denied

MarksInv == Inv /\ InvScope /\ InvMarks /\ RevokedIsDenied /\ LoggedOutIsDenied
=============================================================================
