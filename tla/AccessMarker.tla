---------------------------- MODULE AccessMarker ----------------------------
(***************************************************************************)
(* How long the Redis marker of a revoked session has to live.  Access     *)
(* tokens are JWTs that no database knows; a service accepts one until its *)
(* exp, unless it finds the marker of its session.  (That it looks in the  *)
(* Redis database the marker is in is a matter of module Deployment.)  The *)
(* marker has a lifetime of its own, and a service reads the token's exp   *)
(* and the marker at two different moments.                                *)
(*                                                                         *)
(* This module justifies the set `denied' of RefreshTokens: an access      *)
(* token issued before a marker is refused for the rest of its life.       *)
(***************************************************************************)
EXTENDS Integers

CONSTANTS
    Session,    \* sessions
    Token,      \* access tokens
    Request,    \* requests that carry one
    Hz,         \* clock readings per second
    AccessTTL,  \* settings.jwt_access_ttl_seconds
    MinTTL,     \* the least marker lifetime, 60 in the code
    Horizon,    \* the bound on the clock
    None        \* no session, no token

ASSUME TimeAssumption ==
    /\ Hz \in Nat \ {0}
    /\ AccessTTL \in Nat /\ MinTTL \in Nat /\ Horizon \in Nat
    /\ None \notin Session /\ None \notin Token

VARIABLES
    now,        \* the time
    sid,        \* the session each token names, None before it is issued
    nbf, exp,   \* its two dates
    until,      \* when the marker of each session expires in Redis
    cut,        \* history: tokens that existed when a marker of theirs was set
    pc,         \* idle, decoded, accepted or refused
    tok         \* the token each request carries

markerVars == <<now, sid, nbf, exp, until, cut, pc, tok>>

-----------------------------------------------------------------------------

\* A datetime becomes a JWT date by dropping the fraction of the second.
Whole(t) == t - (t % Hz)

\* Mutated form of MarkerTTL: the access token's lifetime is forgotten.
LeastTTL == MinTTL
MarkerTTL == IF AccessTTL > MinTTL THEN AccessTTL ELSE MinTTL

\* Mutated form of MarkerExists: it is kept one reading less.
MarkerExistsShort(s) == now + 1 < until[s]
MarkerExists(s) == now < until[s]

-----------------------------------------------------------------------------

MarkerInit ==
    /\ now   = 0
    /\ sid   = [t \in Token |-> None]
    /\ nbf   = [t \in Token |-> 0]
    /\ exp   = [t \in Token |-> 0]
    /\ until = [s \in Session |-> 0]
    /\ cut   = {}
    /\ pc    = [q \in Request |-> "idle"]
    /\ tok   = [q \in Request |-> None]

Tick ==
    /\ now < Horizon
    /\ now' = now + 1
    /\ UNCHANGED <<sid, nbf, exp, until, cut, pc, tok>>

\* issue_access_token.
IssueAccessToken(t, s) ==
    /\ sid[t] = None
    /\ sid' = [sid EXCEPT ![t] = s]
    /\ nbf' = [nbf EXCEPT ![t] = Whole(now)]
    /\ exp' = [exp EXCEPT ![t] = Whole(now + AccessTTL * Hz)]
    /\ UNCHANGED <<now, until, cut, pc, tok>>

\* _mark_access_session_revoked: SET with a lifetime.
MarkAccessSessionRevoked(s) ==
    /\ until' = [until EXCEPT ![s] = now + MarkerTTL * Hz]
    /\ cut'   = cut \cup {t \in Token : sid[t] = s}
    /\ UNCHANGED <<now, sid, nbf, exp, pc, tok>>

\* decode_access_token, or decode_and_validate, accepts the token.
Decode(q, t) ==
    /\ pc[q] = "idle"
    /\ sid[t] # None
    /\ nbf[t] <= now /\ now < exp[t]
    /\ pc'  = [pc EXCEPT ![q] = "decoded"]
    /\ tok' = [tok EXCEPT ![q] = t]
    /\ UNCHANGED <<now, sid, nbf, exp, until, cut>>

\* ensure_access_session_active.
EnsureAccessSessionActive(q) ==
    /\ pc[q] = "decoded"
    /\ pc' = [pc EXCEPT ![q] = IF MarkerExists(sid[tok[q]]) THEN "refused"
                               ELSE "accepted"]
    /\ UNCHANGED <<now, sid, nbf, exp, until, cut, tok>>

\* Redis cannot be asked: the request fails.
RedisFails(q) ==
    /\ pc[q] = "decoded"
    /\ pc' = [pc EXCEPT ![q] = "refused"]
    /\ UNCHANGED <<now, sid, nbf, exp, until, cut, tok>>

\* The answer is sent.
Answer(q) ==
    /\ pc[q] \in {"accepted", "refused"}
    /\ pc'  = [pc EXCEPT ![q] = "idle"]
    /\ tok' = [tok EXCEPT ![q] = None]
    /\ UNCHANGED <<now, sid, nbf, exp, until, cut>>

MarkerNext ==
    \/ Tick
    \/ \E t \in Token, s \in Session : IssueAccessToken(t, s)
    \/ \E s \in Session : MarkAccessSessionRevoked(s)
    \/ \E q \in Request :
          \/ \E t \in Token : Decode(q, t)
          \/ EnsureAccessSessionActive(q)
          \/ RedisFails(q)
          \/ Answer(q)

MarkerSpec == MarkerInit /\ [][MarkerNext]_markerVars

-----------------------------------------------------------------------------

\* Every variable has its type.
MarkerTypeOK ==
    /\ now   \in Nat
    /\ sid   \in [Token -> Session \cup {None}]
    /\ nbf   \in [Token -> Int]
    /\ exp   \in [Token -> Int]
    /\ until \in [Session -> Int]
    /\ cut   \in SUBSET Token
    /\ pc    \in [Request -> {"idle", "decoded", "accepted", "refused"}]
    /\ tok   \in [Request -> Token \cup {None}]

\* A token that existed when the marker of its session was set is not accepted
\* by a check made before the token expires, whatever the two lifetimes are and
\* however long the service took between decoding the token and asking Redis.
CutIsRefused ==
    [][\A q \in Request :
         pc[q] = "decoded" /\ pc'[q] = "accepted" /\ tok[q] \in cut
           => exp[tok[q]] <= now]_markerVars

\* The marker outlives every token it was set for.
MarkerCovers ==
    \A t \in cut : sid[t] \in Session /\ exp[t] <= until[sid[t]]

\* A request past decoding carries a token that was issued.
Carries ==
    \A q \in Request : pc[q] = "decoded" => tok[q] \in Token

\* No token lives longer than one issued now would.
TokenNotAhead ==
    \A t \in Token : exp[t] <= now + AccessTTL * Hz

MarkerInv == MarkerTypeOK /\ MarkerCovers /\ Carries /\ TokenNotAhead
=============================================================================
