----------------------------- MODULE BrowserAuth -----------------------------
(***************************************************************************)
(* Sign-in of a browser through the gateway (/v1/browser-auth/...).  The   *)
(* gateway keeps the refresh token out of the page: it takes it from       *)
(* auth-service's JSON, hands it to the browser as an HttpOnly cookie, and *)
(* sends the cookie's value along when the page asks for a refresh or a    *)
(* sign-out.  All tabs of a browser share the cookie.                      *)
(*                                                                         *)
(* auth-service is what it promises, TokenFamilies, which RefreshTokens    *)
(* implements.  A call is sent with the cookie of that moment, forwarded,  *)
(* processed and answered in separate steps; the one who waits for the     *)
(* answer may be gone by then - a page reloaded, a gateway that timed out, *)
(* a connection lost - and the call is processed all the same.  Sessions   *)
(* may end meanwhile without any call of this browser.                     *)
(***************************************************************************)
EXTENDS FiniteSets

CONSTANTS
    Session, Jti, None, \* as in TokenFamilies
    Call,               \* calls under way at the same time, of any tab
    MayLose             \* may answers get lost?

ASSUME BrowserAuthAssumption ==
    /\ MayLose \in BOOLEAN
    /\ None \notin Session \cup Jti

VARIABLES
    phase, tip, used, overrun,  \* auth-service, as in TokenFamilies
    of,         \* auth-service: the session each token was issued for
    jar,        \* the browser's refresh cookie, or None
    call,       \* the calls
    out,        \* history: sessions the page said it signed out of
    mixed,      \* history: calls have overlapped, or an answer was lost
    elsewhere   \* history: sessions revoked, or whose token was, by others

server == <<phase, tip, used, overrun, of>>
vars   == <<server, jar, call, out, mixed, elsewhere>>

Families == INSTANCE TokenFamilies

\* The routes, and which of them set or clear the cookie on success.
Kind == {"register", "login", "login_2fa", "refresh", "revoke"}
SetsCookie == {"login", "login_2fa", "refresh"}
NeedsCookie == {"refresh", "revoke"}

\* Mutated form: /refresh does not set the cookie.
RefreshLeaves(k) == k \in {"login", "login_2fa"}

set_cookie_on_ok(k) == k \in SetsCookie

clear_cookie_on_ok(k) == k = "revoke"

\* What auth-service's JSON has: the refresh token among its fields (top),
\* inside the field tokens (nested), or none at all.
Answer == [ok : BOOLEAN, shape : {"none", "top", "nested"}, token : Jti \cup {None}]
Refused   == [ok |-> FALSE, shape |-> "none", token |-> None]
NoToken   == [ok |-> TRUE, shape |-> "none", token |-> None]

Idle == [at |-> "idle"]

\* A call: the cookie it carries, whether the cookie's session was active when it
\* reached auth-service (early), and whether the browser waits for the answer;
\* after is history: the page had said it was signed out of that session.
Running == [at     : {"gateway", "upstream", "reply"},
            kind   : Kind,
            cookie : Jti \cup {None},
            early  : BOOLEAN,
            answer : Answer,
            waited : BOOLEAN,
            after  : BOOLEAN]

Init ==
    /\ Families!Init
    /\ of    = [j \in Jti |-> None]
    /\ jar   = None
    /\ call  = [c \in Call |-> Idle]
    /\ out   = {}
    /\ mixed = FALSE
    /\ elsewhere = {}

-----------------------------------------------------------------------------
(* The browser *)

\* The page's post(): a sign-in, the refresh of a reload, a sign-out.
Send(c, k) ==
    /\ call[c] = Idle
    /\ call' = [call EXCEPT ![c] =
                  [at |-> "gateway", kind |-> k, cookie |-> jar, early |-> FALSE,
                   answer |-> Refused, waited |-> TRUE,
                   after |-> jar # None /\ of[jar] \in out]]
    /\ mixed' = (mixed \/ \E d \in Call : call[d] # Idle)
    /\ UNCHANGED <<server, jar, out, elsewhere>>

\* A reload, a timeout (502) or a lost connection: nobody waits any more.
Leave(c) ==
    /\ MayLose
    /\ call[c] # Idle /\ call[c].waited
    /\ call' = [call EXCEPT ![c].waited = FALSE]
    /\ mixed' = TRUE
    /\ UNCHANGED <<server, jar, out, elsewhere>>

-----------------------------------------------------------------------------
(* The gateway, on the way in *)

Reply(c, a) == call' = [call EXCEPT ![c].at = "reply", ![c].answer = a]

\* browser_refresh and browser_revoke want the cookie; the rate limiter may
\* refuse every call.
Refuse(c) ==
    /\ call[c].at = "gateway"
    /\ Reply(c, Refused)
    /\ UNCHANGED <<server, jar, out, mixed, elsewhere>>

Forward(c) ==
    LET j == call[c].cookie IN
    /\ call[c].at = "gateway"
    /\ call[c].kind \in NeedsCookie => j # None
    /\ call' = [call EXCEPT ![c].at = "upstream",
                            ![c].early = j # None /\ phase[of[j]] = "active"]
    /\ UNCHANGED <<server, jar, out, mixed, elsewhere>>

-----------------------------------------------------------------------------
(* auth-service *)

\* A request that changes nothing: refused, or with no tokens to give (register,
\* a login that leads to a 2FA challenge).
Process(c) ==
    /\ call[c].at = "upstream"
    /\ \/ Reply(c, Refused)
       \/ call[c].kind \in {"register", "login"} /\ Reply(c, NoToken)
    /\ UNCHANGED <<server, jar, out, mixed, elsewhere>>

Issued(c, s, j, shape) ==
    /\ of' = [of EXCEPT ![j] = s]
    /\ Reply(c, [ok |-> TRUE, shape |-> shape, token |-> j])
    /\ UNCHANGED <<jar, out, mixed, elsewhere>>

SignIn(c, s, j) ==
    /\ call[c].at = "upstream"
    /\ call[c].kind \in {"login", "login_2fa"}
    /\ Families!Open(s, j)
    /\ Issued(c, s, j, IF call[c].kind = "login" THEN "nested" ELSE "top")

\* rotate.  A request that found the session active may overrun its revocation.
Refresh(c, j) ==
    LET s == of[call[c].cookie] IN
    /\ call[c].at = "upstream" /\ call[c].kind = "refresh"
    /\ call[c].cookie = tip[s]
    /\ Families!Rotate(s, j) \/ (call[c].early /\ Families!Overrun(s, j))
    /\ Issued(c, s, j, "top")

\* Does another call for session s run at the same time?
Overlapped(c, s) ==
    \E d \in Call \ {c} :
        /\ call[d] # Idle
        /\ call[d].kind \in NeedsCookie /\ call[d].cookie # None
        /\ of[call[d].cookie] = s

\* The whole family is revoked; a token issued meanwhile may be missed.
RevokeFamily(c, s) ==
    \E K \in SUBSET {s} :
        /\ (K = {}) => (tip[s] = None \/ Overlapped(c, s))
        /\ Families!Revoke(K, {s} \cap {x \in Session : phase[x] = "active"})

\* rotate of a token that was rotated before.
ReuseDetected(c) ==
    LET s == of[call[c].cookie] IN
    /\ call[c].at = "upstream" /\ call[c].kind = "refresh"
    /\ phase[s] = "active" /\ call[c].cookie # tip[s]
    /\ RevokeFamily(c, s)
    /\ Reply(c, Refused)
    /\ UNCHANGED <<of, jar, out, mixed, elsewhere>>

\* Mutated form: the gateway asks to revoke the token alone.
RevokeToken(c) ==
    LET s == of[call[c].cookie] IN
    /\ call[c].at = "upstream" /\ call[c].kind = "revoke"
    /\ Families!Revoke({s} \cap {x \in Session : tip[x] = call[c].cookie}, {})
    /\ Reply(c, NoToken)
    /\ UNCHANGED <<of, jar, out, mixed, elsewhere>>

\* revoke of the family, which the gateway asks for unless the page says
\* otherwise, and the page does not.
Revoke(c) ==
    LET s == of[call[c].cookie] IN
    /\ call[c].at = "upstream" /\ call[c].kind = "revoke"
    /\ RevokeFamily(c, s)
    /\ Reply(c, NoToken)
    /\ UNCHANGED <<of, jar, out, mixed, elsewhere>>

\* A password reset, from this page or another device, or a call of another
\* client: the sessions in C are revoked, those in K lose their token.
RevokedElsewhere ==
    \E K, C \in SUBSET Session :
        /\ K \cup C # {}
        /\ Families!Revoke(K, C)
        /\ elsewhere' = elsewhere \cup K \cup C
        /\ UNCHANGED <<of, jar, call, out, mixed>>

-----------------------------------------------------------------------------
(* The gateway and the browser, on the way out *)

\* The token that is taken out of the JSON, wherever it is.
_strip_refresh_from_json(a) == IF a.shape \in {"top", "nested"} THEN a.token ELSE None

\* set_cookie and delete_cookie, as the browser takes them.
_set_refresh_cookie(t) == jar' = t
_clear_refresh_cookie  == jar' = None

\* The page says "Signed out." when the answer is no error.
SignedOut(c) ==
    out' = IF call[c].answer.ok /\ call[c].kind = "revoke"
           THEN out \cup {of[call[c].cookie]} ELSE out

\* _forward_json's answer: the JSON is for the page, the cookie for the browser.
Deliver(c) ==
    LET k == call[c].kind
        a == call[c].answer
        t == _strip_refresh_from_json(a)
    IN
    /\ call[c].at = "reply" /\ call[c].waited
    /\ CASE a.ok /\ set_cookie_on_ok(k) /\ t # None -> _set_refresh_cookie(t)
         [] a.ok /\ clear_cookie_on_ok(k) -> _clear_refresh_cookie
         [] OTHER -> UNCHANGED jar
    /\ SignedOut(c)
    /\ call' = [call EXCEPT ![c] = Idle]
    /\ UNCHANGED <<server, mixed, elsewhere>>

Drop(c) ==
    /\ call[c].at = "reply" /\ ~call[c].waited
    /\ call' = [call EXCEPT ![c] = Idle]
    /\ UNCHANGED <<server, jar, out, mixed, elsewhere>>

Next ==
    \/ \E c \in Call :
          \/ \E k \in Kind : Send(c, k)
          \/ Leave(c) \/ Refuse(c) \/ Forward(c)
          \/ Process(c) \/ ReuseDetected(c) \/ Revoke(c)
          \/ \E j \in Jti : Refresh(c, j) \/ \E s \in Session : SignIn(c, s, j)
          \/ Deliver(c) \/ Drop(c)
    \/ RevokedElsewhere

Spec == Init /\ [][Next]_vars

-----------------------------------------------------------------------------

\* Every variable has its type.
TypeOK ==
    /\ phase \in [Session -> {"none", "active", "revoked"}]
    /\ tip \in [Session -> Jti \cup {None}]
    /\ used \subseteq Jti /\ overrun \subseteq Session
    /\ of \in [Jti -> Session \cup {None}]
    /\ jar \in Jti \cup {None}
    /\ call \in [Call -> Running \cup {Idle}]
    /\ out \subseteq Session
    /\ mixed \in BOOLEAN
    /\ elsewhere \subseteq Session

\* The token can be exchanged for the next, unless its session was revoked, or
\* lost its token, by a password reset or another client.
Usable(j) ==
    j # None /\ of[j] \notin elsewhere => tip[of[j]] = j /\ phase[of[j]] = "active"

\* As long as the browser's calls come one after the other and every answer
\* arrives, the cookie is the usable token of an active session: a reload
\* restores it, however many refreshes, refusals, sign-ins and sign-outs came
\* before, and whatever happened to other sessions; until a password reset or
\* another client ends this one.
CookieIsTip ==
    ~mixed /\ (\A c \in Call : call[c] = Idle) => Usable(jar)

\* Once the page has said "Signed out.", no call that leaves the browser later is
\* given a token of that session, although the cookie the sign-out carried may
\* have been a rotated one, and a late answer may bring the cookie back.
SignedOutStays ==
    \A c \in Call :
        call[c] # Idle /\ call[c].after /\ call[c].kind = "refresh" =>
            ~call[c].answer.ok

\* docs/security/csrf-and-api-clients.md: a reload relies on a silent refresh by
\* the cookie.  So only a sign-out ends a session.  Two tabs that reload at once,
\* or a reload whose answer is lost, present a token twice, and reuse detection
\* ends the session.
ReloadKeepsSession ==
    [][\A c \in Call, s \in Session :
          phase[s] = "active" /\ phase'[s] = "revoked" => ~ReuseDetected(c)]_vars

-----------------------------------------------------------------------------
(* The inductive invariant. *)

\* A token that was issued belongs to a session that was opened, and is used
\* unless it is the session's usable one.
Tokens ==
    /\ \A s \in Session : phase[s] = "none" => tip[s] = None
    /\ \A j \in Jti : of[j] # None =>
          phase[of[j]] # "none" /\ (j \in used \/ tip[of[j]] = j)

\* Only tokens that were issued get around.
WasIssued(j) == j # None => of[j] # None

\* A call knows what it was answered; a sign-out that succeeded has revoked its
\* session, and no refresh succeeds that was sent after it.
CallInv(c) == call[c] # Idle =>
    /\ WasIssued(call[c].cookie) /\ WasIssued(call[c].answer.token)
    /\ call[c].at # "reply" => call[c].answer = Refused
    /\ call[c].at = "upstream" /\ call[c].kind \in NeedsCookie => call[c].cookie # None
    /\ call[c].kind = "revoke" /\ call[c].answer.ok =>
          call[c].cookie # None /\ phase[of[call[c].cookie]] = "revoked"
    /\ call[c].after =>
          /\ call[c].cookie # None /\ of[call[c].cookie] \in out
          /\ ~call[c].early
          /\ call[c].kind = "refresh" => ~call[c].answer.ok

\* The cookie once the answer to the call has arrived.
JarAfter(c) ==
    LET t == _strip_refresh_from_json(call[c].answer)
    IN  IF call[c].answer.ok /\ call[c].kind \in SetsCookie /\ t # None THEN t
        ELSE IF call[c].answer.ok /\ call[c].kind = "revoke" THEN None ELSE jar

\* Calls that come one after the other carry the cookie there is, which is usable
\* until the call is processed and again when its answer has arrived.
OneByOne == ~mixed =>
    /\ \A c, d \in Call : call[c] # Idle /\ call[d] # Idle => c = d
    /\ \A c \in Call : call[c] # Idle =>
          /\ call[c].waited
          /\ call[c].at # "reply" => call[c].cookie = jar /\ Usable(jar)
          /\ call[c].at = "reply" => Usable(JarAfter(c))
    /\ (\A c \in Call : call[c] = Idle) => Usable(jar)

Inv ==
    /\ TypeOK /\ Tokens /\ WasIssued(jar)
    /\ \A s \in out : phase[s] = "revoked"
    /\ \A c \in Call : CallInv(c)
    /\ OneByOne
=============================================================================
