---------------------------- MODULE Credentials ----------------------------
(***************************************************************************)
(* Passwords and reset codes: registration, sign-in, the request for a     *)
(* reset code and the reset itself (AuthService, PasswordResetService),    *)
(* each a transaction over users, password_reset_tokens and user_sessions. *)
(*                                                                         *)
(* One step is one statement that locks or one call outside the database;  *)
(* the reads before it belong to it.  A password is the request that chose *)
(* it.  The counts of wrong codes are in module Lockout, the order of the  *)
(* statements that end a session in RefreshTokens, the second factor in    *)
(* TwoFactor: here a reset may block the account after a wrong code, ends  *)
(* the sessions it sees in one step, and a sign-in has one step.           *)
(***************************************************************************)
EXTENDS Integers, FiniteSets

CONSTANTS
    Request,        \* requests, each handled once
    Account,        \* e-mail addresses
    Registered,     \* those with an account at the start
    Code,           \* the codes; 000000 to 999999 in the code
    Kinds           \* what clients send, a subset of AllKinds

AllKinds == {"register", "login", "forgot", "reset"}

Nobody == "nobody"      \* no row of users
Before == "before"      \* the password of an account of Registered

ASSUME CredentialsAssumption ==
    /\ Registered \subseteq Account
    /\ Kinds \subseteq AllKinds
    /\ Request \cap {Nobody, Before} = {}
    /\ "none" \notin Code \cup Account

NoRow  == [owner |-> "none"]

VARIABLES
    pw,         \* users: the password of the account, Nobody without a row
    blocked,    \* users.password_reset_blocked
    codes,      \* password_reset_tokens by token_hash, which is unique
    live,       \* the sign-ins whose session is not revoked
    req,        \* the transactions
    used,       \* history: the requests that reset a password with a code
    replaced,   \* history: codes that were there before an answered request
    ended       \* history: sessions that were open before an answered reset

tables == <<pw, blocked, codes, live>>
hist   == <<used, replaced, ended>>
vars   == <<tables, req, hist>>

CodeRow == [owner : Account, used : BOOLEAN, expired : BOOLEAN]

\* A transaction: the hash it loaded (login) or the code it was given or
\* generated, the rows its UPDATE is about (snap), its row locks (held) and
\* that of the users row (user), and the sessions it revokes.  late, older and
\* open are history: the code was replaced, and the codes and the sessions
\* the account had, when the request came.
Transaction ==
    [pc     : {"idle", "insert user", "issue", "mark", "insert", "send", "find",
               "fail", "change", "commit", "done"},
     kind   : AllKinds \cup {"none"},
     acct   : Account \cup {"none"},
     hash   : Request \cup {Nobody, Before},
     code   : Code \cup {"none"},
     snap   : SUBSET Code,
     held   : SUBSET Code,
     user   : BOOLEAN,
     revoke : SUBSET Request,
     answer : {"none", "ok", "unknown", "refused", "error"},
     late   : BOOLEAN,
     older  : SUBSET Code,
     open   : SUBSET Request]

Idle == [pc |-> "idle", kind |-> "none", acct |-> "none", hash |-> Nobody,
         code |-> "none", snap |-> {}, held |-> {}, user |-> FALSE, revoke |-> {},
         answer |-> "none", late |-> FALSE, older |-> {}, open |-> {}]

Init ==
    /\ pw = [a \in Account |-> IF a \in Registered THEN Before ELSE Nobody]
    /\ blocked = [a \in Account |-> FALSE]
    /\ codes = [c \in Code |-> NoRow]
    /\ live = {}
    /\ req = [r \in Request |-> Idle]
    /\ used = [c \in Code |-> {}] /\ replaced = {} /\ ended = {}

-----------------------------------------------------------------------------

\* PasswordResetToken rows of the account with used_at IS NULL.
Active(a) == {c \in Code : codes[c] # NoRow /\ codes[c].owner = a /\ ~codes[c].used}

SessionsOf(a) == {q \in live : req[q].acct = a}

CodeFree(r, c) == \A q \in Request \ {r} : c \notin req[q].held
UserFree(r)    == \A q \in Request \ {r} : req[q].user => req[q].acct # req[r].acct

\* The end of a request: its locks are released, and without a commit before
\* it what it wrote is rolled back.
\* Mutated form: the session is not rolled back and stays open.
LeakSession(r, answer) == req' = [req EXCEPT ![r].pc = "done", ![r].answer = answer]
EndSession(r, answer) ==
    req' = [req EXCEPT ![r].pc = "done", ![r].answer = answer, ![r].snap = {},
                       ![r].held = {}, ![r].user = FALSE, ![r].revoke = {}]

\* A request comes and loads the user with its e-mail address.
Begin(r, kind, a, c, pc) ==
    /\ req[r].pc = "idle"
    /\ kind \in Kinds
    /\ req' = [req EXCEPT ![r] = [Idle EXCEPT !.pc = pc, !.kind = kind, !.acct = a,
                  !.code = c, !.hash = pw[a], !.late = c \in replaced,
                  !.older = {d \in Code : codes[d] # NoRow /\ codes[d].owner = a},
                  !.open = SessionsOf(a)]]
    /\ UNCHANGED <<tables, hist>>

\* register: the address is free when the user is looked up.
register(r, a) == pw[a] = Nobody /\ Begin(r, "register", a, "none", "insert user")

\* users.email is unique: the INSERT waits for another transaction that has
\* inserted the address, and fails if it was committed.
\* Mutated form: the table has no unique index.
InsertUserAnyway(r) ==
    /\ req[r].pc = "insert user"
    /\ req' = [req EXCEPT ![r].pc = "commit", ![r].user = TRUE]
    /\ UNCHANGED <<tables, hist>>
InsertUser(r) ==
    /\ req[r].pc = "insert user"
    /\ UserFree(r)
    /\ IF pw[req[r].acct] = Nobody
       THEN req' = [req EXCEPT ![r].pc = "commit", ![r].user = TRUE]
       ELSE EndSession(r, "error")
    /\ UNCHANGED <<tables, hist>>

CommitRegister(r) ==
    /\ req[r].pc = "commit" /\ req[r].kind = "register"
    /\ pw' = [pw EXCEPT ![req[r].acct] = r]
    /\ EndSession(r, "ok")
    /\ UNCHANGED <<blocked, codes, live, hist>>

\* login with the password whose hash was loaded; any other ends in Refuse.
login(r, a) == pw[a] # Nobody /\ Begin(r, "login", a, "none", "issue")

\* _issue_tokens_for_user and the commit: the session begins.
IssueTokens(r) ==
    /\ req[r].pc = "issue"
    /\ live' = live \cup {r}
    /\ EndSession(r, "ok")
    /\ UNCHANGED <<pw, blocked, codes, hist>>

-----------------------------------------------------------------------------

\* request_reset, for an account that is not blocked, with SMTP configured.
request_reset(r, a) ==
    pw[a] # Nobody /\ ~blocked[a] /\ Begin(r, "forgot", a, "none", "mark")

\* mark_active_for_user_used, one UPDATE: it is about the rows that are
\* committed when it starts ...
Snapshot(r) ==
    /\ req[r].pc = "mark" /\ req[r].snap = {}
    /\ req' = [req EXCEPT ![r].snap = Active(req[r].acct),
                          ![r].pc = IF Active(req[r].acct) = {} THEN "insert" ELSE "mark"]
    /\ UNCHANGED <<tables, hist>>

\* ... and locks those that are still active when their locks are free.
\* Mutated form: only codes that have expired are marked.
MarkExpired(r) ==
    /\ req[r].pc = "mark" /\ req[r].snap # {}
    /\ \A c \in req[r].snap : CodeFree(r, c)
    /\ req' = [req EXCEPT ![r].pc = "insert",
                  ![r].held = {c \in req[r].snap \cap Active(req[r].acct) : codes[c].expired}]
    /\ UNCHANGED <<tables, hist>>
mark_active_for_user_used(r) ==
    /\ req[r].pc = "mark" /\ req[r].snap # {}
    /\ \A c \in req[r].snap : CodeFree(r, c)
    /\ req' = [req EXCEPT ![r].pc = "insert",
                          ![r].held = req[r].snap \cap Active(req[r].acct)]
    /\ UNCHANGED <<tables, hist>>

\* create: _generate_code draws any code, and token_hash is unique over all
\* accounts and all time: the INSERT waits for another transaction that has
\* inserted the hash and fails if the table holds it.
create(r, c) ==
    /\ req[r].pc = "insert"
    /\ codes[c] = NoRow => CodeFree(r, c)
    /\ IF codes[c] = NoRow
       THEN req' = [req EXCEPT ![r].pc = "send", ![r].code = c, ![r].held = @ \cup {c}]
       ELSE EndSession(r, "error")
    /\ UNCHANGED <<tables, hist>>

\* email_provider.send returns True.
\* Mutated form: the UPDATE was committed before the mail is sent.
SendAfterCommit(r) ==
    /\ req[r].pc = "send"
    /\ codes' = [c \in Code |-> IF c \in req[r].held \ {req[r].code}
                                THEN [codes[c] EXCEPT !.used = TRUE] ELSE codes[c]]
    /\ req' = [req EXCEPT ![r].pc = "commit"]
    /\ UNCHANGED <<pw, blocked, live, hist>>
send(r) ==
    /\ req[r].pc = "send"
    /\ req' = [req EXCEPT ![r].pc = "commit"]
    /\ UNCHANGED <<tables, hist>>

\* It does not, or raises, whether or not the mail went out: rollback and 503.
SendFails(r) ==
    /\ req[r].pc = "send"
    /\ EndSession(r, "error")
    /\ UNCHANGED <<tables, hist>>

\* The commit of the new row and of the retirement of the old ones.
CommitForgot(r) ==
    /\ req[r].pc = "commit" /\ req[r].kind = "forgot"
    /\ codes' = [c \in Code |->
           IF c = req[r].code
           THEN [owner |-> req[r].acct, used |-> FALSE, expired |-> FALSE]
           ELSE IF c \in req[r].held THEN [codes[c] EXCEPT !.used = TRUE] ELSE codes[c]]
    /\ replaced' = replaced \cup req[r].older
    /\ EndSession(r, "ok")
    /\ UNCHANGED <<pw, blocked, live, used, ended>>

-----------------------------------------------------------------------------

\* reset_password, for an account that is not blocked.
reset_password(r, a, c) ==
    pw[a] # Nobody /\ ~blocked[a] /\ Begin(r, "reset", a, c, "find")

\* get_active_for_user_by_hash: SELECT ... FOR UPDATE, then expires_at.
\* Mutated form: without FOR UPDATE.
FindUnlocked(r) ==
    LET c == req[r].code
    IN  /\ req[r].pc = "find"
        /\ req' = [req EXCEPT ![r].pc = IF c \in Active(req[r].acct) /\ ~codes[c].expired
                                        THEN "change" ELSE "fail"]
        /\ UNCHANGED <<tables, hist>>
get_active_for_user_by_hash(r) ==
    LET c == req[r].code
        found == c \in Active(req[r].acct)
    IN  /\ req[r].pc = "find"
        /\ found => CodeFree(r, c)
        /\ req' = [req EXCEPT ![r].held = IF found THEN {c} ELSE {},
                      ![r].pc = IF found /\ ~codes[c].expired THEN "change" ELSE "fail"]
        /\ UNCHANGED <<tables, hist>>

\* _record_reset_failure: the answer is 400, and the account is blocked if the
\* count of its wrong codes has reached the limit.
_record_reset_failure(r) ==
    /\ req[r].pc = "fail"
    /\ \/ UNCHANGED blocked
       \/ UserFree(r) /\ blocked' = [blocked EXCEPT ![req[r].acct] = TRUE]
    /\ EndSession(r, "refused")
    /\ UNCHANGED <<pw, codes, live, hist>>

\* update_password and mark_used are flushed before the sessions are listed:
\* the users row is locked.  Then the sessions that are committed are revoked.
\* Mutated form: only the refresh tokens are revoked.
KeepSessions(r) ==
    /\ req[r].pc = "change"
    /\ UserFree(r)
    /\ req' = [req EXCEPT ![r].pc = "commit", ![r].user = TRUE]
    /\ UNCHANGED <<tables, hist>>
ChangePassword(r) ==
    /\ req[r].pc = "change"
    /\ UserFree(r)
    /\ req' = [req EXCEPT ![r].pc = "commit", ![r].user = TRUE,
                          ![r].revoke = SessionsOf(req[r].acct)]
    /\ UNCHANGED <<tables, hist>>

\* The flags of the account were loaded FALSE, so the UPDATE has no flags.
CommitReset(r) ==
    /\ req[r].pc = "commit" /\ req[r].kind = "reset"
    /\ pw' = [pw EXCEPT ![req[r].acct] = r]
    /\ codes' = [codes EXCEPT ![req[r].code].used = TRUE]
    /\ live' = live \ req[r].revoke
    /\ used' = [used EXCEPT ![req[r].code] = @ \cup {r}]
    /\ ended' = ended \cup req[r].open
    /\ EndSession(r, "ok")
    /\ UNCHANGED <<blocked, replaced>>

-----------------------------------------------------------------------------

\* The handlers' early returns: the address is taken (register) or unknown
\* (forgot, reset), the password is wrong (login), the account is blocked, or
\* SMTP is not configured (forgot).
Refuse(r, kind, a) ==
    /\ req[r].pc = "idle" /\ kind \in Kinds
    /\ CASE kind = "register" -> pw[a] # Nobody
         [] kind = "reset"    -> pw[a] = Nobody \/ blocked[a]
         [] OTHER             -> TRUE
    /\ req' = [req EXCEPT ![r] = [Idle EXCEPT !.pc = "done", !.kind = kind, !.acct = a,
                  !.answer = IF pw[a] = Nobody /\ kind = "forgot" THEN "unknown" ELSE "refused"]]
    /\ UNCHANGED <<tables, hist>>

\* The process ends, the client goes away or a commit fails.
Die(r) ==
    /\ req[r].pc \notin {"idle", "done"}
    /\ EndSession(r, "none")
    /\ UNCHANGED <<tables, hist>>

\* expires_at passes.
Expire(c) ==
    /\ codes[c] # NoRow /\ ~codes[c].expired
    /\ codes' = [codes EXCEPT ![c].expired = TRUE]
    /\ UNCHANGED <<pw, blocked, live, req, hist>>

Statement(r) ==
    \/ InsertUser(r) \/ CommitRegister(r) \/ IssueTokens(r)
    \/ Snapshot(r) \/ mark_active_for_user_used(r) \/ send(r) \/ SendFails(r)
    \/ (\E c \in Code : create(r, c)) \/ CommitForgot(r)
    \/ get_active_for_user_by_hash(r) \/ _record_reset_failure(r)
    \/ ChangePassword(r) \/ CommitReset(r)

Arrive(r) ==
    \E a \in Account :
        \/ register(r, a) \/ login(r, a) \/ request_reset(r, a)
        \/ \E c \in Code : reset_password(r, a, c)
        \/ \E kind \in Kinds : Refuse(r, kind, a)

\* Every request was handled.
AllDone == (\A r \in Request : req[r].pc = "done") /\ UNCHANGED vars

Next ==
    \/ \E r \in Request : Arrive(r) \/ Statement(r) \/ Die(r)
    \/ \E c \in Code : Expire(c)
    \/ AllDone

Spec     == Init /\ [][Next]_vars
FairSpec == Spec /\ \A r \in Request : WF_vars(Statement(r))

-----------------------------------------------------------------------------

TypeOK ==
    /\ pw \in [Account -> Request \cup {Nobody, Before}]
    /\ blocked \in [Account -> BOOLEAN]
    /\ codes \in [Code -> CodeRow \cup {NoRow}]
    /\ live \subseteq Request
    /\ req \in [Request -> Transaction]
    /\ used \in [Code -> SUBSET Request]
    /\ replaced \subseteq Code /\ ended \subseteq Request

\* However requests overlap, a reset code changes a password once, and only
\* that of the account it was sent to: the row is locked before used_at is
\* looked at, and stays locked until the reset commits.
CodeOnce ==
    \A c \in Code :
        /\ Cardinality(used[c]) <= 1
        /\ \A r \in used[c] : codes[c].owner = req[r].acct

\* Once a request for a code was answered, the codes the account had when that
\* request came are dead: a reset sent after the answer is not accepted with one.
ReplacedRefused ==
    \A r \in Request : req[r].kind = "reset" /\ req[r].answer = "ok" => ~req[r].late

\* A code is retired by the reset that spends it or by a successor that is
\* there from the same moment: a request that fails, because the mail cannot be
\* sent, the code it drew is taken or the process dies, leaves the account the
\* code it had.
RetiredForACause ==
    [][\A a \in Account : \A c \in Active(a) \ Active(a)' :
          \/ used'[c] # used[c]
          \/ \E d \in Code : codes[d] = NoRow /\ d \in Active(a)']_vars

\* A session that was open when the reset was sent is not open once the reset
\* is answered.
ResetEndsSessions == live \cap ended = {}

\* Of the registrations of an address, however many overlap, one is answered
\* with success, and its password is the account's until it is reset.
OneRegistration ==
    \A r \in Request :
        req[r].kind = "register" /\ req[r].answer = "ok" =>
            \/ pw[req[r].acct] = r
            \/ \E c \in Code : \E q \in used[c] : req[q].acct = req[r].acct

\* Every request ends: no two wait for each other's rows.
RequestsEnd == \A r \in Request : req[r].pc # "idle" ~> req[r].pc = "done"

\* The test of request_reset: a new code invalidates the active ones, so an
\* account never has two.
OneActiveCode == \A a \in Account : Cardinality(Active(a)) <= 1

\* The project book on the reset: the refresh and session data of the user are
\* revoked.  No session that the old password opened is left.
OldPasswordOut == \A r \in live : req[r].hash = pw[req[r].acct]

\* The project book on the request for a code: the service always answers the
\* same, also when there is no such user.
AnswersAlike ==
    \A r, q \in Request :
        /\ req[r].kind = "forgot" /\ req[q].kind = "forgot"
        /\ req[r].answer \in {"ok", "unknown"} /\ req[q].answer \in {"ok", "unknown"}
        => req[r].answer = req[q].answer

-----------------------------------------------------------------------------
(* The inductive invariant: what holds of each request, by the step that    *)
(* comes next, and what holds between the requests and of the tables.       *)

\* What a request is doing.
Control(r) ==
    /\ req[r].pc = "idle" => req[r] = Idle
    /\ req[r].pc # "idle" => req[r].acct \in Account
    /\ req[r].pc = "insert user" => req[r].kind = "register"
    /\ req[r].pc = "issue" => req[r].kind = "login"
    /\ req[r].pc \in {"mark", "insert", "send"} => req[r].kind = "forgot"
    /\ req[r].pc \in {"find", "fail", "change"} => req[r].kind = "reset"
    /\ req[r].pc = "commit" => req[r].kind \in {"register", "forgot", "reset"}
    /\ req[r].pc = "done" => req[r].held = {}
    /\ req[r].pc # "done" => req[r].answer = "none"
    /\ req[r].user <=> req[r].pc = "commit" /\ req[r].kind \in {"register", "reset"}

\* What a transaction has locked stays as it was when it looked: the address it
\* registers is free, the code it generated is not in the table, the codes it
\* retires or spends are active.
Holds(r) ==
    /\ req[r].pc = "commit" /\ req[r].kind = "register" => pw[req[r].acct] = Nobody
    /\ req[r].kind = "forgot" /\ req[r].pc \in {"send", "commit"} =>
          req[r].code \in req[r].held /\ codes[req[r].code] = NoRow
    /\ req[r].pc \in {"find", "fail", "change"} => req[r].code \in Code
    /\ req[r].kind = "reset" /\ req[r].pc \in {"change", "commit"} =>
          req[r].code \in req[r].held
    /\ \A c \in req[r].held :
          \/ c \in Active(req[r].acct)
          \/ req[r].kind = "forgot" /\ req[r].pc \in {"send", "commit"} /\ c = req[r].code

\* The codes that were there when a request for a new one came are used, or the
\* request has them in its snapshot, then among its locks.  A code that was
\* replaced when a reset came is used.
Retires(r) ==
    /\ req[r].late => req[r].kind = "reset" /\ req[r].code \in replaced
    /\ \A c \in req[r].older : codes[c] # NoRow /\ codes[c].owner = req[r].acct
    /\ req[r].pc = "mark" /\ req[r].snap # {} =>
          \A c \in req[r].older : codes[c].used \/ c \in req[r].snap
    /\ req[r].kind = "forgot" /\ req[r].pc \in {"insert", "send", "commit"} =>
          \A c \in req[r].older : codes[c].used \/ c \in req[r].held

\* A reset revokes the sessions that were open when it came.
Revokes(r) ==
    /\ \A q \in req[r].open : req[q].pc = "done" /\ req[q].acct = req[r].acct
    /\ req[r].pc = "commit" /\ req[r].kind = "reset" =>
          req[r].open \cap live \subseteq req[r].revoke

\* No row is locked twice.
Exclusive ==
    \A r, q \in Request : r # q =>
        /\ req[r].held \cap req[q].held = {}
        /\ req[r].user /\ req[q].user => req[r].acct # req[q].acct

\* A code that was spent was the active code of the account of the one reset
\* that spent it; replaced codes are used; sessions are those of sign-ins that
\* were answered.
Settled ==
    /\ \A c \in Code :
          /\ \A r, q \in used[c] : r = q
          /\ \A r \in used[c] :
                /\ codes[c] # NoRow /\ codes[c].used /\ codes[c].owner = req[r].acct
                /\ req[r].pc = "done"
    /\ \A c \in replaced : codes[c] # NoRow /\ codes[c].used
    /\ \A q \in live \cup ended : req[q].pc = "done"

Inv ==
    /\ TypeOK
    /\ \A r \in Request : Control(r) /\ Holds(r) /\ Retires(r) /\ Revokes(r)
    /\ Exclusive /\ Settled
    /\ ReplacedRefused /\ ResetEndsSessions /\ OneRegistration
=============================================================================
