--------------------------- MODULE LoginChallenge ---------------------------
(***************************************************************************)
(* The second step of a sign-in, AuthService.verify_login_challenge.  A    *)
(* login with the right password to an account with two-factor leaves a    *)
(* challenge in Redis; a code presented with it, from the address of the   *)
(* login, signs in.  Wrong codes are counted for the challenge and the     *)
(* address, and a count that reaches MaxAttempts locks the pair.           *)
(*                                                                         *)
(* One step is one awaited call.  Whether a code is right is TwoFactor's   *)
(* matter and a choice here.  The count and the lock live as long as the   *)
(* challenge or longer, by the default settings (300, 900 and 300 seconds, *)
(* the challenge's first), so that they never expire before it.            *)
(*                                                                         *)
(* Names that Lockout has as well begin with Code or Challenge here, so    *)
(* that one module can hold the proofs about both.                         *)
(***************************************************************************)
EXTENDS Attempts

CONSTANTS
    Challenge,      \* the identifiers uuid4 returns
    Agent,          \* User-Agent headers
    Nothing         \* no challenge in Redis, none known to a request

ASSUME LoginChallengeAssumption ==
    /\ Nothing \notin Address /\ Nothing \notin Address \X Agent

CodeKey == Challenge \X Address

VARIABLES
    stored,     \* Redis: the address each challenge is bound to, or Nothing
    codeFails,  \* Redis: the count of each challenge and address
    codeLock,   \* Redis: the pairs that are locked
    active,     \* users.is_active of the account
    call,       \* what each request does next, and what it knows
    made,       \* history: the address and agent of each challenge's login
    over,       \* history: the challenges a request has finished with
    wrong,      \* history: wrong codes for each pair, since it was cleared
    lost        \* history: requests that died half way

codeRedis == <<stored, codeFails, codeLock>>
codeHist  == <<made, over, wrong, lost>>
codeVars  == <<codeRedis, active, call, codeHist>>

NoCall == [pc |-> "idle"]

\* A request: what was sent, and whether the challenge was over (late) or the
\* account inactive (barred) before it was sent.
Call == [pc     : {"assert", "get", "mismatch", "user", "inactive", "verify",
                   "incr", "lock", "delete fails", "refuse", "clear",
                   "delete", "commit"},
         ch     : Challenge,
         addr   : Address,
         agent  : Agent,
         bad    : BOOLEAN,
         late   : BOOLEAN,
         barred : BOOLEAN]

ChallengeInit ==
    /\ stored    = [c \in Challenge |-> Nothing]
    /\ codeFails = [k \in CodeKey |-> 0]
    /\ codeLock  = {}
    /\ active    = TRUE
    /\ call      = [r \in Request |-> NoCall]
    /\ made      = [c \in Challenge |-> Nothing]
    /\ over      = {}
    /\ wrong     = [k \in CodeKey |-> 0]
    /\ lost      = 0

-----------------------------------------------------------------------------

CodeKeyOf(r) == <<call[r].ch, call[r].addr>>

CodeGoto(r, pc) == call' = [call EXCEPT ![r].pc = pc]
CodeDone(r)     == call' = [call EXCEPT ![r] = NoCall]

\* The end of a login with the right password: _create_login_challenge.
Create(c, a, u) ==
    /\ active
    /\ made[c] = Nothing
    /\ stored' = [stored EXCEPT ![c] = a]
    /\ made'   = [made EXCEPT ![c] = <<a, u>>]
    /\ UNCHANGED <<codeFails, codeLock, active, call, over, wrong, lost>>

\* The lifetime of the challenge ends, whoever has read it.
ChallengeExpires(c) ==
    /\ stored[c] # Nothing
    /\ stored' = [stored EXCEPT ![c] = Nothing]
    /\ UNCHANGED <<codeFails, codeLock, active, call, codeHist>>

\* An operator's UPDATE.
Deactivate ==
    /\ active
    /\ active' = FALSE
    /\ UNCHANGED <<codeRedis, call, codeHist>>

CodeBegin(r, c, a, u) ==
    /\ call[r] = NoCall
    /\ call' = [call EXCEPT ![r] =
          [pc |-> "assert", ch |-> c, addr |-> a, agent |-> u,
           bad |-> FALSE, late |-> c \in over, barred |-> ~active]]
    /\ UNCHANGED <<codeRedis, active, codeHist>>

\* A Redis or database error: the transaction rolls back, Redis does not.
CodeDie(r) ==
    /\ call[r] # NoCall
    /\ lost < MaxDeaths
    /\ lost' = lost + 1
    /\ CodeDone(r)
    /\ UNCHANGED <<codeRedis, active, made, over, wrong>>

assert_not_locked(r) ==
    /\ call[r].pc = "assert"
    /\ IF CodeKeyOf(r) \in codeLock THEN CodeDone(r) ELSE CodeGoto(r, "get")
    /\ UNCHANGED <<codeRedis, active, codeHist>>

_challenge_context_matches(c, a) == stored[c] = a

\* _get_login_challenge, and what is said without another call.
_get_login_challenge(r) ==
    LET c == call[r].ch IN
    /\ call[r].pc = "get"
    /\ CASE stored[c] = Nothing -> CodeDone(r)
         [] stored[c] # Nothing /\ _challenge_context_matches(c, call[r].addr) ->
               CodeGoto(r, "user")
         [] OTHER -> call' = [call EXCEPT ![r].pc = "incr", ![r].bad = TRUE]
    /\ UNCHANGED <<codeRedis, active, codeHist>>

\* get_by_id.
GetUser(r) ==
    /\ call[r].pc = "user"
    /\ CodeGoto(r, IF active THEN "verify" ELSE "inactive")
    /\ UNCHANGED <<codeRedis, active, codeHist>>

\* verify_for_login: a right code; a wrong one; or an account that has no
\* two-factor any more, or two codes or none, which nothing counts.
VerifyForLogin(r) ==
    /\ call[r].pc = "verify"
    /\ \/ CodeGoto(r, "clear") /\ UNCHANGED wrong
       \/ CodeGoto(r, "incr") /\ wrong' = [wrong EXCEPT ![CodeKeyOf(r)] = @ + 1]
       \/ CodeDone(r) /\ UNCHANGED wrong
    /\ UNCHANGED <<codeRedis, active, made, over, lost>>

-----------------------------------------------------------------------------
(* record_failure, after a wrong code or from a wrong address (bad) *)

AfterRecord(r) == IF call[r].bad THEN "mismatch" ELSE "refuse"

CodeIncr(r) ==
    LET n == codeFails[CodeKeyOf(r)] + 1 IN
    /\ call[r].pc = "incr"
    /\ codeFails' = [codeFails EXCEPT ![CodeKeyOf(r)] = n]
    /\ CodeGoto(r, IF n >= MaxAttempts THEN "lock" ELSE AfterRecord(r))
    /\ UNCHANGED <<stored, codeLock, active, codeHist>>

\* Mutated form: at the limit the count begins anew, and nothing is locked.
SetNoLock(r) ==
    /\ call[r].pc = "lock"
    /\ CodeGoto(r, "delete fails")
    /\ UNCHANGED <<codeRedis, active, codeHist>>

CodeSetLock(r) ==
    /\ call[r].pc = "lock"
    /\ codeLock' = codeLock \cup {CodeKeyOf(r)}
    /\ CodeGoto(r, "delete fails")
    /\ UNCHANGED <<stored, codeFails, active, codeHist>>

CodeDeleteFails(r) ==
    /\ call[r].pc = "delete fails"
    /\ codeFails' = [codeFails EXCEPT ![CodeKeyOf(r)] = 0]
    /\ CodeGoto(r, AfterRecord(r))
    /\ UNCHANGED <<stored, codeLock, active, codeHist>>

\* The event of a wrong code, and the commit.
Refuse(r) ==
    /\ call[r].pc = "refuse"
    /\ CodeDone(r)
    /\ UNCHANGED <<codeRedis, active, codeHist>>

-----------------------------------------------------------------------------
(* The ends of a challenge *)

clear_failures(r) ==
    LET k == CodeKeyOf(r) IN
    /\ call[r].pc = "clear"
    /\ codeFails' = [codeFails EXCEPT ![k] = 0]
    /\ codeLock'  = codeLock \ {k}
    /\ wrong' = [wrong EXCEPT ![k] = 0]
    /\ CodeGoto(r, "delete")
    /\ UNCHANGED <<stored, active, made, over, lost>>

\* Mutated form: a refused request leaves the challenge.
DeleteAfterSignIn(r) ==
    /\ call[r].pc \in {"mismatch", "inactive", "delete"}
    /\ stored' = IF call[r].pc = "delete" THEN [stored EXCEPT ![call[r].ch] = Nothing]
                                         ELSE stored
    /\ call' = [call EXCEPT ![r].bad = call[r].pc # "delete", ![r].pc = "commit"]
    /\ UNCHANGED <<codeFails, codeLock, active, codeHist>>

\* After a wrong address, for an inactive account, or before a sign-in.
_delete_login_challenge(r) ==
    /\ call[r].pc \in {"mismatch", "inactive", "delete"}
    /\ stored' = [stored EXCEPT ![call[r].ch] = Nothing]
    /\ call' = [call EXCEPT ![r].bad = call[r].pc # "delete", ![r].pc = "commit"]
    /\ UNCHANGED <<codeFails, codeLock, active, codeHist>>

\* The event and the commit; and, unless the request is refused (bad),
\* issue_for_user before them.
Commit(r) ==
    /\ call[r].pc = "commit"
    /\ over' = over \cup {call[r].ch}
    /\ CodeDone(r)
    /\ UNCHANGED <<codeRedis, active, made, wrong, lost>>

SignsIn(r) == Commit(r) /\ ~call[r].bad

ChallengeNext ==
    \/ Deactivate
    \/ \E c \in Challenge : ChallengeExpires(c)
    \/ \E c \in Challenge, a \in Address, u \in Agent :
          Create(c, a, u) \/ \E r \in Request : CodeBegin(r, c, a, u)
    \/ \E r \in Request :
          \/ assert_not_locked(r) \/ _get_login_challenge(r) \/ GetUser(r)
          \/ VerifyForLogin(r)
          \/ CodeIncr(r) \/ CodeSetLock(r) \/ CodeDeleteFails(r) \/ Refuse(r)
          \/ clear_failures(r) \/ _delete_login_challenge(r) \/ Commit(r)
          \/ CodeDie(r)

ChallengeSpec == ChallengeInit /\ [][ChallengeNext]_codeVars

-----------------------------------------------------------------------------

\* Every variable has its type.
ChallengeTypeOK ==
    /\ stored \in [Challenge -> Address \cup {Nothing}]
    /\ codeFails \in [CodeKey -> Nat] /\ wrong \in [CodeKey -> Nat]
    /\ codeLock \subseteq CodeKey
    /\ active \in BOOLEAN
    /\ call \in [Request -> Call \cup {NoCall}]
    /\ made \in [Challenge -> (Address \X Agent) \cup {Nothing}]
    /\ over \subseteq Challenge
    /\ lost \in Nat

\* verify_login_challenge reads, uses and deletes the challenge in separate
\* calls, and two requests may both sign in with it.  But once one request has
\* been answered - signed in, refused for its address or for the account - no
\* request that begins later signs in with that challenge, whichever request
\* died in between; none does that begins after the account was deactivated; and
\* every one comes from the address that gave the password, although the challenge
\* is deleted and expires while other requests hold it.
OverIsOver ==
    [][\A r \in Request : SignsIn(r) =>
          /\ ~call[r].late /\ ~call[r].barred
          /\ made[call[r].ch][1] = call[r].addr]_codeVars

\* The lock is checked first, and the wrong code counted and the lock set calls
\* later; a right code clears both, and the deletion of a count may arrive after
\* that.  All the same a challenge sees no more wrong codes after it was cleared
\* than the limit for each request handled at once, and one for each that died.
BoundedCodes ==
    \A k \in CodeKey : wrong[k] <= MaxAttempts * Cardinality(Request) + lost

\* What docs/architecture/two-factor-auth.md says of the challenge: it is bound
\* to the address and the User-Agent.  _challenge_context_matches compares the
\* address only.
BoundToContext ==
    [][\A r \in Request : SignsIn(r) =>
          made[call[r].ch] = <<call[r].addr, call[r].agent>>]_codeVars

-----------------------------------------------------------------------------
(* Why a challenge that is over stays so.                                    *)

\* A request that has read the challenge; one that is on its way to a sign-in.
Holding(r)  == call[r] # NoCall /\ call[r].pc \notin {"assert", "get"}
SigningIn(r) ==
    call[r] # NoCall /\ (call[r].pc \in {"user", "verify", "clear", "delete"}
                        \/ (call[r].pc = "commit" /\ ~call[r].bad))

\* What is in Redis was made by a login from that address; what is over was made
\* and is not in Redis, and therefore is never made again.
ChallengesKnown ==
    \A c \in Challenge :
        /\ stored[c] # Nothing => made[c] # Nothing /\ made[c][1] = stored[c]
        /\ c \in over => made[c] # Nothing /\ stored[c] = Nothing

\* What a request knows of its challenge.  A late one never reads it, a barred
\* one never gets past the account, and the others come from the right address.
Knows(r) ==
    /\ Holding(r) => made[call[r].ch] # Nothing /\ ~call[r].late
    /\ SigningIn(r) => made[call[r].ch][1] = call[r].addr
    /\ call[r] # NoCall /\ call[r].pc = "commit" => stored[call[r].ch] = Nothing
    /\ call[r] # NoCall /\ call[r].late => call[r].ch \in over
    /\ call[r] # NoCall /\ call[r].barred =>
           ~active /\ (SigningIn(r) => call[r].pc = "user")

OverInv == ChallengesKnown /\ \A r \in Request : Knows(r)

-----------------------------------------------------------------------------
(* Why the wrong codes are bounded: as in Lockout, by what the requests in   *)
(* flight still add.                                                         *)

\* A wrong code for k that the count does not show: it is not yet counted, or the
\* count is at the limit and the lock is not yet set.
CodeUncounted(k) == {r \in Request :
    /\ call[r] # NoCall /\ CodeKeyOf(r) = k
    /\ call[r].pc = "lock" \/ (call[r].pc = "incr" /\ ~call[r].bad)}

\* A request that will delete the count of k, whatever it is by then.
CodeDeleting(k) == {r \in Request :
    call[r] # NoCall /\ CodeKeyOf(r) = k /\ call[r].pc = "delete fails"}

\* A request that has found k not locked and may yet present a wrong code.
CodeAdmitted(k) == {r \in Request :
    call[r] # NoCall /\ CodeKeyOf(r) = k /\ call[r].pc \in {"get", "user", "verify"}}

CodeLow(n) == IF n >= MaxAttempts THEN MaxAttempts - 1 ELSE n

CodesAccounted(k) ==
    IF k \in codeLock
    THEN wrong[k] + Cardinality(CodeAdmitted(k))
           <= MaxAttempts * Cardinality(Request) + lost
    ELSE wrong[k]
           <= lost + CodeLow(codeFails[k]) + Cardinality(CodeUncounted(k))
                + (MaxAttempts - 1)
                    * (Cardinality(Request) - 1 - Cardinality(CodeDeleting(k)))

\* No request is refused before it has read the challenge and the code was verified.
Unjudged ==
    \A r \in Request :
        call[r] # NoCall /\ call[r].pc \in {"assert", "get", "user", "verify"}
          => ~call[r].bad

CodeInv == Unjudged /\ \A k \in CodeKey : wrong[k] = 0 \/ CodesAccounted(k)
=============================================================================
