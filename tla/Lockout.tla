------------------------------ MODULE Lockout ------------------------------
(***************************************************************************)
(* Guessing at one account: sign-in with its password (AuthService.login)  *)
(* and password reset with an e-mailed code                                *)
(* (PasswordResetService.reset_password).  Every wrong guess is counted in *)
(* Redis twice, for the e-mail and the client's address together and for   *)
(* the e-mail alone.  A count that reaches MaxAttempts sets a lock in      *)
(* Redis, for a while; the second one also blocks the account in the       *)
(* database, for good.                                                     *)
(*                                                                         *)
(* One step is one awaited call, so that guesses interleave between the    *)
(* check of the locks, the guess, the counts and the locks.  A request     *)
(* also dies between two calls when Redis or the database fails it.        *)
(***************************************************************************)
EXTENDS Attempts

CONSTANTS
    Ops,            \* what clients send: a set of "login" and "reset"
    Rows            \* what the users row may be: none, active or inactive

AllOps == {"login", "reset"}

ASSUME LockoutAssumption ==
    /\ Ops \subseteq AllOps
    /\ Rows \subseteq {"none", "active", "inactive"}
    /\ "account" \notin Address

\* An operation, and an address or "account": login and login_account,
\* password_reset and password_reset_account of the e-mail.
Key == AllOps \X (Address \cup {"account"})

VARIABLES
    fails,      \* Redis: the count of each key, 0 when there is none
    timed,      \* Redis: the counts that have a lifetime
    lock,       \* Redis: the keys that are locked
    user,       \* the users row of the e-mail, a member of Rows
    blocked,    \* users.login_blocked and users.password_reset_blocked
    req,        \* what each request does next, and what it knows
    fresh,      \* the lifetimes that have started since a request began
    tries,      \* history: wrong guesses at the present password or code
    deaths      \* history: requests that died half way

redis == <<fails, timed, lock>>
hist  == <<tries, deaths>>
vars  == <<redis, user, blocked, req, fresh, hist>>

\* A request between two others.
Idle == [pc |-> "idle"]

\* A request that runs: its operation and address, whose key its next call is
\* about, what it loaded of the users row, and what its last INCR returned.
Running == [pc   : {"load", "assert", "guess", "incr", "expire", "lock",
                    "delete", "fail", "clear", "commit"},
            op   : AllOps,
            addr : Address,
            on   : {"address", "account"},
            seen : {"none", "open", "blocked"},
            hits : Nat]

Init ==
    /\ fails = [k \in Key |-> 0]
    /\ timed = {} /\ lock = {}
    /\ user \in Rows
    /\ blocked = [o \in AllOps |-> FALSE]
    /\ req = [r \in Request |-> Idle]
    /\ fresh = [r \in Request |-> {}]
    /\ tries = [o \in AllOps |-> 0]
    /\ deaths = 0

-----------------------------------------------------------------------------

KeyOf(r) == <<req[r].op, IF req[r].on = "address" THEN req[r].addr ELSE "account">>

\* The count of the account begins anew, and so does the history of guesses.
Anew(k) == tries' = IF k[2] = "account" THEN [tries EXCEPT ![k[1]] = 0] ELSE tries

\* The lifetimes in Redis are minutes and no request lasts that long: what
\* expires was started before every request that still runs.
Started(t) == fresh' = [q \in Request |-> IF req[q] = Idle THEN {} ELSE fresh[q] \cup {t}]
Ended(ts) == fresh' = [q \in Request |-> fresh[q] \ ts]
Old(t) == \A q \in Request : t \notin fresh[q]

\* reset_password writes the users row before it clears the counts, and commits
\* after: meanwhile no other request can write the row.
UsersRowFree(r) ==
    \A q \in Request \ {r} :
        req[q] # Idle => ~(req[q].op = "reset" /\ req[q].pc \in {"clear", "commit"})

Goto(r, pc) == req' = [req EXCEPT ![r].pc = pc]

Done(r) ==
    /\ req'   = [req EXCEPT ![r] = Idle]
    /\ fresh' = [fresh EXCEPT ![r] = {}]

Begin(r, o, a) ==
    /\ req[r] = Idle
    /\ o \in Ops
    /\ req' = [req EXCEPT ![r] =
                  [pc |-> IF o = "login" THEN "load" ELSE "assert", op |-> o,
                   addr |-> a, on |-> "address", seen |-> "none", hits |-> 0]]
    /\ UNCHANGED <<redis, user, blocked, fresh, hist>>

\* A Redis or database error: the session rolls back, Redis does not.
Die(r) ==
    /\ req[r] # Idle
    /\ deaths < MaxDeaths
    /\ deaths' = deaths + 1
    /\ Done(r)
    /\ UNCHANGED <<redis, user, blocked, tries>>

-----------------------------------------------------------------------------
(* The checks, and the guess *)

\* get_by_email, and the refusal of a blocked account.
GetByEmail(r) ==
    /\ req[r].pc = "load"
    /\ \/ /\ user # "none" /\ blocked[req[r].op]
          /\ Done(r)
       \/ /\ ~(user # "none" /\ blocked[req[r].op])
          /\ req' = [req EXCEPT
                ![r].seen = IF user = "none" THEN "none"
                            ELSE IF blocked["login"] THEN "blocked" ELSE "open",
                ![r].pc = IF req[r].op = "login" THEN "assert" ELSE "guess"]
          /\ UNCHANGED fresh
    /\ UNCHANGED <<redis, user, blocked, hist>>

\* Is the key of the account looked at after the one of the address?  A sign-in
\* to no account only has the latter.
AccountNext(r) ==
    req[r].on = "address" /\ (req[r].op = "reset" \/ req[r].seen # "none")

AssertNotLocked(r) ==
    /\ req[r].pc = "assert"
    /\ \/ /\ KeyOf(r) \in lock
          /\ Done(r)
       \/ /\ KeyOf(r) \notin lock
          /\ \/ /\ AccountNext(r)
                /\ req' = [req EXCEPT ![r].on = "account"]
             \/ /\ ~AccountNext(r)
                /\ req' = [req EXCEPT
                      ![r].on = "address",
                      ![r].pc = IF req[r].op = "login" THEN "guess" ELSE "load"]
          /\ UNCHANGED fresh
    /\ UNCHANGED <<redis, user, blocked, hist>>

\* The right password or code.  It does not let an inactive account sign in,
\* but it does let it reset the password, which writes the users row.
Right(r) ==
    /\ req[r].pc = "guess"
    /\ req[r].seen # "none"
    /\ \/ /\ req[r].op = "login" /\ user = "inactive"
          /\ Done(r)
       \/ /\ req[r].op = "reset" \/ user = "active"
          /\ req[r].op = "reset" => UsersRowFree(r)
          /\ Goto(r, "clear")
          /\ UNCHANGED fresh
    /\ UNCHANGED <<redis, user, blocked, hist>>

Wrong(r) ==
    /\ req[r].pc = "guess"
    /\ Goto(r, "incr")
    /\ tries' = [tries EXCEPT ![req[r].op] = @ + IF user = "none" THEN 0 ELSE 1]
    /\ UNCHANGED <<redis, user, blocked, fresh, deaths>>

-----------------------------------------------------------------------------
(* record_failure, for the address and then for the account *)

\* Mutated form: only the attempt that hits the limit sets the lock.
AtLimitOnce(n) == n = MaxAttempts

AtLimit(n) == n >= MaxAttempts

\* After record_failure returns: the other call, or the end of the request.
NextRecord(r, n) ==
    req' = IF AccountNext(r)
           THEN [req EXCEPT ![r].on = "account", ![r].pc = "incr", ![r].hits = 0]
           ELSE [req EXCEPT ![r].pc = "fail", ![r].hits = n]

\* The count is n: lock the key at the limit.
Counted(r, n) ==
    IF AtLimit(n) THEN req' = [req EXCEPT ![r].pc = "lock", ![r].hits = n]
                  ELSE NextRecord(r, n)

\* Mutated form: the count is set, not raised.
SetOne(r) ==
    /\ req[r].pc = "incr"
    /\ fails' = [fails EXCEPT ![KeyOf(r)] = 1]
    /\ req' = [req EXCEPT ![r].pc = "expire", ![r].hits = 1]
    /\ UNCHANGED <<timed, lock, user, blocked, fresh, hist>>

Incr(r) ==
    LET k == KeyOf(r)
        n == fails[k] + 1
    IN
    /\ req[r].pc = "incr"
    /\ fails' = [fails EXCEPT ![k] = n]
    /\ IF n = 1 THEN req' = [req EXCEPT ![r].pc = "expire", ![r].hits = 1]
                ELSE Counted(r, n)
    /\ UNCHANGED <<timed, lock, user, blocked, fresh, hist>>

\* Mutated form: a count whose key is locked gets no lifetime.
ExpireUnlessLocked(r) ==
    LET k == KeyOf(r) IN
    /\ req[r].pc = "expire"
    /\ \/ fails[k] > 0 /\ k \notin lock /\ timed' = timed \cup {k} /\ Started(<<"fails", k>>)
       \/ (fails[k] = 0 \/ k \in lock) /\ UNCHANGED <<timed, fresh>>
    /\ Counted(r, req[r].hits)
    /\ UNCHANGED <<fails, lock, user, blocked, hist>>

\* EXPIRE does nothing to a key that is gone.
Expire(r) ==
    LET k == KeyOf(r) IN
    /\ req[r].pc = "expire"
    /\ \/ fails[k] > 0 /\ timed' = timed \cup {k} /\ Started(<<"fails", k>>)
       \/ fails[k] = 0 /\ UNCHANGED <<timed, fresh>>
    /\ Counted(r, req[r].hits)
    /\ UNCHANGED <<fails, lock, user, blocked, hist>>

SetLock(r) ==
    /\ req[r].pc = "lock"
    /\ lock' = lock \cup {KeyOf(r)}
    /\ Started(<<"lock", KeyOf(r)>>)
    /\ Goto(r, "delete")
    /\ UNCHANGED <<fails, timed, user, blocked, hist>>

\* Mutated form: the failures it has seen are subtracted.
SubtractFails(r) ==
    LET k == KeyOf(r) IN
    /\ req[r].pc = "delete"
    /\ fails' = [fails EXCEPT ![k] = @ - req[r].hits]
    /\ timed' = timed \ {k}
    /\ Ended({<<"fails", k>>})
    /\ NextRecord(r, req[r].hits)
    /\ UNCHANGED <<lock, user, blocked, hist>>

DeleteFails(r) ==
    LET k == KeyOf(r) IN
    /\ req[r].pc = "delete"
    /\ fails' = [fails EXCEPT ![k] = 0]
    /\ timed' = timed \ {k}
    /\ Ended({<<"fails", k>>})
    /\ NextRecord(r, req[r].hits)
    /\ UNCHANGED <<lock, user, blocked, hist>>

\* The account is blocked when its own count, the last one, is at the limit.
FailCommit(r) ==
    LET block == user # "none" /\ AtLimit(req[r].hits) IN
    /\ req[r].pc = "fail"
    /\ block => UsersRowFree(r)
    /\ blocked' = [blocked EXCEPT ![req[r].op] = @ \/ block]
    /\ Done(r)
    /\ UNCHANGED <<redis, user, hist>>

-----------------------------------------------------------------------------
(* After the right guess: clear_failures for the address and the account *)

ClearFailures(r) ==
    LET k == KeyOf(r) IN
    /\ req[r].pc = "clear"
    /\ fails' = [fails EXCEPT ![k] = 0]
    /\ timed' = timed \ {k}
    /\ lock'  = lock \ {k}
    /\ Ended({<<"fails", k>>, <<"lock", k>>})
    /\ Anew(k)
    /\ IF req[r].on = "address" THEN req' = [req EXCEPT ![r].on = "account"]
                                ELSE Goto(r, "commit")
    /\ UNCHANGED <<user, blocked, deaths>>

\* The sign-in goes on with a token pair or a 2FA challenge.
CommitLogin(r) ==
    /\ req[r].pc = "commit" /\ req[r].op = "login"
    /\ Done(r)
    /\ UNCHANGED <<redis, user, blocked, hist>>

\* update_password sets both flags to False; the UPDATE has the columns that
\* differ from the row as it was loaded, and password_reset_blocked was False.
CommitReset(r) ==
    /\ req[r].pc = "commit" /\ req[r].op = "reset"
    /\ blocked'  = [blocked EXCEPT !["login"] = @ /\ req[r].seen # "blocked"]
    /\ tries'    = [tries EXCEPT !["login"] = 0]
    /\ Done(r)
    /\ UNCHANGED <<redis, user, deaths>>

-----------------------------------------------------------------------------
(* Lifetimes in Redis *)

WindowPasses(k) ==
    /\ k \in timed
    /\ Old(<<"fails", k>>)
    /\ fails' = [fails EXCEPT ![k] = 0]
    /\ timed' = timed \ {k}
    /\ Anew(k)
    /\ UNCHANGED <<lock, user, blocked, req, fresh, deaths>>

LockExpires(k) ==
    /\ k \in lock
    /\ Old(<<"lock", k>>)
    /\ lock' = lock \ {k}
    /\ Anew(k)
    /\ UNCHANGED <<fails, timed, user, blocked, req, fresh, deaths>>

Next ==
    \/ \E k \in Key : WindowPasses(k) \/ LockExpires(k)
    \/ \E r \in Request :
          \/ \E o \in AllOps, a \in Address : Begin(r, o, a)
          \/ GetByEmail(r) \/ AssertNotLocked(r) \/ Right(r) \/ Wrong(r)
          \/ Incr(r) \/ Expire(r) \/ SetLock(r) \/ DeleteFails(r)
          \/ FailCommit(r)
          \/ ClearFailures(r) \/ CommitLogin(r) \/ CommitReset(r)
          \/ Die(r)

Spec == Init /\ [][Next]_vars

-----------------------------------------------------------------------------

\* Every variable has its type.
TypeOK ==
    /\ fails \in [Key -> Nat]
    /\ timed \subseteq Key /\ lock \subseteq Key
    /\ user \in Rows
    /\ blocked \in [AllOps -> BOOLEAN]
    /\ req \in [Request -> Running \cup {Idle}]
    /\ fresh \in [Request -> SUBSET ({"fails", "lock"} \X Key)]
    /\ tries \in [AllOps -> Nat]
    /\ deaths \in Nat

\* The locks are checked, the guess is made and the counts are raised in
\* separate calls, and a request that set a lock deletes the count after another
\* has cleared both and a third has begun to guess anew.  All the same a password
\* or a code sees no more wrong guesses, before a lock or a window ends or the
\* account is cleared, than the limit for each request handled at once, and one
\* for each that died before it was counted.
BoundedGuesses ==
    \A o \in AllOps :
        tries[o] <= MaxAttempts * Cardinality(Request) + deaths

\* The request is about to give the count of the key its lifetime.
Expiring(r, k) == req[r] # Idle /\ req[r].pc = "expire" /\ KeyOf(r) = k

\* The key has a count without a lifetime, and no request will give it one.
Stranded(k) ==
    fails[k] > 0 /\ k \notin timed /\ \A r \in Request : ~Expiring(r, k)

\* INCR and EXPIRE are two calls, and another request may delete the count and
\* begin a new one in between, or raise it.  All the same a count is left without
\* a lifetime by nothing but the death of a request between the two calls, on
\* that very key.
StrandedByDeath ==
    [][\A k \in Key : Stranded(k)' /\ ~Stranded(k) =>
          \E r \in Request : Expiring(r, k) /\ Die(r)]_vars

\* What the refusal of a blocked account says: a password reset regains access.
\* reset_password lifts the block it has seen, and leaves the lock of sign-ins in
\* Redis alone.
ResetRegainsAccess ==
    [][\A r \in Request : CommitReset(r) =>
          ~blocked'["login"] /\ <<"login", "account">> \notin lock']_vars

-----------------------------------------------------------------------------
(* Why the guesses are bounded: what the requests in flight still add.       *)

\* A wrong guess at o that the count of the account does not show: it is not yet
\* counted, or it has reached the limit and the lock is not yet set.
Uncounted(o) == {r \in Request :
    /\ req[r] # Idle /\ req[r].op = o
    /\ IF req[r].on = "address" THEN req[r].pc \in {"incr", "expire", "lock", "delete"}
       ELSE \/ req[r].pc \in {"incr", "lock"}
            \/ req[r].pc = "expire" /\ AtLimit(req[r].hits)}

\* A request that will delete the count of the account, whatever it is by then.
Deleting(o) == {r \in Request :
    req[r] # Idle /\ req[r].op = o /\ req[r].on = "account" /\ req[r].pc = "delete"}

\* A request that has found the account not locked and has yet to guess.
Admitted(o) == {r \in Request :
    /\ req[r] # Idle /\ req[r].op = o
    /\ req[r].pc = "guess" \/ (o = "reset" /\ req[r].pc = "load")}

\* What a count is worth: the lock is due from MaxAttempts on.
Low(n) == IF AtLimit(n) THEN MaxAttempts - 1 ELSE n

\* While the account is locked only the admitted requests still guess.  While it
\* is not, a guess is in the count or uncounted, or it was lost when one of the
\* requests that no longer deletes deleted the count.
GuessesAccounted(o) ==
    LET N == Cardinality(Request) IN
    IF <<o, "account">> \in lock
    THEN tries[o] + Cardinality(Admitted(o)) <= MaxAttempts * N + deaths
    ELSE tries[o] <= deaths + Low(fails[<<o, "account">>]) + Cardinality(Uncounted(o))
                       + (MaxAttempts - 1) * (N - 1 - Cardinality(Deleting(o)))

\* A request that has loaded the row knows whether there is an account.
Loaded(r) == req[r] # Idle /\ req[r].pc # "load" /\ (req[r].op = "reset" => req[r].pc # "assert")

GuessInv ==
    /\ \A r \in Request : Loaded(r) /\ user # "none" => req[r].seen # "none"
    /\ user = "none" => \A o \in AllOps : tries[o] = 0
    /\ \A o \in AllOps : tries[o] = 0 \/ GuessesAccounted(o)
=============================================================================
