----------------------------- MODULE TwoFactor -----------------------------
(***************************************************************************)
(* Two-factor authentication of one account (TwoFactorService): setup,     *)
(* enable, disable, a new set of backup codes, and the second step of a    *)
(* sign-in, each a transaction over users.two_factor_enabled, the row of   *)
(* two_factor_secrets and the rows of backup_codes.                        *)
(*                                                                         *)
(* One step is one statement.  A transaction loads the user, with the      *)
(* secret and the codes, when it begins, and the ORM keeps what it loaded: *)
(* a later SELECT of the same row, FOR UPDATE or not, returns the row as   *)
(* it was then.  A statement that locks rows takes the rows that are       *)
(* committed when it starts, waits for their locks, and skips those that   *)
(* are gone by then (READ COMMITTED).  Writes are seen at the commit.      *)
(***************************************************************************)
EXTENDS Integers, FiniteSets

CONSTANTS
    Request,        \* requests being handled at the same time
    Slot,           \* the codes of a set; ten in the code
    Ops,            \* what clients send, a subset of AllOps
    Factors,        \* how they prove the second factor, a subset of AllKinds
    MaxIssued,      \* bound: no setup or new set begins after so many
    MaxClock        \* bound on the intervals that pass

AllOps   == {"setup", "enable", "login", "disable", "regenerate"}
AllKinds == {"totp", "backup", "refused"}

ASSUME TwoFactorAssumption ==
    /\ Ops \subseteq AllOps
    /\ Factors \subseteq AllKinds
    /\ Slot # {}
    /\ MaxIssued \in Nat /\ MaxClock \in Nat

None == [born |-> 0]    \* no row of two_factor_secrets

VARIABLES
    enabled,    \* users.two_factor_enabled
    secret,     \* the account's row of two_factor_secrets, or None
    codes,      \* the account's rows of backup_codes: <<set, slot>>
    used,       \* those with used_at
    issued,     \* how many secrets and sets of codes were generated
    clock,      \* the present TOTP interval
    req,        \* the transactions
    spent       \* history: the backup codes that were accepted

rows == <<enabled, secret, codes, used, issued>>
vars == <<rows, clock, req, spent>>

SecretRow == [born : Nat \ {0}, key : Nat, confirmed : BOOLEAN, last : Nat]
CodeRow   == (Nat \ {0}) \X Slot
Factor    == [kind : {"totp"}, key : Nat, time : Nat]
                \cup [kind : {"backup"}, code : CodeRow]
                \cup {[kind |-> "refused"]}

\* A transaction: what it loaded (flag, row, seen, ticked), the record or the
\* rows its present statement is about (rec, snap), the rows it has locked
\* (sec, held); late and old are history: whether its backup code was accepted,
\* and how many sets were generated, before it began.
Transaction ==
    [pc     : {"idle", "related", "get", "write", "select secret", "lock secret",
               "select codes", "lock codes", "select old", "delete", "select wipe",
               "wipe", "commit"},
     op     : AllOps \cup {"none"},
     factor : Factor,
     flag   : BOOLEAN,
     row    : SecretRow \cup {None},
     seen   : SUBSET CodeRow,
     ticked : SUBSET CodeRow,
     rec    : SecretRow \cup {None},
     snap   : SUBSET CodeRow,
     sec    : BOOLEAN,
     held   : SUBSET CodeRow,
     late   : BOOLEAN,
     old    : Nat]

Idle == [pc |-> "idle", op |-> "none", factor |-> [kind |-> "refused"],
         flag |-> FALSE, row |-> None, seen |-> {}, ticked |-> {}, rec |-> None,
         snap |-> {}, sec |-> FALSE, held |-> {}, late |-> FALSE, old |-> 0]

Init ==
    /\ enabled = FALSE /\ secret = None
    /\ codes = {} /\ used = {}
    /\ issued = 0 /\ clock = 1
    /\ req = [r \in Request |-> Idle]
    /\ spent = {}

-----------------------------------------------------------------------------

\* The rows are released: another transaction has none of these locks.
SecretFree(r) == \A q \in Request \ {r} : ~req[q].sec
CodesFree(r)  == \A q \in Request \ {r} : req[q].held \cap req[r].snap = {}

\* The end of a session without a commit: what it wrote is rolled back and
\* its locks are released.  Every early return and every exception does it.
\* Mutated form: the transaction stays open.
LeakSession(r) == req' = [req EXCEPT ![r].pc = "idle"]
EndSession(r)  == req' = [req EXCEPT ![r] = Idle]

\* A row that a SELECT returns, as the ORM gives it to the handler.
Loaded(r, row) ==
    IF row # None /\ req[r].row.born = row.born THEN req[r].row ELSE row

\* verify_totp_code with valid_window=1: the code of the present interval, of
\* the one before or of the one after.
verify_totp_code(row, f) ==
    /\ f.kind = "totp"
    /\ f.key = row.key
    /\ f.time \in clock - 1 .. clock + 1

\* What the transaction does next, once its second factor was accepted.
AfterFactor(r) == IF req[r].op = "login" THEN "commit" ELSE "select old"

\* The transaction without what it loaded, when it looks at it no more.
Forget(t) == [t EXCEPT !.row = None, !.seen = {}, !.ticked = {}, !.snap = {}]

\* get_current_user and verify_login_challenge load the user ...
Begin(r, o, f) ==
    /\ req[r].pc = "idle"
    /\ o \in {"setup", "regenerate"} => issued < MaxIssued
    /\ req' = [req EXCEPT ![r] = [Idle EXCEPT !.pc = "related", !.op = o,
                  !.factor = f, !.flag = enabled, !.old = issued,
                  !.late = f.kind = "backup" /\ f.code \in spent]]
    /\ UNCHANGED <<rows, clock, spent>>

\* The checks that need no statement: the flag, the password of disable, and
\* one code given, not two or none.
Starts(r) ==
    /\ req[r].flag = (req[r].op \notin {"setup", "enable"})
    /\ req[r].op = "setup" \/ req[r].factor.kind # "refused"

FirstStatement(r) ==
    CASE req[r].op = "enable"           -> "select secret"
      [] req[r].factor.kind = "backup"  -> "select codes"
      [] OTHER                          -> "get"

\* ... and then, in statements of their own, its secret and its codes.
LoadRelated(r) ==
    /\ req[r].pc = "related"
    /\ IF Starts(r)
       THEN req' = [req EXCEPT ![r].pc = FirstStatement(r), ![r].row = secret,
                               ![r].seen = codes, ![r].ticked = used]
       ELSE EndSession(r)
    /\ UNCHANGED <<rows, clock, spent>>

\* get_secret in upsert_secret, and in _verify_totp with what it checks of the
\* code: a confirmed secret, a code of it, an interval later than the last.
Accepts(row, f) == row.confirmed /\ verify_totp_code(row, f) /\ f.time > row.last

GetSecret(r) ==
    /\ req[r].pc = "get"
    /\ LET row == Loaded(r, secret)
       IN  IF \/ req[r].op = "setup"
              \/ row # None /\ Accepts(row, req[r].factor)
           THEN req' = [req EXCEPT ![r] = [Forget(@) EXCEPT !.rec = row, !.pc = "write"]]
           ELSE EndSession(r)
    /\ UNCHANGED <<rows, clock, spent>>

\* The flush of a new or changed secret.  The INSERT of a second row for the
\* user, and the UPDATE of a row that is gone, fail.
FlushSecret(r) ==
    /\ req[r].pc = "write" /\ SecretFree(r)
    /\ IF secret.born = req[r].rec.born
       THEN req' = [req EXCEPT ![r].sec = TRUE, ![r].pc = AfterFactor(r)]
       ELSE EndSession(r)
    /\ UNCHANGED <<rows, clock, spent>>

\* get_secret_for_update in enable: the SELECT starts, ...
SelectSecret(r) ==
    /\ req[r].pc = "select secret"
    /\ IF secret = None
       THEN EndSession(r)
       ELSE req' = [req EXCEPT ![r].rec = secret, ![r].pc = "lock secret"]
    /\ UNCHANGED <<rows, clock, spent>>

\* ... and has the lock; the code is verified for the secret as loaded.
LockSecret(r) ==
    /\ req[r].pc = "lock secret" /\ SecretFree(r)
    /\ IF /\ secret.born = req[r].rec.born
          /\ verify_totp_code(Loaded(r, secret), req[r].factor)
       THEN req' = [req EXCEPT ![r] = [Forget(@) EXCEPT !.rec = Loaded(r, secret),
                                             !.sec = TRUE, !.pc = "commit"]]
       ELSE EndSession(r)
    /\ UNCHANGED <<rows, clock, spent>>

\* A statement about the user's backup codes starts: the SELECT FOR UPDATE of
\* _verify_backup_code, the DELETE of replace_backup_codes.
StartOnCodes(r, pc, next) ==
    /\ req[r].pc = pc
    /\ req' = [req EXCEPT ![r].snap = codes, ![r].pc = next]
    /\ UNCHANGED <<rows, clock, spent>>

\* used_at as the ORM gives it.
\* Mutated form: _verify_backup_code does not look at used_at.
NeverUsed(r, c) == FALSE
IsUsed(r, c) == c \in (IF c \in req[r].seen THEN req[r].ticked ELSE used)

\* The codes are locked, and _verify_backup_code finds the one it was given.
LockCodes(r) ==
    /\ req[r].pc = "lock codes" /\ CodesFree(r)
    /\ LET present == req[r].snap \cap codes
           c       == req[r].factor.code
       IN  IF c \in present /\ ~IsUsed(r, c)
           THEN req' = [req EXCEPT ![r] = [Forget(@) EXCEPT !.held = present,
                                             !.pc = AfterFactor(r)]]
           ELSE EndSession(r)
    /\ UNCHANGED <<rows, clock, spent>>

\* The DELETE of the user's codes.
Deleted(r) == req[r].snap \cap codes

DeleteCodes(r) ==
    /\ req[r].pc = "delete" /\ CodesFree(r)
    /\ req' = [req EXCEPT ![r].snap = Deleted(r), ![r].held = @ \cup Deleted(r),
                  ![r].pc = IF req[r].op = "disable" THEN "select wipe" ELSE "commit"]
    /\ UNCHANGED <<rows, clock, spent>>

\* The DELETE of the secret in delete_two_factor_data starts, and is done.
SelectWipe(r) ==
    /\ req[r].pc = "select wipe"
    /\ req' = [req EXCEPT ![r].rec = secret, ![r].pc = "wipe"]
    /\ UNCHANGED <<rows, clock, spent>>

Wipe(r) ==
    /\ req[r].pc = "wipe" /\ SecretFree(r)
    /\ req' = [req EXCEPT ![r].sec = @ \/ secret.born \in {req[r].rec.born} \ {0},
                          ![r].pc = "commit"]
    /\ UNCHANGED <<rows, clock, spent>>

\* What the commit leaves of the secret.  The ORM writes the columns that
\* differ from the record as it was loaded, and no others.
SecretAfter(r) ==
    LET rec == req[r].rec
        f   == req[r].factor
    IN  CASE req[r].op = "setup" /\ rec = None ->
                 [born |-> issued + 1, key |-> issued + 1,
                  confirmed |-> FALSE, last |-> 0]
          [] req[r].op = "setup" /\ rec # None ->
                 [secret EXCEPT !.key = issued + 1,
                                !.confirmed = @ /\ ~rec.confirmed,
                                !.last = IF rec.last = 0 THEN @ ELSE 0]
          [] req[r].op = "enable" ->
                 [secret EXCEPT !.confirmed = TRUE,
                                !.last = IF rec.last = f.time THEN @ ELSE f.time]
          [] req[r].op = "disable" ->
                 IF secret.born = rec.born THEN None ELSE secret
          [] req[r].op \in {"login", "regenerate"} ->
                 IF f.kind = "totp" THEN [secret EXCEPT !.last = f.time] ELSE secret

\* The codes a transaction deletes, and the ones it adds.
\* Mutated form: disable leaves the codes.
ReplacedBySetup(r) == IF req[r].op = "setup" THEN req[r].snap ELSE {}
Replaced(r) == IF req[r].op \in {"login", "enable"} THEN {} ELSE req[r].snap
Added(r)    == IF req[r].op \in {"setup", "regenerate"} THEN {issued + 1} \X Slot ELSE {}

\* used_at of the code that was given.
Spends(r) == IF req[r].op # "setup" /\ req[r].factor.kind = "backup"
             THEN {req[r].factor.code} ELSE {}

\* user.two_factor_enabled.
\* Mutated form: disable does not reset it.
EnabledOnly(r)  == req[r].op = "enable" \/ enabled
EnabledAfter(r) == (req[r].op = "enable" \/ enabled) /\ req[r].op # "disable"

Commit(r) ==
    /\ req[r].pc = "commit"
    /\ secret' = SecretAfter(r)
    /\ enabled' = EnabledAfter(r)
    /\ codes' = (codes \ Replaced(r)) \cup Added(r)
    /\ used' = (used \cup Spends(r)) \cap codes'
    /\ issued' = IF Added(r) = {} THEN issued ELSE issued + 1
    /\ spent' = spent \cup Spends(r)
    /\ EndSession(r)
    /\ UNCHANGED clock

\* PostgreSQL ends one of two transactions that wait for each other.
WaitsFor(r, q) ==
    \/ req[r].pc \in {"write", "lock secret", "wipe"} /\ req[q].sec
    \/ req[r].pc \in {"lock codes", "delete"} /\ req[q].held \cap req[r].snap # {}
DeadlockVictim(r) ==
    /\ \E q \in Request \ {r} : WaitsFor(r, q) /\ WaitsFor(q, r)
    /\ EndSession(r)
    /\ UNCHANGED <<rows, clock, spent>>

\* A statement fails: the database is gone.
Die(r) ==
    /\ req[r].pc # "idle"
    /\ EndSession(r)
    /\ UNCHANGED <<rows, clock, spent>>

\* A client has the TOTP codes of the secrets it was shown, for this interval,
\* and the backup codes it was shown.
Inputs ==
    (IF "totp" \in Factors
     THEN [kind : {"totp"}, key : 1 .. issued, time : {clock}] ELSE {})
    \cup (IF "backup" \in Factors
          THEN [kind : {"backup"}, code : (1 .. issued) \X Slot] ELSE {})
    \cup (IF "refused" \in Factors THEN {[kind |-> "refused"]} ELSE {})

\* setup takes no code and enable a TOTP code.
Fits(o, f) ==
    CASE o = "setup"  -> f.kind = "refused"
      [] o = "enable" -> f.kind # "backup"
      [] OTHER        -> TRUE

Tick ==
    /\ clock < MaxClock
    /\ clock' = clock + 1
    /\ UNCHANGED <<rows, req, spent>>

Statement(r) ==
    \/ LoadRelated(r) \/ GetSecret(r) \/ FlushSecret(r)
    \/ SelectSecret(r) \/ LockSecret(r)
    \/ StartOnCodes(r, "select codes", "lock codes") \/ LockCodes(r)
    \/ StartOnCodes(r, "select old", "delete") \/ DeleteCodes(r)
    \/ SelectWipe(r) \/ Wipe(r) \/ Commit(r)
    \/ DeadlockVictim(r)

Next ==
    \/ \E r \in Request :
          \/ \E o \in Ops, f \in Inputs : Fits(o, f) /\ Begin(r, o, f)
          \/ Statement(r)
          \/ Die(r)
    \/ Tick

Spec == Init /\ [][Next]_vars

-----------------------------------------------------------------------------

TypeOK ==
    /\ enabled \in BOOLEAN
    /\ secret \in SecretRow \cup {None}
    /\ codes \subseteq CodeRow /\ used \subseteq codes
    /\ issued \in Nat /\ clock \in Nat
    /\ req \in [Request -> Transaction]
    /\ spent \subseteq CodeRow

\* While two-factor authentication is enabled there is a secret: no order of
\* setup, enable and disable leaves the flag without the row, whatever each
\* of them loaded before the others committed (enable, delete_two_factor_data).
EnabledHasSecret == enabled => secret # None

\* A backup code that was accepted by a transaction that committed is refused
\* to every request that begins later, although used_at is read from what the
\* ORM loaded (_verify_backup_code).
SpentCodeRefused ==
    \A r \in Request :
        req[r].pc = "commit" /\ req[r].factor.kind = "backup"
            => ~req[r].late

\* A transaction that replaces or deletes the codes leaves none of those that
\* were there when it began, even when it waits for another that does the
\* same (replace_backup_codes, delete_two_factor_data).
OldCodesGone ==
    [][\A r \in Request :
          (req[r].pc = "commit" /\ req[r].op \in {"setup", "regenerate", "disable"}
             /\ Commit(r))
             => \A c \in codes' : c[1] > req[r].old]_vars

\* Transactions take the locks of the secret and of the codes in different
\* orders, and may wait for each other; all the same some request that is being
\* handled can go on, and no lock outlives the request that took it.
SomeoneProceeds ==
    (\E r \in Request : req[r].pc # "idle")
        => \E r \in Request : req[r].pc # "idle" /\ ENABLED Statement(r)

-----------------------------------------------------------------------------
(* The inductive invariant: what holds of each transaction, by the statement *)
(* that comes next, and what holds of the tables.                            *)

\* The second factor was accepted.
Passed == {"select old", "delete", "select wipe", "wipe", "commit"}

\* Which operation is at which statement, and with which factor.
Stage(r) ==
    /\ req[r].pc = "idle" => req[r] = Idle
    /\ req[r].pc # "idle" => req[r].op \in AllOps
    /\ req[r].op = "setup" => req[r].factor.kind = "refused"
    /\ req[r].op = "enable" => req[r].factor.kind # "backup"
    /\ req[r].pc \notin {"idle", "related"} /\ req[r].op # "setup" =>
          req[r].factor.kind # "refused"
    /\ req[r].pc \in {"select secret", "lock secret"} <=>
          req[r].op = "enable" /\ req[r].pc \notin {"idle", "related", "commit"}
    /\ req[r].pc \in {"select codes", "lock codes"} => req[r].factor.kind = "backup"
    /\ req[r].pc \in {"get", "write"} => req[r].factor.kind # "backup"
    /\ req[r].pc \in {"select old", "delete"} => req[r].op # "login"
    /\ req[r].pc \in {"select wipe", "wipe"} => req[r].op = "disable"

\* A transaction that has the lock of the secret has it for the secret that is
\* there; one that has not deletes no secret.  Whoever changes the secret found
\* one, but for the setup of a new one.
Secrets(r) ==
    /\ req[r].rec.born <= issued
    /\ req[r].sec => secret.born = req[r].rec.born
    /\ req[r].pc = "write" /\ req[r].op # "setup" => req[r].rec # None
    /\ req[r].pc \in Passed /\ req[r].factor.kind # "backup" => req[r].sec
    /\ req[r].pc = "lock secret" => req[r].rec # None
    /\ req[r].pc \in Passed /\ req[r].factor.kind = "totp" => req[r].rec # None
    /\ req[r].pc = "commit" /\ req[r].op = "disable" /\ ~req[r].sec =>
          req[r].rec = None \/ secret.born # req[r].rec.born

\* A code that was spent before a transaction began is used in what it loaded;
\* the codes that a transaction does not delete are younger than it is.
Codes(r) ==
    /\ req[r].old <= issued
    /\ req[r].factor.kind = "backup" => req[r].factor.code[1] <= issued
    /\ req[r].late => req[r].factor.kind = "backup" /\ req[r].factor.code \in spent
    /\ req[r].late /\ req[r].pc \in {"select codes", "lock codes"} =>
          req[r].factor.code \notin req[r].seen \ req[r].ticked
    /\ req[r].pc \in Passed => ~req[r].late
    /\ req[r].pc \in {"delete", "select wipe", "wipe", "commit"}
          /\ req[r].op \in {"setup", "regenerate", "disable"} =>
              \A c \in codes \ req[r].snap : c[1] > req[r].old

\* One transaction has the lock of the secret.
OneHolder == \A r, q \in Request : req[r].sec /\ req[q].sec => r = q

\* Numbers are given once, and a code that was spent is marked while it is there.
Numbered ==
    /\ secret.born <= issued
    /\ \A c \in codes \cup spent : c[1] <= issued
    /\ spent \cap codes \subseteq used

Inv ==
    /\ TypeOK
    /\ \A r \in Request : Stage(r) /\ Secrets(r) /\ Codes(r)
    /\ OneHolder /\ Numbered
    /\ EnabledHasSecret
=============================================================================
