# Verification of backend-platform

TLA+ models of the authentication platform under `src/`: what they model, what
TLC checks on small instances and what TLAPS proves for every instance.

## 1. The system

Four FastAPI services behind one gateway, one PostgreSQL database per service,
one Redis server for all of them.

| part | state | operations | correct when |
|---|---|---|---|
| refresh tokens and sessions (auth-service) | rows of `refresh_tokens`, `user_sessions` | issue at login, rotate, detect reuse, log out a token or a family, revoke all sessions of an account | a family has one usable token, a token has one successor, a dead family stays dead |
| access tokens and the revocation marker | JWTs held by clients, the Redis key `access_session_revoked:<sid>` | issue, mark, decode, check | a token that existed when its session was marked is refused until it expires |
| registration, login, password reset | `users`, `password_reset_tokens`, `user_sessions` | register, sign in, request a code, reset with a code | a code changes the password once and is replaced by the next; a reset ends the sessions before it; one account per address |
| 2FA challenge | Redis: challenges | create, verify, delete | a challenge that was answered signs nobody in later |
| brute-force protection | Redis counter and lock for each scope and identifier, the blocks of `users` | assert, record, clear | a bounded number of guesses per window |
| two-factor authentication | `two_factor_secrets`, `backup_codes`, `users.two_factor_enabled` | set up, enable, verify, disable, regenerate | a backup code or a TOTP interval is accepted once; the flag has a secret |
| rate limiting | Redis counters | check | at most the limit per minute |
| gateway routing and browser sign-in | the browser's cookie; nothing on the server | sign in, refresh, revoke, forward | the cookie follows the newest token, a sign-out is final |
| users, profiles, roles (user-service) | `app_users`, `user_profiles`, `user_roles`, `audit_events` | create on first use, read, update, assign | a user is there with profile and role or not at all; every grant has its event |
| start-up of user-service | `roles`, `permissions`, `role_permissions` | seed | the rows are whole before an instance serves |
| configuration, infrastructure scripts | environment files, `secrets/` | generate, render, edit, validate | files written together fit together and are accepted |
| audit log | append-only rows | log | an event for every change that is kept |
| notification service, shared library, migrations | none at run time | | |

How the parts interact. A handler is a coroutine with one database session; it
commits once, at its end, and every awaited call in between lets other handlers
run, in this process or in another. Handlers meet in three places: rows of
PostgreSQL (isolation READ COMMITTED, row locks by `SELECT ... FOR UPDATE`, by
`UPDATE` and by the unique indexes), keys of Redis (each command atomic, no
transaction with the database), and tokens, codes and cookies that clients hold
and present again. The ORM adds one more: what a session has loaded stays as it
was loaded, behind a lock too. The gateway and user-service know of a revocation
only by the Redis marker. The hard behaviours are therefore interleavings of two
transactions, a value read before a lock and used after it, the database and
Redis (or a mail server, or a browser) written one after the other, and expiry.

## 2. Modules

| module | what it is |
|---|---|
| `RefreshTokens` | refresh-token families and sessions, one step for each awaited call |
| `TokenFamilies` | the abstract specification `RefreshTokens` implements |
| `RefreshTokensProofs` | the inductive invariant of `RefreshTokens`, its safety theorems, the refinement of `TokenFamilies`, and what the markers refuse |
| `AccessMarker` | access tokens, the marker and their lifetimes, on one clock; its theorems are in `DeploymentProofs`, the other half of what makes a marker count |
| `Attempts` | what `Lockout` and `LoginChallenge` have in common: who tries, from where, and the limit |
| `Lockout`, `LockoutProofs` | guessing at a password or a reset code: counters and locks in Redis, the block in the database; its theorems |
| `Credentials`, `CredentialsProofs` | registration, sign-in, reset codes and resets; its theorems |
| `TwoFactor`, `TwoFactorProofs` | secrets, backup codes and TOTP intervals, with what the ORM has loaded; its theorems |
| `LoginChallenge` | the second step of a sign-in: the challenge in Redis and its lock; its theorems are in `LockoutProofs`, as the limiter and the account of its guesses are the same |
| `BrowserAuth`, `BrowserAuthProofs` | the gateway's cookie and the tabs of a browser, over `TokenFamilies`; its theorems |
| `RateLimit`, `RateLimitProofs` | the limiter the three services have; its theorems |
| `UserDirectory` | users, profiles, roles and events of user-service |
| `RoleSeed` | the seed of roles when instances of user-service start |
| `UserService`, `UserServiceProofs` | the two composed: requests come while instances start, fail and are killed; the theorems about all three |
| `Deployment`, `DeploymentProofs` | the scripts that write the environment files, and the Settings that read them; its theorems, and those of `AccessMarker` |
| `MC...` | instances for TLC |

How they fit. `BrowserAuth` is composed with `TokenFamilies`: auth-service there
is the abstract specification, which `RefreshTokens` is proved to implement.
`Credentials` leaves wrong codes to `Lockout`, the second factor to `TwoFactor`
and the order of the statements that end sessions to `RefreshTokens`;
`LoginChallenge` leaves the question whether a code is right to `TwoFactor`;
`UserService` composes `UserDirectory` with `RoleSeed`; `AccessMarker` justifies
the set `denied` of `RefreshTokens`, for services that look for the marker in the
Redis database auth-service writes it to, and `Deployment` says which do.

### RefreshTokens

State. A row of `refresh_tokens` is a `Jti` with `status` (`live` is
`revoked_at IS NULL`; `rotated` and `revoked` tell the two ways out of it
apart), `family`, `parent` and membership in `expired`; a row of `user_sessions`
is a `Session` with `session`. A family is named by its session: `issue_for_user`
creates both together and nothing else creates either. `pending` is a row that
an open transaction has inserted. `replaced_by_jti`, `revocation_reason` and the
client's address are written and never read by the service, so they are left
out. For Redis there is `denied`: the access tokens that existed when a marker
of their session was set. An access token is named by the refresh token it was
issued with. That such a token is refused for the rest of its life is what
`AccessMarker` shows.

A request has a program counter and what its transaction has done so far: the
rows locked (`tlock`, `slock`), the rows revoked but not committed (`kill`,
`close`), the rows its running `UPDATE` still has to reach (`todo`, `stodo`) and
the markers it still has to set (`marks`).

| action | code |
|---|---|
| `IssueForUser` | `issue_for_user` and the commit after it in `login` and `verify_login_challenge`; one step, because it locks nothing and nothing of it is visible before the commit |
| `Begin` | `decode_and_validate` accepts the presented token; an expired token does not begin |
| `GetByJtiForUpdate` | `SELECT ... FOR UPDATE` of `rotate` and `revoke`; waits for the row |
| `RotateRejected`, `RotateReuse`, `RotateAccepted` | the checks of `rotate`, in the code's order: session active, not expired, not used |
| `RotateTouch` | the new row, `mark_rotated`, and `touch_family`, which waits for the session row; the `INSERT` is in the same step as nobody sees it before the commit |
| `RotateCommit` | the commit of `refresh_tokens` |
| `ResetList` | `reset_password` from `update_password` to the list of active sessions; the flush of the `users` row makes a second reset of the account wait |
| `TokenScan`, `LockToken` | `UPDATE refresh_tokens ... WHERE revoked_at IS NULL`: the snapshot of the statement, then one row after the other, waiting for its lock and evaluating the condition again on the row as it is then |
| `SessionScan`, `LockSession`, `SessionsLocked` | the same for `user_sessions` |
| `Mark` | `SET access_session_revoked:<sid>` |
| `RevokeCommit` | the commit of a logout, of a detected reuse, of a reset |
| `Abort` | an exception or a killed process at any point: `get_session` closes the session, PostgreSQL rolls back, markers stay |
| `Expire` | `expires_at` passes |

Requests present tokens the service issued; so the branches for a missing row,
a wrong hash and mismatched claims are never taken and are not modelled. The
foreign keys from the inserted rows to `users` take `KEY SHARE` locks, which do
not conflict with anything these handlers do.

### AccessMarker

`now` counts readings of a clock, `Hz` of them per second, that auth-service,
the other services and Redis share (a marker set by one host and an expiry
checked by another is only as good as their clocks). A JWT date drops the
fraction of the second (`Whole`), a Redis lifetime does not. A service decodes
the token (`Decode`) and asks Redis later (`EnsureAccessSessionActive`); any
time passes in between. `cut` remembers which tokens existed when a marker of
theirs was set.

### Lockout

One account. `fails`, `timed` and `lock` are the Redis keys of the scopes
`login`, `login_account`, `password_reset` and `password_reset_account` (a key is
an operation with an address or with `"account"`), `blocked` the two flags of the
`users` row. A request of `login` or `reset_password` is a record `req[r]` with
its program counter; each of its steps is one Redis command or one database call.

| action | code |
|---|---|
| `GetByEmail` | `get_by_email` and the refusal of a blocked account; before the locks in `login`, after them in `reset_password` |
| `AssertNotLocked` | `assert_not_locked`, for the address and then for the account |
| `Right`, `Wrong` | the password or the code is verified; a right password of an inactive account ends there. The update of the password is flushed with `Right`, so the row is locked until the commit (`UsersRowFree`) |
| `Incr`, `Expire`, `SetLock`, `DeleteFails` | the four commands of `record_failure`, run for the address and then for the account |
| `FailCommit` | the block at the limit, and the commit |
| `ClearFailures` | `clear_failures`, for the address and then for the account |
| `CommitLogin`, `CommitReset` | the commit; the sessions and tokens it writes are those of `RefreshTokens` |
| `Die` | an error of Redis or the database between two calls |
| `WindowPasses`, `LockExpires` | expiry in Redis. Lifetimes are minutes, and `fresh` says that no request outlives one that began after it |

The history `tries` counts wrong guesses at what is now the password, or at a
code, since the account's count began anew. A count is `Stranded` when it has no
lifetime and no request is between its `INCR` and its `EXPIRE` (`Expiring`).

### Credentials

`pw` is the password of an account, named by the request that chose it; `codes`
the rows of `password_reset_tokens`, keyed by the hash, which is unique over all
accounts; `live` the open sessions. Each request is one transaction with the
rows it holds (`held`); its steps are the statements that lock and the calls to
the mail server.

| action | code |
|---|---|
| `register`, `InsertUser`, `CommitRegister` | `AuthService.register`; the unique index on the address makes the second `INSERT` wait |
| `login`, `IssueTokens` | a password that was verified, and later the session |
| `request_reset`, `Snapshot`, `MarkExpired`, `mark_active_for_user_used`, `create`, `send`, `SendFails`, `CommitForgot` | `request_reset`: the codes it sees are retired, a row is inserted under a hash that may be taken, the mail is sent, the transaction commits |
| `reset_password`, `get_active_for_user_by_hash`, `_record_reset_failure`, `ChangePassword`, `CommitReset` | `reset_password`: the row of the code is locked, the condition evaluated again, the password written, the sessions it sees ended |
| `Refuse`, `Die`, `Expire` | early answers, a process that dies, a code that expires |

### TwoFactor

One account. A transaction loads user, secret and codes when it begins (`row`,
`seen`, `ticked`), and every later `SELECT` of those rows returns what it loaded
(`Loaded`), `FOR UPDATE` or not; that is SQLAlchemy's identity map, and it decides
what `_verify_totp` and `_verify_backup_code` see. A statement that locks takes
the rows committed when it starts, waits, and skips the rows that are gone. TOTP
codes are a key and an interval; the clock runs between all steps. PostgreSQL ends
one of two transactions that wait for each other (`DeadlockVictim`).

### LoginChallenge

`stored` is the challenge in Redis with its address, `codeFails` and `codeLock` the
keys of the scope `2fa` for a challenge and an address. The steps of
`verify_login_challenge` are its awaited calls: `assert_not_locked`,
`_get_login_challenge`, `GetUser`, `VerifyForLogin`, the commands of
`record_failure` (`CodeIncr`, `CodeSetLock`, `CodeDeleteFails`; `EXPIRE` is left out, as the
count outlives the challenge), `clear_failures`, `_delete_login_challenge` and
the commit. The challenge expires, and the account is deactivated, at any time.

### BrowserAuth

`jar` is the cookie all tabs share. A call is sent with the cookie of that moment
(`Send`), refused or forwarded by the gateway (`Refuse`, `Forward`), processed by
auth-service (`Process`, `SignIn`, `Refresh`, `ReuseDetected`, `Revoke`, which
are steps of `TokenFamilies`), and answered (`Deliver`: `_forward_json` with
`_strip_refresh_from_json` and the cookie it sets or clears). `Leave` is a reload,
a timeout of the gateway or a lost connection: nobody waits, the call goes on.
`RevokedElsewhere` is every revocation that no call of this browser asks for: a
password reset, or a client that has a token of the session. `elsewhere` remembers
which sessions it has reached.
A revocation that overlaps a refresh may miss the new token, and the refresh may
overrun it, exactly as in `TokenFamilies`.

### RateLimit

One scope and one client. `Bucket(now)` is read first, `INCR` and `EXPIRE` come
later, and the clock runs in between. Redis fails before or after it has counted.

### UserDirectory, RoleSeed and UserService

`users`, `profile`, `roles` and `audit` are the committed tables. A request is one
transaction: `get_by_subject`, `bootstrap_from_subject` (the `INSERT`s wait for
another first request of the same user and fail if it commits),
`get_current_context` (what is loaded, and the early commit or the lack of it),
`update_own_profile` (the columns that differ from what was loaded are written),
`assign_role`, `assign_role_to_user`, `Commit`. In `RoleSeed` every instance runs
`ensure_seed_data` row by row in one transaction; a conflict or a kill restarts it.
Rows are never deleted, so `SELECT`s that find their rows are one step with the
first that does not. In `UserService` a request arrives once some instance serves;
`UserDirectory` takes the bindings of roles and permissions as given (`Permissions`),
and `RolesWhole` says that they are what a request finds in the tables.

### Deployment

`file` holds the four environment files, `secrets` the directory the production
script and auth-service read: two key files, which need not be a pair, the peppers
and the Fernet key, the `smtp_*.txt` files (`mail`; Settings looks at its password
alone) and the mailbox (`ident`). Key pairs and passwords are numbered as they are
generated (`gen`), and 0 are those of the examples. A script (`job`) writes one file
per step and may be interrupted; the operator acts in between.

| definition | code |
|---|---|
| `GenerateDev`, `Keeps`, `WriteFile` | `generate_dev_env.py`, with and without `--force` |
| `Kept`, `Rewritten` | `_smtp_key_values_from_env_text` and `_merge_smtp_into_auth_env`: the `SMTP_*` lines that survive `--force`. Quotes are stripped and not written again, so that a password that needs them is `damaged`; `SMTP_PASSWORD_FILE` (`path`) is dropped, as the new text has no such line |
| `RenderProd`, `Resolved`, `ResolvedAllow`, `Reread` | `render_prod_env_from_secrets.py`, which copies what `secrets/` holds, and the mail settings of `.env.compose` where `secrets/` has none |
| `Accepts`, `AuthAccepts`, `UserAccepts`, `GatewayAccepts`, `MailOf` | the validators of the Settings classes, and where auth-service takes its mail settings from |
| `InProduction`, `InCompose` | what `docker-compose.prod.yml` sets over the file |
| `PutKeys`, `PutMail` | the operator fills `secrets/`, with keys of one pair or of two, PEM text or not |
| `CopyExample`, `Remove`, `EditMail`, `EditAllow` | an environment file is copied from its example, removed, edited |
| `RotateKeys` | `rotate_keys.sh` and `docs/runbooks/rotate-jwt-keys.md`, one service at a time, in any order |
| `EditPassword` | a password is replaced in one file |

The history `mixed` says that files of several origins may lie side by side: after
an interruption, a generation that filled in some of the files, an example copied
next to other files, a key or a password edited in one file, or files rendered from
key files of two pairs. `whole` says that the last script ended and nothing changed
since. A password is one for all databases, and the files `smtp_host.txt`,
`smtp_username.txt` and `smtp_from_email.txt` are fields of `secrets.mail`.

## 3. What TLC checks

| run | instance | shows |
|---|---|---|
| `rotation_races` | 1 session, 4 tokens, 3 requests; refresh, both logouts | `TypeOK`, `SingleLive`, `OneSuccessor`, `AtMostOneLate`, `RevokedIsDenied`, `LoggedOutIsDenied`, `DeadFamilyStaysDead`, `ImplementsTokenFamilies` |
| `requests_end` | 1 session, 3 tokens, 2 requests; refresh, reset, expiry; fair, no symmetry | `EveryRequestEnds` |
| `access_marker` | 1 session, 2 tokens, 2 requests, 2 readings per second, 9 readings | `MarkerCovers`, `CutIsRefused` |
| `guesses_at_an_account` | 2 requests, 2 addresses, limit 3, 1 death; sign-in to an active, an inactive and no account | `TypeOK`, `BoundedGuesses`, `StrandedByDeath` |
| `guesses_and_resets` | 2 requests, 1 address, limit 2; sign-in and reset of an active account | `BoundedGuesses` |
| `credentials` | 3 requests, 2 addresses, one registered, 2 codes; registrations, sign-ins, requests for codes, resets; fair, no symmetry | `CodeOnce`, `ReplacedRefused`, `RetiredForACause`, `ResetEndsSessions`, `OneRegistration`, `RequestsEnd` |
| `two_factor` | 2 requests, 2 secrets or sets, 2 intervals; setup, enable, disable, sign-in, new codes | `EnabledHasSecret`, `SpentCodeRefused`, `OldCodesGone`, `SomeoneProceeds` |
| `login_challenge` | 3 requests, 1 challenge, 2 addresses, limit 2, 1 death | `BoundedCodes`, `OverIsOver` |
| `browser_cookie` | 2 calls, 2 sessions, 3 tokens, answers lost, sessions ended elsewhere | `CookieIsTip`, `SignedOutStays` |
| `rate_limit` | 2 requests, limit 2, 3 minutes of 2 units, 1 error | `LimitPerMinute`, `StrandedByError` |
| `user_service` | 2 instances, 1 kill, 2 requests, an administrator and an unknown user, 2 profiles; fair, no symmetry | `RolesWhole`, `UserComplete`, `AdminsAccounted`, `UpdateKept`, `RequestsEnd`, `AllComeUp` |
| `environment_files` | 3 key pairs or passwords, both scripts, interruptions, 2 acts of the operator | `FilesAgree`, `StackStarts`, `MailSurvives` |

Every module has a type invariant (`TypeOK`, in `UserService` `ServiceTypeOK`).
Two runs keep theirs; the others hold in the same configurations and say nothing
about the code. So do the inductive invariants of section 4 (`Inv`, or what the
argument there names: `ServiceInv`, `GuessInv`, `OverInv`, `CodeInv`,
`DeploymentInv`): TLC found no violation of them in the configurations above,
before they were proved.

Bounds. Requests share nothing but rows and keys, and a conflict needs two
transactions on one row and a third that changes what one of them read: three
requests on one family are every such conflict, and every request may start
again. Four tokens are a chain of three rotations, or rotations and failed ones;
longer chains and more sessions are what the theorems are for. `JtiToSpare`
keeps a request from starting when no row is left for it: the code's uuid4 is
always fresh. The finite sets of `RefreshTokens` are used up in the end, so there
a state without successor is no error (`CHECK_DEADLOCK FALSE`); a request that
waits for ever is the business of `requests_end`. Requests, tokens and sessions
are interchangeable, hence the symmetry of the safety runs. In `access_marker` the
horizon is longer than an access token and a marker one after the other.

In `Lockout` two requests that start again and again reach every order of two
calls; two addresses tell the account's count from the address's, and a limit of
three has a count that neither begins nor ends the sequence. With a limit of two
a smaller bound, the limit and one guess for every other request, holds as well;
with three it does not, because a request that set the lock deletes the count
after another has cleared both: the guesses counted in between are forgotten once
for every such request. `BoundedGuesses` and `BoundedCodes` state what is left.

In `Credentials` a request is handled once and keeps its record, as it names the
password or the session it made; three of them are two requests for codes and a
reset, a request and two resets, or a sign-in before a reset, and two codes
collide. In `TwoFactor` two generations are a set of codes
and its replacement, or two setups; the code's ten slots are one. In
`LoginChallenge` three requests are one that signs in, one that fails and one
that begins later. In `BrowserAuth` two calls start again and again, and three
tokens are a sign-in and two rotations, or two sign-ins and a rotation. In
`RateLimit` a request takes at most `Slack`, one unit, from reading the clock to
its last call, and the key lives one unit longer than the minute, as in the code
one second: a request delayed by more could count a minute anew. In
`UserService` two requests are the two that conflict, on one instance or on two.
In `Deployment` three generations are an old set of files, one that fills some of
them in, and one that repairs it; two acts of the operator are a file removed and
another edited, keys put into `secrets/` and a mail setting, or a key rotated in one
service and not in another. Three acts with two generations pass as well. When the
operator has acted twice and nothing is left to generate, nothing has to happen
(`CHECK_DEADLOCK FALSE`).

Fairness. A handler keeps running, and PostgreSQL serves the queue of a row lock
in order, so a lock that is released again and again is granted in the end: in
`RefreshTokens` `WF` of `Proceed` and `SF` of `Acquire`. In `Credentials` and
`UserService` a request is handled once, so that locks are released for good and
`WF` is enough. These models do not let PostgreSQL end a deadlock: they show that
none arises (an `UPDATE` of several rows takes its locks in one step in
`Credentials`, and one row after the other in `RefreshTokens`). In `TwoFactor`
deadlocks do arise, the victim is modelled, and `SomeoneProceeds` is an invariant:
it says that whoever waits does so for a request that can go on. `WF` of
`Seed!Run(i)` is the container's `restart: unless-stopped`. Nothing makes clients
send requests or requests fail. `TokenScanSessionsFirst`, `LeakSession` and
`CreateAndLeak` show what these properties would catch.

### What the code does not keep

Statements of the repository that TLC refutes. Those that the state of a module
can express are defined in it, after the properties that hold, and not part of a
run; to see the trace, put the name into the configuration that is given.

* `FamilyFullyRevoked` (`MCRefreshTokens.cfg`): `docs/architecture/auth-flow.md`
  says that reuse detection revokes the full family. A refresh that loses the race
  for a token starts its `UPDATE` when the winner's new row is not yet committed,
  and leaves the successor unrevoked. The session is revoked, so the successor is
  rejected: `AtMostOneLate` and `ImplementsTokenFamilies` bound the effect.
* `RevokedIsDenied` with `"reset"` in `Ops` and two sessions: the project book says
  that a reset sets markers for the active sessions. `reset_password` lists them
  first and revokes them later; a session that a login commits in between is
  revoked without a marker, and its access token works until it expires.
* `ResetRegainsAccess` (`MCLockoutReset.cfg`): the answer to a blocked sign-in says
  to use password reset to regain access. The reset leaves the `login_account` lock
  in Redis alone: sign-in is refused until the lock expires.
* `OneActiveCode` (`MCCredentials.cfg`): two requests for a code do not see each
  other's rows, and both codes stay active; `CodeOnce` and `ReplacedRefused` bound
  the effect.
* `OldPasswordOut` (`MCCredentials.cfg`): a sign-in that has verified the old
  password opens its session after the reset has ended those it saw.
* `AnswersAlike` (`MCCredentials.cfg`): an address without an account is answered
  404, where the project book says that the answer is always the same.
* `BoundToContext` (`MCLoginChallenge.cfg` with two agents): the challenge is bound
  to the address alone; `docs/architecture/two-factor-auth.md` says address and
  User-Agent.
* `ReloadKeepsSession` (`MCBrowserAuth.cfg`): two tabs that reload at once present
  one token twice, and reuse detection ends the session.
* `MarkerReachesEveryService`, `SmtpLinesKept` (`MCDeployment.cfg`): the scripts
  give the services three Redis databases, so that only auth-service finds the
  marker; a forced generation keeps the `SMTP_*` lines, its docstring says, and
  drops `SMTP_PASSWORD_FILE`, so that mail stops if the password was in that file,
  and writes a password that stood in quotes back without them. `MailSurvives` is
  what is left: a password on its line that needs no quotes, or the one of
  `secrets/`.
* Seen in the models, and stated in none: a backup code or a TOTP code is accepted
  by two sign-ins that overlap, as the rows are loaded before they are locked (what
  holds is `SpentCodeRefused`); an enable that overlaps a setup confirms a secret
  for which no code was given; of two overlapping updates of a profile a column may
  keep the earlier one's value; a user first seen by a read is never committed, so
  an administrator does not find them; a request that dies between `INCR` and
  `EXPIRE` leaves a count of failures that stays until a lock or a success deletes
  it, and a key of the rate limiter that stays for ever, without effect once its
  minute is over; a key rotated as the runbook says, one service after the other,
  leaves the services with different public keys until the last one has it.

## 4. What is proved

The theorems hold for every value of the constants that the assumption of the
module allows: any number of requests, accounts, sessions, tokens, codes, users
and instances. The assumptions say that numbers are numbers, that bounds on
histories are natural, that subsets are subsets, and that a mark such as `None` is
not one of the values it is the absence of. Beyond that `TwoFactorAssumption` has
at least one backup code in a set, and `RateLimitAssumption` and
`AttemptsAssumption` finitely many requests. The theorems that need more say so in
their hypotheses (`"reset" \notin Ops`, `Slack <= 1`). `LockoutProofs` and
`DeploymentProofs` each extend two specifications that share no variable, and a
theorem there is about one of them: `Spec` is the first one's, `ChallengeSpec` that
of `LoginChallenge` and `MarkerSpec` that of `AccessMarker`. Both uses of the limiter
take `Request`, `Address` and `MaxAttempts` from `Attempts`; the theorems hold for any
value of them, so that they need not be the same in the two.

Each argument is an inductive invariant at the end of the component's module, with
one lemma for each action, and lemmas for what many actions have in common (`OwnStep`:
a step of one request that writes no table).

* `RefreshTokens`. `SingleLive` alone is not inductive: what keeps it is
  that a rotation past its checks holds the lock of a row that stays live until
  it commits (`InvRequests`), that no row is locked twice (`InvLocks`), and that
  a request revokes only rows it has locked. `OneSuccessor` needs in addition
  that only rotated tokens have successors (`InvLineage`), `AtMostOneLate` that a
  session with a late rotation has no rotation left in it (`InvLate`).
* `Refinement`: `RefreshTokens` implements `TokenFamilies`. The mapping reads the
  committed rows, so a transaction takes effect at its commit and every other
  step is a stutter; `RevokeCommit` is `Revoke(K, C)` for the families whose live
  row it holds and the sessions it has locked. `DeadFamily` follows the same way.
* `RevokedIsDeniedHolds`, `LoggedOutIsDeniedHolds`, without resets: from the marker
  to the commit a request holds the locks that keep a new access token from being
  issued to what it is about to revoke (`InvMarks`). With resets the first is false
  (see above).
* `AccessMarker`. The marker outlives the tokens it was set for, because no token
  lives longer than one issued now would (`TokenNotAhead`) and `MarkerTTL` is at
  least the tokens' lifetime.
* `Lockout`. `StrandedByDeath` speaks of one step and needs the types alone: a
  request that has begun a count is `Expiring` until its `EXPIRE`, which gives
  whatever count is there a lifetime, also one that was deleted and begun anew in
  between, and every step but `Die` of that request leaves it so (`LifetimeKept`).
  `BoundedGuesses` needs an account of every wrong guess (`GuessInv`). While the
  account is not locked, a guess is in the count, or with a request that has yet to
  count it or to set the lock (`Uncounted`), or with one that died, or it was
  forgotten with a count that was deleted late; the last are at most the limit less
  one for every request but one, less those that are about to delete (`Deleting`).
  Once the account is locked only the requests that passed the check before
  (`Admitted`) can guess. A step changes these three sets by one request at most,
  and each action is an inequality between their cardinalities (`OpenWrong`,
  `LockedWrong`, `OpenLocks`, `OpenDeletes`).
* `LoginChallenge`. `CodesAreBounded` is the same argument with `CodeInv`; a request
  with a wrong address is counted too and presents no code, hence `Unjudged`.
  `ChallengeIsOver` rests on what a request knows (`Knows`): whoever holds a
  challenge found it there, so that it was not over when the request was sent, and
  whoever got past the account found it active. A challenge that is over is made by
  nobody a second time (`ChallengesKnown`).
* `Credentials`. No property is inductive. What a transaction has locked stays as
  it was when it looked (`Holds`, from `Exclusive`: no row is locked twice), so a
  code that is spent was active, and is spent once. That a replaced code is dead
  takes the history of the request that replaced it: the codes that were there
  when it came are used, or in its snapshot, or among its locks, by the statement
  it is at (`Retires`). A reset revokes at least the sessions that were open when
  it came (`Revokes`). `RetiredForACause` is an action property from the same
  invariant: only a commit retires codes, and it brings the successor.
* `TwoFactor`. The flag and the secret are changed by different statements. What
  keeps `EnabledHasSecret` is that a transaction past its factor has the lock of
  the secret that is there, and that one without the lock deletes none (`Secrets`).
  `SpentCodeRefused` has to hold of what the ORM loaded: a code that was spent
  before the transaction began is used in its copy (`Codes`), as numbers are given
  once (`Numbered`).
* `UserService`. The seed: the rows before the one an instance asks for are in the
  table or in its transaction (`Seeding`), so that whoever commits leaves all of
  them, and rows are never deleted. The directory: a request past its first
  statement has made its user if and only if nobody has (`Stage`, from `Apart`: a
  user is made by one at a time), whoever assigns a role is an administrator and
  therefore a user, and an update that runs alone has seen the profile as it is
  (`Updates`), so that writing the columns that differ writes all that was sent.
* `BrowserAuth`, over `TokenFamilies` and hence over `RefreshTokens`. For
  `CookieIsTip`: the cookie is usable until the call is processed, and the cookie
  its answer leads to (`JarAfter`) is usable from then on (`OneByOne`); sessions that
  others have revoked (`elsewhere`) are excepted, as is the token of a session whose
  family they revoked, and no step outside the browser touches another session. For
  `SignedOutStays`: a session that the page was told is signed out is revoked, and
  a call sent afterwards has never seen it active, so that not even the late
  rotation that `TokenFamilies` allows is left for it (`CallInv`).
* `RateLimit`. The requests that passed and those that were counted within the
  limit and still have to pass are together at most the limit, and at most the
  count while the minute matters (`Accounted`). When the key expires its minute is
  over, because the key lives a window from a moment of that minute on
  (`LivesOn`), and no request of the minute is left to count anew: that is where
  `Slack <= 1` is needed, the second by which 61 exceeds 60. Without it the
  property is false. `StrandedByError` needs no such bound.
* `Deployment`. While a script runs, its texts agree with each other, and with the
  `.env.compose` it does not write (`TextsAgree`); the files it is done with are its
  texts, or, where it keeps files, all files were there and agreed, or none was
  (`WrittenSoFar`, unless `mixed`). When it ends that is `FilesAgree`: a forced
  generation, and a rendering whose two key files are one pair, clear `mixed`.
  What it wrote is what every Settings class accepts (`Sound`), and its mail
  settings are complete or may be missing (`MailSettled`), since `ResolvedAllow`
  asks for what `smtp_is_configured` asks for. `MailSurvives` follows because the
  text for auth-service has what is kept of the mail lines of the file it is about
  to replace, and a password of `secrets/` is found without a line.

Only model-checked, as out of the prover's reach: the liveness properties
(`EveryRequestEnds`, `RequestsEnd`, `AllComeUp`), and `SomeoneProceeds`, which says
`ENABLED`.

## 5. Not modelled

* Routing by path and the headers the gateway forwards: functions of one request
  with no state. So are the client's address behind proxies and the choice of
  `Secure` for the cookie.
* The audit log of auth-service: rows written in the caller's transaction and read
  by nothing. The events of user-service are in `UserDirectory`.
* The notification service (health endpoints only), the shared library (imported
  by no service), the shell scripts (`rotate_keys.sh` makes a key pair with openssl,
  which is `UsesPair` in the operator's `RotateKeys` and `PutKeys`; `bootstrap.sh` and
  `ec2_compose_up.sh` decide when to start a Python script, which the model may at
  any time; the others write none of the files: they start docker and tests, wait
  for a database or print what they find), and the migrations: executed before the services start; the constraints they create
  are used in the modules.
* The page's JavaScript beyond the calls it sends: layout and messages; and the
  JSON it is given, from which `_strip_refresh_from_json` takes the token.
* Clocks that differ between hosts, in `AccessMarker`, `RateLimit` and `TwoFactor`.

## 6. Plan

Every invariant and action property that a run checks is proved, `SomeoneProceeds`
excepted. What could come next:

1. Routing and the gateway's headers, as functions checked over bounded inputs.
2. The models without a shared clock: what remains of `MarkerCovers` and
   `LimitPerMinute` when hosts disagree by a bounded amount.
3. `RevokedIsDenied` for a `reset_password` that revokes first and lists the
   sessions it has revoked, should the code be changed that way.
