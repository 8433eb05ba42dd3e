--------------------------- MODULE UserDirectory ---------------------------
(***************************************************************************)
(* Requests to user-service: the user of an access token is created on     *)
(* first sight (UserService.bootstrap_from_subject), its profile, roles    *)
(* and permissions are loaded (get_current_context), and the handlers read *)
(* or update its profile, read another user, or assign a role.             *)
(*                                                                         *)
(* A request is one transaction; a step is a statement that may have to    *)
(* wait, with the reads that belong to it.  Roles and permissions are the  *)
(* rows of module RoleSeed, which are there before an instance serves.     *)
(***************************************************************************)
EXTENDS Integers, FiniteSets

CONSTANTS
    Request,    \* requests, each handled once
    Subject,    \* the subjects of access tokens, which are the users' ids
    Known,      \* the users that exist at the start
    Admins,     \* those of them that an operator has made administrators
    Payloads,   \* the profiles clients send
    Ops         \* what they ask for, a subset of AllOps

AllOps == {"me", "patch", "read", "assign"}

Role    == {"user", "admin"}
Column  == {"display_name", "locale"}
Profile == [Column -> Nat]
Fresh   == [c \in Column |-> 0]     \* the defaults of the columns
NoRow   == [none |-> TRUE]

ASSUME DirectoryAssumption ==
    /\ Admins \subseteq Known /\ Known \subseteq Subject
    /\ Payloads \subseteq Profile
    /\ Ops \subseteq AllOps

\* role_permissions, as RBACService.ensure_seed_data binds them.
Permissions(roles) ==
    (IF "user" \in roles THEN {"profile:read:self", "profile:write:self"} ELSE {})
    \cup (IF "admin" \in roles
          THEN {"profile:read:self", "profile:write:self", "users:read",
                "users:write", "roles:assign"} ELSE {})

VARIABLES
    users,      \* app_users
    active,     \* those with is_active
    profile,    \* user_profiles by user, NoRow without a row
    roles,      \* user_roles by user
    audit,      \* audit_events: <<type, actor, target>>
    req,        \* the transactions
    last        \* history: the payload of the last update, if it ran alone

tables == <<users, active, profile, roles, audit>>
vars   == <<tables, req, last>>

\* A transaction: whether it made its user, the flag and the profile it
\* loaded, the columns it updates and the role it has granted.  alone is
\* history: no other update of the profile overlaps this one.
Transaction ==
    [pc     : {"idle", "create", "context", "patch", "assign", "grant", "commit", "done"},
     op     : AllOps \cup {"none"},
     subj   : Subject \cup {"none"},
     target : Subject \cup {"none"},
     body   : Profile,
     made   : BOOLEAN,
     on     : BOOLEAN,
     seen   : Profile \cup {NoRow},
     sets   : SUBSET Column,
     grants : BOOLEAN,
     answer : {"none", "ok", "refused", "not found", "error"},
     alone  : BOOLEAN]

Idle == [pc |-> "idle", op |-> "none", subj |-> "none", target |-> "none",
         body |-> Fresh, made |-> FALSE, on |-> TRUE, seen |-> NoRow, sets |-> {},
         grants |-> FALSE, answer |-> "none", alone |-> TRUE]

Init ==
    /\ users = Known /\ active = Known
    /\ profile = [s \in Subject |-> IF s \in Known THEN Fresh ELSE NoRow]
    /\ roles = [s \in Subject |-> {x \in Role : s \in IF x = "user" THEN Known ELSE Admins}]
    /\ audit = {<<"user.bootstrap", s, s>> : s \in Known}
    /\ req = [r \in Request |-> Idle]
    /\ last = [s \in Subject |-> NoRow]

-----------------------------------------------------------------------------

\* The end of a request; without a commit its writes are rolled back.
\* Mutated form: the session is not closed.
LeakSession(r, answer) == req' = [req EXCEPT ![r].pc = "done", ![r].answer = answer]
EndSession(r, answer) ==
    req' = [req EXCEPT ![r] = [Idle EXCEPT !.pc = "done", !.answer = answer]]

Patching(s) == {q \in Request : req[q].op = "patch" /\ req[q].subj = s
                                  /\ req[q].pc \notin {"idle", "done"}}

\* get_current_context: the token was accepted, and get_by_subject.
get_by_subject(r, s, op, t, body) ==
    LET others == IF op = "patch" THEN Patching(s) ELSE {}
    IN  /\ req[r].pc = "idle" /\ op \in Ops
        /\ req' = [q \in Request |->
               IF q = r
               THEN [Idle EXCEPT !.pc = IF s \in users THEN "context" ELSE "create",
                        !.op = op, !.subj = s, !.target = t, !.body = body,
                        !.on = s \notin users \/ s \in active, !.alone = others = {}]
               ELSE IF q \in others THEN [req[q] EXCEPT !.alone = FALSE] ELSE req[q]]
        /\ UNCHANGED <<tables, last>>

\* bootstrap_from_subject: the user with its profile, the role user and the
\* audit event.  The id is a key: the INSERT waits for another request that has
\* inserted it, and fails if it was committed.
\* Mutated form: the new user is committed before the role is given.
CommitEarly(r) ==
    /\ req[r].pc = "create"
    /\ req[r].subj \notin users
    /\ users' = users \cup {req[r].subj} /\ active' = active \cup {req[r].subj}
    /\ profile' = [profile EXCEPT ![req[r].subj] = Fresh]
    /\ req' = [req EXCEPT ![r].pc = "context", ![r].made = TRUE]
    /\ UNCHANGED <<roles, audit, last>>
bootstrap_from_subject(r) ==
    /\ req[r].pc = "create"
    /\ \A q \in Request \ {r} : req[q].made => req[q].subj # req[r].subj
    /\ IF req[r].subj \in users THEN EndSession(r, "error")
       ELSE req' = [req EXCEPT ![r].pc = "context", ![r].made = TRUE]
    /\ UNCHANGED <<tables, last>>

\* What ensure_permission asks for.
Required(op) == CASE op = "patch"  -> {"profile:write:self"}
                  [] op = "read"   -> {"users:read"}
                  [] op = "assign" -> {"roles:assign"}
                  [] OTHER         -> {}

RolesOf(r) == roles[req[r].subj] \cup (IF req[r].made THEN {"user"} ELSE {})

\* The user is active, and ensure_permission finds the permission.
Allowed(r) == req[r].on /\ Required(req[r].op) \subseteq Permissions(RolesOf(r))

\* context_for_subject loads profile, roles and permissions; every write was
\* flushed, so session.new and session.dirty are empty and nothing is
\* committed; the reading handlers answer.
get_current_context(r) ==
    /\ req[r].pc = "context"
    /\ IF Allowed(r) /\ req[r].op \in {"patch", "assign"}
       THEN req' = [req EXCEPT ![r].pc = req[r].op,
                       ![r].seen = IF req[r].made THEN Fresh ELSE profile[req[r].subj]]
       ELSE EndSession(r, IF ~Allowed(r) THEN "refused"
                          ELSE IF req[r].op = "read" /\ req[r].target \notin users
                               THEN "not found" ELSE "ok")
    /\ UNCHANGED <<tables, last>>

\* update_own_profile: the UPDATE has the columns whose value differs from the
\* profile that was loaded, and waits for the row.
\* Mutated form: columns that are sent with their default are left alone.
UpdateGiven(r) ==
    /\ req[r].pc = "patch"
    /\ req' = [req EXCEPT ![r].pc = "commit",
                  ![r].sets = {c \in Column : req[r].body[c] # Fresh[c]}]
    /\ UNCHANGED <<tables, last>>
update_own_profile(r) ==
    LET sets == {c \in Column : req[r].body[c] # req[r].seen[c]}
    IN  /\ req[r].pc = "patch"
        /\ sets # {} => \A q \in Patching(req[r].subj) \ {r} : req[q].sets = {}
        /\ req' = [req EXCEPT ![r].pc = "commit", ![r].sets = sets]
        /\ UNCHANGED <<tables, last>>

\* assign_role: get_user_by_id, the role admin, and whether the user has it.
assign_role(r) ==
    /\ req[r].pc = "assign"
    /\ IF req[r].target \notin users THEN EndSession(r, "not found")
       ELSE req' = [req EXCEPT ![r].pc = IF "admin" \in roles[req[r].target]
                                         THEN "commit" ELSE "grant"]
    /\ UNCHANGED <<tables, last>>

\* assign_role_to_user: the pair is unique; the INSERT waits for another
\* request that has inserted it, and fails if it was committed.
assign_role_to_user(r) ==
    /\ req[r].pc = "grant"
    /\ \A q \in Request \ {r} : req[q].grants => req[q].target # req[r].target
    /\ IF "admin" \in roles[req[r].target] THEN EndSession(r, "error")
       ELSE req' = [req EXCEPT ![r].pc = "commit", ![r].grants = TRUE]
    /\ UNCHANGED <<tables, last>>

\* The audit events of the transaction.
\* Mutated form: an assignment leaves no event.
NoAssignEvent(r) ==
    (IF req[r].made THEN {<<"user.bootstrap", req[r].subj, req[r].subj>>} ELSE {})
    \cup (IF req[r].op = "patch"
          THEN {<<"user.profile.updated", req[r].subj, req[r].subj>>} ELSE {})
Events(r) ==
    (IF req[r].made THEN {<<"user.bootstrap", req[r].subj, req[r].subj>>} ELSE {})
    \cup (IF req[r].op = "patch"
          THEN {<<"user.profile.updated", req[r].subj, req[r].subj>>}
          ELSE {<<"user.role.assigned", req[r].subj, req[r].target>>})

\* The profile as the transaction leaves it.
Updated(r) ==
    LET old == IF req[r].made THEN Fresh ELSE profile[req[r].subj]
    IN  [c \in Column |-> IF c \in req[r].sets THEN req[r].body[c] ELSE old[c]]

\* The commit of update_profile or of assign_role.
Commit(r) ==
    LET s == req[r].subj
    IN  /\ req[r].pc = "commit"
        /\ users' = IF req[r].made THEN users \cup {s} ELSE users
        /\ active' = IF req[r].made THEN active \cup {s} ELSE active
        /\ profile' = IF req[r].op = "patch" THEN [profile EXCEPT ![s] = Updated(r)] ELSE profile
        /\ roles' = [x \in Subject |->
               roles[x] \cup (IF req[r].made /\ x = s THEN {"user"} ELSE {})
                        \cup (IF req[r].grants /\ x = req[r].target THEN {"admin"} ELSE {})]
        /\ audit' = audit \cup Events(r)
        /\ last' = IF req[r].op # "patch" THEN last
                   ELSE [last EXCEPT ![s] = IF req[r].alone THEN req[r].body ELSE NoRow]
        /\ EndSession(r, "ok")

\* The process ends or the client goes away.
Die(r) ==
    /\ req[r].pc \notin {"idle", "done"}
    /\ EndSession(r, "none")
    /\ UNCHANGED <<tables, last>>

\* An operator clears is_active; no handler does.
Deactivate(s) ==
    /\ s \in active
    /\ active' = active \ {s}
    /\ UNCHANGED <<users, profile, roles, audit, req, last>>

Arrive(r) ==
    \E s \in Subject, op \in Ops :
    \E t \in IF op \in {"read", "assign"} THEN Subject ELSE {"none"} :
    \E body \in IF op = "patch" THEN Payloads ELSE {Fresh} :
        get_by_subject(r, s, op, t, body)

Statement(r) ==
    \/ bootstrap_from_subject(r) \/ get_current_context(r) \/ update_own_profile(r)
    \/ assign_role(r) \/ assign_role_to_user(r) \/ Commit(r)

\* Every request was handled.
AllDone == (\A r \in Request : req[r].pc = "done") /\ UNCHANGED vars

Next ==
    \/ \E r \in Request : Arrive(r) \/ Statement(r) \/ Die(r)
    \/ \E s \in Subject : Deactivate(s)
    \/ AllDone

Spec == Init /\ [][Next]_vars /\ \A r \in Request : WF_vars(Statement(r))

-----------------------------------------------------------------------------

TypeOK ==
    /\ users \subseteq Subject /\ active \subseteq users
    /\ profile \in [Subject -> Profile \cup {NoRow}]
    /\ roles \in [Subject -> SUBSET Role]
    /\ audit \subseteq {"user.bootstrap", "user.profile.updated", "user.role.assigned"}
                           \X Subject \X Subject
    /\ req \in [Request -> Transaction]
    /\ last \in [Subject -> Profile \cup {NoRow}]

\* However first requests of a user overlap or fail, a user that exists has its
\* profile, the role user and its audit event, and nothing exists without it.
UserComplete ==
    \A s \in Subject :
        /\ s \in users <=> profile[s] # NoRow
        /\ s \in users <=> "user" \in roles[s]
        /\ s \in users <=> <<"user.bootstrap", s, s>> \in audit

\* An administrator whom no operator appointed was appointed by one, and the
\* audit table says by whom: the question of the incident runbook ("Were admin
\* roles modified?") is answered by audit_events.
AdminsAccounted ==
    \A s \in Subject : "admin" \in roles[s] =>
        s \in Admins \/ \E a \in Subject : "admin" \in roles[a]
                                          /\ <<"user.role.assigned", a, s>> \in audit

\* An update of a profile that no other update overlaps leaves the profile that
\* was sent, in every field, until the next update.
UpdateKept == \A s \in Subject : last[s] # NoRow => profile[s] = last[s]

\* Every request ends: no two wait for each other's rows.
RequestsEnd == \A r \in Request : req[r].pc # "idle" ~> req[r].pc = "done"

-----------------------------------------------------------------------------
(* The inductive invariant of the directory. *)

Running(r) == req[r].pc \notin {"idle", "done"}

\* Which operation is at which statement, and what it may rely on: the user it
\* made is not there yet, any other is; whoever assigns a role is an
\* administrator.
Stage(r) ==
    /\ ~Running(r) => ~req[r].made /\ ~req[r].grants /\ req[r].op = "none"
    /\ Running(r) => req[r].op \in AllOps /\ req[r].subj \in Subject
    /\ req[r].op \in {"read", "assign"} => req[r].target \in Subject
    /\ req[r].pc = "create" => ~req[r].made
    /\ Running(r) /\ req[r].pc # "create" => (req[r].made <=> req[r].subj \notin users)
    /\ req[r].pc = "patch" => req[r].op = "patch"
    /\ req[r].pc \in {"assign", "grant"} => req[r].op = "assign"
    /\ req[r].pc = "commit" => req[r].op \in {"patch", "assign"}
    /\ req[r].pc \in {"assign", "grant", "commit"} /\ req[r].op = "assign" =>
          "admin" \in roles[req[r].subj]
    /\ req[r].pc \in {"grant", "commit"} /\ req[r].op = "assign" => req[r].target \in users
    /\ req[r].grants => req[r].pc = "commit" /\ req[r].op = "assign"

\* An update that runs alone has seen the profile as it is.
Updates(r) ==
    /\ req[r].pc \in {"patch", "commit"} /\ req[r].op = "patch" =>
          /\ req[r].seen \in Profile
          /\ req[r].alone => req[r].seen = IF req[r].made THEN Fresh ELSE profile[req[r].subj]
    /\ req[r].pc = "commit" /\ req[r].op = "patch" =>
          req[r].sets = {c \in Column : req[r].body[c] # req[r].seen[c]}

\* A user is made once, and no update overlaps one that runs alone.
Apart ==
    \A r, q \in Request : r # q =>
        /\ req[r].made /\ req[q].made => req[r].subj # req[q].subj
        /\ Running(r) /\ req[r].op = "patch" /\ req[r].alone =>
              q \notin Patching(req[r].subj)

\* Administrators are users.
AdminsAreUsers == \A s \in Subject : "admin" \in roles[s] => s \in users

DirectoryInv ==
    /\ TypeOK
    /\ \A r \in Request : Stage(r) /\ Updates(r)
    /\ Apart /\ AdminsAreUsers
    /\ UserComplete /\ AdminsAccounted /\ UpdateKept
=============================================================================
