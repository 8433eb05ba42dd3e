------------------------------ MODULE RoleSeed ------------------------------
(***************************************************************************)
(* Start-up of the instances of user-service (lifespan): each writes the   *)
(* roles, the permissions and their bindings that are missing              *)
(* (RBACService.ensure_seed_data) in one transaction, row by row, and      *)
(* serves requests once it has committed.  An instance that fails is       *)
(* started again (restart: unless-stopped in the compose file).            *)
(***************************************************************************)
EXTENDS Integers, Sequences, FiniteSetsExt

CONSTANTS
    Instance,   \* processes of user-service on one database
    MaxDeaths   \* bound on how often processes are killed

\* The rows ensure_seed_data asks for, in its order: roles, permissions, and
\* the pairs of role_permissions.
SeedRows ==
    << <<"role", "user">>, <<"role", "admin">>,
       <<"permission", "profile:read:self">>, <<"permission", "profile:write:self">>,
       <<"permission", "users:read">>, <<"permission", "users:write">>,
       <<"permission", "roles:assign">>,
       <<"user", "profile:read:self">>, <<"user", "profile:write:self">>,
       <<"admin", "profile:read:self">>, <<"admin", "profile:write:self">>,
       <<"admin", "users:read">>, <<"admin", "users:write">>,
       <<"admin", "roles:assign">> >>

Rows == {SeedRows[i] : i \in 1 .. Len(SeedRows)}

VARIABLES
    store,      \* the committed rows of roles, permissions, role_permissions
    inst,       \* the instances
    deaths

vars == <<store, inst, deaths>>

\* next is the row that comes next, wrote what its transaction has inserted.
Process == [pc : {"down", "select", "insert", "up"}, next : Nat, wrote : SUBSET Rows]
Down    == [pc |-> "down", next |-> 1, wrote |-> {}]

Init == store = {} /\ inst = [i \in Instance |-> Down] /\ deaths = 0

\* lifespan opens a session and calls ensure_seed_data.
Start(i) ==
    /\ inst[i].pc = "down"
    /\ inst' = [inst EXCEPT ![i].pc = "select"]
    /\ UNCHANGED <<store, deaths>>

\* get_role_by_name, get_permission_by_name or the SELECT of
\* ensure_role_permission: a row that is there is left alone.  Rows are never
\* deleted, so the SELECTs up to the first row that is missing are one step.
GetRow(i) ==
    LET missing == {n \in inst[i].next .. Len(SeedRows) : SeedRows[n] \notin store}
    IN  /\ inst[i].pc = "select" /\ inst[i].next <= Len(SeedRows)
        /\ inst' = IF missing = {}
                   THEN [inst EXCEPT ![i].next = Len(SeedRows) + 1]
                   ELSE [inst EXCEPT ![i].pc = "insert", ![i].next = Min(missing)]
        /\ UNCHANGED <<store, deaths>>

\* create_role and the other INSERTs: names and pairs are unique, so it waits
\* for another transaction that has inserted the row, and if that one commits
\* it fails, and the start with it.
\* Mutated form: the failed start leaves its transaction open.
CreateAndLeak(i) ==
    LET row == SeedRows[inst[i].next]
    IN  /\ inst[i].pc = "insert"
        /\ \A j \in Instance \ {i} : row \notin inst[j].wrote
        /\ inst' = IF row \in store THEN [inst EXCEPT ![i].pc = "insert"]
                   ELSE [inst EXCEPT ![i] = [pc |-> "select", next |-> @.next + 1,
                                             wrote |-> @.wrote \cup {row}]]
        /\ UNCHANGED <<store, deaths>>
CreateRow(i) ==
    LET row == SeedRows[inst[i].next]
    IN  /\ inst[i].pc = "insert"
        /\ \A j \in Instance \ {i} : row \notin inst[j].wrote
        /\ inst' = [inst EXCEPT ![i] =
                       IF row \in store THEN Down
                       ELSE [pc |-> "select", next |-> @.next + 1,
                             wrote |-> @.wrote \cup {row}]]
        /\ UNCHANGED <<store, deaths>>

\* The commit; then the instance serves requests.
\* Mutated form: it serves without a commit.
ServeUncommitted(i) ==
    /\ inst[i].pc = "select" /\ inst[i].next > Len(SeedRows)
    /\ inst' = [inst EXCEPT ![i] = [Down EXCEPT !.pc = "up"]]
    /\ UNCHANGED <<store, deaths>>
Serve(i) ==
    /\ inst[i].pc = "select" /\ inst[i].next > Len(SeedRows)
    /\ store' = store \cup inst[i].wrote
    /\ inst' = [inst EXCEPT ![i] = [Down EXCEPT !.pc = "up"]]
    /\ UNCHANGED deaths

\* The process is killed: what it wrote is rolled back.
Die(i) ==
    /\ inst[i].pc # "down" /\ deaths < MaxDeaths
    /\ inst' = [inst EXCEPT ![i] = Down]
    /\ deaths' = deaths + 1
    /\ UNCHANGED store

Run(i) == Start(i) \/ GetRow(i) \/ CreateRow(i) \/ Serve(i)

\* All instances serve and nothing is left to do.
AllUp == (\A i \in Instance : inst[i].pc = "up") /\ UNCHANGED vars

Next == (\E i \in Instance : Run(i) \/ Die(i)) \/ AllUp

Spec == Init /\ [][Next]_vars /\ \A i \in Instance : WF_vars(Run(i))

-----------------------------------------------------------------------------

TypeOK ==
    /\ store \subseteq Rows
    /\ inst \in [Instance -> Process]
    /\ deaths \in 0 .. MaxDeaths
=============================================================================
