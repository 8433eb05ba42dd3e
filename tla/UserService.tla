---------------------------- MODULE UserService ----------------------------
(***************************************************************************)
(* user-service as it is deployed: its instances seed the roles when they  *)
(* start (module RoleSeed), and requests (module UserDirectory) come as    *)
(* soon as one of them serves, while others still start, fail on a row     *)
(* that was inserted first, or are killed.                                 *)
(***************************************************************************)
EXTENDS UserDirectory, Sequences

CONSTANTS
    Instance,   \* processes of user-service on one database
    MaxDeaths   \* bound on how often processes are killed

ASSUME MaxDeathsAssumption == MaxDeaths \in Nat

VARIABLES
    store,      \* the committed rows of roles, permissions, role_permissions
    inst,       \* the instances
    deaths

Seed == INSTANCE RoleSeed

seedVars    == <<store, inst, deaths>>
serviceVars == <<vars, seedVars>>

ServiceInit == Init /\ Seed!Init

\* The lifespan of an instance has reached its yield.
Serving == \E i \in Instance : inst[i].pc = "up"

Handle(r) ==
    \/ Serving /\ Arrive(r)
    \/ Statement(r)
    \/ Die(r)

\* All instances serve and every request was handled.
AllQuiet == Seed!AllUp /\ AllDone

ServiceNext ==
    \/ /\ \/ \E r \in Request : Handle(r)
          \/ \E s \in Subject : Deactivate(s)
       /\ UNCHANGED seedVars
    \/ /\ \E i \in Instance : Seed!Run(i) \/ Seed!Die(i)
       /\ UNCHANGED vars
    \/ AllQuiet

\* The event loop runs every handler, a lock is given to one that waits for it,
\* and an instance that fails is started again.
ServiceSpec ==
    /\ ServiceInit /\ [][ServiceNext]_serviceVars
    /\ \A r \in Request : WF_serviceVars(Statement(r) /\ UNCHANGED seedVars)
    /\ \A i \in Instance : WF_serviceVars(Seed!Run(i) /\ UNCHANGED vars)

-----------------------------------------------------------------------------

\* Every variable has its type.
ServiceTypeOK == TypeOK /\ Seed!TypeOK

\* However starts overlap and fail, a request always finds the roles whole: the
\* permissions that context_for_subject reads are the ones ensure_seed_data
\* binds, and "RBAC seed is not initialized" is never raised.
RolesWhole ==
    (\E r \in Request : req[r].pc # "idle") =>
        \A x \in Role :
            /\ <<"role", x>> \in store
            /\ \A p \in Permissions(Role) : <<x, p>> \in store <=> p \in Permissions({x})

\* Instances that start together all come up, the ones whose INSERT fails on
\* their next start, whatever requests the others handle meanwhile.
AllComeUp == <>[](\A i \in Instance : inst[i].pc = "up")

-----------------------------------------------------------------------------
(* The inductive invariant of the start. *)

\* The rows before the next one are there or in the instance's transaction.
Seeding(i) ==
    /\ inst[i].pc = "down" => inst[i] = Seed!Down
    /\ inst[i].pc = "insert" => inst[i].next <= Len(Seed!SeedRows)
    /\ inst[i].pc \in {"select", "insert"} =>
          /\ inst[i].next \in 1 .. Len(Seed!SeedRows) + 1
          /\ \A n \in 1 .. inst[i].next - 1 : Seed!SeedRows[n] \in store \cup inst[i].wrote

SeedInv ==
    /\ Seed!TypeOK
    /\ \A i \in Instance : Seeding(i)
    /\ Serving \/ (\E r \in Request : req[r].pc # "idle") => Seed!Rows \subseteq store

ServiceInv == DirectoryInv /\ SeedInv
=============================================================================
