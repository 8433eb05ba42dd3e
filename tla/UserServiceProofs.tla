-------------------------- MODULE UserServiceProofs --------------------------
(***************************************************************************)
(* The invariants of user-service for any number of instances, requests,   *)
(* users and profiles: the rows of the roles are whole before a request is *)
(* handled, and the directory stays complete and accounted for.            *)
(***************************************************************************)
EXTENDS UserService, TLAPS, WellFoundedInduction

-----------------------------------------------------------------------------
(* The start *)

\* A set of numbers has a least one, ...
LEMMA LeastExists ==
    ASSUME NEW S \in SUBSET Nat, S # {}
    PROVE  \E n \in S : \A m \in S : n <= m
<1> DEFINE R == OpToRel(<, Nat)
<1>1. IsWellFoundedOn(R, Nat)
  BY NatLessThanWellFounded, Zenon
<1>2. PICK n \in S : \A m \in S : ~ (<<m, n>> \in R)
  BY <1>1, WFMin, Zenon
<1>3. \A m \in S : ~(m < n)
  BY <1>2 DEF OpToRel
<1> QED
  BY <1>3

\* ... which is what Min gives.
LEMMA MinIsLeast ==
    ASSUME NEW S \in SUBSET Nat, S # {}
    PROVE  Seed!Min(S) \in S /\ \A n \in S : Seed!Min(S) <= n
  BY LeastExists DEF Seed!Min

\* ensure_seed_data asks for fourteen rows.
LEMMA SeedLength == Len(Seed!SeedRows) = 14
  BY DEF Seed!SeedRows

\* A row that is asked for is one of Rows.
LEMMA SeedRowType == \A n \in 1 .. 14 : Seed!SeedRows[n] \in Seed!Rows
  BY SeedLength DEF Seed!Rows

\* The rows, one by one.
LEMMA RowsListed ==
    Seed!Rows = {<<"role", "user">>, <<"role", "admin">>,
                 <<"permission", "profile:read:self">>,
                 <<"permission", "profile:write:self">>,
                 <<"permission", "users:read">>, <<"permission", "users:write">>,
                 <<"permission", "roles:assign">>,
                 <<"user", "profile:read:self">>, <<"user", "profile:write:self">>,
                 <<"admin", "profile:read:self">>, <<"admin", "profile:write:self">>,
                 <<"admin", "users:read">>, <<"admin", "users:write">>,
                 <<"admin", "roles:assign">>}
  BY SeedLength DEF Seed!SeedRows, Seed!Rows

\* An instance that is not started has nothing to show.
LEMMA DownType ==
    /\ Seed!Down \in Seed!Process /\ Seed!Down.pc = "down"
    /\ [Seed!Down EXCEPT !.pc = "up"] \in Seed!Process
    /\ [Seed!Down EXCEPT !.pc = "up"].pc = "up"
  BY DEF Seed!Down, Seed!Process

\* What an instance relies on stays true while rows are only added.
LEMMA SeedingKept ==
    ASSUME NEW i \in Instance, Seeding(i), inst'[i] = inst[i], store \subseteq store'
    PROVE  Seeding(i)'
  BY DEF Seeding

\* A step of one instance that adds no row keeps the invariant if it keeps it
\* for that instance, and if it does not serve.
LEMMA OwnSeedStep ==
    ASSUME SeedInv, NEW i \in Instance, NEW t \in Seed!Process, t.pc # "up",
           inst' = [inst EXCEPT ![i] = t], deaths' \in 0 .. MaxDeaths,
           UNCHANGED <<store, req>>, Seeding(i)'
    PROVE  SeedInv'
<1>1. /\ inst \in [Instance -> Seed!Process] /\ inst' \in [Instance -> Seed!Process]
      /\ inst'[i] = t /\ \A j \in Instance \ {i} : inst'[j] = inst[j]
  BY DEF SeedInv, Seed!TypeOK
<1>2. Seed!TypeOK'
  BY <1>1 DEF SeedInv, Seed!TypeOK
<1>3. \A j \in Instance : Seeding(j)'
  BY <1>1, SeedingKept DEF SeedInv
<1>4. Serving' => Serving
  BY <1>1 DEF Serving
<1> QED
  BY <1>2, <1>3, <1>4 DEF SeedInv

\* Every step of an instance keeps the invariant of the start.
LEMMA SeedStep ==
    ASSUME SeedInv, NEW i \in Instance, Seed!Run(i) \/ Seed!Die(i), UNCHANGED vars
    PROVE  SeedInv'
<1>1. /\ inst \in [Instance -> Seed!Process] /\ store \subseteq Seed!Rows
      /\ deaths \in 0 .. MaxDeaths /\ Seeding(i) /\ inst[i] \in Seed!Process
      /\ req' = req
  BY DEF SeedInv, Seed!TypeOK, vars
<1>2. /\ inst[i].next \in Nat /\ inst[i].wrote \subseteq Seed!Rows
      /\ inst[i].pc \in {"down", "select", "insert", "up"}
  BY <1>1 DEF Seed!Process
<1>3. CASE Seed!Start(i)
  <2> DEFINE t == [inst[i] EXCEPT !.pc = "select"]
  <2>1. inst' = [inst EXCEPT ![i] = t] /\ UNCHANGED <<store, deaths>> /\ inst[i].pc = "down"
    BY <1>1, <1>3 DEF Seed!Start
  <2>2. inst[i].next = 1
    BY <1>1, <2>1 DEF Seeding, Seed!Down
  <2>3. t \in Seed!Process /\ t.pc = "select" /\ t.next = 1
    BY <1>1, <2>2 DEF Seed!Process
  <2> HIDE DEF t
  <2>4. inst'[i] = t
    BY <1>1, <2>1
  <2>5. Seeding(i)'
    BY <2>3, <2>4, SeedLength DEF Seeding
  <2> QED
    BY <1>1, <2>1, <2>3, <2>5, OwnSeedStep
<1>4. CASE Seed!GetRow(i)
  <2> DEFINE missing == {n \in inst[i].next .. 14 : Seed!SeedRows[n] \notin store}
  <2>1. /\ inst[i].pc = "select" /\ inst[i].next \in 1 .. 14 /\ UNCHANGED <<store, deaths>>
        /\ \A n \in 1 .. inst[i].next - 1 : Seed!SeedRows[n] \in store \cup inst[i].wrote
    BY <1>1, <1>4, SeedLength DEF Seed!GetRow, Seeding
  <2>2. CASE missing = {}
    <3> DEFINE t == [inst[i] EXCEPT !.next = 15]
    <3>1. inst' = [inst EXCEPT ![i] = t]
      BY <1>1, <1>4, <2>2, SeedLength DEF Seed!GetRow
    <3>2. /\ t \in Seed!Process /\ t.pc = "select" /\ t.next = 15
          /\ t.wrote = inst[i].wrote
      BY <1>1, <2>1 DEF Seed!Process
    <3> HIDE DEF t
    <3>3. inst'[i] = t
      BY <1>1, <3>1
    <3>4. \A n \in 1 .. 14 : Seed!SeedRows[n] \in store \cup inst[i].wrote
      BY <2>1, <2>2
    <3>5. Seeding(i)'
      BY <2>1, <3>2, <3>3, <3>4, SeedLength DEF Seeding
    <3> QED
      BY <1>1, <2>1, <3>1, <3>2, <3>5, OwnSeedStep
  <2>3. CASE missing # {}
    <3> DEFINE m == Seed!Min(missing)
               t == [inst[i] EXCEPT !.pc = "insert", !.next = m]
    <3>1. inst' = [inst EXCEPT ![i] = t]
      BY <1>1, <1>4, <2>3, SeedLength DEF Seed!GetRow
    <3>2. missing \in SUBSET Nat
      BY <2>1
    <3>3. m \in missing /\ \A n \in missing : m <= n
      BY <2>3, <3>2, MinIsLeast
    <3>4. m \in 1 .. 14 /\ inst[i].next <= m
      BY <2>1, <3>3
    <3>5. \A n \in 1 .. m - 1 : Seed!SeedRows[n] \in store \cup inst[i].wrote
      <4> SUFFICES ASSUME NEW n \in 1 .. m - 1
                   PROVE  Seed!SeedRows[n] \in store \cup inst[i].wrote
        OBVIOUS
      <4>1. CASE n < inst[i].next
        BY <2>1, <3>4, <4>1
      <4>2. CASE n >= inst[i].next
        BY <2>1, <3>3, <3>4, <4>2
      <4> QED
        BY <2>1, <3>4, <4>1, <4>2
    <3> HIDE DEF m
    <3>6. m \in Nat
      BY <3>4
    <3>7. /\ t \in Seed!Process /\ t.pc = "insert" /\ t.next = m
          /\ t.wrote = inst[i].wrote
      BY <1>1, <3>6 DEF Seed!Process
    <3> HIDE DEF t
    <3>8. inst'[i] = t
      BY <1>1, <3>1
    <3>9. Seeding(i)'
      BY <2>1, <3>4, <3>5, <3>7, <3>8, SeedLength DEF Seeding
    <3> QED
      BY <1>1, <2>1, <3>1, <3>7, <3>9, OwnSeedStep
  <2> QED
    BY <2>2, <2>3
<1>5. CASE Seed!CreateRow(i)
  <2> DEFINE row == Seed!SeedRows[inst[i].next]
  <2>1. /\ inst[i].pc = "insert" /\ inst[i].next \in 1 .. 14 /\ UNCHANGED <<store, deaths>>
        /\ \A n \in 1 .. inst[i].next - 1 : Seed!SeedRows[n] \in store \cup inst[i].wrote
    BY <1>1, <1>5, SeedLength DEF Seed!CreateRow, Seeding
  <2>2. CASE row \in store
    <3>1. inst' = [inst EXCEPT ![i] = Seed!Down]
      BY <1>1, <1>5, <2>2 DEF Seed!CreateRow
    <3>2. inst'[i] = Seed!Down
      BY <1>1, <3>1
    <3>3. Seeding(i)'
      BY <3>2, DownType DEF Seeding
    <3> QED
      BY <1>1, <2>1, <3>1, <3>3, DownType, OwnSeedStep
  <2>3. CASE row \notin store
    <3> DEFINE t == [pc |-> "select", next |-> inst[i].next + 1,
                     wrote |-> inst[i].wrote \cup {row}]
    <3>1. inst' = [inst EXCEPT ![i] = t]
      BY <1>1, <1>5, <2>3 DEF Seed!CreateRow
    <3>2. row \in Seed!Rows
      BY <2>1, SeedRowType
    <3>3. \A n \in 1 .. inst[i].next :
              Seed!SeedRows[n] \in store \cup (inst[i].wrote \cup {row})
      BY <2>1
    <3> HIDE DEF row
    <3>4. /\ t \in Seed!Process /\ t.pc = "select" /\ t.next = inst[i].next + 1
          /\ t.wrote = inst[i].wrote \cup {row}
      BY <1>2, <3>2 DEF Seed!Process
    <3> HIDE DEF t
    <3>5. inst'[i] = t
      BY <1>1, <3>1
    <3>6. Seeding(i)'
      BY <2>1, <3>3, <3>4, <3>5, SeedLength DEF Seeding
    <3> QED
      BY <1>1, <2>1, <3>1, <3>4, <3>6, OwnSeedStep
  <2> QED
    BY <2>2, <2>3
<1>6. CASE Seed!Serve(i)
  <2> DEFINE t == [Seed!Down EXCEPT !.pc = "up"]
  <2>1. /\ inst[i].pc = "select" /\ inst[i].next > 14 /\ deaths' = deaths
        /\ store' = store \cup inst[i].wrote /\ inst' = [inst EXCEPT ![i] = t]
    BY <1>6, SeedLength DEF Seed!Serve
  <2> HIDE DEF t
  <2>2. t \in Seed!Process /\ t.pc = "up"
    BY DownType DEF t
  <2>3. inst[i].next = 15
    BY <1>1, <2>1, SeedLength DEF Seeding
  <2>4. \A n \in 1 .. 14 : Seed!SeedRows[n] \in store'
    <3>1. \A n \in 1 .. inst[i].next - 1 : Seed!SeedRows[n] \in store \cup inst[i].wrote
      BY <1>1, <2>1 DEF Seeding
    <3>2. inst[i].next - 1 = 14
      BY <2>3
    <3> QED
      BY <2>1, <3>1, <3>2
  <2>5. Seed!Rows \subseteq store' /\ store' \subseteq Seed!Rows
    BY <1>1, <1>2, <2>1, <2>4, SeedLength DEF Seed!Rows
  <2>6. /\ inst' \in [Instance -> Seed!Process] /\ inst'[i] = t
        /\ \A j \in Instance \ {i} : inst'[j] = inst[j]
    BY <1>1, <2>1, <2>2
  <2>7. Seed!TypeOK'
    BY <1>1, <2>1, <2>5, <2>6 DEF Seed!TypeOK
  <2>8. \A j \in Instance \ {i} : Seeding(j)'
    BY <2>1, <2>6, SeedingKept DEF SeedInv
  <2>9. Seeding(i)'
    BY <2>2, <2>6 DEF Seeding
  <2> QED
    BY <2>5, <2>7, <2>8, <2>9 DEF SeedInv
<1>7. CASE Seed!Die(i)
  <2>1. /\ inst' = [inst EXCEPT ![i] = Seed!Down] /\ store' = store
        /\ deaths' = deaths + 1 /\ deaths < MaxDeaths
    BY <1>7 DEF Seed!Die
  <2>2. inst'[i] = Seed!Down /\ deaths' \in 0 .. MaxDeaths
    BY <1>1, <2>1, MaxDeathsAssumption
  <2>3. Seeding(i)'
    BY <2>2, DownType DEF Seeding
  <2> QED
    BY <1>1, <2>1, <2>2, <2>3, DownType, OwnSeedStep
<1> QED
  BY <1>3, <1>4, <1>5, <1>6, <1>7 DEF Seed!Run

\* Nothing is committed before an instance has started.
LEMMA SeedInit == ServiceInit => SeedInv
<1> SUFFICES ASSUME ServiceInit
             PROVE  SeedInv
  OBVIOUS
<1>1. /\ store = {} /\ deaths = 0 /\ \A i \in Instance : inst[i] = Seed!Down
      /\ inst \in [Instance -> Seed!Process]
  BY DownType DEF ServiceInit, Seed!Init
<1>2. Seed!TypeOK
  BY <1>1, MaxDeathsAssumption DEF Seed!TypeOK
<1>3. \A i \in Instance : Seeding(i)
  BY <1>1, DownType DEF Seeding
<1>4. ~Serving
  BY <1>1, DownType DEF Serving
<1>5. \A r \in Request : req[r].pc = "idle"
  BY DEF ServiceInit, Init, Idle
<1> QED
  BY <1>2, <1>3, <1>4, <1>5 DEF SeedInv

\* A step that leaves the start alone keeps its invariant, if no request comes
\* before an instance serves.
LEMMA SeedUndisturbed ==
    ASSUME SeedInv, UNCHANGED seedVars,
           Serving \/ \A r \in Request : req'[r].pc # "idle" => req[r].pc # "idle"
    PROVE  SeedInv'
<1>1. store' = store /\ inst' = inst /\ deaths' = deaths
  BY DEF seedVars
<1>2. Seed!TypeOK' /\ (Serving' <=> Serving)
  BY <1>1 DEF SeedInv, Seed!TypeOK, Serving
<1>3. \A i \in Instance : Seeding(i)'
  BY <1>1, SeedingKept DEF SeedInv
<1> QED
  BY <1>1, <1>2, <1>3 DEF SeedInv

\* Rows that are all there are the ones a request has to find.
LEMMA WholeFollows == SeedInv => RolesWhole
<1> SUFFICES ASSUME SeedInv, NEW r \in Request, req[r].pc # "idle"
             PROVE  \A x \in Role :
                        /\ <<"role", x>> \in store
                        /\ \A p \in Permissions(Role) :
                               <<x, p>> \in store <=> p \in Permissions({x})
  BY DEF RolesWhole
<1>1. store = Seed!Rows
  BY DEF SeedInv, Seed!TypeOK
<1> QED
  BY <1>1, RowsListed DEF Role, Permissions

-----------------------------------------------------------------------------
(* The directory *)

\* A row is not the mark of a missing one.
LEMMA Rowed == NoRow \notin Profile /\ Fresh \in Profile
  BY DEF NoRow, Fresh, Profile, Column

\* A request that is over, or has not come, is a transaction.
LEMMA OverType ==
    ASSUME NEW answer \in {"none", "ok", "refused", "not found", "error"}
    PROVE  /\ Idle \in Transaction
           /\ [Idle EXCEPT !.pc = "done", !.answer = answer] \in Transaction
  BY Rowed DEF Idle, Transaction, AllOps

\* At the start the directory is in order.
LEMMA InitInv == Init => DirectoryInv
<1> SUFFICES ASSUME Init
             PROVE  DirectoryInv
  OBVIOUS
<1> USE DirectoryAssumption
<1>1. \A r \in Request : req[r] = Idle /\ req[r] \in Transaction
  BY OverType DEF Init
<1>2. \A s \in Subject : /\ profile[s] = IF s \in Known THEN Fresh ELSE NoRow
                         /\ "user" \in roles[s] <=> s \in Known
                         /\ "admin" \in roles[s] <=> s \in Admins
                         /\ roles[s] \subseteq Role
                         /\ last[s] = NoRow
  BY DEF Init, Role
<1>3. TypeOK
  <2>1. profile \in [Subject -> Profile \cup {NoRow}] /\ last \in [Subject -> Profile \cup {NoRow}]
    BY Rowed DEF Init
  <2>2. roles \in [Subject -> SUBSET Role] /\ req \in [Request -> Transaction]
    BY OverType DEF Init
  <2> QED
    BY <2>1, <2>2 DEF Init, TypeOK
<1>4. \A r \in Request : Stage(r) /\ Updates(r)
  BY <1>1 DEF Stage, Updates, Running, Idle
<1>5. Apart
  BY <1>1 DEF Apart, Running, Idle
<1>6. AdminsAreUsers /\ AdminsAccounted /\ UpdateKept
  BY <1>2 DEF AdminsAreUsers, AdminsAccounted, UpdateKept, Init
<1>7. UserComplete
  BY <1>2, Rowed DEF UserComplete, Init
<1> QED
  BY <1>3, <1>4, <1>5, <1>6, <1>7 DEF DirectoryInv

\* The type of one transaction.
LEMMA ReqType ==
    ASSUME TypeOK, NEW r \in Request
    PROVE  req[r] \in Transaction
  BY DEF TypeOK

\* A step of one request that writes no table keeps the invariant, if the request
\* is in order after it and neither makes a user that another makes nor becomes
\* an update, or one that runs alone.
LEMMA OwnStep ==
    ASSUME DirectoryInv, NEW r \in Request, NEW t \in Transaction,
           req' = [req EXCEPT ![r] = t], UNCHANGED <<tables, last>>,
           Stage(r)', Updates(r)',
           t.made => \A q \in Request \ {r} : req[q].made => req[q].subj # t.subj,
           t.pc = "done" \/ (/\ Running(r) /\ t.op = req[r].op
                             /\ t.subj = req[r].subj /\ t.alone = req[r].alone)
    PROVE  DirectoryInv'
<1>1. UNCHANGED <<users, active, profile, roles, audit, last>>
  BY DEF tables
<1>2. /\ req'[r] = t /\ \A q \in Request \ {r} : req'[q] = req[q]
      /\ req' \in [Request -> Transaction]
  BY DEF DirectoryInv, TypeOK
<1>3. TypeOK'
  BY <1>1, <1>2 DEF DirectoryInv, TypeOK
<1>4. \A q \in Request : Stage(q)' /\ Updates(q)'
  <2> SUFFICES ASSUME NEW q \in Request \ {r}
               PROVE  Stage(q)' /\ Updates(q)'
    OBVIOUS
  <2>1. Stage(q) /\ Updates(q) /\ req'[q] = req[q]
    BY <1>2 DEF DirectoryInv
  <2> QED
    BY <1>1, <2>1 DEF Stage, Updates, Running
<1>5. Apart'
  <2> SUFFICES ASSUME NEW p \in Request, NEW q \in Request, p # q
               PROVE  /\ req'[p].made /\ req'[q].made => req'[p].subj # req'[q].subj
                      /\ Running(p)' /\ req'[p].op = "patch" /\ req'[p].alone =>
                            ~(/\ req'[q].op = "patch" /\ req'[q].subj = req'[p].subj
                              /\ req'[q].pc \notin {"idle", "done"})
    BY DEF Apart, Patching
  <2>1. /\ req[p].made /\ req[q].made => req[p].subj # req[q].subj
        /\ Running(p) /\ req[p].op = "patch" /\ req[p].alone =>
              ~(/\ req[q].op = "patch" /\ req[q].subj = req[p].subj
                /\ req[q].pc \notin {"idle", "done"})
    BY DEF DirectoryInv, Apart, Patching
  <2>2. CASE p = r
    BY <1>2, <2>1, <2>2 DEF Running
  <2>3. CASE q = r
    BY <1>2, <2>1, <2>3 DEF Running
  <2>4. CASE p # r /\ q # r
    BY <1>2, <2>1, <2>4 DEF Running
  <2> QED
    BY <2>2, <2>3, <2>4
<1>6. AdminsAreUsers' /\ UserComplete' /\ AdminsAccounted' /\ UpdateKept'
  BY <1>1 DEF DirectoryInv, AdminsAreUsers, UserComplete, AdminsAccounted, UpdateKept
<1> QED
  BY <1>3, <1>4, <1>5, <1>6 DEF DirectoryInv

\* A request may end at any time.
LEMMA EndStep ==
    ASSUME DirectoryInv, NEW r \in Request,
           NEW answer \in {"none", "ok", "refused", "not found", "error"},
           EndSession(r, answer), UNCHANGED <<tables, last>>
    PROVE  DirectoryInv'
<1> DEFINE t == [Idle EXCEPT !.pc = "done", !.answer = answer]
<1>1. t \in Transaction /\ req' = [req EXCEPT ![r] = t]
  BY OverType DEF EndSession
<1>2. t.pc = "done" /\ ~t.made /\ ~t.grants /\ t.op = "none"
  BY DEF Idle
<1> HIDE DEF t
<1>3. req'[r] = t
  BY <1>1 DEF DirectoryInv, TypeOK
<1>4. Stage(r)' /\ Updates(r)'
  BY <1>2, <1>3 DEF Stage, Updates, Running
<1> QED
  BY <1>1, <1>2, <1>4, OwnStep

\* bootstrap_from_subject waits for whoever makes the same user.
LEMMA BootstrapStep ==
    ASSUME DirectoryInv, NEW r \in Request, bootstrap_from_subject(r)
    PROVE  DirectoryInv'
<1>1. /\ req[r].pc = "create" /\ UNCHANGED <<tables, last>>
      /\ \A q \in Request \ {r} : req[q].made => req[q].subj # req[r].subj
  BY DEF bootstrap_from_subject
<1>2. CASE req[r].subj \in users
  BY <1>1, <1>2, EndStep DEF bootstrap_from_subject
<1>3. CASE req[r].subj \notin users
  <2> DEFINE t == [req[r] EXCEPT !.pc = "context", !.made = TRUE]
  <2>1. req[r] \in Transaction /\ Stage(r) /\ Running(r)
    BY <1>1, ReqType DEF DirectoryInv, Running
  <2>2. req' = [req EXCEPT ![r] = t]
    BY <1>3 DEF bootstrap_from_subject, DirectoryInv, TypeOK
  <2>3. t \in Transaction
    BY <2>1 DEF Transaction
  <2>4. /\ t.pc = "context" /\ t.made /\ t.op = req[r].op /\ t.subj = req[r].subj
        /\ t.alone = req[r].alone /\ t.target = req[r].target /\ t.grants = req[r].grants
    BY <2>1 DEF Transaction
  <2> HIDE DEF t
  <2>5. req'[r] = t /\ users' = users /\ roles' = roles
    BY <1>1, <2>2 DEF DirectoryInv, TypeOK, tables
  <2>6. Stage(r)'
    BY <1>1, <1>3, <2>1, <2>4, <2>5 DEF Stage, Running
  <2>7. Updates(r)'
    BY <2>4, <2>5 DEF Updates
  <2> QED
    BY <1>1, <2>1, <2>2, <2>3, <2>4, <2>6, <2>7, OwnStep
<1> QED
  BY <1>2, <1>3

\* Whoever may assign roles is an administrator.
LEMMA AssignNeedsAdmin ==
    ASSUME NEW r \in Request, Allowed(r), req[r].op = "assign"
    PROVE  "admin" \in roles[req[r].subj]
  BY DEF Allowed, Required, Permissions, RolesOf

\* get_current_context: whoever assigns has the permission, and an update sees
\* the profile that is there or its own.
LEMMA ContextStep ==
    ASSUME DirectoryInv, NEW r \in Request, get_current_context(r)
    PROVE  DirectoryInv'
<1>1. req[r].pc = "context" /\ UNCHANGED <<tables, last>>
  BY DEF get_current_context
<1>2. CASE ~(Allowed(r) /\ req[r].op \in {"patch", "assign"})
  <2> DEFINE answer == IF ~Allowed(r) THEN "refused"
                       ELSE IF req[r].op = "read" /\ req[r].target \notin users
                            THEN "not found" ELSE "ok"
  <2>1. EndSession(r, answer)
    BY <1>2 DEF get_current_context
  <2>2. answer \in {"none", "ok", "refused", "not found", "error"}
    OBVIOUS
  <2> HIDE DEF answer
  <2> QED
    BY <1>1, <2>1, <2>2, EndStep
<1>3. CASE Allowed(r) /\ req[r].op \in {"patch", "assign"}
  <2> DEFINE s == IF req[r].made THEN Fresh ELSE profile[req[r].subj]
             t == [req[r] EXCEPT !.pc = req[r].op, !.seen = s]
  <2>1. req[r] \in Transaction /\ Stage(r) /\ Running(r)
    BY <1>1, ReqType DEF DirectoryInv, Running
  <2>2. req' = [req EXCEPT ![r] = t]
    BY <1>3 DEF get_current_context, DirectoryInv, TypeOK
  <2>3. s \in Profile
    <3>1. req[r].subj \in Subject /\ (~req[r].made => req[r].subj \in users)
      BY <1>1, <2>1 DEF Stage
    <3>2. req[r].subj \in users => profile[req[r].subj] \in Profile
      BY <3>1 DEF DirectoryInv, UserComplete, TypeOK
    <3> QED
      BY <3>1, <3>2, Rowed
  <2> HIDE DEF s
  <2>4. t \in Transaction
    BY <1>3, <2>1, <2>3 DEF Transaction
  <2>5. /\ t.pc = req[r].op /\ t.made = req[r].made /\ t.op = req[r].op
        /\ t.subj = req[r].subj /\ t.alone = req[r].alone
        /\ t.target = req[r].target /\ t.grants = req[r].grants /\ t.seen = s
    BY <2>1 DEF Transaction
  <2> HIDE DEF t
  <2>6. req'[r] = t /\ users' = users /\ roles' = roles /\ profile' = profile
    BY <1>1, <2>2 DEF DirectoryInv, TypeOK, tables
  <2>7. req[r].op = "assign" => "admin" \in roles[req[r].subj]
    BY <1>3, AssignNeedsAdmin
  <2>8. Stage(r)'
    BY <1>1, <1>3, <2>1, <2>5, <2>6, <2>7 DEF Stage, Running
  <2>9. Updates(r)'
    BY <1>3, <2>3, <2>5, <2>6 DEF Updates, s
  <2>10. t.made => \A q \in Request \ {r} : req[q].made => req[q].subj # t.subj
    BY <2>5 DEF DirectoryInv, Apart
  <2> QED
    BY <1>1, <2>1, <2>2, <2>4, <2>5, <2>8, <2>9, <2>10, OwnStep
<1> QED
  BY <1>2, <1>3

\* update_own_profile sets the columns that differ.
LEMMA UpdateStep ==
    ASSUME DirectoryInv, NEW r \in Request, update_own_profile(r)
    PROVE  DirectoryInv'
<1> DEFINE sets == {c \in Column : req[r].body[c] # req[r].seen[c]}
           t == [req[r] EXCEPT !.pc = "commit", !.sets = sets]
<1>1. req[r].pc = "patch" /\ UNCHANGED <<tables, last>>
  BY DEF update_own_profile
<1>2. req[r] \in Transaction /\ Stage(r) /\ Updates(r) /\ Running(r)
  BY <1>1, ReqType DEF DirectoryInv, Running
<1>3. req' = [req EXCEPT ![r] = t]
  BY DEF update_own_profile, DirectoryInv, TypeOK
<1>4. sets \subseteq Column
  OBVIOUS
<1> HIDE DEF sets
<1>5. t \in Transaction
  BY <1>2, <1>4 DEF Transaction
<1>6. /\ t.pc = "commit" /\ t.made = req[r].made /\ t.op = req[r].op
      /\ t.subj = req[r].subj /\ t.alone = req[r].alone /\ t.body = req[r].body
      /\ t.target = req[r].target /\ t.grants = req[r].grants
      /\ t.seen = req[r].seen /\ t.sets = sets
  BY <1>2 DEF Transaction
<1> HIDE DEF t
<1>7. req'[r] = t /\ users' = users /\ roles' = roles /\ profile' = profile
  BY <1>1, <1>3 DEF DirectoryInv, TypeOK, tables
<1>8. Stage(r)'
  BY <1>1, <1>2, <1>6, <1>7 DEF Stage, Running
<1>9. Updates(r)'
  BY <1>1, <1>2, <1>6, <1>7 DEF Updates, Stage, sets
<1>10. t.made => \A q \in Request \ {r} : req[q].made => req[q].subj # t.subj
  BY <1>6 DEF DirectoryInv, Apart
<1> QED
  BY <1>1, <1>2, <1>3, <1>5, <1>6, <1>8, <1>9, <1>10, OwnStep

\* assign_role goes on only for a user that exists.
LEMMA AssignStep ==
    ASSUME DirectoryInv, NEW r \in Request, assign_role(r)
    PROVE  DirectoryInv'
<1>1. req[r].pc = "assign" /\ UNCHANGED <<tables, last>>
  BY DEF assign_role
<1>2. CASE req[r].target \notin users
  BY <1>1, <1>2, EndStep DEF assign_role
<1>3. CASE req[r].target \in users
  <2> DEFINE p == IF "admin" \in roles[req[r].target] THEN "commit" ELSE "grant"
             t == [req[r] EXCEPT !.pc = p]
  <2>1. req[r] \in Transaction /\ Stage(r) /\ Running(r)
    BY <1>1, ReqType DEF DirectoryInv, Running
  <2>2. req' = [req EXCEPT ![r] = t]
    BY <1>3 DEF assign_role, DirectoryInv, TypeOK
  <2>3. p \in {"commit", "grant"}
    OBVIOUS
  <2> HIDE DEF p
  <2>4. t \in Transaction
    BY <2>1, <2>3 DEF Transaction
  <2>5. /\ t.pc = p /\ t.made = req[r].made /\ t.op = req[r].op
        /\ t.subj = req[r].subj /\ t.alone = req[r].alone
        /\ t.target = req[r].target /\ t.grants = req[r].grants
    BY <2>1 DEF Transaction
  <2> HIDE DEF t
  <2>6. req'[r] = t /\ users' = users /\ roles' = roles
    BY <1>1, <2>2 DEF DirectoryInv, TypeOK, tables
  <2>7. Stage(r)'
    BY <1>1, <1>3, <2>1, <2>3, <2>5, <2>6 DEF Stage, Running
  <2>8. Updates(r)'
    BY <1>1, <2>1, <2>3, <2>5, <2>6 DEF Updates, Stage
  <2>9. t.made => \A q \in Request \ {r} : req[q].made => req[q].subj # t.subj
    BY <2>5 DEF DirectoryInv, Apart
  <2> QED
    BY <1>1, <2>1, <2>2, <2>4, <2>5, <2>7, <2>8, <2>9, OwnStep
<1> QED
  BY <1>2, <1>3

\* assign_role_to_user inserts the pair or fails.
LEMMA GrantStep ==
    ASSUME DirectoryInv, NEW r \in Request, assign_role_to_user(r)
    PROVE  DirectoryInv'
<1>1. req[r].pc = "grant" /\ UNCHANGED <<tables, last>>
  BY DEF assign_role_to_user
<1>2. CASE "admin" \in roles[req[r].target]
  BY <1>1, <1>2, EndStep DEF assign_role_to_user
<1>3. CASE "admin" \notin roles[req[r].target]
  <2> DEFINE t == [req[r] EXCEPT !.pc = "commit", !.grants = TRUE]
  <2>1. req[r] \in Transaction /\ Stage(r) /\ Running(r)
    BY <1>1, ReqType DEF DirectoryInv, Running
  <2>2. req' = [req EXCEPT ![r] = t]
    BY <1>3 DEF assign_role_to_user, DirectoryInv, TypeOK
  <2>4. t \in Transaction
    BY <2>1 DEF Transaction
  <2>5. /\ t.pc = "commit" /\ t.made = req[r].made /\ t.op = req[r].op
        /\ t.subj = req[r].subj /\ t.alone = req[r].alone
        /\ t.target = req[r].target
    BY <2>1 DEF Transaction
  <2> HIDE DEF t
  <2>6. req'[r] = t /\ users' = users /\ roles' = roles
    BY <1>1, <2>2 DEF DirectoryInv, TypeOK, tables
  <2>7. Stage(r)'
    BY <1>1, <1>3, <2>1, <2>5, <2>6 DEF Stage, Running
  <2>8. Updates(r)'
    BY <1>1, <2>1, <2>5, <2>6 DEF Updates, Stage
  <2>9. t.made => \A q \in Request \ {r} : req[q].made => req[q].subj # t.subj
    BY <2>5 DEF DirectoryInv, Apart
  <2> QED
    BY <1>1, <2>1, <2>2, <2>4, <2>5, <2>7, <2>8, <2>9, OwnStep
<1> QED
  BY <1>2, <1>3

\* The flags that a new transaction notes are truth values.
LEMMA FlagTypes ==
    ASSUME NEW s, NEW S, NEW T, NEW O
    PROVE  /\ (s \notin S \/ s \in T) = TRUE \/ (s \notin S \/ s \in T) = FALSE
           /\ (O = {}) = TRUE \/ (O = {}) = FALSE
  BY Zenon

\* get_by_subject: a new update that overlaps another is not alone, and neither
\* is the other.
LEMMA ArriveStep ==
    ASSUME DirectoryInv, NEW r \in Request, Arrive(r)
    PROVE  DirectoryInv' /\ req[r].pc = "idle"
<1>1. PICK s \in Subject, op \in Ops :
        \E t \in IF op \in {"read", "assign"} THEN Subject ELSE {"none"} :
        \E body \in IF op = "patch" THEN Payloads ELSE {Fresh} :
            get_by_subject(r, s, op, t, body)
  BY DEF Arrive
<1>2. PICK t \in IF op \in {"read", "assign"} THEN Subject ELSE {"none"} :
        \E body \in IF op = "patch" THEN Payloads ELSE {Fresh} :
            get_by_subject(r, s, op, t, body)
  BY <1>1
<1>3. PICK body \in IF op = "patch" THEN Payloads ELSE {Fresh} :
        get_by_subject(r, s, op, t, body)
  BY <1>2
<1>4. /\ op \in AllOps /\ t \in Subject \cup {"none"} /\ body \in Profile
      /\ op \in {"read", "assign"} => t \in Subject
  BY <1>2, <1>3, Rowed, DirectoryAssumption
<1> DEFINE others == IF op = "patch" THEN Patching(s) ELSE {}
           p == IF s \in users THEN "context" ELSE "create"
           u(a, b) == [Idle EXCEPT !.pc = p, !.op = op, !.subj = s, !.target = t,
                          !.body = body, !.on = a, !.alone = b]
           on    == s \notin users \/ s \in active
           alone == others = {}
           n     == u(on, alone)
<1>5. ASSUME NEW a \in BOOLEAN, NEW b \in BOOLEAN
      PROVE  /\ u(a, b) \in Transaction /\ u(a, b).pc = p /\ u(a, b).op = op
             /\ u(a, b).subj = s /\ u(a, b).target = t /\ u(a, b).made = FALSE
             /\ u(a, b).grants = FALSE /\ u(a, b).alone = b
  <2> HIDE DEF p
  <2>1. p \in {"context", "create"}
    BY DEF p
  <2>2. u(a, b) \in Transaction
    BY <1>4, <2>1 DEF Transaction, Idle
  <2>3. /\ u(a, b).pc = p /\ u(a, b).op = op
        /\ u(a, b).subj = s /\ u(a, b).target = t /\ u(a, b).made = FALSE
        /\ u(a, b).grants = FALSE /\ u(a, b).alone = b
    BY DEF Idle
  <2> HIDE DEF u
  <2> QED
    BY <2>2, <2>3
<1>6. /\ req[r].pc = "idle" /\ UNCHANGED <<tables, last>>
      /\ req' = [q \in Request |->
             IF q = r THEN n
             ELSE IF q \in others THEN [req[q] EXCEPT !.alone = FALSE] ELSE req[q]]
  BY <1>3 DEF get_by_subject
<1> HIDE DEF u
<1>7. (on = TRUE \/ on = FALSE) /\ (alone = TRUE \/ alone = FALSE)
  BY FlagTypes, Zenon
<1>8. PICK a \in BOOLEAN, b \in BOOLEAN : n = u(a, b) /\ (b <=> others = {})
  BY <1>7
<1>9. /\ n \in Transaction /\ n.pc = p /\ n.op = op /\ n.subj = s
      /\ n.target = t /\ ~n.made /\ ~n.grants /\ (n.alone <=> others = {})
  BY <1>5, <1>8
<1> HIDE DEF n, p, others
<1>10. UNCHANGED <<users, active, profile, roles, audit, last>>
  BY <1>6 DEF tables
<1>11. /\ req'[r] = n
       /\ \A q \in Request \ {r} :
             req'[q] = IF q \in others THEN [req[q] EXCEPT !.alone = FALSE] ELSE req[q]
  BY <1>6
<1>12. \A q \in Request \ {r} :
          /\ req'[q] \in Transaction /\ req'[q].pc = req[q].pc /\ req'[q].op = req[q].op
          /\ req'[q].subj = req[q].subj /\ req'[q].target = req[q].target
          /\ req'[q].body = req[q].body /\ req'[q].made = req[q].made
          /\ req'[q].seen = req[q].seen /\ req'[q].sets = req[q].sets
          /\ req'[q].grants = req[q].grants
          /\ req'[q].alone => req[q].alone /\ q \notin others
  <2> SUFFICES ASSUME NEW q \in Request \ {r}
               PROVE  /\ req'[q] \in Transaction /\ req'[q].pc = req[q].pc
                      /\ req'[q].op = req[q].op
                      /\ req'[q].subj = req[q].subj /\ req'[q].target = req[q].target
                      /\ req'[q].body = req[q].body /\ req'[q].made = req[q].made
                      /\ req'[q].seen = req[q].seen /\ req'[q].sets = req[q].sets
                      /\ req'[q].grants = req[q].grants
                      /\ req'[q].alone => req[q].alone /\ q \notin others
    OBVIOUS
  <2>1. req[q] \in Transaction
    BY ReqType DEF DirectoryInv
  <2>2. CASE q \in others
    <3> DEFINE w == [req[q] EXCEPT !.alone = FALSE]
    <3>1. /\ w \in Transaction /\ w.pc = req[q].pc /\ w.op = req[q].op
          /\ w.subj = req[q].subj /\ w.target = req[q].target
          /\ w.body = req[q].body /\ w.made = req[q].made
          /\ w.seen = req[q].seen /\ w.sets = req[q].sets
          /\ w.grants = req[q].grants /\ w.alone = FALSE
      BY <2>1 DEF Transaction
    <3>2. req'[q] = w
      BY <1>11, <2>2
    <3> HIDE DEF w
    <3> QED
      BY <3>1, <3>2
  <2>3. CASE q \notin others
    BY <1>11, <2>1, <2>3
  <2> QED
    BY <2>2, <2>3
<1>13. TypeOK'
  <2>1. req' \in [Request -> Transaction]
    BY <1>6, <1>9, <1>11, <1>12
  <2> QED
    BY <1>10, <2>1 DEF DirectoryInv, TypeOK
<1>14. \A q \in Request : Stage(q)' /\ Updates(q)'
  <2>1. Stage(r)' /\ Updates(r)'
    BY <1>4, <1>9, <1>10, <1>11 DEF Stage, Updates, Running, p
  <2>2. ASSUME NEW q \in Request \ {r}
        PROVE  Stage(q)' /\ Updates(q)'
    <3>1. Stage(q) /\ Updates(q)
      BY DEF DirectoryInv
    <3>2. Stage(q)'
      BY <1>10, <1>12, <3>1 DEF Stage, Running
    <3>3. Updates(q)'
      BY <1>10, <1>12, <3>1 DEF Updates
    <3> QED
      BY <3>2, <3>3
  <2> QED
    BY <2>1, <2>2
<1>15. Apart'
  <2> SUFFICES ASSUME NEW x \in Request, NEW y \in Request, x # y
               PROVE  /\ req'[x].made /\ req'[y].made => req'[x].subj # req'[y].subj
                      /\ Running(x)' /\ req'[x].op = "patch" /\ req'[x].alone =>
                            ~(/\ req'[y].op = "patch" /\ req'[y].subj = req'[x].subj
                              /\ req'[y].pc \notin {"idle", "done"})
    BY DEF Apart, Patching
  <2>1. /\ req[x].made /\ req[y].made => req[x].subj # req[y].subj
        /\ Running(x) /\ req[x].op = "patch" /\ req[x].alone =>
              ~(/\ req[y].op = "patch" /\ req[y].subj = req[x].subj
                /\ req[y].pc \notin {"idle", "done"})
    BY DEF DirectoryInv, Apart, Patching
  <2>2. CASE x = r
    BY <1>9, <1>11, <1>12, <2>2 DEF Running, others, Patching
  <2>3. CASE y = r
    BY <1>9, <1>11, <1>12, <2>3 DEF Running, others, Patching
  <2>4. CASE x # r /\ y # r
    BY <1>12, <2>1, <2>4 DEF Running
  <2> QED
    BY <2>2, <2>3, <2>4
<1>16. AdminsAreUsers' /\ UserComplete' /\ AdminsAccounted' /\ UpdateKept'
  BY <1>10 DEF DirectoryInv, AdminsAreUsers, UserComplete, AdminsAccounted, UpdateKept
<1> QED
  BY <1>6, <1>13, <1>14, <1>15, <1>16 DEF DirectoryInv

\* The profile that an update leaves is one, and what was sent if it ran alone.
LEMMA UpdatedProfile ==
    ASSUME DirectoryInv, NEW r \in Request, req[r].pc = "commit", req[r].op = "patch"
    PROVE  Updated(r) \in Profile /\ (req[r].alone => Updated(r) = req[r].body)
<1> DEFINE old == IF req[r].made THEN Fresh ELSE profile[req[r].subj]
<1>1. req[r] \in Transaction /\ Stage(r) /\ Updates(r) /\ Running(r)
  BY ReqType DEF DirectoryInv, Running
<1>2. req[r].body \in Profile
  BY <1>1 DEF Transaction
<1>3. old \in Profile
  <2>1. req[r].subj \in Subject /\ (~req[r].made => req[r].subj \in users)
    BY <1>1 DEF Stage
  <2>2. req[r].subj \in users => profile[req[r].subj] \in Profile
    BY <2>1 DEF DirectoryInv, UserComplete, TypeOK
  <2> QED
    BY <2>1, <2>2, Rowed
<1>4. /\ req[r].alone => req[r].seen = old
      /\ req[r].sets = {c \in Column : req[r].body[c] # req[r].seen[c]}
  BY <1>1 DEF Updates
<1>5. Updated(r) = [c \in Column |-> IF c \in req[r].sets THEN req[r].body[c] ELSE old[c]]
  BY DEF Updated
<1> HIDE DEF old
<1>6. Updated(r) \in Profile
  BY <1>2, <1>3, <1>5 DEF Profile
<1>7. ASSUME req[r].alone
      PROVE  Updated(r) = req[r].body
  <2>1. \A c \in Column : Updated(r)[c] = req[r].body[c]
    BY <1>4, <1>5, <1>7
  <2> QED
    BY <1>2, <1>6, <2>1 DEF Profile
<1> QED
  BY <1>6, <1>7

\* A commit keeps the invariant: users come with all that belongs to them, and
\* administrators with the event that names who appointed them.
LEMMA CommitStep ==
    ASSUME DirectoryInv, NEW r \in Request, Commit(r)
    PROVE  DirectoryInv'
<1> DEFINE s == req[r].subj
           t == req[r].target
           end == [Idle EXCEPT !.pc = "done", !.answer = "ok"]
<1>1. /\ req[r].pc = "commit" /\ req[r] \in Transaction
      /\ Stage(r) /\ Updates(r) /\ Running(r)
  BY ReqType DEF DirectoryInv, Running, Commit
<1>2. /\ s \in Subject /\ req[r].op \in {"patch", "assign"}
      /\ req[r].made <=> s \notin users
      /\ req[r].op = "assign" => "admin" \in roles[s] /\ t \in users
      /\ req[r].grants => req[r].op = "assign"
  BY <1>1 DEF Stage
<1>3. users \subseteq Subject /\ active \subseteq users
  BY DEF DirectoryInv, TypeOK
<1>4. req[r].made => req[r].op = "patch"
  BY <1>2 DEF DirectoryInv, AdminsAreUsers
<1>5. /\ end \in Transaction /\ end.pc = "done" /\ ~end.made /\ ~end.grants /\ end.op = "none"
      /\ req' = [req EXCEPT ![r] = end]
  BY OverType DEF Commit, EndSession, Idle
<1> HIDE DEF end
<1>6. /\ req'[r] = end /\ \A q \in Request \ {r} : req'[q] = req[q]
      /\ req' \in [Request -> Transaction]
  BY <1>5 DEF DirectoryInv, TypeOK
<1>7. /\ users' = IF req[r].made THEN users \cup {s} ELSE users
      /\ active' = IF req[r].made THEN active \cup {s} ELSE active
      /\ audit' = audit \cup Events(r)
  BY DEF Commit
<1>8. \A x \in Subject :
        roles'[x] = roles[x] \cup (IF req[r].made /\ x = s THEN {"user"} ELSE {})
                             \cup (IF req[r].grants /\ x = t THEN {"admin"} ELSE {})
  BY DEF Commit
<1>9. \A x \in Subject :
        /\ "user" \in roles'[x] <=> "user" \in roles[x] \/ (req[r].made /\ x = s)
        /\ "admin" \in roles'[x] <=> "admin" \in roles[x] \/ (req[r].grants /\ x = t)
  BY <1>8
<1>10. \A x \in Subject : profile'[x] = IF req[r].op = "patch" /\ x = s
                                       THEN Updated(r) ELSE profile[x]
  BY DEF Commit, DirectoryInv, TypeOK
<1>11. \A x \in Subject : last'[x] = IF req[r].op = "patch" /\ x = s
                                    THEN IF req[r].alone THEN req[r].body ELSE NoRow
                                    ELSE last[x]
  BY DEF Commit, DirectoryInv, TypeOK
<1>12. users \subseteq users' /\ \A x \in users' : x \in users \/ (req[r].made /\ x = s)
  BY <1>7
<1>13. req[r].op = "patch" => Updated(r) \in Profile
                              /\ (req[r].alone => Updated(r) = req[r].body)
  BY <1>1, UpdatedProfile
<1>14. TypeOK'
  <2>1. users' \subseteq Subject /\ active' \subseteq users'
    BY <1>2, <1>3, <1>7
  <2>2. roles' \in [Subject -> SUBSET Role]
    <3>1. \A x \in Subject : roles'[x] \subseteq Role
      BY <1>8 DEF DirectoryInv, TypeOK, Role
    <3>2. roles' = [x \in Subject |-> roles'[x]]
      BY DEF Commit
    <3> QED
      BY <3>1, <3>2
  <2>3. profile' \in [Subject -> Profile \cup {NoRow}]
    BY <1>2, <1>13 DEF Commit, DirectoryInv, TypeOK
  <2>4. last' \in [Subject -> Profile \cup {NoRow}]
    <3>1. req[r].body \in Profile
      BY <1>1 DEF Transaction
    <3> QED
      BY <1>2, <3>1 DEF Commit, DirectoryInv, TypeOK
  <2>5. audit' \subseteq {"user.bootstrap", "user.profile.updated", "user.role.assigned"}
                             \X Subject \X Subject
    BY <1>2, <1>3, <1>7 DEF Events, DirectoryInv, TypeOK
  <2> QED
    BY <1>6, <2>1, <2>2, <2>3, <2>4, <2>5 DEF TypeOK
<1>15. \A q \in Request : Stage(q)' /\ Updates(q)'
  <2>1. Stage(r)' /\ Updates(r)'
    BY <1>5, <1>6 DEF Stage, Updates, Running
  <2>2. ASSUME NEW q \in Request \ {r}
        PROVE  Stage(q)' /\ Updates(q)'
    <3>1. /\ Stage(q) /\ Updates(q) /\ req'[q] = req[q] /\ Running(q)' = Running(q)
          /\ req[q] \in Transaction
      BY <1>6, ReqType DEF DirectoryInv, Running
    <3>2. req[r].made /\ req[q].made => req[q].subj # s
      BY DEF DirectoryInv, Apart
    <3>3. Running(q) /\ req[q].op = "patch" /\ req[q].alone /\ req[r].op = "patch" =>
            req[q].subj # s
      <4>1. Running(q) /\ req[q].op = "patch" /\ req[q].alone => r \notin Patching(req[q].subj)
        BY DEF DirectoryInv, Apart
      <4> QED
        BY <1>1, <4>1 DEF Patching, Running
    <3>4. Stage(q)'
      BY <1>2, <1>9, <1>12, <3>1, <3>2 DEF Stage, Running
    <3>5. Updates(q)'
      <4>1. req[q].pc \in {"patch", "commit"} => Running(q) /\ req[q].subj \in Subject
        BY <3>1 DEF Running, Stage
      <4> QED
        BY <1>10, <3>1, <3>3, <4>1 DEF Updates
    <3> QED
      BY <3>4, <3>5
  <2> QED
    BY <2>1, <2>2
<1>16. Apart'
  <2> SUFFICES ASSUME NEW p \in Request, NEW q \in Request, p # q
               PROVE  /\ req'[p].made /\ req'[q].made => req'[p].subj # req'[q].subj
                      /\ Running(p)' /\ req'[p].op = "patch" /\ req'[p].alone =>
                            ~(/\ req'[q].op = "patch" /\ req'[q].subj = req'[p].subj
                              /\ req'[q].pc \notin {"idle", "done"})
    BY DEF Apart, Patching
  <2>1. /\ req[p].made /\ req[q].made => req[p].subj # req[q].subj
        /\ Running(p) /\ req[p].op = "patch" /\ req[p].alone =>
              ~(/\ req[q].op = "patch" /\ req[q].subj = req[p].subj
                /\ req[q].pc \notin {"idle", "done"})
    BY DEF DirectoryInv, Apart, Patching
  <2> QED
    BY <1>5, <1>6, <2>1 DEF Running
<1>17. AdminsAreUsers'
  BY <1>2, <1>9, <1>12 DEF DirectoryInv, AdminsAreUsers
<1>18. UserComplete'
  <2> SUFFICES ASSUME NEW x \in Subject
               PROVE  /\ x \in users' <=> profile'[x] # NoRow
                      /\ x \in users' <=> "user" \in roles'[x]
                      /\ x \in users' <=> <<"user.bootstrap", x, x>> \in audit'
    BY DEF UserComplete
  <2>1. /\ x \in users <=> profile[x] # NoRow
        /\ x \in users <=> "user" \in roles[x]
        /\ x \in users <=> <<"user.bootstrap", x, x>> \in audit
    BY DEF DirectoryInv, UserComplete
  <2>2. x \in users' <=> x \in users \/ (req[r].made /\ x = s)
    BY <1>7
  <2>3. x \in users' <=> profile'[x] # NoRow
    BY <1>2, <1>4, <1>10, <1>13, <2>1, <2>2, Rowed
  <2>4. x \in users' <=> "user" \in roles'[x]
    BY <1>9, <2>1, <2>2
  <2>5. x \in users' <=> <<"user.bootstrap", x, x>> \in audit'
    BY <1>7, <2>1, <2>2 DEF Events
  <2> QED
    BY <2>3, <2>4, <2>5
<1>19. AdminsAccounted'
  <2> SUFFICES ASSUME NEW x \in Subject, "admin" \in roles'[x], x \notin Admins
               PROVE  \E a \in Subject : "admin" \in roles'[a]
                                         /\ <<"user.role.assigned", a, x>> \in audit'
    BY DEF AdminsAccounted
  <2>1. CASE "admin" \in roles[x]
    <3>1. PICK a \in Subject : "admin" \in roles[a] /\ <<"user.role.assigned", a, x>> \in audit
      BY <2>1 DEF DirectoryInv, AdminsAccounted
    <3> QED
      BY <1>7, <1>9, <3>1
  <2>2. CASE req[r].grants /\ x = t
    <3>1. <<"user.role.assigned", s, x>> \in audit'
      BY <1>2, <1>7, <2>2 DEF Events
    <3> QED
      BY <1>2, <1>9, <2>2, <3>1
  <2> QED
    BY <1>9, <2>1, <2>2
<1>20. UpdateKept'
  BY <1>10, <1>11, <1>13 DEF DirectoryInv, UpdateKept
<1> QED
  BY <1>14, <1>15, <1>16, <1>17, <1>18, <1>19, <1>20 DEF DirectoryInv

\* Switching a user off changes nothing else.
LEMMA DeactivateStep ==
    ASSUME DirectoryInv, NEW s \in Subject, Deactivate(s)
    PROVE  DirectoryInv'
<1>1. UNCHANGED <<users, profile, roles, audit, req, last>> /\ active' \subseteq users'
  BY DEF Deactivate, DirectoryInv, TypeOK
<1>2. TypeOK' /\ Apart' /\ AdminsAreUsers' /\ UserComplete' /\ AdminsAccounted' /\ UpdateKept'
  BY <1>1 DEF DirectoryInv, TypeOK, Apart, Patching, Running, AdminsAreUsers, UserComplete,
              AdminsAccounted, UpdateKept
<1>3. \A q \in Request : Stage(q)' /\ Updates(q)'
  BY <1>1 DEF DirectoryInv, Stage, Updates, Running
<1> QED
  BY <1>2, <1>3 DEF DirectoryInv

\* Nothing happens.
LEMMA DirectoryStutter ==
    ASSUME DirectoryInv, UNCHANGED vars
    PROVE  DirectoryInv'
<1>1. UNCHANGED <<users, active, profile, roles, audit, req, last>>
  BY DEF vars, tables
<1>2. TypeOK' /\ Apart' /\ AdminsAreUsers' /\ UserComplete' /\ AdminsAccounted' /\ UpdateKept'
  BY <1>1 DEF DirectoryInv, TypeOK, Apart, Patching, Running, AdminsAreUsers, UserComplete,
              AdminsAccounted, UpdateKept
<1>3. \A q \in Request : Stage(q)' /\ Updates(q)'
  BY <1>1 DEF DirectoryInv, Stage, Updates, Running
<1> QED
  BY <1>2, <1>3 DEF DirectoryInv

-----------------------------------------------------------------------------
(* The service *)

\* A statement of a request, or its end, keeps the directory in order and is
\* one of a request that has come.
LEMMA StatementStep ==
    ASSUME DirectoryInv, NEW r \in Request, Statement(r) \/ Die(r)
    PROVE  /\ DirectoryInv'
           /\ \A q \in Request : req'[q].pc # "idle" => req[q].pc # "idle"
<1>1. DirectoryInv'
  <2>1. CASE Die(r)
    BY <2>1, EndStep DEF Die
  <2> QED
    BY <2>1, BootstrapStep, ContextStep, UpdateStep, AssignStep, GrantStep, CommitStep
       DEF Statement
<1>2. req[r].pc # "idle"
  BY DEF Statement, Die, bootstrap_from_subject, get_current_context, update_own_profile,
         assign_role, assign_role_to_user, Commit
<1>3. \A q \in Request \ {r} : req'[q] = req[q]
  BY DEF Statement, Die, bootstrap_from_subject, get_current_context, update_own_profile,
         assign_role, assign_role_to_user, Commit, EndSession, DirectoryInv, TypeOK
<1> QED
  BY <1>1, <1>2, <1>3

\* Every step of the service keeps its invariant.
LEMMA ServiceStep ==
    ASSUME ServiceInv, [ServiceNext]_serviceVars
    PROVE  ServiceInv'
<1> USE DEF ServiceInv
<1>1. CASE UNCHANGED serviceVars
  <2>1. UNCHANGED vars /\ UNCHANGED seedVars /\ req' = req
    BY <1>1 DEF serviceVars, vars
  <2> QED
    BY <2>1, DirectoryStutter, SeedUndisturbed
<1>2. CASE AllQuiet
  <2>1. UNCHANGED vars /\ UNCHANGED seedVars /\ req' = req
    BY <1>2 DEF AllQuiet, AllDone, Seed!AllUp, Seed!vars, seedVars, vars
  <2> QED
    BY <2>1, DirectoryStutter, SeedUndisturbed
<1>3. ASSUME NEW i \in Instance, Seed!Run(i) \/ Seed!Die(i), UNCHANGED vars
      PROVE  ServiceInv'
  BY <1>3, DirectoryStutter, SeedStep
<1>4. ASSUME NEW s \in Subject, Deactivate(s), UNCHANGED seedVars
      PROVE  ServiceInv'
  <2>1. req' = req
    BY <1>4 DEF Deactivate
  <2> QED
    BY <1>4, <2>1, DeactivateStep, SeedUndisturbed
<1>5. ASSUME NEW r \in Request, Handle(r), UNCHANGED seedVars
      PROVE  ServiceInv'
  <2>1. CASE Serving /\ Arrive(r)
    BY <1>5, <2>1, ArriveStep, SeedUndisturbed
  <2>2. CASE Statement(r) \/ Die(r)
    BY <1>5, <2>2, StatementStep, SeedUndisturbed
  <2> QED
    BY <1>5, <2>1, <2>2 DEF Handle
<1> QED
  BY <1>1, <1>2, <1>3, <1>4, <1>5 DEF ServiceNext

\* However starts, requests, failures and restarts interleave, the invariant of
\* the service holds.
THEOREM Invariance == ServiceSpec => []ServiceInv
<1>1. ServiceInit => ServiceInv
  BY InitInv, SeedInit DEF ServiceInit, ServiceInv
<1>2. ServiceInv /\ [ServiceNext]_serviceVars => ServiceInv'
  BY ServiceStep
<1> QED
  BY <1>1, <1>2, PTL DEF ServiceSpec

\* Every table, transaction and instance keeps its type.
THEOREM TypeCorrect == ServiceSpec => []ServiceTypeOK
<1>1. ServiceInv => ServiceTypeOK
  BY DEF ServiceInv, DirectoryInv, SeedInv, ServiceTypeOK
<1> QED
  BY <1>1, Invariance, PTL

\* However the seeding of the instances (ensure_seed_data) overlaps and fails,
\* a request finds the roles and permissions whole.
THEOREM RolesAreWhole == ServiceSpec => []RolesWhole
<1>1. ServiceInv => RolesWhole
  BY WholeFollows DEF ServiceInv
<1> QED
  BY <1>1, Invariance, PTL

\* However first requests of a user (bootstrap_from_subject) overlap or fail, a
\* user that exists has its profile, its role and its audit event.
THEOREM UsersAreComplete == ServiceSpec => []UserComplete
<1>1. ServiceInv => UserComplete
  BY DEF ServiceInv, DirectoryInv
<1> QED
  BY <1>1, Invariance, PTL

\* The audit table names who made an administrator (assign_role), whatever other
\* assignments run at the same time.
THEOREM AdminsAreAccounted == ServiceSpec => []AdminsAccounted
<1>1. ServiceInv => AdminsAccounted
  BY DEF ServiceInv, DirectoryInv
<1> QED
  BY <1>1, Invariance, PTL

\* An update of a profile (update_own_profile) that no other overlaps leaves
\* what was sent, although it writes only the columns that differ from what it
\* loaded before.
THEOREM UpdatesAreKept == ServiceSpec => []UpdateKept
<1>1. ServiceInv => UpdateKept
  BY DEF ServiceInv, DirectoryInv
<1> QED
  BY <1>1, Invariance, PTL
=============================================================================
