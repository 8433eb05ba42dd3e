-------------------------- MODULE CredentialsProofs --------------------------
(***************************************************************************)
(* The invariants of Credentials for any number of requests, accounts and  *)
(* codes.  Most statements write nothing but the locks of their own        *)
(* transaction: lemma OwnStep reduces them to what they leave in their own *)
(* record.  The four commits are proved conjunct by conjunct.              *)
(***************************************************************************)
EXTENDS Credentials, TLAPS, FiniteSetTheorems

\* What the invariant says of one request.
OfRequest(r) == Control(r) /\ Holds(r) /\ Retires(r) /\ Revokes(r)

\* No other transaction holds a row that r holds.
OwnLocks(r) ==
    \A q \in Request \ {r} :
        /\ req[r].held \cap req[q].held = {}
        /\ req[r].user /\ req[q].user => req[r].acct # req[q].acct

\* The markers of the model are no requests, codes or accounts.
LEMMA Markers ==
    /\ Nobody \notin Request /\ Before \notin Request /\ Nobody # Before
    /\ "none" \notin Code /\ "none" \notin Account
    /\ NoRow \notin CodeRow
<1>1. NoRow \notin CodeRow
  BY CredentialsAssumption DEF NoRow, CodeRow
<1> QED
  BY <1>1, CredentialsAssumption DEF Nobody, Before

\* Initially no request has come, and no code and no session is there.
LEMMA InitInv == Init => Inv
<1> SUFFICES ASSUME Init PROVE Inv
  OBVIOUS
<1>1. Idle \in Transaction
  BY CredentialsAssumption DEF Idle, Transaction, AllKinds
<1>2. TypeOK
  BY <1>1, CredentialsAssumption DEF Init, TypeOK
<1>3. \A r \in Request : req[r] = Idle
  BY DEF Init
<1>4. ASSUME NEW r \in Request PROVE Control(r) /\ Holds(r) /\ Retires(r) /\ Revokes(r)
  <2>0. req[r].pc = "idle" /\ req[r].answer = "none" /\ ~req[r].user
    BY <1>3 DEF Idle
  <2>1. Control(r)
    BY <1>3, <2>0 DEF Control
  <2>2. Holds(r) /\ Retires(r) /\ Revokes(r)
    BY <1>3 DEF Holds, Retires, Revokes, Idle
  <2> QED
    BY <2>1, <2>2
<1>5. Exclusive /\ ReplacedRefused /\ OneRegistration
  BY <1>3 DEF Exclusive, ReplacedRefused, OneRegistration, Idle
<1>6. Settled /\ ResetEndsSessions
  BY DEF Init, Settled, ResetEndsSessions
<1> QED
  BY <1>2, <1>4, <1>5, <1>6 DEF Inv

\* A step that writes no password, code or session and leaves the other
\* requests alone keeps the invariant if it keeps it for its own request.
LEMMA OwnStep ==
    ASSUME Inv, NEW r \in Request,
           req[r].pc # "done", req'[r].answer # "ok",
           req' \in [Request -> Transaction],
           \A q \in Request \ {r} : req'[q] = req[q],
           blocked' \in [Account -> BOOLEAN],
           UNCHANGED <<pw, codes, live, hist>>,
           OfRequest(r)', OwnLocks(r)'
    PROVE  Inv'
<1> USE DEF hist
<1>1. TypeOK'
  BY DEF Inv, TypeOK
<1>2. \A a : Active(a)' = Active(a)
  BY DEF Active
<1>3. ASSUME NEW q \in Request, q # r PROVE OfRequest(q)'
  <2>1. req'[q] = req[q] /\ Control(q) /\ Holds(q) /\ Retires(q) /\ Revokes(q)
    BY <1>3 DEF Inv
  <2>2. Control(q)'
    BY <2>1 DEF Control
  <2>3. Holds(q)'
    BY <1>2, <2>1 DEF Holds
  <2>4. Retires(q)'
    BY <2>1 DEF Retires
  <2>5. req[q].open \subseteq Request
    BY DEF Inv, TypeOK, Transaction
  <2>6. Revokes(q)'
    BY <2>1, <2>5 DEF Revokes
  <2> QED
    BY <2>2, <2>3, <2>4, <2>6 DEF OfRequest
<1>7. Exclusive'
  BY DEF Inv, Exclusive, OwnLocks
<1>8. \A c \in Code : \A q \in used[c] : q \in Request /\ q # r
  BY DEF Inv, Settled, TypeOK
<1>9. \A q \in live \cup ended : q \in Request /\ q # r
  BY DEF Inv, Settled, TypeOK
<1>10. Settled'
  BY <1>8, <1>9 DEF Inv, Settled
<1>11. ReplacedRefused' /\ ResetEndsSessions'
  BY DEF Inv, ReplacedRefused, ResetEndsSessions
<1>12. OneRegistration'
  BY <1>8 DEF Inv, OneRegistration
<1> QED
  BY <1>1, <1>3, <1>7, <1>10, <1>11, <1>12 DEF Inv, OfRequest

\* Membership has one of two values.
LEMMA MembershipIsBoolean ==
    ASSUME NEW x, NEW S PROVE (x \in S) = TRUE \/ (x \in S) = FALSE
  OBVIOUS

\* A request comes: it holds nothing, and what it notes is history.
LEMMA BeginStep ==
    ASSUME Inv, NEW r \in Request, NEW a \in Account, NEW kind, NEW c, NEW pc,
           \/ kind = "register" /\ pc = "insert user" /\ c = "none"
           \/ kind = "login" /\ pc = "issue" /\ c = "none"
           \/ kind = "forgot" /\ pc = "mark" /\ c = "none"
           \/ kind = "reset" /\ pc = "find" /\ c \in Code,
           Begin(r, kind, a, c, pc)
    PROVE  Inv'
<1> DEFINE older == {d \in Code : codes[d] # NoRow /\ codes[d].owner = a}
           u(late) == [Idle EXCEPT !.pc = pc, !.kind = kind, !.acct = a, !.code = c,
                          !.hash = pw[a], !.late = late, !.older = older,
                          !.open = SessionsOf(a)]
           t == u(c \in replaced)
<1>1. req[r].pc = "idle" /\ req' = [req EXCEPT ![r] = t] /\ UNCHANGED <<tables, hist>>
  BY DEF Begin
<1>2. req \in [Request -> Transaction] /\ replaced \subseteq Code /\ live \subseteq Request
  BY DEF Inv, TypeOK
<1>3. /\ t.pc = pc /\ t.kind = kind /\ t.acct = a /\ t.code = c /\ t.snap = {}
      /\ t.held = {} /\ t.user = FALSE /\ t.revoke = {} /\ t.answer = "none"
      /\ t.late = (c \in replaced) /\ t.older = older /\ t.open = SessionsOf(a)
  BY DEF Idle
<1>4. t \in Transaction
  <2>1. pw[a] \in Request \cup {Nobody, Before} /\ SessionsOf(a) \subseteq Request
    BY <1>2 DEF Inv, TypeOK, SessionsOf
  <2>2. older \in SUBSET Code
    OBVIOUS
  <2> HIDE DEF older
  <2>3. \A late \in BOOLEAN : u(late) \in Transaction
    BY <2>1, <2>2 DEF Idle, Transaction, AllKinds
  <2>4. (c \in replaced) = TRUE \/ (c \in replaced) = FALSE
    BY MembershipIsBoolean, Zenon
  <2> HIDE DEF u
  <2> QED
    BY <2>3, <2>4
<1> HIDE DEF t
<1>5. req'[r] = t /\ req' \in [Request -> Transaction]
  BY <1>1, <1>2, <1>4
<1>6. Control(r)'
  BY <1>3, <1>5 DEF Control
<1>7. Holds(r)'
  BY <1>3, <1>5 DEF Holds
<1>8. Retires(r)'
  BY <1>1, <1>2, <1>3, <1>5, Markers DEF Retires, tables, hist
<1>9. Revokes(r)'
  <2>1. \A q \in SessionsOf(a) : q \in Request /\ req[q].pc = "done" /\ req[q].acct = a
    BY <1>2 DEF Inv, Settled, SessionsOf
  <2>2. \A q \in SessionsOf(a) : req'[q] = req[q]
    BY <1>1, <1>2, <2>1
  <2>3. req'[r].open = SessionsOf(a) /\ req'[r].acct = a /\ req'[r].pc # "commit"
    BY <1>3, <1>5
  <2> QED
    BY <2>1, <2>2, <2>3 DEF Revokes
<1>10. OwnLocks(r)'
  BY <1>3, <1>5 DEF OwnLocks
<1>11. \A q \in Request \ {r} : req'[q] = req[q]
  BY <1>1, <1>2
<1>12. blocked' \in [Account -> BOOLEAN]
  BY <1>1 DEF Inv, TypeOK, tables
<1> QED
  BY <1>1, <1>3, <1>5, <1>6, <1>7, <1>8, <1>9, <1>10, <1>11, <1>12, OwnStep
     DEF OfRequest, tables

\* A request is refused before it reads a code.
LEMMA RefuseStep ==
    ASSUME Inv, NEW r \in Request, NEW a \in Account, NEW kind \in Kinds,
           Refuse(r, kind, a)
    PROVE  Inv'
<1> DEFINE answer == IF pw[a] = Nobody /\ kind = "forgot" THEN "unknown" ELSE "refused"
           t == [Idle EXCEPT !.pc = "done", !.kind = kind, !.acct = a, !.answer = answer]
<1>1. req[r].pc = "idle" /\ req' = [req EXCEPT ![r] = t] /\ UNCHANGED <<tables, hist>>
  BY DEF Refuse
<1>2. req \in [Request -> Transaction]
  BY DEF Inv, TypeOK
<1>3. /\ t.pc = "done" /\ t.acct = a /\ t.held = {} /\ t.user = FALSE
      /\ t.answer = answer /\ t.late = FALSE /\ t.older = {} /\ t.open = {}
  BY DEF Idle
<1>4. t \in Transaction
  BY CredentialsAssumption DEF Idle, Transaction, AllKinds
<1> HIDE DEF t
<1>5. req'[r] = t /\ req' \in [Request -> Transaction]
  BY <1>1, <1>2, <1>4
<1>6. OfRequest(r)' /\ OwnLocks(r)'
  BY <1>3, <1>5 DEF OfRequest, Control, Holds, Retires, Revokes, OwnLocks
<1>7. blocked' \in [Account -> BOOLEAN]
  BY <1>1 DEF Inv, TypeOK, tables
<1>8. \A q \in Request \ {r} : req'[q] = req[q]
  BY <1>1, <1>2
<1> QED
  BY <1>1, <1>3, <1>5, <1>6, <1>7, <1>8, OwnStep DEF tables

\* What the end of a transaction leaves in its record.
LEMMA EndRecord ==
    ASSUME Inv, NEW r \in Request, NEW answer \in {"none", "ok", "refused", "error"},
           EndSession(r, answer)
    PROVE  /\ req' \in [Request -> Transaction]
           /\ \A q \in Request \ {r} : req'[q] = req[q]
           /\ req'[r].pc = "done" /\ req'[r].answer = answer
           /\ req'[r].held = {} /\ req'[r].user = FALSE
           /\ req'[r].kind = req[r].kind /\ req'[r].acct = req[r].acct
           /\ req'[r].code = req[r].code /\ req'[r].late = req[r].late
           /\ req'[r].older = req[r].older /\ req'[r].open = req[r].open
<1>1. req \in [Request -> Transaction]
  BY DEF Inv, TypeOK
<1>2. req[r] \in Transaction
  BY <1>1
<1> DEFINE t == [req[r] EXCEPT !.pc = "done", !.answer = answer, !.snap = {},
                               !.held = {}, !.user = FALSE, !.revoke = {}]
<1>3. req' = [req EXCEPT ![r] = t]
  BY <1>1 DEF EndSession
<1>4. t \in Transaction
  BY <1>2 DEF Transaction
<1>5. /\ t.pc = "done" /\ t.answer = answer /\ t.held = {} /\ t.user = FALSE
      /\ t.kind = req[r].kind /\ t.acct = req[r].acct /\ t.code = req[r].code
      /\ t.late = req[r].late /\ t.older = req[r].older /\ t.open = req[r].open
  BY <1>2 DEF Transaction
<1> HIDE DEF t
<1> QED
  BY <1>1, <1>3, <1>4, <1>5

\* A transaction that is rolled back leaves no trace.
LEMMA RollBack ==
    ASSUME Inv, NEW r \in Request, NEW answer \in {"none", "refused", "error"},
           req[r].pc \notin {"idle", "done"},
           EndSession(r, answer),
           blocked' \in [Account -> BOOLEAN], UNCHANGED <<pw, codes, live, hist>>
    PROVE  Inv'
<1>1. Control(r) /\ Retires(r) /\ Revokes(r)
  BY DEF Inv
<1>e. /\ req' \in [Request -> Transaction]
      /\ \A q \in Request \ {r} : req'[q] = req[q]
      /\ req'[r].pc = "done" /\ req'[r].answer = answer
      /\ req'[r].held = {} /\ ~req'[r].user
      /\ req'[r].kind = req[r].kind /\ req'[r].acct = req[r].acct
      /\ req'[r].code = req[r].code /\ req'[r].late = req[r].late
      /\ req'[r].older = req[r].older /\ req'[r].open = req[r].open
  BY EndRecord
<1>2. Control(r)' /\ Holds(r)' /\ OwnLocks(r)'
  BY <1>1, <1>e DEF Control, Holds, OwnLocks
<1>3. Retires(r)'
  BY <1>1, <1>e DEF Retires, hist
<1>4. \A q \in req[r].open : q \in Request /\ q # r
  BY <1>1 DEF Inv, TypeOK, Transaction, Revokes
<1>5. Revokes(r)'
  BY <1>1, <1>4, <1>e DEF Revokes
<1> QED
  BY <1>2, <1>3, <1>5, <1>e, OwnStep DEF OfRequest

-----------------------------------------------------------------------------

\* What the invariant says of the request that takes the step.
LEMMA OwnInv ==
    ASSUME Inv, NEW r \in Request
    PROVE  /\ req \in [Request -> Transaction] /\ req[r] \in Transaction
           /\ blocked \in [Account -> BOOLEAN]
           /\ OfRequest(r) /\ OwnLocks(r)
           /\ req[r].pc # "done" => \A q \in req[r].open : q \in Request /\ q # r
  BY DEF Inv, TypeOK, OfRequest, OwnLocks, Exclusive, Transaction, Revokes

\* The kinds of requests that take a step, and whether it has the users row.
Proper(t) ==
    /\ t.pc = "insert" \/ t.pc = "mark" \/ t.pc = "send" => t.kind = "forgot"
    /\ t.pc = "change" \/ t.pc = "fail" => t.kind = "reset"
    /\ t.pc = "commit" => t.kind \in {"register", "forgot", "reset"}
    /\ t.user <=> t.pc = "commit" /\ t.kind \in {"register", "reset"}

\* A statement after which the transaction goes on: the request is the same,
\* and the invariant holds of the rows it has and has seen.
LEMMA Advance ==
    ASSUME Inv, NEW r \in Request, NEW t \in Transaction,
           req[r].pc \notin {"idle", "done"},
           req' = [req EXCEPT ![r] = t], UNCHANGED <<tables, hist>>,
           t.pc \in {"mark", "insert", "send", "fail", "change", "commit"},
           Proper(t),
           t.kind = req[r].kind, t.acct = req[r].acct, t.answer = req[r].answer,
           t.late = req[r].late, t.older = req[r].older, t.open = req[r].open,
           t.kind = "reset" => t.code = req[r].code,
           Holds(r)', OwnLocks(r)',
           t.pc = "mark" /\ t.snap # {} => \A c \in t.older : codes[c].used \/ c \in t.snap,
           t.kind = "forgot" /\ t.pc \in {"insert", "send", "commit"} =>
               \A c \in t.older : codes[c].used \/ c \in t.held,
           t.pc = "commit" /\ t.kind = "reset" => t.open \cap live \subseteq t.revoke
    PROVE  Inv'
<1>1. /\ req \in [Request -> Transaction] /\ req[r] \in Transaction
      /\ blocked \in [Account -> BOOLEAN]
      /\ Control(r) /\ Retires(r) /\ Revokes(r)
      /\ \A q \in req[r].open : q \in Request /\ q # r
  BY OwnInv DEF OfRequest
<1>2. /\ req'[r] = t /\ req' \in [Request -> Transaction]
      /\ \A q \in Request \ {r} : req'[q] = req[q]
      /\ UNCHANGED <<pw, codes, live, hist>> /\ blocked' = blocked
  BY <1>1 DEF tables
<1>3. Control(r)'
  BY <1>1, <1>2 DEF Control, Proper
<1>4. Retires(r)'
  BY <1>1, <1>2 DEF Retires, hist
<1>5. Revokes(r)'
  BY <1>1, <1>2 DEF Revokes
<1>6. req[r].pc # "done" /\ req'[r].answer # "ok"
  BY <1>1, <1>2 DEF Control
<1> QED
  BY <1>1, <1>2, <1>3, <1>4, <1>5, <1>6, OwnStep DEF OfRequest

\* The INSERT locks an address that is free and that no other transaction has
\* inserted.
LEMMA InsertUserStep == ASSUME Inv, NEW r \in Request, InsertUser(r) PROVE Inv'
<1>1. /\ req \in [Request -> Transaction] /\ req[r] \in Transaction
      /\ blocked \in [Account -> BOOLEAN] /\ OwnLocks(r)
      /\ Control(r) /\ Holds(r)
  BY OwnInv DEF OfRequest
<1>2. CASE pw[req[r].acct] = Nobody
  <2> DEFINE t == [req[r] EXCEPT !.pc = "commit", !.user = TRUE]
  <2>1. req' = [req EXCEPT ![r] = t] /\ UNCHANGED <<tables, hist>> /\ UserFree(r)
    BY <1>1, <1>2 DEF InsertUser
  <2>2. t \in Transaction
    BY <1>1 DEF Transaction
  <2>3. /\ t.pc = "commit" /\ t.user /\ t.answer = req[r].answer /\ t.kind = req[r].kind
        /\ t.acct = req[r].acct /\ t.code = req[r].code /\ t.held = req[r].held
        /\ t.late = req[r].late /\ t.older = req[r].older /\ t.open = req[r].open
    BY <1>1 DEF Transaction
  <2> HIDE DEF t
  <2>4. req'[r] = t /\ \A q \in Request \ {r} : req'[q] = req[q]
    BY <1>1, <2>1, <2>2
  <2>5. req[r].pc = "insert user" /\ req[r].kind = "register"
    BY <1>1 DEF InsertUser, Control
  <2>6. Holds(r)'
    BY <1>1, <1>2, <2>1, <2>3, <2>4, <2>5 DEF Holds, Active, tables
  <2>7. OwnLocks(r)'
    BY <1>1, <2>1, <2>3, <2>4 DEF OwnLocks, UserFree
  <2>8. Proper(t)
    BY <2>3, <2>5 DEF Proper
  <2> QED
    BY <2>1, <2>2, <2>3, <2>5, <2>6, <2>7, <2>8, Advance
<1>3. CASE pw[req[r].acct] # Nobody
  BY <1>1, <1>3, RollBack DEF InsertUser, tables
<1> QED
  BY <1>2, <1>3

\* The UPDATE is about every code the account had when the request came and
\* that is not used.
LEMMA SnapshotStep == ASSUME Inv, NEW r \in Request, Snapshot(r) PROVE Inv'
<1>1. /\ req \in [Request -> Transaction] /\ req[r] \in Transaction /\ OwnLocks(r)
      /\ Control(r) /\ Holds(r) /\ Retires(r)
  BY OwnInv DEF OfRequest
<1> DEFINE A == Active(req[r].acct)
           t == [req[r] EXCEPT !.snap = A, !.pc = IF A = {} THEN "insert" ELSE "mark"]
<1>2. /\ req[r].pc = "mark" /\ req' = [req EXCEPT ![r] = t] /\ UNCHANGED <<tables, hist>>
      /\ req[r].kind = "forgot"
  BY <1>1 DEF Snapshot, Control
<1>3. t \in Transaction
  BY <1>1 DEF Transaction, Active
<1>4. /\ t.pc = (IF A = {} THEN "insert" ELSE "mark") /\ t.snap = A
      /\ t.user = req[r].user /\ t.answer = req[r].answer /\ t.kind = req[r].kind
      /\ t.acct = req[r].acct /\ t.held = req[r].held /\ t.code = req[r].code
      /\ t.late = req[r].late /\ t.older = req[r].older /\ t.open = req[r].open
  BY <1>1 DEF Transaction
<1>5. \A c \in req[r].older : codes[c].used \/ c \in A
  BY <1>1 DEF Retires, Active, Transaction
<1> HIDE DEF t, A
<1>6. req'[r] = t /\ \A q \in Request \ {r} : req'[q] = req[q]
  BY <1>1, <1>2, <1>3
<1>7. Holds(r)'
  BY <1>1, <1>2, <1>4, <1>6 DEF Holds, Active, tables
<1>8. OwnLocks(r)'
  BY <1>1, <1>4, <1>6 DEF OwnLocks
<1>9. Proper(t)
  BY <1>1, <1>2, <1>4 DEF Proper, Control
<1> QED
  BY <1>2, <1>3, <1>4, <1>5, <1>7, <1>8, <1>9, Advance

\* The rows the UPDATE is about and that are still active are locked by no other.
LEMMA MarkStep ==
    ASSUME Inv, NEW r \in Request, mark_active_for_user_used(r) PROVE Inv'
<1>1. /\ req \in [Request -> Transaction] /\ req[r] \in Transaction /\ OwnLocks(r)
      /\ Control(r) /\ Holds(r) /\ Retires(r)
  BY OwnInv DEF OfRequest
<1> DEFINE H == req[r].snap \cap Active(req[r].acct)
           t == [req[r] EXCEPT !.pc = "insert", !.held = H]
<1>2. /\ req[r].pc = "mark" /\ req' = [req EXCEPT ![r] = t] /\ UNCHANGED <<tables, hist>>
      /\ req[r].kind = "forgot" /\ req[r].snap # {}
      /\ \A c \in req[r].snap : CodeFree(r, c)
  BY <1>1 DEF mark_active_for_user_used, Control
<1>3. t \in Transaction
  BY <1>1 DEF Transaction, Active
<1>4. /\ t.pc = "insert" /\ t.held = H
      /\ t.user = req[r].user /\ t.answer = req[r].answer /\ t.kind = req[r].kind
      /\ t.acct = req[r].acct /\ t.late = req[r].late /\ t.older = req[r].older
      /\ t.open = req[r].open
  BY <1>1 DEF Transaction
<1>5. \A c \in req[r].older : codes[c].used \/ c \in H
  BY <1>1, <1>2 DEF Retires, Active, Transaction
<1> HIDE DEF t
<1>6. req'[r] = t /\ \A q \in Request \ {r} : req'[q] = req[q]
  BY <1>1, <1>2, <1>3
<1>7. Holds(r)'
  BY <1>2, <1>4, <1>6 DEF Holds, Active, tables
<1>8. OwnLocks(r)'
  <2>1. \A q \in Request \ {r} : H \cap req[q].held = {}
    BY <1>2 DEF CodeFree
  <2>2. ~t.user
    BY <1>1, <1>2, <1>4 DEF Control
  <2> HIDE DEF H
  <2> QED
    BY <1>4, <1>6, <2>1, <2>2 DEF OwnLocks
<1>9. Proper(t)
  BY <1>1, <1>2, <1>4 DEF Proper, Control
<1> HIDE DEF H
<1> QED
  BY <1>2, <1>3, <1>4, <1>5, <1>7, <1>8, <1>9, Advance

\* The INSERT of a code locks a hash that is not in the table and that no other
\* transaction has inserted.
LEMMA CreateStep ==
    ASSUME Inv, NEW r \in Request, NEW c \in Code, create(r, c) PROVE Inv'
<1>1. /\ req \in [Request -> Transaction] /\ req[r] \in Transaction /\ OwnLocks(r)
      /\ blocked \in [Account -> BOOLEAN]
      /\ Control(r) /\ Holds(r) /\ Retires(r)
  BY OwnInv DEF OfRequest
<1>2. CASE codes[c] = NoRow
  <2> DEFINE t == [req[r] EXCEPT !.pc = "send", !.code = c, !.held = req[r].held \cup {c}]
  <2>1. /\ req[r].pc = "insert" /\ req' = [req EXCEPT ![r] = t]
        /\ UNCHANGED <<tables, hist>> /\ req[r].kind = "forgot" /\ CodeFree(r, c)
    BY <1>1, <1>2 DEF create, Control
  <2>2. t \in Transaction
    BY <1>1 DEF Transaction
  <2>3. /\ t.pc = "send" /\ t.code = c /\ t.held = req[r].held \cup {c}
        /\ t.user = req[r].user /\ t.answer = req[r].answer /\ t.kind = req[r].kind
        /\ t.acct = req[r].acct /\ t.late = req[r].late /\ t.older = req[r].older
        /\ t.open = req[r].open
    BY <1>1 DEF Transaction
  <2> HIDE DEF t
  <2>4. req'[r] = t /\ \A q \in Request \ {r} : req'[q] = req[q]
    BY <1>1, <2>1, <2>2
  <2>5. \A d \in req[r].held : d \in Active(req[r].acct)
    BY <1>1, <2>1 DEF Holds
  <2>6. Holds(r)'
    BY <1>2, <2>1, <2>3, <2>4, <2>5 DEF Holds, Active, tables
  <2>7. ~t.user
    BY <1>1, <2>1, <2>3 DEF Control
  <2>8. OwnLocks(r)'
    BY <1>1, <2>1, <2>3, <2>4, <2>7 DEF OwnLocks, CodeFree
  <2>9. Proper(t)
    BY <2>1, <2>3, <2>7 DEF Proper
  <2>10. \A d \in t.older : codes[d].used \/ d \in t.held
    BY <1>1, <2>1, <2>3 DEF Retires
  <2> QED
    BY <2>1, <2>2, <2>3, <2>6, <2>8, <2>9, <2>10, Advance
<1>3. CASE codes[c] # NoRow
  BY <1>1, <1>3, RollBack DEF create, tables
<1> QED
  BY <1>2, <1>3

\* The mail is sent between the statements and the commit.
LEMMA SendStep == ASSUME Inv, NEW r \in Request, send(r) PROVE Inv'
<1>1. /\ req \in [Request -> Transaction] /\ req[r] \in Transaction /\ OwnLocks(r)
      /\ Control(r) /\ Holds(r) /\ Retires(r)
  BY OwnInv DEF OfRequest
<1> DEFINE t == [req[r] EXCEPT !.pc = "commit"]
<1>2. /\ req[r].pc = "send" /\ req' = [req EXCEPT ![r] = t] /\ UNCHANGED <<tables, hist>>
      /\ req[r].kind = "forgot"
  BY <1>1 DEF send, Control
<1>3. t \in Transaction
  BY <1>1 DEF Transaction
<1>4. /\ t.pc = "commit" /\ t.code = req[r].code /\ t.held = req[r].held
      /\ t.user = req[r].user /\ t.answer = req[r].answer /\ t.kind = req[r].kind
      /\ t.acct = req[r].acct /\ t.late = req[r].late /\ t.older = req[r].older
      /\ t.open = req[r].open
  BY <1>1 DEF Transaction
<1> HIDE DEF t
<1>5. req'[r] = t /\ \A q \in Request \ {r} : req'[q] = req[q]
  BY <1>1, <1>2, <1>3
<1>6. Holds(r)'
  BY <1>1, <1>2, <1>4, <1>5 DEF Holds, Active, tables
<1>7. OwnLocks(r)'
  BY <1>1, <1>4, <1>5 DEF OwnLocks
<1>8. Proper(t)
  BY <1>1, <1>2, <1>4 DEF Proper, Control
<1>9. \A c \in t.older : codes[c].used \/ c \in t.held
  BY <1>1, <1>2, <1>4 DEF Retires
<1> QED
  BY <1>2, <1>3, <1>4, <1>6, <1>7, <1>8, <1>9, Advance

\* The row is locked before used_at is looked at.
LEMMA FindStep ==
    ASSUME Inv, NEW r \in Request, get_active_for_user_by_hash(r) PROVE Inv'
<1>1. /\ req \in [Request -> Transaction] /\ req[r] \in Transaction /\ OwnLocks(r)
      /\ Control(r) /\ Holds(r)
  BY OwnInv DEF OfRequest
<1> DEFINE c == req[r].code
           found == c \in Active(req[r].acct)
           H == IF found THEN {c} ELSE {}
           pc == IF found /\ ~codes[c].expired THEN "change" ELSE "fail"
           t == [req[r] EXCEPT !.held = H, !.pc = pc]
<1>2. /\ req[r].pc = "find" /\ req' = [req EXCEPT ![r] = t] /\ UNCHANGED <<tables, hist>>
      /\ req[r].kind = "reset" /\ c \in Code /\ (found => CodeFree(r, c))
  BY <1>1 DEF get_active_for_user_by_hash, Control, Holds
<1>3. pc \in {"change", "fail"} /\ H \subseteq Code /\ H \subseteq Active(req[r].acct)
      /\ (pc = "change" => c \in H) /\ \A d \in H : CodeFree(r, d)
  BY <1>2
<1> HIDE DEF H, pc, found
<1>4. t \in Transaction
  BY <1>1, <1>3 DEF Transaction
<1>5. /\ t.pc = pc /\ t.code = c /\ t.held = H
      /\ t.user = req[r].user /\ t.answer = req[r].answer /\ t.kind = req[r].kind
      /\ t.acct = req[r].acct /\ t.late = req[r].late /\ t.older = req[r].older
      /\ t.open = req[r].open
  BY <1>1 DEF Transaction
<1> HIDE DEF t
<1>6. req'[r] = t /\ \A q \in Request \ {r} : req'[q] = req[q]
  BY <1>1, <1>2, <1>4
<1>7. Holds(r)'
  BY <1>2, <1>3, <1>5, <1>6 DEF Holds, Active, tables
<1>8. ~t.user
  BY <1>1, <1>2, <1>5 DEF Control
<1>9. OwnLocks(r)'
  BY <1>3, <1>5, <1>6, <1>8 DEF OwnLocks, CodeFree
<1>10. Proper(t)
  BY <1>2, <1>3, <1>5, <1>8 DEF Proper
<1> QED
  BY <1>2, <1>3, <1>4, <1>5, <1>7, <1>9, <1>10, Advance

\* The reset takes the users row and notes the sessions that are open.
LEMMA ChangeStep == ASSUME Inv, NEW r \in Request, ChangePassword(r) PROVE Inv'
<1>1. /\ req \in [Request -> Transaction] /\ req[r] \in Transaction /\ OwnLocks(r)
      /\ Control(r) /\ Holds(r) /\ Revokes(r)
  BY OwnInv DEF OfRequest
<1> DEFINE S == SessionsOf(req[r].acct)
           t == [req[r] EXCEPT !.pc = "commit", !.user = TRUE, !.revoke = S]
<1>2. /\ req[r].pc = "change" /\ req' = [req EXCEPT ![r] = t] /\ UNCHANGED <<tables, hist>>
      /\ req[r].kind = "reset" /\ UserFree(r)
  BY <1>1 DEF ChangePassword, Control
<1>3. S \subseteq Request /\ req[r].open \cap live \subseteq S
  BY <1>1 DEF Inv, TypeOK, SessionsOf, Revokes
<1> HIDE DEF S
<1>4. t \in Transaction
  BY <1>1, <1>3 DEF Transaction
<1>5. /\ t.pc = "commit" /\ t.code = req[r].code /\ t.held = req[r].held
      /\ t.user /\ t.revoke = S /\ t.answer = req[r].answer /\ t.kind = req[r].kind
      /\ t.acct = req[r].acct /\ t.late = req[r].late /\ t.older = req[r].older
      /\ t.open = req[r].open
  BY <1>1 DEF Transaction
<1> HIDE DEF t
<1>6. req'[r] = t /\ \A q \in Request \ {r} : req'[q] = req[q]
  BY <1>1, <1>2, <1>4
<1>7. Holds(r)'
  BY <1>1, <1>2, <1>5, <1>6 DEF Holds, Active, tables
<1>8. OwnLocks(r)'
  BY <1>1, <1>2, <1>5, <1>6 DEF OwnLocks, UserFree
<1>9. Proper(t)
  BY <1>2, <1>5 DEF Proper
<1> QED
  BY <1>2, <1>3, <1>4, <1>5, <1>7, <1>8, <1>9, Advance

\* A mail that cannot be sent, a wrong code and a process that dies roll back.
LEMMA RollBackSteps ==
    ASSUME Inv, NEW r \in Request,
           SendFails(r) \/ _record_reset_failure(r) \/ Die(r)
    PROVE  Inv'
<1>1. blocked \in [Account -> BOOLEAN]
  BY DEF Inv, TypeOK
<1>2. CASE SendFails(r)
  BY <1>1, <1>2, RollBack DEF SendFails, tables
<1>3. CASE _record_reset_failure(r)
  BY <1>1, <1>3, RollBack DEF _record_reset_failure
<1>4. CASE Die(r)
  BY <1>1, <1>4, RollBack DEF Die, tables
<1> QED
  BY <1>2, <1>3, <1>4

-----------------------------------------------------------------------------

\* A commit that ends the transaction of r: what is known of the other requests
\* and of the record r leaves.
Committed(r) ==
    /\ req' \in [Request -> Transaction]
    /\ \A q \in Request \ {r} : req'[q] = req[q]
    /\ req'[r].pc = "done" /\ req'[r].answer = "ok"
    /\ req'[r].held = {} /\ ~req'[r].user
    /\ req'[r].kind = req[r].kind /\ req'[r].acct = req[r].acct
    /\ req'[r].code = req[r].code /\ req'[r].late = req[r].late
    /\ req'[r].older = req[r].older /\ req'[r].open = req[r].open

\* Requests that are done are not the one that commits.
LEMMA CommitFacts ==
    ASSUME Inv, NEW r \in Request, req[r].pc \notin {"idle", "done"}, EndSession(r, "ok")
    PROVE  /\ Committed(r) /\ Control(r)' /\ Exclusive'
           /\ \A q \in Request \ {r} : Control(q)'
           /\ \A q \in live \cup ended : q \in Request /\ q # r
           /\ \A c \in Code : \A q \in used[c] : q \in Request /\ q # r
           /\ \A p \in Request : \A q \in req[p].open : q \in Request /\ q # r
<1>1. Committed(r)
  BY EndRecord DEF Committed
<1>2. Control(r) /\ OwnLocks(r)
  BY OwnInv DEF OfRequest
<1>3. Control(r)'
  BY <1>1, <1>2 DEF Control, Committed
<1>4. Exclusive'
  BY <1>1 DEF Inv, Exclusive, Committed
<1>5. ASSUME NEW q \in Request \ {r} PROVE Control(q)'
  <2>1. Control(q) /\ req'[q] = req[q]
    BY <1>1 DEF Inv, Committed
  <2> QED
    BY <2>1 DEF Control
<1>6. \A q \in live \cup ended : q \in Request /\ q # r
  BY DEF Inv, Settled, TypeOK
<1>7. \A c \in Code : \A q \in used[c] : q \in Request /\ q # r
  BY DEF Inv, Settled, TypeOK
<1>8. \A p \in Request : \A q \in req[p].open : q \in Request /\ q # r
  BY DEF Inv, Revokes, TypeOK, Transaction
<1> QED
  BY <1>1, <1>3, <1>4, <1>5, <1>6, <1>7, <1>8

\* A sign-in opens a session that no reset has seen.
LEMMA IssueStep == ASSUME Inv, NEW r \in Request, IssueTokens(r) PROVE Inv'
<1>1. /\ req[r].pc = "issue" /\ EndSession(r, "ok") /\ live' = live \cup {r}
      /\ UNCHANGED <<pw, blocked, codes, hist>>
  BY DEF IssueTokens
<1>2. /\ Committed(r) /\ \A q \in Request : Control(q)' /\ Exclusive'
      /\ \A q \in live \cup ended : q \in Request /\ q # r
      /\ \A c \in Code : \A q \in used[c] : q \in Request /\ q # r
      /\ \A p \in Request : \A q \in req[p].open : q \in Request /\ q # r
  BY <1>1, CommitFacts
<1>3. TypeOK'
  BY <1>1, <1>2 DEF Inv, TypeOK, Committed, hist
<1>4. req[r].kind = "login"
  BY <1>1 DEF Inv, Control
<1>5. ASSUME NEW q \in Request PROVE Holds(q)' /\ Retires(q)' /\ Revokes(q)'
  <2>1. Holds(q) /\ Retires(q) /\ Revokes(q)
    BY DEF Inv
  <2>2. Holds(q)'
    BY <1>1, <1>2, <1>4, <2>1 DEF Holds, Active, Committed
  <2>3. Retires(q)'
    BY <1>1, <1>2, <1>4, <2>1 DEF Retires, Committed, hist
  <2>4. Revokes(q)'
    BY <1>1, <1>2, <1>4, <2>1 DEF Revokes, Committed
  <2> QED
    BY <2>2, <2>3, <2>4
<1>6. Settled'
  BY <1>1, <1>2 DEF Inv, Settled, Committed, hist
<1>7. ReplacedRefused' /\ ResetEndsSessions'
  BY <1>1, <1>2, <1>4 DEF Inv, ReplacedRefused, ResetEndsSessions, Committed, hist
<1>8. OneRegistration'
  BY <1>1, <1>2, <1>4 DEF Inv, OneRegistration, Committed, hist
<1> QED
  BY <1>2, <1>3, <1>5, <1>6, <1>7, <1>8 DEF Inv

\* A registration commits the address it has locked.
LEMMA CommitRegisterStep ==
    ASSUME Inv, NEW r \in Request, CommitRegister(r) PROVE Inv'
<1>1. /\ req[r].pc = "commit" /\ req[r].kind = "register" /\ EndSession(r, "ok")
      /\ pw' = [pw EXCEPT ![req[r].acct] = r]
      /\ UNCHANGED <<blocked, codes, live, hist>>
  BY DEF CommitRegister
<1>2. /\ Committed(r) /\ \A q \in Request : Control(q)' /\ Exclusive'
      /\ \A q \in live \cup ended : q \in Request /\ q # r
      /\ \A c \in Code : \A q \in used[c] : q \in Request /\ q # r
      /\ \A p \in Request : \A q \in req[p].open : q \in Request /\ q # r
  BY <1>1, CommitFacts
<1>3. /\ req[r].acct \in Account /\ pw[req[r].acct] = Nobody
      /\ pw \in [Account -> Request \cup {Nobody, Before}]
  BY <1>1 DEF Inv, TypeOK, Control, Holds
<1>4. TypeOK'
  BY <1>1, <1>2, <1>3 DEF Inv, TypeOK, Committed, hist
<1>5. ASSUME NEW q \in Request PROVE Holds(q)' /\ Retires(q)' /\ Revokes(q)'
  <2>1. Holds(q) /\ Retires(q) /\ Revokes(q)
    BY DEF Inv
  <2>2. q # r /\ req[q].pc = "commit" /\ req[q].kind = "register" =>
            req[q].acct \in Account /\ req[q].acct # req[r].acct
    <3> SUFFICES ASSUME q # r, req[q].pc = "commit", req[q].kind = "register"
                 PROVE  req[q].acct \in Account /\ req[q].acct # req[r].acct
      OBVIOUS
    <3>1. req[q].user /\ req[r].user /\ req[q].acct \in Account
      BY <1>1 DEF Inv, Control
    <3> QED
      BY <3>1 DEF Inv, Exclusive
  <2>3. Holds(q)'
    BY <1>1, <1>2, <1>3, <2>1, <2>2 DEF Holds, Active, Committed
  <2>4. Retires(q)'
    BY <1>1, <1>2, <2>1 DEF Retires, Committed, hist
  <2>5. Revokes(q)'
    BY <1>1, <1>2, <2>1 DEF Revokes, Committed
  <2> QED
    BY <2>3, <2>4, <2>5
<1>6. Settled'
  BY <1>1, <1>2 DEF Inv, Settled, Committed, hist
<1>7. ReplacedRefused' /\ ResetEndsSessions'
  BY <1>1, <1>2 DEF Inv, ReplacedRefused, ResetEndsSessions, Committed, hist
<1>8. OneRegistration'
  <2> SUFFICES ASSUME NEW q \in Request, req'[q].kind = "register", req'[q].answer = "ok"
               PROVE  \/ pw'[req'[q].acct] = q
                      \/ \E c \in Code : \E p \in used'[c] : req'[p].acct = req'[q].acct
    BY DEF OneRegistration
  <2>1. CASE q = r
    BY <1>1, <1>2, <1>3, <2>1 DEF Committed
  <2>2. CASE q # r
    <3>1. \/ pw[req[q].acct] = q
          \/ \E c \in Code : \E p \in used[c] : req[p].acct = req[q].acct
      BY <1>2, <2>2 DEF Inv, OneRegistration, Committed
    <3>2. CASE pw[req[q].acct] = q
      <4>1. req[q].acct \in Account
        BY <1>2, <2>2 DEF Inv, Control, Idle, Committed
      <4>2. req[q].acct # req[r].acct
        BY <1>3, <3>2, Markers
      <4> QED
        BY <1>1, <1>2, <1>3, <2>2, <3>2, <4>1, <4>2 DEF Committed
    <3>3. CASE \E c \in Code : \E p \in used[c] : req[p].acct = req[q].acct
      BY <1>1, <1>2, <2>2, <3>3 DEF Committed, hist
    <3> QED
      BY <3>1, <3>2, <3>3
  <2> QED
    BY <2>1, <2>2
<1> QED
  BY <1>2, <1>4, <1>5, <1>6, <1>7, <1>8 DEF Inv

\* A step that writes rows of password_reset_tokens that r alone has locked
\* leaves the rows of the others as they were, and no row becomes unused.
LEMMA CodesOfOthers ==
    ASSUME Inv, NEW r \in Request, NEW q \in Request, q # r,
           \A c \in Code \ req[r].held : codes'[c] = codes[c],
           \A c \in Code : codes[c] # NoRow =>
               /\ codes'[c] # NoRow /\ codes'[c].owner = codes[c].owner
               /\ codes[c].used => codes'[c].used,
           req'[q] = req[q], replaced \subseteq replaced',
           req[q].pc = "commit" /\ req[q].kind = "register" =>
               pw'[req[q].acct] = pw[req[q].acct]
    PROVE  Holds(q)' /\ Retires(q)'
<1>1. Holds(q) /\ Retires(q) /\ req[q].held \subseteq Code /\ req[q].older \subseteq Code
  BY DEF Inv, TypeOK, Transaction
<1>2. \A c \in req[q].held : c \in Code /\ codes'[c] = codes[c]
  BY <1>1 DEF Inv, Exclusive
<1>3. \A c \in req[q].held : c \in Active(req[q].acct) => c \in Active(req[q].acct)'
  BY <1>2 DEF Active
<1>4. Holds(q)'
  BY <1>1, <1>2, <1>3 DEF Holds
<1>5. Retires(q)'
  BY <1>1 DEF Retires
<1> QED
  BY <1>4, <1>5

\* The new code and the retirement of the old ones are committed together.
LEMMA CommitForgotStep ==
    ASSUME Inv, NEW r \in Request, CommitForgot(r) PROVE Inv'
<1> DEFINE n == req[r].code
           a == req[r].acct
           row == [owner |-> a, used |-> FALSE, expired |-> FALSE]
<1>1. /\ req[r].pc = "commit" /\ req[r].kind = "forgot" /\ EndSession(r, "ok")
      /\ codes' = [c \in Code |-> IF c = n THEN row
                      ELSE IF c \in req[r].held THEN [codes[c] EXCEPT !.used = TRUE]
                      ELSE codes[c]]
      /\ replaced' = replaced \cup req[r].older
      /\ UNCHANGED <<pw, blocked, live, used, ended>>
  BY DEF CommitForgot
<1>2. /\ Committed(r) /\ \A q \in Request : Control(q)' /\ Exclusive'
      /\ \A q \in live \cup ended : q \in Request /\ q # r
      /\ \A c \in Code : \A q \in used[c] : q \in Request /\ q # r
      /\ \A p \in Request : \A q \in req[p].open : q \in Request /\ q # r
  BY <1>1, CommitFacts
<1>3. /\ codes \in [Code -> CodeRow \cup {NoRow}]
      /\ req[r].held \subseteq Code /\ req[r].older \subseteq Code
      /\ a \in Account /\ n \in req[r].held /\ codes[n] = NoRow
      /\ \A c \in req[r].held : c = n \/ c \in Active(a)
      /\ \A c \in req[r].older : codes[c] # NoRow /\ (codes[c].used \/ c \in req[r].held)
  BY <1>1 DEF Inv, TypeOK, Transaction, Control, Holds, Retires
<1>4. \A c \in Code : codes[c] # NoRow =>
          /\ codes'[c] \in CodeRow /\ codes'[c] # NoRow
          /\ codes'[c].owner = codes[c].owner
          /\ codes[c].used \/ c \in req[r].held => codes'[c].used
  <2> SUFFICES ASSUME NEW c \in Code, codes[c] # NoRow
               PROVE  /\ codes'[c] \in CodeRow /\ codes'[c] # NoRow
                      /\ codes'[c].owner = codes[c].owner
                      /\ codes[c].used \/ c \in req[r].held => codes'[c].used
    OBVIOUS
  <2>1. c # n /\ codes[c] \in CodeRow
    BY <1>3
  <2>2. CASE c \in req[r].held
    <3>1. codes'[c] = [codes[c] EXCEPT !.used = TRUE]
      BY <1>1, <2>1, <2>2
    <3>2. /\ codes'[c] \in CodeRow /\ codes'[c].owner = codes[c].owner /\ codes'[c].used
      BY <2>1, <3>1 DEF CodeRow
    <3> QED
      BY <3>2, Markers
  <2>3. CASE c \notin req[r].held
    BY <1>1, <2>1, <2>3, Markers
  <2> QED
    BY <2>2, <2>3
<1>5. codes'[n] = row /\ row \in CodeRow
  BY <1>1, <1>3 DEF CodeRow
<1>6. \A c \in Code \ req[r].held : codes'[c] = codes[c]
  BY <1>1, <1>3
<1>7. TypeOK'
  <2>1. codes' \in [Code -> CodeRow \cup {NoRow}]
    <3>1. \A c \in Code : codes'[c] \in CodeRow \cup {NoRow}
      BY <1>3, <1>4, <1>5, <1>6 DEF Active
    <3> QED
      BY <1>1, <3>1
  <2> QED
    BY <1>1, <1>2, <1>3, <2>1 DEF Inv, TypeOK, Committed
<1> HIDE DEF row
<1>8. ASSUME NEW q \in Request, q # r PROVE Holds(q)' /\ Retires(q)'
  BY <1>1, <1>2, <1>4, <1>6, <1>8, CodesOfOthers DEF Committed
<1>9. Holds(r)' /\ Retires(r)'
  <2>1. Retires(r)
    BY DEF Inv
  <2>2. Holds(r)'
    BY <1>2, <1>1 DEF Holds, Committed
  <2>3. Retires(r)'
    BY <1>1, <1>2, <1>3, <1>4, <2>1 DEF Retires, Committed
  <2> QED
    BY <2>2, <2>3
<1>10. ASSUME NEW q \in Request PROVE Revokes(q)'
  <2>1. Revokes(q)
    BY DEF Inv
  <2> QED
    BY <1>1, <1>2, <2>1 DEF Revokes, Committed
<1>11. Settled'
  <2>1. \A c \in replaced' : c \in Code /\ codes'[c] # NoRow /\ codes'[c].used
    BY <1>1, <1>3, <1>4 DEF Inv, Settled, TypeOK
  <2>2. \A q \in live' \cup ended' : req'[q].pc = "done"
    BY <1>1, <1>2 DEF Inv, Settled, Committed
  <2>3. ASSUME NEW c \in Code, NEW q \in used'[c]
        PROVE  /\ codes'[c] # NoRow /\ codes'[c].used /\ codes'[c].owner = req'[q].acct
               /\ req'[q].pc = "done"
    <3>1. /\ codes[c] # NoRow /\ codes[c].used /\ codes[c].owner = req[q].acct
          /\ req[q].pc = "done" /\ q # r /\ q \in Request
      BY <1>1, <1>2 DEF Inv, Settled
    <3>2. req'[q] = req[q]
      BY <1>2, <3>1 DEF Committed
    <3> QED
      BY <1>4, <3>1, <3>2
  <2>4. \A c \in Code : \A p, q \in used'[c] : p = q
    BY <1>1 DEF Inv, Settled
  <2> QED
    BY <2>1, <2>2, <2>3, <2>4 DEF Settled
<1>12. ReplacedRefused' /\ ResetEndsSessions'
  BY <1>1, <1>2 DEF Inv, ReplacedRefused, ResetEndsSessions, Committed
<1>13. OneRegistration'
  BY <1>1, <1>2 DEF Inv, OneRegistration, Committed
<1> QED
  BY <1>2, <1>7, <1>8, <1>9, <1>10, <1>11, <1>12, <1>13 DEF Inv

\* A reset spends a code that is active and therefore neither spent nor replaced,
\* and ends every session that was open when it came.
LEMMA CommitResetStep ==
    ASSUME Inv, NEW r \in Request, CommitReset(r) PROVE Inv'
<1> DEFINE n == req[r].code
           a == req[r].acct
<1>1. /\ req[r].pc = "commit" /\ req[r].kind = "reset" /\ EndSession(r, "ok")
      /\ pw' = [pw EXCEPT ![a] = r] /\ codes' = [codes EXCEPT ![n].used = TRUE]
      /\ live' = live \ req[r].revoke /\ used' = [used EXCEPT ![n] = @ \cup {r}]
      /\ ended' = ended \cup req[r].open /\ UNCHANGED <<blocked, replaced>>
  BY DEF CommitReset
<1>2. /\ Committed(r) /\ \A q \in Request : Control(q)' /\ Exclusive'
      /\ \A q \in live \cup ended : q \in Request /\ q # r
      /\ \A c \in Code : \A q \in used[c] : q \in Request /\ q # r
      /\ \A p \in Request : \A q \in req[p].open : q \in Request /\ q # r
  BY <1>1, CommitFacts
<1>3. /\ codes \in [Code -> CodeRow \cup {NoRow}] /\ used \in [Code -> SUBSET Request]
      /\ pw \in [Account -> Request \cup {Nobody, Before}]
      /\ req[r].held \subseteq Code /\ req[r].open \subseteq Request
      /\ a \in Account /\ n \in req[r].held /\ n \in Active(a)
      /\ req[r].open \cap live \subseteq req[r].revoke
  BY <1>1 DEF Inv, TypeOK, Transaction, Control, Holds, Revokes
<1>4. /\ n \in Code /\ codes[n] \in CodeRow /\ codes[n].owner = a /\ ~codes[n].used
  BY <1>3 DEF Active
<1>5. /\ codes'[n] \in CodeRow /\ codes'[n].owner = a /\ codes'[n].used
      /\ \A c \in Code : c # n => codes'[c] = codes[c]
  <2>1. codes'[n] = [codes[n] EXCEPT !.used = TRUE]
    BY <1>1, <1>3, <1>4
  <2> QED
    BY <1>1, <1>3, <1>4, <2>1 DEF CodeRow
<1>6. used[n] = {} /\ n \notin replaced
  BY <1>3, <1>4 DEF Inv, Settled
<1>7. used'[n] = {r} /\ \A c \in Code : c # n => used'[c] = used[c]
  BY <1>1, <1>3, <1>4, <1>6
<1>8. TypeOK'
  <2>1. codes' \in [Code -> CodeRow \cup {NoRow}]
    BY <1>1, <1>3, <1>4, <1>5
  <2>2. used' \in [Code -> SUBSET Request] /\ pw' \in [Account -> Request \cup {Nobody, Before}]
    BY <1>1, <1>3, <1>4
  <2> QED
    BY <1>1, <1>2, <1>3, <2>1, <2>2 DEF Inv, TypeOK, Committed
<1>9. ASSUME NEW q \in Request, q # r PROVE Holds(q)' /\ Retires(q)'
  <2>1. req[q].pc = "commit" /\ req[q].kind = "register" =>
            pw'[req[q].acct] = pw[req[q].acct]
    <3> SUFFICES ASSUME req[q].pc = "commit", req[q].kind = "register"
                 PROVE  pw'[req[q].acct] = pw[req[q].acct]
      OBVIOUS
    <3>1. req[q].user /\ req[r].user /\ req[q].acct \in Account
      BY <1>1 DEF Inv, Control
    <3>2. req[q].acct # a
      BY <1>9, <3>1 DEF Inv, Exclusive
    <3> QED
      BY <1>1, <1>3, <3>1, <3>2
  <2>2. \A c \in Code \ req[r].held : codes'[c] = codes[c]
    BY <1>3, <1>5
  <2>3. \A c \in Code : codes[c] # NoRow =>
            /\ codes'[c] # NoRow /\ codes'[c].owner = codes[c].owner
            /\ codes[c].used => codes'[c].used
    BY <1>4, <1>5, Markers
  <2> QED
    BY <1>1, <1>2, <1>9, <2>1, <2>2, <2>3, CodesOfOthers DEF Committed
<1>10. Holds(r)' /\ Retires(r)'
  <2>1. Retires(r) /\ req[r].older \subseteq Code
    BY DEF Inv, TypeOK, Transaction
  <2>2. Holds(r)'
    BY <1>1, <1>2 DEF Holds, Committed
  <2>3. Retires(r)'
    <3>1. \A c \in req[r].older : codes'[c] # NoRow /\ codes'[c].owner = a
      BY <1>4, <1>5, <2>1, Markers DEF Retires
    <3> QED
      BY <1>1, <1>2, <2>1, <3>1 DEF Retires, Committed
  <2> QED
    BY <2>2, <2>3
<1>11. ASSUME NEW q \in Request PROVE Revokes(q)'
  <2>1. Revokes(q)
    BY DEF Inv
  <2> QED
    BY <1>1, <1>2, <2>1 DEF Revokes, Committed
<1>12. Settled'
  <2>1. \A c \in replaced' : codes'[c] # NoRow /\ codes'[c].used
    BY <1>1, <1>5, <1>6 DEF Inv, Settled, TypeOK
  <2>2. \A q \in live' \cup ended' : req'[q].pc = "done"
    BY <1>1, <1>2 DEF Inv, Settled, Revokes, Committed
  <2>3. ASSUME NEW c \in Code, NEW q \in used'[c]
        PROVE  /\ codes'[c] # NoRow /\ codes'[c].used /\ codes'[c].owner = req'[q].acct
               /\ req'[q].pc = "done"
    <3>1. CASE c = n
      BY <1>2, <1>5, <1>7, <3>1, Markers DEF Committed
    <3>2. CASE c # n
      BY <1>2, <1>5, <1>7, <3>2 DEF Inv, Settled, Committed
    <3> QED
      BY <3>1, <3>2
  <2>4. \A c \in Code : \A p, q \in used'[c] : p = q
    BY <1>7 DEF Inv, Settled
  <2> QED
    BY <2>1, <2>2, <2>3, <2>4 DEF Settled
<1>13. ReplacedRefused'
  <2>1. ~req[r].late
    BY <1>6 DEF Inv, Retires
  <2> QED
    BY <1>2, <2>1 DEF Inv, ReplacedRefused, Committed
<1>14. ResetEndsSessions'
  BY <1>1, <1>3 DEF Inv, ResetEndsSessions
<1>15. OneRegistration'
  <2> SUFFICES ASSUME NEW q \in Request, req'[q].kind = "register", req'[q].answer = "ok"
               PROVE  \/ pw'[req'[q].acct] = q
                      \/ \E c \in Code : \E p \in used'[c] : req'[p].acct = req'[q].acct
    BY DEF OneRegistration
  <2>1. q # r /\ req'[q] = req[q]
    BY <1>1, <1>2 DEF Committed
  <2>2. CASE req[q].acct = a
    <3>1. r \in used'[n] /\ req'[r].acct = req'[q].acct
      BY <1>2, <1>7, <2>1, <2>2 DEF Committed
    <3> QED
      BY <1>4, <3>1
  <2>3. CASE req[q].acct # a
    <3>1. \/ pw[req[q].acct] = q
          \/ \E c \in Code : \E p \in used[c] : req[p].acct = req[q].acct
      BY <2>1 DEF Inv, OneRegistration
    <3>2. CASE pw[req[q].acct] = q
      <4>1. req[q].acct \in Account
        BY <2>1 DEF Inv, Control, Idle
      <4> QED
        BY <1>1, <1>3, <2>1, <2>3, <3>2, <4>1
    <3>3. CASE \E c \in Code : \E p \in used[c] : req[p].acct = req[q].acct
      <4>1. PICK c \in Code : \E p \in used[c] : req[p].acct = req[q].acct
        BY <3>3
      <4>2. PICK p \in used[c] : req[p].acct = req[q].acct
        BY <4>1
      <4>3. p \in used'[c] /\ req'[p] = req[p]
        BY <1>2, <1>6, <1>7, <4>2 DEF Committed
      <4> QED
        BY <2>1, <4>2, <4>3
    <3> QED
      BY <3>1, <3>2, <3>3
  <2> QED
    BY <2>2, <2>3
<1> QED
  BY <1>2, <1>8, <1>9, <1>10, <1>11, <1>12, <1>13, <1>14, <1>15 DEF Inv

\* The time of a code passes; no request looks at it but under its lock.
LEMMA ExpireStep == ASSUME Inv, NEW c \in Code, Expire(c) PROVE Inv'
<1>1. /\ codes[c] # NoRow /\ codes' = [codes EXCEPT ![c].expired = TRUE]
      /\ UNCHANGED <<pw, blocked, live, req, used, replaced, ended>>
  BY DEF Expire, hist
<1>2. codes \in [Code -> CodeRow \cup {NoRow}] /\ codes[c] \in CodeRow
  BY <1>1 DEF Inv, TypeOK
<1>3. /\ codes'[c] \in CodeRow /\ codes'[c].owner = codes[c].owner
      /\ codes'[c].used = codes[c].used
      /\ \A d \in Code : d # c => codes'[d] = codes[d]
  <2>1. codes'[c] = [codes[c] EXCEPT !.expired = TRUE]
    BY <1>1, <1>2
  <2> QED
    BY <1>1, <1>2, <2>1 DEF CodeRow
<1>4. \A d \in Code : /\ codes'[d] = NoRow <=> codes[d] = NoRow
                      /\ codes[d] # NoRow => /\ codes'[d].owner = codes[d].owner
                                             /\ codes'[d].used = codes[d].used
  BY <1>1, <1>2, <1>3, Markers
<1>5. \A a : Active(a)' = Active(a)
  BY <1>4 DEF Active
<1>6. TypeOK'
  <2>1. codes' \in [Code -> CodeRow \cup {NoRow}]
    BY <1>1, <1>2, <1>3
  <2> QED
    BY <1>1, <2>1 DEF Inv, TypeOK
<1>7. ASSUME NEW r \in Request
      PROVE  Control(r)' /\ Holds(r)' /\ Retires(r)' /\ Revokes(r)'
  <2>1. /\ Control(r) /\ Holds(r) /\ Retires(r) /\ Revokes(r)
        /\ req[r].older \subseteq Code /\ req[r].held \subseteq Code
    BY DEF Inv, TypeOK, Transaction
  <2>2. Control(r)' /\ Revokes(r)'
    BY <1>1, <2>1 DEF Control, Revokes
  <2>3. Holds(r)'
    BY <1>1, <1>4, <1>5, <2>1 DEF Holds
  <2>4. Retires(r)'
    BY <1>1, <1>4, <2>1 DEF Retires
  <2> QED
    BY <2>2, <2>3, <2>4
<1>8. Exclusive' /\ ReplacedRefused' /\ ResetEndsSessions' /\ OneRegistration'
  BY <1>1 DEF Inv, Exclusive, ReplacedRefused, ResetEndsSessions, OneRegistration
<1>9. Settled'
  BY <1>1, <1>4 DEF Inv, Settled, TypeOK
<1> QED
  BY <1>6, <1>7, <1>8, <1>9 DEF Inv

\* Every step of the specification keeps the invariant.
LEMMA NextInv == Inv /\ [Next]_vars => Inv'
<1> SUFFICES ASSUME Inv, [Next]_vars PROVE Inv'
  OBVIOUS
<1>1. ASSUME NEW r \in Request, Arrive(r) PROVE Inv'
  <2>1. PICK a \in Account :
           \/ register(r, a) \/ login(r, a) \/ request_reset(r, a)
           \/ \E c \in Code : reset_password(r, a, c)
           \/ \E kind \in Kinds : Refuse(r, kind, a)
    BY <1>1 DEF Arrive
  <2>2. CASE register(r, a)
    BY <2>2, BeginStep DEF register
  <2>3. CASE login(r, a)
    BY <2>3, BeginStep DEF login
  <2>4. CASE request_reset(r, a)
    BY <2>4, BeginStep DEF request_reset
  <2>5. CASE \E c \in Code : reset_password(r, a, c)
    BY <2>5, BeginStep DEF reset_password
  <2>6. CASE \E kind \in Kinds : Refuse(r, kind, a)
    BY <2>6, RefuseStep
  <2> QED
    BY <2>1, <2>2, <2>3, <2>4, <2>5, <2>6
<1>2. ASSUME NEW r \in Request, Statement(r) PROVE Inv'
  BY <1>2, InsertUserStep, CommitRegisterStep, IssueStep, SnapshotStep, MarkStep,
     SendStep, RollBackSteps, CreateStep, CommitForgotStep, FindStep, ChangeStep,
     CommitResetStep DEF Statement
<1>3. ASSUME NEW r \in Request, Die(r) PROVE Inv'
  BY <1>3, RollBackSteps
<1>4. ASSUME NEW c \in Code, Expire(c) PROVE Inv'
  BY <1>4, ExpireStep
<1>5. CASE UNCHANGED vars
  <2>1. UNCHANGED <<pw, blocked, codes, live, req, used, replaced, ended>>
    BY <1>5 DEF vars, tables, hist
  <2>2. ASSUME NEW r \in Request
        PROVE  Control(r)' /\ Holds(r)' /\ Retires(r)' /\ Revokes(r)'
    <3>1. Control(r) /\ Holds(r) /\ Retires(r) /\ Revokes(r)
      BY DEF Inv
    <3>2. Control(r)' /\ Revokes(r)'
      BY <2>1, <3>1 DEF Control, Revokes
    <3>3. Holds(r)' /\ Retires(r)'
      BY <2>1, <3>1 DEF Holds, Retires, Active
    <3> QED
      BY <3>2, <3>3
  <2>3. TypeOK' /\ Exclusive' /\ Settled'
    BY <2>1 DEF Inv, TypeOK, Exclusive, Settled
  <2>4. ReplacedRefused' /\ ResetEndsSessions' /\ OneRegistration'
    BY <2>1 DEF Inv, ReplacedRefused, ResetEndsSessions, OneRegistration
  <2> QED
    BY <2>2, <2>3, <2>4 DEF Inv
<1> QED
  BY <1>1, <1>2, <1>3, <1>4, <1>5 DEF Next, AllDone

\* The invariant holds in every reachable state.
THEOREM Invariance == Spec => []Inv
<1> QED
  BY InitInv, NextInv, PTL DEF Spec

\* The variables of Credentials always have their types.
THEOREM TypeCorrect == Spec => []TypeOK
<1>1. Inv => TypeOK
  BY DEF Inv
<1> QED
  BY <1>1, Invariance, PTL

\* However many requests overlap, a reset code changes one password, once: that
\* of the account it was sent to.
THEOREM CodesAreSpentOnce == Spec => []CodeOnce
<1>1. Inv => CodeOnce
  <2> SUFFICES ASSUME Inv, NEW c \in Code PROVE
          /\ Cardinality(used[c]) <= 1
          /\ \A r \in used[c] : codes[c].owner = req[r].acct
    BY DEF CodeOnce
  <2>1. \A r, q \in used[c] : r = q
    BY DEF Inv, Settled
  <2>2. used[c] = {} \/ \E r : used[c] = {r}
    BY <2>1
  <2>3. Cardinality(used[c]) <= 1
    <3>1. CASE used[c] = {}
      BY <3>1, FS_EmptySet
    <3>2. CASE \E r : used[c] = {r}
      <4>1. PICK r : used[c] = {r}
        BY <3>2
      <4>2. Cardinality({r}) = 1
        BY FS_Singleton
      <4> QED
        BY <4>1, <4>2
    <3> QED
      BY <2>2, <3>1, <3>2
  <2> QED
    BY <2>3 DEF Inv, Settled
<1> QED
  BY <1>1, Invariance, PTL

\* A code that the account had when an answered request for a new one came is
\* refused to every reset sent after the answer.
THEOREM ReplacedCodesAreRefused == Spec => []ReplacedRefused
<1>1. Inv => ReplacedRefused
  BY DEF Inv
<1> QED
  BY <1>1, Invariance, PTL

\* No session that was open when a reset was sent is open after its answer.
THEOREM ResetsEndSessions == Spec => []ResetEndsSessions
<1>1. Inv => ResetEndsSessions
  BY DEF Inv
<1> QED
  BY <1>1, Invariance, PTL

\* One registration of an address succeeds, and its password stays until a reset.
THEOREM RegistrationsAreUnique == Spec => []OneRegistration
<1>1. Inv => OneRegistration
  BY DEF Inv
<1> QED
  BY <1>1, Invariance, PTL

\* What RetiredForACause says of one step.
Caused ==
    \A a \in Account : \A c \in Active(a) \ Active(a)' :
        \/ used'[c] # used[c]
        \/ \E d \in Code : codes[d] = NoRow /\ d \in Active(a)'

\* A step that retires a code is the commit of the reset that spends it or of
\* the request whose new code appears in the same step.
LEMMA NextCaused == Inv /\ [Next]_vars => Caused
<1> SUFFICES ASSUME Inv, [Next]_vars, NEW a \in Account,
                    NEW c \in Active(a), c \notin Active(a)'
             PROVE  \/ used'[c] # used[c]
                    \/ \E d \in Code : codes[d] = NoRow /\ d \in Active(a)'
  BY DEF Caused
<1>1. CASE codes' = codes
  BY <1>1 DEF Active
<1>2. ASSUME NEW r \in Request, CommitForgot(r)
      PROVE  \E d \in Code : codes[d] = NoRow /\ d \in Active(a)'
  <2>1. /\ Holds(r) /\ req[r].held \subseteq Code
        /\ req[r].kind = "forgot" /\ req[r].pc = "commit"
    BY <1>2 DEF Inv, TypeOK, Transaction, CommitForgot
  <2>2. /\ req[r].code \in req[r].held /\ codes[req[r].code] = NoRow
        /\ \A d \in req[r].held : d = req[r].code \/ d \in Active(req[r].acct)
    BY <2>1 DEF Holds
  <2>3. c \in req[r].held /\ c # req[r].code
    BY <1>2, <2>2 DEF CommitForgot, Active
  <2>4. req[r].acct = a
    BY <2>2, <2>3 DEF Active
  <2>5. codes'[req[r].code] = [owner |-> a, used |-> FALSE, expired |-> FALSE]
    BY <1>2, <2>1, <2>2, <2>4 DEF CommitForgot
  <2>6. req[r].code \in Active(a)'
    BY <2>1, <2>2, <2>5 DEF Active, NoRow
  <2> QED
    BY <2>1, <2>2, <2>6
<1>3. ASSUME NEW r \in Request, CommitReset(r) PROVE used'[c] # used[c]
  <2>1. /\ Holds(r) /\ req[r].kind = "reset" /\ req[r].pc = "commit"
        /\ req[r].held \subseteq Code /\ used \in [Code -> SUBSET Request]
        /\ codes \in [Code -> CodeRow \cup {NoRow}]
    BY <1>3 DEF Inv, TypeOK, Transaction, CommitReset
  <2>2. req[r].code \in Code
    BY <2>1 DEF Holds
  <2>3. c = req[r].code
    BY <1>3, <2>1, <2>2 DEF CommitReset, Active
  <2>4. r \notin used[c] /\ c \in Code
    BY <2>1, <2>2, <2>3 DEF Inv, Settled
  <2>5. r \in used'[c]
    BY <1>3, <2>1, <2>3, <2>4 DEF CommitReset
  <2> QED
    BY <2>4, <2>5
<1>4. ASSUME NEW d \in Code, Expire(d) PROVE FALSE
  <2>1. codes \in [Code -> CodeRow \cup {NoRow}] /\ codes[d] \in CodeRow
    BY <1>4 DEF Inv, TypeOK, Expire
  <2>2. codes' = [codes EXCEPT ![d] = [codes[d] EXCEPT !.expired = TRUE]]
    BY <1>4, <2>1 DEF Expire
  <2>3. [codes[d] EXCEPT !.expired = TRUE] \in CodeRow
    BY <2>1 DEF CodeRow
  <2>4. /\ [codes[d] EXCEPT !.expired = TRUE].owner = codes[d].owner
        /\ [codes[d] EXCEPT !.expired = TRUE].used = codes[d].used
    BY <2>1 DEF CodeRow
  <2>5. c \in Active(a)'
    <3>1. CASE c = d
      BY <2>1, <2>2, <2>3, <2>4, <3>1, Markers DEF Active
    <3>2. CASE c # d
      BY <2>1, <2>2, <3>2 DEF Active
    <3> QED
      BY <3>1, <3>2
  <2> QED
    BY <2>5
<1>5. ASSUME NEW r \in Request, Arrive(r) PROVE codes' = codes
  BY <1>5 DEF Arrive, register, login, request_reset, reset_password, Refuse, Begin, tables
<1>6. ASSUME NEW r \in Request, Statement(r) \/ Die(r), ~CommitForgot(r), ~CommitReset(r)
      PROVE  codes' = codes
  BY <1>6 DEF Statement, Die, InsertUser, CommitRegister, IssueTokens, Snapshot,
     mark_active_for_user_used, send, SendFails, create, get_active_for_user_by_hash,
     _record_reset_failure, ChangePassword, tables
<1>7. UNCHANGED vars => codes' = codes
  BY DEF vars, tables
<1> QED
  BY <1>1, <1>2, <1>3, <1>4, <1>5, <1>6, <1>7 DEF Next, AllDone

\* A code is retired by the reset that spends it or by its successor, never by a
\* request that fails.
THEOREM CodesRetiredForACause == Spec => RetiredForACause
<1>1. Inv /\ [Next]_vars => Caused
  BY NextCaused
<1>2. [][Inv /\ [Next]_vars]_vars => RetiredForACause
  BY <1>1, PTL DEF RetiredForACause, Caused
<1> QED
  BY <1>2, Invariance, PTL DEF Spec
=============================================================================
