--------------------------- MODULE TwoFactorProofs ---------------------------
(***************************************************************************)
(* The invariants of TwoFactor for any number of overlapping requests,     *)
(* codes and secrets.  Every statement but the commit writes nothing but   *)
(* the record of its own transaction: lemma OwnStep.                       *)
(***************************************************************************)
EXTENDS TwoFactor, TLAPS

\* What the invariant says of one transaction.
OfRequest(r) == Stage(r) /\ Secrets(r) /\ Codes(r)

\* A row is not None, and is told from it by its number.
LEMMA RowsHaveNumbers ==
    /\ None.born = 0 /\ None \notin SecretRow
    /\ \A x \in SecretRow \cup {None} : x = None <=> x.born = 0
    /\ \A x \in SecretRow \cup {None} : x # None => x \in SecretRow
    /\ \A x \in SecretRow \cup {None} : x.born \in Nat
<1>1. None.born = 0
  BY DEF None
<1>2. \A x \in SecretRow : x.born \in Nat /\ x.born # 0
  BY DEF SecretRow
<1> QED
  BY <1>1, <1>2

\* The values that the records keep of a comparison are Boolean.
LEMMA Values ==
    /\ \A x, y, z, S : (x = y /\ z \in S) = TRUE \/ (x = y /\ z \in S) = FALSE
    /\ \A b \in BOOLEAN : \A z, S : (b \/ z \in S) = TRUE \/ (b \/ z \in S) = FALSE
  OBVIOUS

\* A TOTP code has a time, a backup code a number and a slot.
LEMMA FactorFields ==
    \A f \in Factor :
        /\ f.kind = "totp" => f.time \in Nat
        /\ f.kind = "backup" => f.code \in CodeRow
<1> SUFFICES ASSUME NEW f \in Factor
             PROVE  /\ f.kind = "totp" => f.time \in Nat
                    /\ f.kind = "backup" => f.code \in CodeRow
  OBVIOUS
<1>1. CASE f \in [kind : {"totp"}, key : Nat, time : Nat]
  BY <1>1
<1>2. CASE f \in [kind : {"backup"}, code : CodeRow]
  BY <1>2
<1>3. CASE f = [kind |-> "refused"]
  BY <1>3
<1> QED
  BY <1>1, <1>2, <1>3 DEF Factor

\* A transaction that has not begun.
LEMMA IdleType == Idle \in Transaction
<1>1. [kind |-> "refused"] \in Factor
  BY DEF Factor
<1> QED
  BY <1>1 DEF Idle, Transaction, AllOps

\* The fields of a transaction that has not begun.
LEMMA IdleInv ==
    ASSUME NEW r \in Request, req[r] = Idle, issued \in Nat
    PROVE  Stage(r) /\ Secrets(r) /\ Codes(r) /\ ~req[r].sec
<1>1. /\ req[r].pc = "idle" /\ req[r].op = "none" /\ req[r].factor.kind = "refused"
      /\ req[r].rec.born = 0 /\ ~req[r].sec /\ ~req[r].late /\ req[r].old = 0
  BY DEF Idle, None
<1>2. Stage(r)
  BY <1>1 DEF Stage
<1>3. Secrets(r)
  BY <1>1 DEF Secrets, Passed
<1>4. Codes(r)
  BY <1>1 DEF Codes, Passed
<1> QED
  BY <1>1, <1>2, <1>3, <1>4

\* Initially there is neither secret nor code, and no request.
LEMMA InitInv == Init => Inv
<1> SUFFICES ASSUME Init PROVE Inv
  OBVIOUS
<1>1. TypeOK
  BY IdleType DEF Init, TypeOK
<1>2. \A r \in Request : Stage(r) /\ Secrets(r) /\ Codes(r) /\ ~req[r].sec
  BY IdleInv DEF Init
<1>3. OneHolder /\ Numbered /\ EnabledHasSecret
  BY <1>2 DEF Init, OneHolder, Numbered, EnabledHasSecret, None
<1> QED
  BY <1>1, <1>2, <1>3 DEF Inv

\* A step that writes no table and leaves the other transactions alone keeps the
\* invariant if it keeps it for its own.
LEMMA OwnStep ==
    ASSUME Inv, NEW r \in Request, NEW t \in Transaction,
           req' = [req EXCEPT ![r] = t], UNCHANGED <<rows, clock, spent>>,
           Stage(r)', Secrets(r)', Codes(r)',
           t.sec => req[r].sec \/ SecretFree(r)
    PROVE  Inv'
<1>1. /\ req \in [Request -> Transaction] /\ req'[r] = t
      /\ \A q \in Request \ {r} : req'[q] = req[q]
  BY DEF Inv, TypeOK
<1>2. UNCHANGED <<enabled, secret, codes, used, issued, clock, spent>>
  BY DEF rows
<1>3. TypeOK'
  BY <1>1, <1>2 DEF Inv, TypeOK
<1>4. ASSUME NEW q \in Request, q # r PROVE OfRequest(q)'
  <2>1. req'[q] = req[q] /\ Stage(q) /\ Secrets(q) /\ Codes(q)
    BY <1>1, <1>4 DEF Inv
  <2>2. Stage(q)'
    BY <2>1 DEF Stage
  <2>3. Secrets(q)'
    BY <1>2, <2>1 DEF Secrets
  <2>4. Codes(q)'
    BY <1>2, <2>1 DEF Codes
  <2> QED
    BY <2>2, <2>3, <2>4 DEF OfRequest
<1>5. OneHolder'
  BY <1>1 DEF Inv, OneHolder, SecretFree
<1>6. Numbered' /\ EnabledHasSecret'
  BY <1>2 DEF Inv, Numbered, EnabledHasSecret
<1> QED
  BY <1>3, <1>4, <1>5, <1>6 DEF Inv, OfRequest

\* Every early return, every exception and the end of the database.
LEMMA EndStep ==
    ASSUME Inv, NEW r \in Request, EndSession(r), UNCHANGED <<rows, clock, spent>>
    PROVE  Inv'
<1>1. req' = [req EXCEPT ![r] = Idle] /\ req \in [Request -> Transaction]
  BY DEF EndSession, Inv, TypeOK
<1>2. req'[r] = Idle /\ issued' \in Nat
  BY <1>1 DEF Inv, TypeOK, rows
<1>3. Stage(r)' /\ Secrets(r)' /\ Codes(r)' /\ ~req'[r].sec
  <2>1. /\ req'[r].pc = "idle" /\ req'[r].op = "none" /\ req'[r].factor.kind = "refused"
        /\ req'[r].rec.born = 0 /\ ~req'[r].sec /\ ~req'[r].late /\ req'[r].old = 0
    BY <1>2 DEF Idle, None
  <2>2. Stage(r)'
    BY <1>2, <2>1 DEF Stage
  <2>3. Secrets(r)'
    BY <1>2, <2>1 DEF Secrets, Passed
  <2>4. Codes(r)'
    BY <1>2, <2>1 DEF Codes, Passed
  <2> QED
    BY <2>1, <2>2, <2>3, <2>4
<1> QED
  BY <1>1, <1>2, <1>3, IdleType, OwnStep

-----------------------------------------------------------------------------

\* What a client may send.
LEMMA InputsType ==
    ASSUME TypeOK, NEW f \in Inputs
    PROVE  f \in Factor /\ (f.kind = "backup" => f.code \in CodeRow /\ f.code[1] <= issued)
<1>1. issued \in Nat /\ clock \in Nat
  BY DEF TypeOK
<1>2. CASE f \in [kind : {"totp"}, key : 1 .. issued, time : {clock}]
  BY <1>1, <1>2 DEF Factor
<1>3. CASE f \in [kind : {"backup"}, code : (1 .. issued) \X Slot]
  BY <1>1, <1>3 DEF Factor, CodeRow
<1>4. CASE f = [kind |-> "refused"]
  BY <1>4 DEF Factor
<1> QED
  BY <1>2, <1>3, <1>4 DEF Inputs

\* A transaction begins: its code, if it has one, was shown to the client.
LEMMA BeginStep ==
    ASSUME Inv, NEW r \in Request, NEW o \in AllOps, NEW f \in Inputs,
           Fits(o, f), Begin(r, o, f)
    PROVE  Inv'
<1> DEFINE u(late) == [Idle EXCEPT !.pc = "related", !.op = o, !.factor = f,
                          !.flag = enabled, !.old = issued, !.late = late]
           p == f.kind = "backup" /\ f.code \in spent
           t == u(p)
<1>1. req' = [req EXCEPT ![r] = t] /\ UNCHANGED <<rows, clock, spent>>
  BY DEF Begin
<1>2. /\ req \in [Request -> Transaction] /\ issued \in Nat /\ enabled \in BOOLEAN
      /\ f \in Factor /\ (f.kind = "backup" => f.code[1] <= issued)
  BY InputsType DEF Inv, TypeOK
<1>3. t \in Transaction
  <2>1. \A late \in BOOLEAN : u(late) \in Transaction
    BY <1>2, IdleType DEF Transaction
  <2>2. p = TRUE \/ p = FALSE
    BY Values, Zenon
  <2> HIDE DEF u, p
  <2> QED
    BY <2>1, <2>2
<1>4. /\ t.pc = "related" /\ t.op = o /\ t.factor = f /\ t.old = issued
      /\ t.rec = None /\ ~t.sec /\ (t.late <=> p)
  BY DEF Idle
<1> HIDE DEF t, u
<1>5. req'[r] = t /\ issued' = issued /\ spent' = spent
  BY <1>1, <1>2 DEF rows
<1>6. Stage(r)'
  BY <1>4, <1>5 DEF Stage, Fits
<1>7. Secrets(r)'
  <2>1. req'[r].rec.born <= issued' /\ ~req'[r].sec /\ req'[r].pc = "related"
    BY <1>2, <1>4, <1>5, RowsHaveNumbers
  <2> QED
    BY <2>1 DEF Secrets, Passed
<1>8. Codes(r)'
  <2>1. /\ req'[r].old = issued' /\ issued' \in Nat /\ req'[r].factor = f
        /\ req'[r].pc = "related" /\ (req'[r].late => p)
    BY <1>2, <1>4, <1>5
  <2>2. f.kind = "backup" => f.code[1] <= issued'
    BY <1>2, <1>5
  <2> QED
    BY <1>5, <2>1, <2>2 DEF Codes, Passed
<1> QED
  BY <1>1, <1>3, <1>4, <1>6, <1>7, <1>8, OwnStep

\* A transaction that goes on with the operation and the factor it began with.
LEMMA Advance ==
    ASSUME Inv, NEW r \in Request, NEW t \in Transaction,
           req' = [req EXCEPT ![r] = t], UNCHANGED <<rows, clock, spent>>,
           t.op = req[r].op, t.factor = req[r].factor, t.late = req[r].late,
           t.old = req[r].old,
           Stage(r)', Secrets(r)',
           t.sec => req[r].sec \/ SecretFree(r),
           t.late /\ t.pc \in {"select codes", "lock codes"} =>
               t.factor.code \notin t.seen \ t.ticked,
           t.pc \in Passed => ~t.late,
           t.pc \in {"delete", "select wipe", "wipe", "commit"}
               /\ t.op \in {"setup", "regenerate", "disable"} =>
                   \A c \in codes \ t.snap : c[1] > t.old
    PROVE  Inv'
<1>1. /\ req'[r] = t /\ UNCHANGED <<issued, spent, codes>>
  BY DEF Inv, TypeOK, rows
<1>2. Codes(r)
  BY DEF Inv
<1>3. Codes(r)'
  BY <1>1, <1>2 DEF Codes
<1> QED
  BY <1>3, OwnStep

\* What is known of the transaction that takes the step.
LEMMA OwnInv ==
    ASSUME Inv, NEW r \in Request
    PROVE  /\ req \in [Request -> Transaction] /\ req[r] \in Transaction
           /\ secret \in SecretRow \cup {None} /\ issued \in Nat
           /\ Stage(r) /\ Secrets(r) /\ Codes(r) /\ secret.born <= issued
           /\ codes \subseteq CodeRow /\ used \subseteq CodeRow
  BY DEF Inv, TypeOK, Numbered

\* What the transaction loads has every spent code marked.
LEMMA LoadRelatedStep == ASSUME Inv, NEW r \in Request, LoadRelated(r) PROVE Inv'
<1>1. /\ req \in [Request -> Transaction] /\ req[r] \in Transaction
      /\ secret \in SecretRow \cup {None} /\ issued \in Nat
      /\ Stage(r) /\ Secrets(r) /\ Codes(r)
      /\ codes \subseteq CodeRow /\ used \subseteq CodeRow
  BY OwnInv
<1>2. CASE Starts(r)
  <2> DEFINE t == [req[r] EXCEPT !.pc = FirstStatement(r), !.row = secret,
                                 !.seen = codes, !.ticked = used]
  <2>1. req[r].pc = "related" /\ req' = [req EXCEPT ![r] = t] /\ UNCHANGED <<rows, clock, spent>>
    BY <1>1, <1>2 DEF LoadRelated
  <2>2. FirstStatement(r) \in {"select secret", "select codes", "get"}
    BY DEF FirstStatement
  <2>3. t \in Transaction
    BY <1>1, <2>2 DEF Transaction
  <2>4. /\ t.pc = FirstStatement(r) /\ t.op = req[r].op /\ t.factor = req[r].factor
        /\ t.old = req[r].old /\ t.late = req[r].late /\ t.rec = req[r].rec
        /\ t.sec = req[r].sec /\ t.seen = codes /\ t.ticked = used
    BY <1>1 DEF Transaction
  <2> HIDE DEF t
  <2>5. req'[r] = t /\ UNCHANGED <<secret, issued>>
    BY <1>1, <2>1 DEF rows
  <2>6. Stage(r)'
    BY <1>1, <1>2, <2>1, <2>4, <2>5 DEF Stage, FirstStatement, Starts, AllOps
  <2>7. Secrets(r)'
    BY <1>1, <2>2, <2>4, <2>5 DEF Secrets, Passed
  <2>8. t.late => t.factor.code \notin t.seen \ t.ticked
    BY <1>1, <2>4 DEF Codes, Inv, Numbered
  <2> QED
    BY <2>1, <2>2, <2>3, <2>4, <2>6, <2>7, <2>8, Advance DEF Passed
<1>3. CASE ~Starts(r)
  BY <1>3, EndStep DEF LoadRelated
<1> QED
  BY <1>2, <1>3

\* The record that the ORM returns is that of the row, as it is or as it was.
LEMMA LoadedRow ==
    ASSUME Inv, NEW r \in Request
    PROVE  Loaded(r, secret) \in SecretRow \cup {None} /\ Loaded(r, secret).born = secret.born
<1>1. req[r].row \in SecretRow \cup {None} /\ secret \in SecretRow \cup {None}
  BY DEF Inv, TypeOK, Transaction
<1> QED
  BY <1>1 DEF Loaded

\* The code of a secret that is there was accepted, or a setup goes on.
LEMMA GetSecretStep == ASSUME Inv, NEW r \in Request, GetSecret(r) PROVE Inv'
<1>1. /\ req \in [Request -> Transaction] /\ req[r] \in Transaction
      /\ secret \in SecretRow \cup {None} /\ issued \in Nat
      /\ Stage(r) /\ Secrets(r) /\ Codes(r) /\ secret.born <= issued
  BY OwnInv
<1> DEFINE row == Loaded(r, secret)
<1>2. row \in SecretRow \cup {None} /\ row.born = secret.born
  BY LoadedRow
<1>3. CASE req[r].op = "setup" \/ (row # None /\ Accepts(row, req[r].factor))
  <2> DEFINE t == [Forget(req[r]) EXCEPT !.rec = row, !.pc = "write"]
  <2>1. req[r].pc = "get" /\ req' = [req EXCEPT ![r] = t] /\ UNCHANGED <<rows, clock, spent>>
    BY <1>1, <1>3 DEF GetSecret
  <2> HIDE DEF row
  <2>2. t \in Transaction
    BY <1>1, <1>2 DEF Transaction, Forget
  <2>3. /\ t.pc = "write" /\ t.op = req[r].op /\ t.factor = req[r].factor
        /\ t.old = req[r].old /\ t.late = req[r].late /\ t.rec = row
        /\ t.sec = req[r].sec
    BY <1>1 DEF Transaction, Forget
  <2> HIDE DEF t
  <2>4. req'[r] = t /\ UNCHANGED <<secret, issued>>
    BY <1>1, <2>1 DEF rows
  <2>5. Stage(r)'
    BY <1>1, <2>1, <2>3, <2>4 DEF Stage
  <2>6. row.born <= issued
    BY <1>1, <1>2
  <2>7. Secrets(r)'
    BY <1>1, <1>2, <1>3, <2>3, <2>4, <2>6 DEF Secrets, Passed
  <2> QED
    BY <2>1, <2>2, <2>3, <2>5, <2>7, Advance DEF Passed
<1>4. CASE ~(req[r].op = "setup" \/ (row # None /\ Accepts(row, req[r].factor)))
  <2>1. EndSession(r) /\ UNCHANGED <<rows, clock, spent>>
    BY <1>4 DEF GetSecret
  <2> QED
    BY <2>1, EndStep
<1> QED
  BY <1>3, <1>4

\* The flush takes the lock of the row it has loaded.
LEMMA FlushSecretStep == ASSUME Inv, NEW r \in Request, FlushSecret(r) PROVE Inv'
<1>1. /\ req \in [Request -> Transaction] /\ req[r] \in Transaction
      /\ secret \in SecretRow \cup {None} /\ issued \in Nat
      /\ Stage(r) /\ Secrets(r) /\ Codes(r)
  BY OwnInv
<1>2. CASE secret.born = req[r].rec.born
  <2> DEFINE t == [req[r] EXCEPT !.sec = TRUE, !.pc = AfterFactor(r)]
  <2>1. /\ req[r].pc = "write" /\ SecretFree(r)
        /\ req' = [req EXCEPT ![r] = t] /\ UNCHANGED <<rows, clock, spent>>
    BY <1>1, <1>2 DEF FlushSecret
  <2>2. AfterFactor(r) \in {"commit", "select old"}
    BY DEF AfterFactor
  <2>3. t \in Transaction
    BY <1>1, <2>2 DEF Transaction
  <2>4. /\ t.pc = AfterFactor(r) /\ t.op = req[r].op /\ t.factor = req[r].factor
        /\ t.old = req[r].old /\ t.late = req[r].late /\ t.rec = req[r].rec /\ t.sec
    BY <1>1 DEF Transaction
  <2> HIDE DEF t
  <2>5. req'[r] = t /\ UNCHANGED <<secret, issued>>
    BY <1>1, <2>1 DEF rows
  <2>6. Stage(r)'
    BY <1>1, <2>1, <2>4, <2>5 DEF Stage, AfterFactor
  <2>7. Secrets(r)'
    BY <1>1, <1>2, <2>1, <2>2, <2>4, <2>5 DEF Secrets, Stage, Passed
  <2>8. ~t.late
    BY <1>1, <2>1, <2>4 DEF Stage, Codes
  <2>9. t.pc = "commit" => t.op = "login"
    BY <2>4 DEF AfterFactor
  <2> QED
    BY <2>1, <2>2, <2>3, <2>4, <2>6, <2>7, <2>8, <2>9, Advance
<1>3. CASE secret.born # req[r].rec.born
  BY <1>3, EndStep DEF FlushSecret
<1> QED
  BY <1>2, <1>3

\* enable finds a secret, ...
LEMMA SelectSecretStep == ASSUME Inv, NEW r \in Request, SelectSecret(r) PROVE Inv'
<1>1. /\ req \in [Request -> Transaction] /\ req[r] \in Transaction
      /\ secret \in SecretRow \cup {None} /\ issued \in Nat
      /\ Stage(r) /\ Secrets(r) /\ Codes(r) /\ secret.born <= issued
  BY OwnInv
<1>2. CASE secret # None
  <2> DEFINE t == [req[r] EXCEPT !.rec = secret, !.pc = "lock secret"]
  <2>1. req[r].pc = "select secret" /\ req' = [req EXCEPT ![r] = t] /\ UNCHANGED <<rows, clock, spent>>
    BY <1>1, <1>2 DEF SelectSecret
  <2>2. t \in Transaction
    BY <1>1 DEF Transaction
  <2>3. /\ t.pc = "lock secret" /\ t.op = req[r].op /\ t.factor = req[r].factor
        /\ t.old = req[r].old /\ t.late = req[r].late /\ t.rec = secret
        /\ t.sec = req[r].sec
    BY <1>1 DEF Transaction
  <2> HIDE DEF t
  <2>4. req'[r] = t /\ UNCHANGED <<secret, issued>>
    BY <1>1, <2>1 DEF rows
  <2>5. Stage(r)'
    BY <1>1, <2>1, <2>3, <2>4 DEF Stage
  <2>6. Secrets(r)'
    BY <1>1, <1>2, <2>3, <2>4 DEF Secrets, Passed
  <2> QED
    BY <2>1, <2>2, <2>3, <2>5, <2>6, Advance DEF Passed
<1>3. CASE secret = None
  BY <1>3, EndStep DEF SelectSecret
<1> QED
  BY <1>2, <1>3

\* ... and takes its lock if it is still there.
LEMMA LockSecretStep == ASSUME Inv, NEW r \in Request, LockSecret(r) PROVE Inv'
<1>1. /\ req \in [Request -> Transaction] /\ req[r] \in Transaction
      /\ secret \in SecretRow \cup {None} /\ issued \in Nat
      /\ Stage(r) /\ Secrets(r) /\ Codes(r) /\ secret.born <= issued
  BY OwnInv
<1> DEFINE row == Loaded(r, secret)
<1>2. row \in SecretRow \cup {None} /\ row.born = secret.born
  BY LoadedRow
<1>3. CASE secret.born = req[r].rec.born /\ verify_totp_code(row, req[r].factor)
  <2> DEFINE t == [Forget(req[r]) EXCEPT !.rec = row, !.sec = TRUE, !.pc = "commit"]
  <2>1. /\ req[r].pc = "lock secret" /\ SecretFree(r)
        /\ req' = [req EXCEPT ![r] = t] /\ UNCHANGED <<rows, clock, spent>>
    BY <1>1, <1>3 DEF LockSecret
  <2> HIDE DEF row
  <2>2. t \in Transaction
    BY <1>1, <1>2 DEF Transaction, Forget
  <2>3. /\ t.pc = "commit" /\ t.op = req[r].op /\ t.factor = req[r].factor
        /\ t.old = req[r].old /\ t.late = req[r].late /\ t.rec = row /\ t.sec
    BY <1>1 DEF Transaction, Forget
  <2> HIDE DEF t
  <2>4. req'[r] = t /\ UNCHANGED <<secret, issued>>
    BY <1>1, <2>1 DEF rows
  <2>5. req[r].op = "enable" /\ req[r].factor.kind # "backup"
    BY <1>1, <2>1 DEF Stage
  <2>6. Stage(r)'
    BY <1>1, <2>1, <2>3, <2>4, <2>5 DEF Stage
  <2>7. row # None
    <3>1. req[r].rec # None /\ req[r].rec \in SecretRow \cup {None}
      BY <1>1, <2>1 DEF Secrets, Transaction
    <3> QED
      BY <1>2, <1>3, <3>1, RowsHaveNumbers
  <2>8. Secrets(r)'
    BY <1>1, <1>2, <2>3, <2>4, <2>5, <2>7 DEF Secrets
  <2>9. ~t.late
    BY <1>1, <2>3, <2>5 DEF Codes
  <2> QED
    BY <2>1, <2>2, <2>3, <2>5, <2>6, <2>8, <2>9, Advance
<1>4. CASE ~(secret.born = req[r].rec.born /\ verify_totp_code(row, req[r].factor))
  BY <1>4, EndStep DEF LockSecret
<1> QED
  BY <1>3, <1>4

\* The statements about the codes start with the codes that are there.
LEMMA StartOnCodesStep ==
    ASSUME Inv, NEW r \in Request, NEW pc, NEW next,
           \/ pc = "select codes" /\ next = "lock codes"
           \/ pc = "select old" /\ next = "delete",
           StartOnCodes(r, pc, next)
    PROVE  Inv'
<1>1. /\ req \in [Request -> Transaction] /\ req[r] \in Transaction
      /\ secret \in SecretRow \cup {None} /\ issued \in Nat
      /\ Stage(r) /\ Secrets(r) /\ Codes(r) /\ codes \subseteq CodeRow
  BY OwnInv
<1> DEFINE t == [req[r] EXCEPT !.snap = codes, !.pc = next]
<1>2. req[r].pc = pc /\ req' = [req EXCEPT ![r] = t] /\ UNCHANGED <<rows, clock, spent>>
  BY <1>1 DEF StartOnCodes
<1>3. t \in Transaction
  BY <1>1 DEF Transaction
<1>4. /\ t.pc = next /\ t.op = req[r].op /\ t.factor = req[r].factor
      /\ t.old = req[r].old /\ t.late = req[r].late /\ t.rec = req[r].rec
      /\ t.sec = req[r].sec /\ t.seen = req[r].seen /\ t.ticked = req[r].ticked
      /\ t.snap = codes
  BY <1>1 DEF Transaction
<1> HIDE DEF t
<1>5. req'[r] = t /\ UNCHANGED <<secret, issued>>
  BY <1>1, <1>2 DEF rows
<1>6. Stage(r)'
  BY <1>1, <1>2, <1>4, <1>5 DEF Stage
<1>7. Secrets(r)'
  BY <1>1, <1>2, <1>4, <1>5 DEF Secrets, Passed
<1>8. /\ t.late /\ t.pc = "lock codes" => t.factor.code \notin t.seen \ t.ticked
      /\ t.pc = "delete" => ~t.late
  BY <1>1, <1>2, <1>4 DEF Codes, Passed
<1>9. \A c \in codes \ t.snap : c[1] > t.old
  BY <1>4
<1> QED
  BY <1>2, <1>3, <1>4, <1>6, <1>7, <1>8, <1>9, Advance DEF Passed

\* A code that was spent before the transaction began is used in what it loaded,
\* or was not loaded and is used now: it is not accepted.
LEMMA LockCodesStep == ASSUME Inv, NEW r \in Request, LockCodes(r) PROVE Inv'
<1>1. /\ req \in [Request -> Transaction] /\ req[r] \in Transaction
      /\ secret \in SecretRow \cup {None} /\ issued \in Nat
      /\ Stage(r) /\ Secrets(r) /\ Codes(r) /\ codes \subseteq CodeRow
  BY OwnInv
<1> DEFINE present == req[r].snap \cap codes
           c == req[r].factor.code
<1>2. CASE c \in present /\ ~IsUsed(r, c)
  <2> DEFINE t == [Forget(req[r]) EXCEPT !.held = present, !.pc = AfterFactor(r)]
  <2>1. /\ req[r].pc = "lock codes"
        /\ req' = [req EXCEPT ![r] = t] /\ UNCHANGED <<rows, clock, spent>>
    BY <1>1, <1>2 DEF LockCodes
  <2>2. AfterFactor(r) \in {"commit", "select old"} /\ present \subseteq CodeRow
    BY <1>1 DEF AfterFactor
  <2> HIDE DEF present
  <2>3. t \in Transaction
    BY <1>1, <2>2 DEF Transaction, Forget
  <2>4. /\ t.pc = AfterFactor(r) /\ t.op = req[r].op /\ t.factor = req[r].factor
        /\ t.old = req[r].old /\ t.late = req[r].late /\ t.rec = req[r].rec
        /\ t.sec = req[r].sec
    BY <1>1 DEF Transaction, Forget
  <2> HIDE DEF t
  <2>5. req'[r] = t /\ UNCHANGED <<secret, issued>>
    BY <1>1, <2>1 DEF rows
  <2>6. req[r].factor.kind = "backup" /\ req[r].op \notin {"setup", "enable"}
    BY <1>1, <2>1 DEF Stage
  <2>7. Stage(r)'
    BY <1>1, <2>1, <2>4, <2>5, <2>6 DEF Stage, AfterFactor
  <2>8. Secrets(r)'
    BY <1>1, <2>1, <2>2, <2>4, <2>5, <2>6 DEF Secrets, AfterFactor
  <2>9. ~t.late
    <3> SUFFICES ASSUME req[r].late PROVE FALSE
      BY <2>4
    <3>1. c \in spent /\ c \notin req[r].seen \ req[r].ticked
      BY <1>1, <2>1 DEF Codes
    <3>2. c \in used
      BY <1>2, <3>1 DEF Inv, Numbered, present
    <3> QED
      BY <1>2, <3>1, <3>2 DEF IsUsed
  <2>10. t.pc = "commit" => t.op = "login"
    BY <2>4 DEF AfterFactor
  <2> QED
    BY <2>1, <2>2, <2>3, <2>4, <2>7, <2>8, <2>9, <2>10, Advance
<1>3. CASE ~(c \in present /\ ~IsUsed(r, c))
  <2>1. EndSession(r) /\ UNCHANGED <<rows, clock, spent>>
    BY <1>3 DEF LockCodes
  <2> QED
    BY <2>1, EndStep
<1> QED
  BY <1>2, <1>3

\* The DELETE skips codes that are gone: what it leaves was added later.
LEMMA DeleteCodesStep == ASSUME Inv, NEW r \in Request, DeleteCodes(r) PROVE Inv'
<1>1. /\ req \in [Request -> Transaction] /\ req[r] \in Transaction
      /\ secret \in SecretRow \cup {None} /\ issued \in Nat
      /\ Stage(r) /\ Secrets(r) /\ Codes(r) /\ codes \subseteq CodeRow
  BY OwnInv
<1> DEFINE D == Deleted(r)
           pc == IF req[r].op = "disable" THEN "select wipe" ELSE "commit"
           t == [req[r] EXCEPT !.snap = D, !.held = req[r].held \cup D, !.pc = pc]
<1>2. req[r].pc = "delete" /\ req' = [req EXCEPT ![r] = t] /\ UNCHANGED <<rows, clock, spent>>
  BY <1>1 DEF DeleteCodes
<1>3. D \subseteq CodeRow /\ codes \ D = codes \ req[r].snap
  BY <1>1 DEF Deleted
<1> HIDE DEF D
<1>4. t \in Transaction
  BY <1>1, <1>3 DEF Transaction
<1>5. /\ t.pc = pc /\ t.op = req[r].op /\ t.factor = req[r].factor
      /\ t.old = req[r].old /\ t.late = req[r].late /\ t.rec = req[r].rec
      /\ t.sec = req[r].sec /\ t.snap = D
  BY <1>1 DEF Transaction
<1> HIDE DEF t
<1>6. req'[r] = t /\ UNCHANGED <<secret, issued>>
  BY <1>1, <1>2 DEF rows
<1>7. req[r].op \in {"setup", "regenerate", "disable"}
  BY <1>1, <1>2 DEF Stage, AllOps
<1>8. Stage(r)'
  BY <1>1, <1>2, <1>5, <1>6, <1>7 DEF Stage
<1>9. Secrets(r)'
  BY <1>1, <1>2, <1>5, <1>6 DEF Secrets, Passed
<1>10. ~t.late /\ \A c \in codes \ t.snap : c[1] > t.old
  BY <1>1, <1>2, <1>3, <1>5, <1>7 DEF Codes, Passed
<1> QED
  BY <1>2, <1>4, <1>5, <1>8, <1>9, <1>10, Advance DEF Passed

\* The DELETE of the secret starts with the secret that is there, ...
LEMMA SelectWipeStep == ASSUME Inv, NEW r \in Request, SelectWipe(r) PROVE Inv'
<1>1. /\ req \in [Request -> Transaction] /\ req[r] \in Transaction
      /\ secret \in SecretRow \cup {None} /\ issued \in Nat
      /\ Stage(r) /\ Secrets(r) /\ Codes(r) /\ secret.born <= issued
  BY OwnInv
<1> DEFINE t == [req[r] EXCEPT !.rec = secret, !.pc = "wipe"]
<1>2. req[r].pc = "select wipe" /\ req' = [req EXCEPT ![r] = t] /\ UNCHANGED <<rows, clock, spent>>
  BY <1>1 DEF SelectWipe
<1>3. t \in Transaction
  BY <1>1 DEF Transaction
<1>4. /\ t.pc = "wipe" /\ t.op = req[r].op /\ t.factor = req[r].factor
      /\ t.old = req[r].old /\ t.late = req[r].late /\ t.rec = secret
      /\ t.sec = req[r].sec /\ t.snap = req[r].snap
  BY <1>1 DEF Transaction
<1> HIDE DEF t
<1>5. req'[r] = t /\ UNCHANGED <<secret, issued>>
  BY <1>1, <1>2 DEF rows
<1>6. Stage(r)' /\ req[r].op = "disable"
  BY <1>1, <1>2, <1>4, <1>5 DEF Stage
<1>7. req[r].factor.kind = "totp" => secret # None
  <2> SUFFICES ASSUME req[r].factor.kind = "totp" PROVE secret # None
    OBVIOUS
  <2>1. req[r].rec # None /\ secret.born = req[r].rec.born
    BY <1>1, <1>2 DEF Secrets, Passed
  <2>2. req[r].rec \in SecretRow \cup {None}
    BY <1>1 DEF Transaction
  <2> QED
    BY <1>1, <2>1, <2>2, RowsHaveNumbers
<1>8. Secrets(r)'
  BY <1>1, <1>2, <1>4, <1>5, <1>7 DEF Secrets, Passed
<1>9. ~t.late /\ \A c \in codes \ t.snap : c[1] > t.old
  BY <1>1, <1>2, <1>4, <1>6 DEF Codes, Passed
<1> QED
  BY <1>2, <1>3, <1>4, <1>6, <1>8, <1>9, Advance DEF Passed

\* ... and takes its lock if it is still that one.
LEMMA WipeStep == ASSUME Inv, NEW r \in Request, Wipe(r) PROVE Inv'
<1>1. /\ req \in [Request -> Transaction] /\ req[r] \in Transaction
      /\ secret \in SecretRow \cup {None} /\ issued \in Nat
      /\ Stage(r) /\ Secrets(r) /\ Codes(r) /\ req[r].sec \in BOOLEAN
      /\ req[r].rec \in SecretRow \cup {None}
  BY OwnInv DEF Transaction
<1> DEFINE p == req[r].sec \/ secret.born \in {req[r].rec.born} \ {0}
           u(sec) == [req[r] EXCEPT !.sec = sec, !.pc = "commit"]
           t == u(p)
<1>2. /\ req[r].pc = "wipe" /\ SecretFree(r)
      /\ req' = [req EXCEPT ![r] = t] /\ UNCHANGED <<rows, clock, spent>>
  BY <1>1 DEF Wipe
<1>3. t \in Transaction
  <2>1. \A sec \in BOOLEAN : u(sec) \in Transaction
    BY <1>1 DEF Transaction
  <2>2. p = TRUE \/ p = FALSE
    BY <1>1, Values, Zenon
  <2> HIDE DEF u, p
  <2> QED
    BY <2>1, <2>2
<1>4. /\ t.pc = "commit" /\ t.op = req[r].op /\ t.factor = req[r].factor
      /\ t.old = req[r].old /\ t.late = req[r].late /\ t.rec = req[r].rec
      /\ (t.sec <=> p) /\ t.snap = req[r].snap
  BY <1>1 DEF Transaction
<1> HIDE DEF t, u
<1>5. req'[r] = t /\ UNCHANGED <<secret, issued>>
  BY <1>1, <1>2 DEF rows
<1>6. Stage(r)' /\ req[r].op = "disable"
  BY <1>1, <1>2, <1>4, <1>5 DEF Stage
<1>7. (t.sec => secret.born = t.rec.born) /\ (req[r].sec => t.sec)
      /\ (~t.sec => t.rec = None \/ secret.born # t.rec.born)
  BY <1>1, <1>4, RowsHaveNumbers DEF Secrets
<1>8. Secrets(r)'
  BY <1>1, <1>2, <1>4, <1>5, <1>7 DEF Secrets, Passed
<1>9. ~t.late /\ \A c \in codes \ t.snap : c[1] > t.old
  BY <1>1, <1>2, <1>4, <1>6 DEF Codes, Passed
<1> QED
  BY <1>2, <1>3, <1>4, <1>6, <1>8, <1>9, Advance DEF Passed

-----------------------------------------------------------------------------

\* What a commit leaves of the secret: the row itself, a younger one, or none;
\* a transaction without the lock of the secret leaves it as it is.
LEMMA SecretAfterCommit ==
    ASSUME Inv, NEW r \in Request, req[r].pc = "commit"
    PROVE  /\ SecretAfter(r) \in SecretRow \cup {None}
           /\ ~req[r].sec => SecretAfter(r) = secret
           /\ SecretAfter(r).born \in {0, secret.born, issued + 1}
           /\ SecretAfter(r).born = issued + 1 => req[r].op = "setup"
           /\ req[r].op = "enable" => SecretAfter(r) # None
           /\ req[r].op # "disable" /\ secret # None => SecretAfter(r) # None
<1>1. /\ req[r] \in Transaction /\ secret \in SecretRow \cup {None} /\ issued \in Nat
      /\ Stage(r) /\ Secrets(r) /\ secret.born <= issued
  BY OwnInv
<1>2. /\ req[r].op \in AllOps /\ req[r].rec \in SecretRow \cup {None}
      /\ req[r].factor \in Factor
      /\ req[r].factor.kind = "totp" => req[r].factor.time \in Nat
  <2>1. req[r].op \in AllOps
    BY <1>1 DEF Stage
  <2>2. req[r].rec \in SecretRow \cup {None} /\ req[r].factor \in Factor
    BY <1>1 DEF Transaction
  <2> QED
    BY <2>1, <2>2, FactorFields
<1>3. CASE req[r].op = "setup" /\ req[r].rec = None
  <2>1. SecretAfter(r) = [born |-> issued + 1, key |-> issued + 1,
                          confirmed |-> FALSE, last |-> 0]
    BY <1>3 DEF SecretAfter
  <2>2. SecretAfter(r) \in SecretRow /\ SecretAfter(r).born = issued + 1
    BY <1>1, <2>1 DEF SecretRow
  <2>3. req[r].sec
    BY <1>1, <1>3 DEF Stage, Secrets, Passed
  <2> QED
    BY <1>1, <1>3, <2>2, <2>3, RowsHaveNumbers
<1>4. CASE req[r].op = "setup" /\ req[r].rec # None
  <2>1. req[r].sec /\ secret.born = req[r].rec.born
    BY <1>1, <1>4 DEF Stage, Secrets, Passed
  <2>2. secret \in SecretRow
    BY <1>1, <1>2, <1>4, <2>1, RowsHaveNumbers
  <2> DEFINE l == IF req[r].rec.last = 0 THEN secret.last ELSE 0
             u(b) == [secret EXCEPT !.key = issued + 1, !.confirmed = b, !.last = l]
             p == secret.confirmed /\ ~req[r].rec.confirmed
  <2>3. SecretAfter(r) = u(p)
    BY <1>4, <2>2 DEF SecretAfter, SecretRow
  <2>4. \A b \in BOOLEAN : u(b) \in SecretRow /\ u(b).born = secret.born
    <3>1. l \in Nat /\ issued + 1 \in Nat
      BY <1>1, <2>2 DEF SecretRow
    <3> HIDE DEF l
    <3> QED
      BY <2>2, <3>1 DEF SecretRow
  <2>5. p = TRUE \/ p = FALSE
    <3>1. secret.confirmed \in BOOLEAN
      BY <2>2 DEF SecretRow
    <3> QED
      BY <3>1, Zenon
  <2> HIDE DEF u, p
  <2>6. SecretAfter(r) \in SecretRow /\ SecretAfter(r).born = secret.born
    BY <2>3, <2>4, <2>5
  <2> QED
    BY <1>1, <1>4, <2>1, <2>2, <2>6, RowsHaveNumbers
<1>5. CASE req[r].op = "enable"
  <2>1. req[r].factor.kind = "totp"
    BY <1>1, <1>2, <1>5 DEF Stage, Factor
  <2>2. req[r].sec /\ secret.born = req[r].rec.born /\ req[r].rec # None
    BY <1>1, <2>1 DEF Secrets, Passed
  <2>3. secret \in SecretRow
    BY <1>1, <1>2, <2>2, RowsHaveNumbers
  <2> DEFINE l == IF req[r].rec.last = req[r].factor.time
                  THEN secret.last ELSE req[r].factor.time
  <2>4. SecretAfter(r) = [secret EXCEPT !.confirmed = TRUE, !.last = l]
    BY <1>5, <2>3 DEF SecretAfter
  <2>5. l \in Nat
    BY <1>2, <2>1, <2>3 DEF SecretRow
  <2> HIDE DEF l
  <2>6. SecretAfter(r) \in SecretRow /\ SecretAfter(r).born = secret.born
    BY <2>3, <2>4, <2>5 DEF SecretRow
  <2>7. issued + 1 # secret.born
    BY <1>1, RowsHaveNumbers
  <2> QED
    BY <1>5, <2>2, <2>3, <2>6, <2>7, RowsHaveNumbers
<1>6. CASE req[r].op = "disable"
  <2>1. SecretAfter(r) = IF secret.born = req[r].rec.born THEN None ELSE secret
    BY <1>6 DEF SecretAfter
  <2>2. ~req[r].sec => SecretAfter(r) = secret
    BY <1>1, <1>2, <1>6, <2>1, RowsHaveNumbers DEF Secrets
  <2>3. issued + 1 # 0 /\ issued + 1 # secret.born
    BY <1>1, RowsHaveNumbers
  <2> QED
    BY <1>1, <1>6, <2>1, <2>2, <2>3, RowsHaveNumbers
<1>7. CASE req[r].op \in {"login", "regenerate"}
  <2>1. SecretAfter(r) = IF req[r].factor.kind = "totp"
                         THEN [secret EXCEPT !.last = req[r].factor.time] ELSE secret
    BY <1>7 DEF SecretAfter
  <2>2. issued + 1 # secret.born
    BY <1>1, RowsHaveNumbers
  <2>3. CASE req[r].factor.kind = "totp"
    <3>1. req[r].sec /\ secret.born = req[r].rec.born /\ req[r].rec # None
      BY <1>1, <2>3 DEF Secrets, Passed
    <3>2. secret \in SecretRow
      BY <1>1, <1>2, <3>1, RowsHaveNumbers
    <3>3. SecretAfter(r) \in SecretRow /\ SecretAfter(r).born = secret.born
      BY <1>2, <2>1, <2>3, <3>2 DEF SecretRow
    <3> QED
      BY <1>1, <1>7, <2>2, <3>1, <3>2, <3>3, RowsHaveNumbers
  <2>4. CASE req[r].factor.kind # "totp"
    BY <1>1, <1>7, <2>1, <2>2, <2>4
  <2> QED
    BY <2>3, <2>4
<1> QED
  BY <1>2, <1>3, <1>4, <1>5, <1>6, <1>7 DEF AllOps

\* The commit: the lock of the secret keeps the others off the row it writes, a
\* spent code is marked, and the codes it adds are younger than every
\* transaction.
LEMMA CommitStep == ASSUME Inv, NEW r \in Request, Commit(r) PROVE Inv'
<1>1. /\ req[r].pc = "commit" /\ EndSession(r)
      /\ secret' = SecretAfter(r) /\ enabled' = EnabledAfter(r)
      /\ codes' = (codes \ Replaced(r)) \cup Added(r)
      /\ used' = (used \cup Spends(r)) \cap codes'
      /\ issued' = (IF Added(r) = {} THEN issued ELSE issued + 1)
      /\ spent' = spent \cup Spends(r) /\ clock' = clock
  BY DEF Commit
<1>2. /\ req \in [Request -> Transaction] /\ req[r] \in Transaction
      /\ secret \in SecretRow \cup {None} /\ issued \in Nat
      /\ Stage(r) /\ Secrets(r) /\ Codes(r) /\ secret.born <= issued
      /\ codes \subseteq CodeRow /\ used \subseteq CodeRow
  BY OwnInv
<1>3. /\ secret' \in SecretRow \cup {None}
      /\ ~req[r].sec => secret' = secret
      /\ secret'.born \in {0, secret.born, issued + 1}
      /\ secret'.born = issued + 1 => req[r].op = "setup"
      /\ req[r].op = "enable" => secret' # None
      /\ req[r].op # "disable" /\ secret # None => secret' # None
  BY <1>1, SecretAfterCommit
<1>4. /\ req' = [req EXCEPT ![r] = Idle] /\ req'[r] = Idle
      /\ req' \in [Request -> Transaction]
      /\ \A q \in Request \ {r} : req'[q] = req[q]
  BY <1>1, <1>2, IdleType DEF EndSession
<1>5. /\ Added(r) \subseteq CodeRow /\ \A c \in Added(r) : c[1] = issued + 1
      /\ Added(r) # {} => req[r].op \in {"setup", "regenerate"}
  BY <1>2 DEF Added, CodeRow
<1>6. issued' \in Nat /\ issued <= issued' /\ (Added(r) # {} => issued' = issued + 1)
  BY <1>1, <1>2
<1>7. req[r].op \in {"setup", "regenerate"} => Added(r) # {}
  <2>1. PICK x \in Slot : TRUE
    BY TwoFactorAssumption
  <2>2. req[r].op \in {"setup", "regenerate"} => <<issued + 1, x>> \in Added(r)
    BY <2>1 DEF Added
  <2> QED
    BY <2>2
<1>8. secret'.born <= issued'
  BY <1>1, <1>2, <1>3, <1>6, <1>7, RowsHaveNumbers
<1>9. /\ \A c \in Spends(r) : c \in CodeRow /\ c[1] <= issued
      /\ Spends(r) \subseteq {req[r].factor.code}
  <2>1. req[r].factor.kind = "backup" => req[r].factor.code \in CodeRow
    BY <1>2, FactorFields DEF Transaction
  <2> QED
    BY <1>2, <2>1 DEF Spends, Codes
<1>10. TypeOK'
  <2>1. enabled' \in BOOLEAN
    <3>1. enabled' = TRUE \/ enabled' = FALSE
      BY <1>1, Zenon DEF EnabledAfter
    <3> QED
      BY <3>1
  <2>2. codes' \subseteq CodeRow /\ used' \subseteq codes' /\ spent' \subseteq CodeRow
    BY <1>1, <1>2, <1>5, <1>9 DEF Inv, TypeOK
  <2> QED
    BY <1>1, <1>3, <1>4, <1>6, <2>1, <2>2 DEF Inv, TypeOK
<1>11. Stage(r)' /\ Secrets(r)' /\ Codes(r)' /\ ~req'[r].sec
  <2>1. /\ req'[r].pc = "idle" /\ req'[r].op = "none" /\ req'[r].factor.kind = "refused"
        /\ req'[r].rec.born = 0 /\ ~req'[r].sec /\ ~req'[r].late /\ req'[r].old = 0
    BY <1>4 DEF Idle, None
  <2>2. Stage(r)'
    BY <1>4, <2>1 DEF Stage
  <2>3. Secrets(r)'
    BY <1>6, <2>1 DEF Secrets, Passed
  <2>4. Codes(r)'
    BY <1>6, <2>1 DEF Codes, Passed
  <2> QED
    BY <2>1, <2>2, <2>3, <2>4
<1>12. ASSUME NEW q \in Request, q # r PROVE OfRequest(q)'
  <2>1. /\ req'[q] = req[q] /\ Stage(q) /\ Secrets(q) /\ Codes(q)
        /\ req[q] \in Transaction /\ (req[q].sec => ~req[r].sec)
    BY <1>4, <1>12, OwnInv DEF Inv, OneHolder
  <2>2. req[q].rec.born \in Nat /\ req[q].rec \in SecretRow \cup {None} /\ req[q].old \in Nat
    BY <2>1, RowsHaveNumbers DEF Transaction
  <2>3. Stage(q)'
    BY <2>1 DEF Stage
  <2>4. req[q].rec.born <= issued'
    <3>1. req[q].rec.born <= issued
      BY <2>1 DEF Secrets
    <3> QED
      BY <1>2, <1>6, <2>2, <3>1
  <2>5. req[q].sec => secret'.born = req[q].rec.born
    BY <1>3, <2>1 DEF Secrets
  <2>6. req[q].pc = "commit" /\ req[q].op = "disable" /\ ~req[q].sec =>
            req[q].rec = None \/ secret'.born # req[q].rec.born
    <3> SUFFICES ASSUME req[q].pc = "commit", req[q].op = "disable", ~req[q].sec,
                        req[q].rec # None
                 PROVE  secret'.born # req[q].rec.born
      OBVIOUS
    <3>1. secret.born # req[q].rec.born /\ req[q].rec.born <= issued
      BY <2>1 DEF Secrets
    <3>2. req[q].rec.born # 0
      BY <2>2, RowsHaveNumbers
    <3> QED
      BY <1>2, <1>3, <2>2, <3>1, <3>2
  <2>7. Secrets(q)'
    BY <2>1, <2>4, <2>5, <2>6 DEF Secrets
  <2>8. req[q].old <= issued /\ req[q].old <= issued'
    <3>1. req[q].old <= issued
      BY <2>1 DEF Codes
    <3> QED
      BY <1>2, <1>6, <2>2, <3>1
  <2>9. req[q].factor.kind = "backup" => req[q].factor.code[1] <= issued'
    <3>1. req[q].factor.kind = "backup" => req[q].factor.code \in CodeRow
      BY <2>1, FactorFields DEF Transaction
    <3>2. \A c \in CodeRow : c[1] \in Nat
      BY DEF CodeRow
    <3>3. req[q].factor.kind = "backup" => req[q].factor.code[1] <= issued
      BY <2>1 DEF Codes
    <3> QED
      BY <1>2, <1>6, <3>1, <3>2, <3>3
  <2>10. ASSUME NEW c \in codes' \ req[q].snap,
                \A d \in codes \ req[q].snap : d[1] > req[q].old
         PROVE  c[1] > req[q].old
    <3>1. CASE c \in codes
      BY <2>10, <3>1
    <3>2. CASE c \in Added(r)
      BY <1>2, <1>5, <2>2, <2>8, <3>2
    <3> QED
      BY <1>1, <3>1, <3>2
  <2>11. Codes(q)'
    BY <1>1, <2>1, <2>8, <2>9, <2>10 DEF Codes
  <2> QED
    BY <2>3, <2>7, <2>11 DEF OfRequest
<1>13. OneHolder'
  BY <1>4, <1>11 DEF Inv, OneHolder
<1>14. Numbered'
  <2>1. ASSUME NEW c \in codes' \cup spent' PROVE c[1] <= issued'
    <3>1. CASE c \in codes \cup spent \cup Spends(r)
      <4>1. c[1] <= issued /\ c[1] \in Nat
        BY <1>9, <3>1 DEF Inv, Numbered, TypeOK, CodeRow
      <4> QED
        BY <1>2, <1>6, <4>1
    <3>2. CASE c \in Added(r)
      BY <1>5, <1>6, <1>2, <3>2
    <3> QED
      BY <1>1, <3>1, <3>2
  <2>2. ASSUME NEW c \in spent' \cap codes' PROVE c \in used'
    <3>1. c[1] <= issued /\ c[1] \in Nat
      BY <1>1, <1>9, <2>2 DEF Inv, Numbered, TypeOK, CodeRow
    <3>2. c \in codes
      BY <1>1, <1>2, <1>5, <2>2, <3>1
    <3> QED
      BY <1>1, <2>2, <3>2 DEF Inv, Numbered
  <2> QED
    BY <1>8, <2>1, <2>2 DEF Numbered
<1>15. EnabledHasSecret'
  BY <1>1, <1>3 DEF Inv, EnabledHasSecret, EnabledAfter
<1> QED
  BY <1>10, <1>11, <1>12, <1>13, <1>14, <1>15 DEF Inv, OfRequest

\* Every step of the specification keeps the invariant.
LEMMA NextInv == Inv /\ [Next]_vars => Inv'
<1> SUFFICES ASSUME Inv, [Next]_vars PROVE Inv'
  OBVIOUS
<1>1. ASSUME NEW r \in Request, NEW o \in Ops, NEW f \in Inputs, Fits(o, f), Begin(r, o, f)
      PROVE  Inv'
  BY <1>1, BeginStep, TwoFactorAssumption
<1>2. ASSUME NEW r \in Request, Statement(r) PROVE Inv'
  <2>1. CASE DeadlockVictim(r)
    BY <2>1, EndStep DEF DeadlockVictim
  <2>2. CASE StartOnCodes(r, "select codes", "lock codes")
    BY <2>2, StartOnCodesStep
  <2>3. CASE StartOnCodes(r, "select old", "delete")
    BY <2>3, StartOnCodesStep
  <2> QED
    BY <1>2, <2>1, <2>2, <2>3, LoadRelatedStep, GetSecretStep, FlushSecretStep,
       SelectSecretStep, LockSecretStep, LockCodesStep, DeleteCodesStep,
       SelectWipeStep, WipeStep, CommitStep DEF Statement
<1>3. ASSUME NEW r \in Request, Die(r) PROVE Inv'
  BY <1>3, EndStep DEF Die
<1>4. CASE Tick \/ UNCHANGED vars
  <2>1. UNCHANGED <<enabled, secret, codes, used, issued, req, spent>> /\ clock' \in Nat
    BY <1>4 DEF Tick, vars, rows, Inv, TypeOK
  <2>2. TypeOK' /\ OneHolder' /\ Numbered' /\ EnabledHasSecret'
    BY <2>1 DEF Inv, TypeOK, OneHolder, Numbered, EnabledHasSecret
  <2>3. ASSUME NEW r \in Request PROVE Stage(r)' /\ Secrets(r)' /\ Codes(r)'
    <3>1. Stage(r) /\ Secrets(r) /\ Codes(r)
      BY DEF Inv
    <3>2. Stage(r)'
      BY <2>1, <3>1 DEF Stage
    <3>3. Secrets(r)' /\ Codes(r)'
      BY <2>1, <3>1 DEF Secrets, Codes
    <3> QED
      BY <3>2, <3>3
  <2> QED
    BY <2>2, <2>3 DEF Inv
<1> QED
  BY <1>1, <1>2, <1>3, <1>4 DEF Next

\* The invariant holds in every reachable state.
THEOREM Invariance == Spec => []Inv
<1> QED
  BY InitInv, NextInv, PTL DEF Spec

\* The variables of TwoFactor always have their types.
THEOREM TypeCorrect == Spec => []TypeOK
<1>1. Inv => TypeOK
  BY DEF Inv
<1> QED
  BY <1>1, Invariance, PTL

\* While two-factor authentication is enabled there is a secret to check a code
\* against, however setup, enable and disable overlap.
THEOREM EnabledAlwaysHasSecret == Spec => []EnabledHasSecret
<1>1. Inv => EnabledHasSecret
  BY DEF Inv
<1> QED
  BY <1>1, Invariance, PTL

\* A backup code that was spent is refused to every request that begins later.
THEOREM SpentCodesAreRefused == Spec => []SpentCodeRefused
<1>1. Inv => SpentCodeRefused
  BY DEF Inv, SpentCodeRefused, Codes, Passed
<1> QED
  BY <1>1, Invariance, PTL

\* What OldCodesGone says of one step.
LeavesNone ==
    \A r \in Request :
        (req[r].pc = "commit" /\ req[r].op \in {"setup", "regenerate", "disable"}
           /\ Commit(r))
           => \A c \in codes' : c[1] > req[r].old

\* A commit that replaces the codes leaves those that are younger than it.
LEMMA CommitLeavesNone == Inv => LeavesNone
<1> SUFFICES ASSUME Inv, NEW r \in Request, req[r].pc = "commit",
                    req[r].op \in {"setup", "regenerate", "disable"}, Commit(r),
                    NEW c \in codes'
             PROVE  c[1] > req[r].old
  BY DEF LeavesNone
<1>1. /\ req[r] \in Transaction /\ issued \in Nat /\ Codes(r)
  BY OwnInv
<1>2. req[r].old \in Nat /\ req[r].old <= issued
  BY <1>1 DEF Transaction, Codes
<1>3. CASE c \in codes \ req[r].snap
  BY <1>1, <1>3 DEF Codes
<1>4. CASE c \in Added(r)
  <2>1. c[1] = issued + 1
    BY <1>4 DEF Added
  <2> QED
    BY <1>1, <1>2, <2>1
<1> QED
  BY <1>3, <1>4 DEF Commit, Replaced

\* A transaction that replaces or deletes the codes leaves none of those that
\* were there when it began.
THEOREM OldCodesAreGone == Spec => OldCodesGone
<1>1. Inv /\ [Next]_vars => LeavesNone
  BY CommitLeavesNone
<1>2. [][Inv /\ [Next]_vars]_vars => OldCodesGone
  BY <1>1, PTL DEF OldCodesGone, LeavesNone
<1> QED
  BY <1>2, Invariance, PTL DEF Spec
=============================================================================
