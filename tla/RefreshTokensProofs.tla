------------------------ MODULE RefreshTokensProofs ------------------------
(***************************************************************************)
(* Proofs about RefreshTokens, for any number of accounts, sessions,       *)
(* tokens and concurrent requests.                                         *)
(*                                                                         *)
(* Inv is inductive.  Its core: a rotation that passed its checks holds    *)
(* the row lock of a live token until it commits, and no two transactions  *)
(* hold one lock, so at most one rotation is in flight in a family.  That  *)
(* gives one live token and one successor; and since no rotation enters a  *)
(* revoked session, the one in flight is the only one that can be late.    *)
(***************************************************************************)
EXTENDS RefreshTokens, TLAPS

\* What a step that leaves the token rows alone cannot disturb.
LEMMA RowsKept ==
    ASSUME UNCHANGED <<status, family, parent, late>>,
           SingleLive, InvLineage, OneSuccessor, AtMostOneLate
    PROVE  (SingleLive /\ InvLineage /\ OneSuccessor /\ AtMostOneLate)'
  BY DEF SingleLive, InvLineage, OneSuccessor, AtMostOneLate, Issued

\* The initial state satisfies the invariant.
LEMMA InitInv == Init => Inv
  BY ConstantsAssumption
     DEF Init, Inv, TypeOK, InvLocks, InvRows, InvRequests, InvClose, SingleLive,
         InvLineage, OneSuccessor, InvLate, AtMostOneLate, Issued, TokenOps

-----------------------------------------------------------------------------
(* Steps that change no token row: one lemma per action *)

\* The invariant holds after a token expires.
LEMMA ExpireKeeps ==
    ASSUME Inv, NEW j \in Jti, Expire(j)
    PROVE  Inv'
<1> USE DEF Inv, Expire, rows, redis, local
<1>1. TypeOK'
  BY ConstantsAssumption DEF TypeOK, TokenOps
<1>2. InvLocks' /\ InvRows'
  BY DEF TypeOK, InvLocks, InvRows, Issued
<1>3. InvRequests'
  BY DEF TypeOK, InvRequests, Issued
<1>4. InvLate'
  BY DEF TypeOK, InvLate
<1>5. InvClose'
  BY DEF TypeOK, InvClose
<1> QED
  BY <1>1, <1>2, <1>3, <1>4, <1>5, RowsKept

\* The invariant holds after a refresh or a logout begins.
LEMMA BeginKeeps ==
    ASSUME Inv, NEW r \in Request, NEW o \in TokenOps, NEW j \in Jti, Begin(r, o, j)
    PROVE  Inv'
<1> USE DEF Inv, Begin, rows, redis, local
<1>1. TypeOK'
  BY ConstantsAssumption DEF TypeOK, TokenOps, InvRows, Issued
<1>2. InvLocks' /\ InvRows'
  BY DEF TypeOK, InvLocks, InvRows, Issued
<1>3. InvRequests'
  BY DEF TypeOK, InvRequests, Issued
<1>4. InvLate'
  BY DEF TypeOK, InvLate
<1>5. InvClose'
  BY DEF TypeOK, InvClose
<1> QED
  BY <1>1, <1>2, <1>3, <1>4, <1>5, RowsKept

\* The invariant holds after a password reset begins.
LEMMA ResetListKeeps ==
    ASSUME Inv, NEW r \in Request, NEW u \in User, ResetList(r, u)
    PROVE  Inv'
<1> USE DEF Inv, ResetList, SessionsOf, rows, redis, local
<1>1. TypeOK'
  BY ConstantsAssumption DEF TypeOK, TokenOps
<1>2. InvLocks' /\ InvRows'
  BY DEF TypeOK, InvLocks, InvRows, Issued
<1>3. InvRequests'
  BY DEF TypeOK, InvRequests, Issued
<1>4. InvLate'
  BY DEF TypeOK, InvLate
<1>5. InvClose'
  BY DEF TypeOK, InvClose
<1> QED
  BY <1>1, <1>2, <1>3, <1>4, <1>5, RowsKept

\* The invariant holds after SELECT ... FOR UPDATE returns.
LEMMA GetByJtiForUpdateKeeps ==
    ASSUME Inv, NEW r \in Request, GetByJtiForUpdate(r)
    PROVE  Inv'
<1> USE DEF Inv, GetByJtiForUpdate, TokenRowFree, rows, redis, local
<1>1. TypeOK'
  BY ConstantsAssumption DEF TypeOK, TokenOps, InvRequests
<1>2. InvLocks' /\ InvRows'
  BY DEF TypeOK, InvLocks, InvRows, Issued
<1>3. InvRequests'
  BY DEF TypeOK, InvRequests, Issued
<1>4. InvLate'
  BY DEF TypeOK, InvLate
<1>5. InvClose'
  BY DEF TypeOK, InvClose
<1> QED
  BY <1>1, <1>2, <1>3, <1>4, <1>5, RowsKept

\* The invariant holds after a refresh is refused.
LEMMA RotateRejectedKeeps ==
    ASSUME Inv, NEW r \in Request, RotateRejected(r)
    PROVE  Inv'
<1> USE DEF Inv, RotateRejected, Done, rows, redis, local
<1>1. TypeOK'
  BY ConstantsAssumption DEF TypeOK, TokenOps
<1>2. InvLocks' /\ InvRows'
  BY DEF TypeOK, InvLocks, InvRows, Issued
<1>3. InvRequests'
  BY DEF TypeOK, InvRequests, Issued
<1>4. InvLate'
  BY DEF TypeOK, InvLate
<1>5. InvClose'
  BY DEF TypeOK, InvClose
<1> QED
  BY <1>1, <1>2, <1>3, <1>4, <1>5, RowsKept

\* The invariant holds after a refresh finds its token used.
LEMMA RotateReuseKeeps ==
    ASSUME Inv, NEW r \in Request, RotateReuse(r)
    PROVE  Inv'
<1> USE DEF Inv, RotateReuse, rows, redis, local
<1>1. TypeOK'
  BY ConstantsAssumption DEF TypeOK, TokenOps
<1>2. InvLocks' /\ InvRows'
  BY DEF TypeOK, InvLocks, InvRows, Issued
<1>3. InvRequests'
  BY DEF TypeOK, InvRequests, Issued
<1>4. InvLate'
  BY DEF TypeOK, InvLate
<1>5. InvClose'
  BY DEF TypeOK, InvClose
<1> QED
  BY <1>1, <1>2, <1>3, <1>4, <1>5, RowsKept

\* The invariant holds after a refresh passes its checks.
LEMMA RotateAcceptedKeeps ==
    ASSUME Inv, NEW r \in Request, RotateAccepted(r)
    PROVE  Inv'
<1> USE DEF Inv, RotateAccepted, rows, redis, local
<1>1. TypeOK'
  BY ConstantsAssumption DEF TypeOK, TokenOps
<1>2. InvLocks' /\ InvRows'
  BY DEF TypeOK, InvLocks, InvRows, Issued
<1>3. InvRequests'
  BY DEF TypeOK, InvRequests, Issued
<1>4. InvLate'
  BY DEF TypeOK, IsFamilyActive, InvLate
<1>5. InvClose'
  BY DEF TypeOK, InvClose
<1> QED
  BY <1>1, <1>2, <1>3, <1>4, <1>5, RowsKept

\* The invariant holds after the UPDATE of the tokens starts.
LEMMA TokenScanKeeps ==
    ASSUME Inv, NEW r \in Request, TokenScan(r)
    PROVE  Inv'
<1> USE DEF Inv, TokenScan, rows, redis, local
<1>1. TypeOK'
  BY ConstantsAssumption DEF TypeOK, TokenOps
<1>2. InvLocks' /\ InvRows'
  BY DEF TypeOK, InvLocks, InvRows, Issued
<1>3. InvRequests'
  BY DEF TypeOK, InvRequests, Issued
<1>4. InvLate'
  BY DEF TypeOK, InvLate
<1>5. InvClose'
  BY DEF TypeOK, InvClose
<1> QED
  BY <1>1, <1>2, <1>3, <1>4, <1>5, RowsKept

\* The invariant holds after the UPDATE of the tokens locks a row.
LEMMA LockTokenKeeps ==
    ASSUME Inv, NEW r \in Request, NEW j \in Jti, LockToken(r, j)
    PROVE  Inv'
<1> USE DEF Inv, LockToken, TokenRowFree, rows, redis, local
<1>1. TypeOK'
  BY ConstantsAssumption DEF TypeOK, TokenOps
<1>2. InvLocks' /\ InvRows'
  BY DEF TypeOK, InvLocks, InvRows, Issued
<1>3. InvRequests'
  BY DEF TypeOK, InvRequests, Issued
<1>4. InvLate'
  BY DEF TypeOK, InvLate
<1>5. InvClose'
  BY DEF TypeOK, InvClose
<1> QED
  BY <1>1, <1>2, <1>3, <1>4, <1>5, RowsKept

\* The invariant holds after the UPDATE of the sessions starts.
LEMMA SessionScanKeeps ==
    ASSUME Inv, NEW r \in Request, SessionScan(r)
    PROVE  Inv'
<1> USE DEF Inv, SessionScan, rows, redis, local
<1>1. TypeOK'
  BY ConstantsAssumption DEF TypeOK, TokenOps
<1>2. InvLocks' /\ InvRows'
  BY DEF TypeOK, InvLocks, InvRows, Issued
<1>3. InvRequests'
  BY DEF TypeOK, InvRequests, Issued
<1>4. InvLate'
  BY DEF TypeOK, InvLate
<1>5. InvClose'
  BY DEF TypeOK, InvClose
<1> QED
  BY <1>1, <1>2, <1>3, <1>4, <1>5, RowsKept

\* The invariant holds after the UPDATE of the sessions locks a row.
LEMMA LockSessionKeeps ==
    ASSUME Inv, NEW r \in Request, NEW s \in Session, LockSession(r, s)
    PROVE  Inv'
<1> USE DEF Inv, LockSession, SessionRowFree, rows, redis, local
<1>1. TypeOK'
  BY ConstantsAssumption DEF TypeOK, TokenOps
<1>2. InvLocks' /\ InvRows'
  BY DEF TypeOK, InvLocks, InvRows, Issued
<1>3. InvRequests'
  BY DEF TypeOK, InvRequests, Issued
<1>4. InvLate'
  BY DEF TypeOK, InvLate
<1>5. InvClose'
  BY DEF TypeOK, InvClose
<1> QED
  BY <1>1, <1>2, <1>3, <1>4, <1>5, RowsKept

\* The invariant holds after the UPDATE of the sessions is done.
LEMMA SessionsLockedKeeps ==
    ASSUME Inv, NEW r \in Request, SessionsLocked(r)
    PROVE  Inv'
<1> USE DEF Inv, SessionsLocked, rows, redis, local
<1>1. TypeOK'
  BY ConstantsAssumption DEF TypeOK, TokenOps
<1>2. InvLocks' /\ InvRows'
  BY DEF TypeOK, InvLocks, InvRows, Issued
<1>3. InvRequests'
  BY DEF TypeOK, InvRequests, Issued
<1>4. InvLate'
  BY DEF TypeOK, InvLate
<1>5. InvClose'
  BY DEF TypeOK, InvClose
<1> QED
  BY <1>1, <1>2, <1>3, <1>4, <1>5, RowsKept

\* The invariant holds after a marker is set.
LEMMA MarkKeeps ==
    ASSUME Inv, NEW r \in Request, NEW s \in Session, Mark(r, s)
    PROVE  Inv'
<1> USE DEF Inv, Mark, Tokens, rows, redis, local
<1>1. TypeOK'
  BY ConstantsAssumption DEF TypeOK, TokenOps
<1>2. InvLocks' /\ InvRows'
  BY DEF TypeOK, InvLocks, InvRows, Issued
<1>3. InvRequests'
  BY DEF TypeOK, InvRequests, Issued
<1>4. InvLate'
  BY DEF TypeOK, InvLate
<1>5. InvClose'
  BY DEF TypeOK, InvClose
<1> QED
  BY <1>1, <1>2, <1>3, <1>4, <1>5, RowsKept

-----------------------------------------------------------------------------
(* Steps that change token rows *)

\* The invariant holds after a login: the row is new, the session is too.
LEMMA IssueForUserKeeps ==
    ASSUME Inv, NEW s \in Session, NEW j \in Jti, IssueForUser(s, j)
    PROVE  Inv'
<1> USE DEF Inv, IssueForUser, redis, local
<1>1. TypeOK'
  BY DEF TypeOK
<1>2. InvLocks' /\ InvRows'
  BY DEF TypeOK, InvLocks, InvRows, Issued
<1>3. InvRequests'
  BY DEF TypeOK, InvRequests, Issued
<1>4. SingleLive'
  BY DEF TypeOK, SingleLive, InvRows
<1>5. InvLineage' /\ OneSuccessor'
  BY ConstantsAssumption DEF TypeOK, InvLineage, OneSuccessor, InvRows, Issued
<1>6. InvLate'
  <2> SUFFICES ASSUME NEW i \in late
               PROVE  /\ session'[family'[i]] = "revoked"
                      /\ \A r \in Request : pc[r] \in {"touch", "rotated"}
                                               => family'[tok[r]] # family'[i]
    BY DEF InvLate
  <2>1. i # j /\ \A r \in Request : pc[r] \in {"touch", "rotated"} => tok[r] # j
    BY DEF TypeOK, InvRows, InvRequests, Issued
  <2>2. s # family[i]
    BY DEF TypeOK, InvLate
  <2> QED
    BY <2>1, <2>2 DEF TypeOK, InvLate, InvRequests
<1>7. AtMostOneLate'
  BY DEF TypeOK, AtMostOneLate, InvRows, Issued
<1>8. InvClose'
  BY DEF TypeOK, InvClose
<1> QED
  BY <1>1, <1>2, <1>3, <1>4, <1>5, <1>6, <1>7, <1>8

\* The invariant holds after a rotation inserted the successor.
LEMMA RotateTouchKeeps ==
    ASSUME Inv, NEW r \in Request, NEW k \in Jti, RotateTouch(r, k)
    PROVE  Inv'
<1> USE DEF Inv, RotateTouch, TouchFamily, redis
<1>1. tok[r] \in Jti /\ family[tok[r]] \in Session /\ tok[r] # k
  BY DEF InvRequests, InvRows, Issued
<1>2. TypeOK'
  BY <1>1 DEF TypeOK
<1>3. InvLocks'
  BY DEF TypeOK, InvLocks, SessionRowFree
<1>4. InvRows'
  BY <1>1 DEF TypeOK, InvRows, InvRequests, Issued
<1>5. InvRequests'
  BY <1>1 DEF TypeOK, InvRequests, Issued
<1>6. SingleLive'
  BY DEF TypeOK, SingleLive
<1>7. InvLineage'
  BY <1>1 DEF TypeOK, InvLineage, InvRequests, Issued
<1>8. OneSuccessor'
  BY DEF TypeOK, OneSuccessor, Issued
<1>9. InvLate' /\ AtMostOneLate'
  <2>1. k \notin late
    BY DEF InvRows, Issued
  <2>2. \A q \in Request : pc[q] \in {"touch", "rotated"} => tok[q] \in Jti \ {k}
    BY DEF InvRequests, Issued
  <2>3. InvLate'
    BY <1>1, <2>1, <2>2 DEF TypeOK, InvLate
  <2>4. AtMostOneLate'
    BY <2>1 DEF TypeOK, AtMostOneLate
  <2> QED
    BY <2>3, <2>4
<1>10. InvClose'
  BY DEF TypeOK, InvClose
<1> QED
  BY <1>2, <1>3, <1>4, <1>5, <1>6, <1>7, <1>8, <1>9, <1>10

\* No two rotations are in flight in one family: each holds the lock of a live
\* token, and the family has only one.
LEMMA OneRotation ==
    ASSUME Inv, NEW q \in Request, NEW r \in Request,
           pc[q] \in {"touch", "rotated"}, pc[r] \in {"touch", "rotated"},
           family[tok[q]] = family[tok[r]]
    PROVE  q = r
<1>1. tok[q] = tok[r]
  BY DEF Inv, InvRequests, SingleLive
<1> QED
  BY <1>1 DEF Inv, InvRequests, InvLocks

\* The invariant holds after a rotation committed: the old token is rotated and
\* the new one live in the same step.
LEMMA RotateCommitKeeps ==
    ASSUME Inv, NEW r \in Request, RotateCommit(r)
    PROVE  Inv'
<1> DEFINE j == tok[r]
           k == child[r]
<1> USE DEF Inv, RotateCommit, Done, redis
<1>1. /\ j \in Jti /\ status[j] = "live" /\ j \in tlock[r]
      /\ k \in Jti /\ status[k] = "pending"
      /\ family[k] = family[j] /\ family[j] \in Session /\ parent[k] = j
  BY DEF InvRequests, InvRows, Issued
<1>2. status' = [status EXCEPT ![j] = "rotated", ![k] = "live"]
  OBVIOUS
<1>3. \A q \in Request \ {r} : tok[q] # j \/ pc[q] \notin {"check", "touch", "rotated"}
  BY <1>1 DEF InvRequests, InvLocks
<1>4. \A q \in Request \ {r} : pc[q] = "rotated" => child[q] # k
  BY <1>1, <1>3 DEF InvRequests
<1> HIDE DEF j, k
<1>5. TypeOK'
  BY SMTT(60), <1>1, <1>2 DEF TypeOK, TokenOps, j, k
<1>6. InvLocks'
  BY DEF TypeOK, InvLocks
<1>7. InvRows'
  BY <1>1, <1>2, <1>4 DEF TypeOK, InvRows, InvRequests, Issued, k
<1>8. InvRequests'
  BY <1>1, <1>2, <1>3, <1>4 DEF TypeOK, InvRequests, Issued
<1>9. SingleLive'
  BY SMTT(60), <1>1, <1>2 DEF TypeOK, SingleLive
<1>10. InvLineage'
  BY <1>1, <1>2 DEF TypeOK, InvLineage, Issued
<1>11. OneSuccessor'
  BY <1>1, <1>2 DEF TypeOK, OneSuccessor, InvLineage, Issued
<1>12. InvLate' /\ AtMostOneLate'
  <2>1. \A i \in late : family[i] # family[j]
    BY DEF InvLate, j
  <2>2. \A q \in Request \ {r} : pc[q] \in {"touch", "rotated"}
                                   => family[tok[q]] # family[j]
    BY OneRotation DEF j
  <2>3. late' = IF session[family[j]] = "revoked" THEN late \cup {k} ELSE late
    BY DEF j, k
  <2>4. InvLate'
    BY <1>1, <2>1, <2>2, <2>3 DEF TypeOK, InvLate
  <2>5. AtMostOneLate'
    BY <1>1, <2>1, <2>3 DEF TypeOK, AtMostOneLate
  <2> QED
    BY <2>4, <2>5
<1>13. InvClose'
  BY DEF TypeOK, InvClose
<1> QED
  BY <1>5, <1>6, <1>7, <1>8, <1>9, <1>10, <1>11, <1>12, <1>13

\* The invariant holds after a revocation committed: it changes only rows it has
\* locked, so no token under a rotation.
LEMMA RevokeCommitKeeps ==
    ASSUME Inv, NEW r \in Request, RevokeCommit(r)
    PROVE  Inv'
<1> USE DEF Inv, RevokeCommit, Done, redis
<1>1. TypeOK'
  BY DEF TypeOK, TokenOps
<1>2. InvLocks' /\ InvRows'
  BY DEF TypeOK, InvLocks, InvRows, Issued
<1>3. InvRequests'
  BY DEF TypeOK, InvRequests, InvLocks, Issued
<1>4. SingleLive'
  BY DEF TypeOK, SingleLive
<1>5. InvLineage' /\ OneSuccessor'
  BY DEF TypeOK, InvLineage, OneSuccessor, Issued
<1>6. InvLate'
  <2>1. \A s \in Session : session[s] = "revoked" => session'[s] = "revoked"
    BY DEF TypeOK
  <2>2. \A i \in late : family[i] \in Session
    BY DEF TypeOK, InvRows, Issued
  <2>3. \A q \in Request : pc'[q] \in {"touch", "rotated"}
                             => q # r /\ pc'[q] = pc[q] /\ tok'[q] = tok[q]
    BY DEF TypeOK
  <2> QED
    BY <2>1, <2>2, <2>3 DEF InvLate
<1>7. AtMostOneLate'
  BY DEF AtMostOneLate
<1>8. InvClose'
  BY DEF TypeOK, InvClose, InvLocks
<1> QED
  BY <1>1, <1>2, <1>3, <1>4, <1>5, <1>6, <1>7, <1>8

\* The invariant holds after a rollback: only the request's own new row goes.
LEMMA AbortKeeps ==
    ASSUME Inv, NEW r \in Request, Abort(r)
    PROVE  Inv'
<1> USE DEF Inv, Abort, Done
<1>1. child[r] \in Jti => status[child[r]] = "pending"
  BY ConstantsAssumption DEF InvRequests
<1>2. TypeOK'
  BY DEF TypeOK, TokenOps
<1>3. InvLocks'
  BY DEF TypeOK, InvLocks
<1>4. InvRows'
  BY <1>1 DEF TypeOK, InvRows, Issued
<1>5. InvRequests'
  <2>1. \A q \in Request \ {r} : pc[q] = "rotated" => child[q] # child[r]
    BY ConstantsAssumption DEF InvRequests, InvLocks
  <2> QED
    BY <1>1, <2>1 DEF TypeOK, InvRequests, Issued
<1>6. SingleLive'
  BY DEF TypeOK, SingleLive
<1>7. InvLineage' /\ OneSuccessor'
  BY <1>1 DEF TypeOK, InvLineage, OneSuccessor, Issued
<1>8. InvLate' /\ AtMostOneLate'
  <2>1. child[r] \notin late
    BY <1>1 DEF TypeOK, InvRows, Issued
  <2>2. \A q \in Request : pc[q] \in {"touch", "rotated"} => tok[q] \in Jti \ {child[r]}
    BY <1>1 DEF InvRequests, Issued
  <2>3. InvLate'
    BY <2>1, <2>2 DEF TypeOK, InvLate
  <2>4. AtMostOneLate'
    BY <2>1 DEF TypeOK, AtMostOneLate
  <2> QED
    BY <2>3, <2>4
<1>9. InvClose'
  BY DEF TypeOK, InvClose
<1> QED
  BY <1>2, <1>3, <1>4, <1>5, <1>6, <1>7, <1>8, <1>9

-----------------------------------------------------------------------------

\* Every step of every request keeps the invariant.
LEMMA NextInv == Inv /\ [Next]_vars => Inv'
<1> SUFFICES ASSUME Inv, [Next]_vars PROVE Inv'
  OBVIOUS
<1>1. CASE UNCHANGED vars
  BY <1>1 DEF Inv, vars, rows, redis, local, TypeOK, InvLocks, InvRows,
              InvRequests, InvClose, SingleLive, InvLineage, OneSuccessor,
              InvLate, AtMostOneLate, Issued
<1>2. CASE Next
  BY <1>2, IssueForUserKeeps, ExpireKeeps, BeginKeeps, ResetListKeeps,
     GetByJtiForUpdateKeeps, RotateTouchKeeps, LockTokenKeeps,
     LockSessionKeeps, RotateRejectedKeeps, RotateReuseKeeps,
     RotateAcceptedKeeps, RotateCommitKeeps, TokenScanKeeps,
     SessionScanKeeps, SessionsLockedKeeps, MarkKeeps, RevokeCommitKeeps,
     AbortKeeps
     DEF Next, Acquire, Proceed
<1> QED
  BY <1>1, <1>2

\* The inductive invariant holds in every state the service can reach.
THEOREM Invariance == Spec => []Inv
<1>1. Inv /\ [Next]_vars => Inv'
  BY NextInv
<1> QED
  BY InitInv, <1>1, PTL DEF Spec

\* Every variable keeps its type, whatever the requests do.
THEOREM TypeCorrect == Spec => []TypeOK
<1>1. Inv => TypeOK
  BY DEF Inv
<1> QED
  BY Invariance, <1>1, PTL

\* A family never has two usable tokens, however many refreshes race.
THEOREM SingleLiveHolds == Spec => []SingleLive
<1>1. Inv => SingleLive
  BY DEF Inv
<1> QED
  BY Invariance, <1>1, PTL

\* No token is ever exchanged for two successors.
THEOREM OneSuccessorHolds == Spec => []OneSuccessor
<1>1. Inv => OneSuccessor
  BY DEF Inv
<1> QED
  BY Invariance, <1>1, PTL

\* At most one rotation commits into a session that is already revoked.
THEOREM AtMostOneLateHolds == Spec => []AtMostOneLate
<1>1. Inv => AtMostOneLate
  BY DEF Inv
<1> QED
  BY Invariance, <1>1, PTL

-----------------------------------------------------------------------------
(***************************************************************************)
(* RefreshTokens implements TokenFamilies: every step of an interleaved    *)
(* transaction is one atomic operation on the families or no operation at  *)
(* all.  The operation happens at the commit.                              *)
(***************************************************************************)

Used    == {j \in Jti : status[j] \in {"rotated", "revoked"}}
Overran == {family[j] : j \in late}

\* The one live token of a family is the tip of its session.
LEMMA TipValue ==
    ASSUME SingleLive, NEW s \in Session, NEW j \in Live(s)
    PROVE  Tip[s] = j
<1>1. \A k \in Live(s) : k = j
  BY DEF Live, Tokens, SingleLive
<1> QED
  BY <1>1 DEF Tip

\* The same of the next state.
LEMMA TipValueNext ==
    ASSUME SingleLive', NEW s \in Session, NEW j \in Live(s)'
    PROVE  Tip'[s] = j
<1>1. \A k \in Live(s)' : k = j
  BY DEF Live, Tokens, SingleLive
<1> QED
  BY <1>1 DEF Tip

\* Without a live token there is no tip.
LEMMA NoTip ==
    ASSUME NEW s \in Session
    PROVE  /\ Live(s) = {} => Tip[s] = None
           /\ Live(s)' = {} => Tip'[s] = None
  BY DEF Tip

\* Tip is a function on the sessions, in both states.
LEMMA TipFunction ==
    /\ Tip = [s \in Session |-> Tip[s]]
    /\ Tip' = [s \in Session |-> Tip'[s]]
  BY DEF Tip

\* A family whose live token stays keeps its tip.
LEMMA TipKept ==
    ASSUME SingleLive, SingleLive', NEW s \in Session, Live(s)' = Live(s)
    PROVE  Tip'[s] = Tip[s]
<1>1. CASE Live(s) = {}
  BY <1>1, NoTip
<1>2. ASSUME NEW j \in Live(s) PROVE Tip'[s] = Tip[s]
  BY TipValue, TipValueNext
<1> QED
  BY <1>1, <1>2

\* A token that is not issued is fresh to the abstract specification.
LEMMA FreshToken ==
    ASSUME Inv, NEW j \in Jti, ~Issued(j)
    PROVE  Abstract!Fresh(j)
<1>1. ASSUME NEW s \in Session PROVE Tip[s] # j
  <2>1. CASE Live(s) = {}
    BY <2>1, NoTip, ConstantsAssumption
  <2>2. ASSUME NEW k \in Live(s) PROVE Tip[s] # j
    BY TipValue DEF Live, Tokens, Issued, Inv
  <2> QED
    BY <2>1, <2>2
<1> QED
  BY <1>1 DEF Abstract!Fresh, Issued

\* A login is Open.
LEMMA IssueForUserRefines ==
    ASSUME Inv, Inv', NEW s \in Session, NEW j \in Jti, IssueForUser(s, j)
    PROVE  Abstract!Open(s, j)
<1> USE DEF IssueForUser
<1>1. Abstract!Fresh(j)
  BY FreshToken DEF Issued
<1>2. /\ \A t \in Session \ {s} : Live(t)' = Live(t)
      /\ j \in Live(s)'
  BY DEF Inv, TypeOK, InvRows, Live, Tokens
<1>3. Tip'[s] = j
  BY <1>2, TipValueNext DEF Inv
<1>4. Tip' = [Tip EXCEPT ![s] = j]
  <2>1. \A t \in Session \ {s} : Tip'[t] = Tip[t]
    BY <1>2, TipKept DEF Inv
  <2> QED
    BY <1>3, <2>1, TipFunction
<1>5. Used' = Used
  BY DEF Inv, TypeOK, Used
<1>6. Overran' = Overran
  <2>1. \A i \in late : family'[i] = family[i]
    BY DEF Inv, TypeOK, InvRows, Issued
  <2> QED
    BY <2>1 DEF Overran
<1> QED
  BY <1>1, <1>4, <1>5, <1>6 DEF Abstract!Open, Used, Overran

\* The commit of a rotation is Rotate, or Overrun in a revoked session.
LEMMA RotateCommitRefines ==
    ASSUME Inv, Inv', NEW r \in Request, RotateCommit(r)
    PROVE  \E s \in Session, j \in Jti : Abstract!Rotate(s, j) \/ Abstract!Overrun(s, j)
<1>1. PICK j \in Jti, k \in Jti, s \in Session :
        /\ j = tok[r] /\ k = child[r] /\ s = family[j]
        /\ status[j] = "live" /\ session[s] # "none"
        /\ status[k] = "pending" /\ family[k] = s
  BY DEF RotateCommit, Inv, InvRequests, InvRows, Issued
<1>2. /\ status' = [status EXCEPT ![j] = "rotated", ![k] = "live"]
      /\ late' = IF session[s] = "revoked" THEN late \cup {k} ELSE late
      /\ UNCHANGED <<family, session>>
  BY <1>1 DEF RotateCommit
<1>3. \A i \in late : family[i] # s
  BY <1>1 DEF RotateCommit, Inv, InvLate
<1>4. Abstract!Fresh(k)
  BY <1>1, FreshToken DEF Issued
<1>5. /\ \A t \in Session \ {s} : Live(t)' = Live(t)
      /\ j \in Live(s) /\ k \in Live(s)'
  BY <1>1, <1>2 DEF Inv, TypeOK, Live, Tokens
<1>6. Tip[s] = j /\ Tip'[s] = k
  BY <1>1, <1>5, TipValue, TipValueNext DEF Inv
<1>7. Tip' = [Tip EXCEPT ![s] = k]
  <2>1. \A t \in Session \ {s} : Tip'[t] = Tip[t]
    BY <1>5, TipKept DEF Inv
  <2> QED
    BY <1>6, <2>1, TipFunction
<1>8. Used' = Used \cup {Tip[s]}
  BY <1>1, <1>2, <1>6 DEF Inv, TypeOK, Used
<1>9. Tip[s] # None
  BY <1>1, <1>6, ConstantsAssumption
<1>10. Abstract!Replace(s, k)
  BY <1>4, <1>7, <1>8, <1>9 DEF Abstract!Replace, Used
<1>11. CASE session[s] = "revoked"
  <2>1. s \notin Overran
    BY <1>3 DEF Overran
  <2>2. Overran' = Overran \cup {s}
    BY <1>1, <1>2, <1>11 DEF Overran
  <2>3. Abstract!Overrun(s, k)
    BY <1>2, <1>10, <1>11, <2>1, <2>2 DEF Abstract!Overrun, Overran
  <2> QED
    BY <1>1, <2>3
<1>12. CASE session[s] # "revoked"
  <2>1. session[s] = "active"
    BY <1>1, <1>12 DEF Inv, TypeOK
  <2>2. Overran' = Overran
    BY <1>2, <1>12 DEF Overran
  <2>3. Abstract!Rotate(s, k)
    BY <1>2, <1>10, <2>1, <2>2 DEF Abstract!Rotate, Overran
  <2> QED
    BY <1>1, <2>3
<1> QED
  BY <1>11, <1>12

\* The commit of a logout, a detected reuse or a reset is Revoke.
LEMMA RevokeCommitRefines ==
    ASSUME Inv, Inv', NEW r \in Request, RevokeCommit(r)
    PROVE  \E K, C \in SUBSET Session : Abstract!Revoke(K, C)
<1> USE DEF RevokeCommit
<1>1. PICK K \in SUBSET Session, C \in SUBSET Session :
        /\ K = {s \in Session : \E j \in kill[r] : j \in Live(s)}
        /\ C = close[r]
  BY DEF Inv, TypeOK
<1>2. \A s \in C : session[s] = "active"
  BY <1>1 DEF Inv, InvClose
<1>3. ASSUME NEW s \in K
      PROVE  Tip[s] \in kill[r] /\ Tip[s] \in Live(s) /\ Live(s)' = {}
  <2>1. PICK j \in kill[r] : j \in Live(s)
    BY <1>1
  <2>2. Tip[s] = j
    BY <2>1, TipValue DEF Inv
  <2>3. \A i \in Live(s) : i = j
    BY <2>1 DEF Inv, SingleLive, Live, Tokens
  <2>4. Live(s)' = {}
    BY <2>1, <2>3 DEF Inv, TypeOK, Live, Tokens
  <2> QED
    BY <2>1, <2>2, <2>4
<1>4. ASSUME NEW s \in Session \ K PROVE Live(s)' = Live(s)
  BY <1>1 DEF Inv, TypeOK, Live, Tokens
<1>5. Tip' = [s \in Session |-> IF s \in K THEN None ELSE Tip[s]]
  <2>1. \A s \in K : Tip'[s] = None
    BY <1>3, NoTip
  <2>2. \A s \in Session \ K : Tip'[s] = Tip[s]
    BY <1>4, TipKept DEF Inv
  <2> QED
    BY <2>1, <2>2, TipFunction
<1>6. Used' = Used \cup {Tip[s] : s \in K}
  <2>1. ASSUME NEW j \in Used' PROVE j \in Used \cup {Tip[s] : s \in K}
    <3>1. CASE j \in kill[r] /\ status[j] = "live"
      <4>1. family[j] \in Session /\ j \in Live(family[j])
        BY <3>1 DEF Inv, TypeOK, InvRows, Live, Tokens
      <4>2. Tip[family[j]] = j /\ family[j] \in K
        BY <1>1, <3>1, <4>1, TipValue DEF Inv
      <4> QED
        BY <4>2
    <3>2. CASE ~(j \in kill[r] /\ status[j] = "live")
      BY <3>2 DEF Used
    <3> QED
      BY <3>1, <3>2
  <2>2. ASSUME NEW j \in Used PROVE j \in Used'
    BY DEF Used
  <2>3. ASSUME NEW s \in K PROVE Tip[s] \in Used'
    BY <1>3 DEF Used, Live, Tokens
  <2> QED
    BY <2>1, <2>2, <2>3
<1>7. \A s \in K : Tip[s] # None
  BY <1>3, ConstantsAssumption DEF Live, Tokens
<1>8. Overran' = Overran
  BY DEF Overran
<1>9. Abstract!Revoke(K, C)
  <2>1. session' = [s \in Session |-> IF s \in C THEN "revoked" ELSE session[s]]
    BY <1>1
  <2> QED
    BY <1>2, <1>5, <1>6, <1>7, <1>8, <2>1 DEF Abstract!Revoke, Used, Overran
<1> QED
  BY <1>1, <1>9

\* A step that leaves the live and the used tokens alone is no operation.
LEMMA Stutter ==
    ASSUME SingleLive, SingleLive', UNCHANGED <<session, late>>,
           \A j \in late : family'[j] = family[j],
           \A s \in Session : Live(s)' = Live(s),
           Used' = Used
    PROVE  UNCHANGED Abstract!vars
<1>1. Tip' = Tip
  BY TipKept, TipFunction
<1>2. Overran' = Overran
  BY DEF Overran
<1> QED
  BY <1>1, <1>2 DEF Abstract!vars, Used, Overran

\* Every step implements a step of TokenFamilies.
LEMMA StepRefines ==
    ASSUME Inv, Inv', [Next]_vars
    PROVE  [Abstract!Next]_(Abstract!vars)
<1>1. ASSUME UNCHANGED <<status, family, session, late>>
      PROVE  UNCHANGED Abstract!vars
  BY <1>1, Stutter DEF Inv, Live, Tokens, Used
<1>2. ASSUME NEW s \in Session, NEW j \in Jti, IssueForUser(s, j)
      PROVE  Abstract!Next
  BY <1>2, IssueForUserRefines DEF Abstract!Next
<1>3. ASSUME NEW r \in Request, RotateCommit(r) PROVE Abstract!Next
  BY <1>3, RotateCommitRefines DEF Abstract!Next
<1>4. ASSUME NEW r \in Request, RevokeCommit(r) PROVE Abstract!Next
  BY <1>4, RevokeCommitRefines DEF Abstract!Next
<1>5. ASSUME NEW r \in Request, NEW k \in Jti, RotateTouch(r, k)
      PROVE  UNCHANGED Abstract!vars
  <2>1. k \notin late
    BY <1>5 DEF RotateTouch, Inv, InvRows, Issued
  <2>2. UNCHANGED <<session, late>> /\ \A j \in late : family'[j] = family[j]
    BY <1>5, <2>1 DEF RotateTouch, Inv, TypeOK
  <2>3. \A s \in Session : Live(s)' = Live(s)
    BY <1>5 DEF RotateTouch, Inv, TypeOK, Live, Tokens
  <2>4. Used' = Used
    BY <1>5 DEF RotateTouch, Inv, TypeOK, Used
  <2> QED
    BY <2>2, <2>3, <2>4, Stutter DEF Inv
<1>6. ASSUME NEW r \in Request, Abort(r) PROVE UNCHANGED Abstract!vars
  <2>1. child[r] \in Jti => status[child[r]] = "pending" /\ child[r] \notin late
    BY ConstantsAssumption DEF Inv, InvRequests, InvRows, Issued
  <2>2. UNCHANGED <<session, late>> /\ \A j \in late : family'[j] = family[j]
    BY <1>6, <2>1 DEF Abort, Inv, TypeOK
  <2>3. \A s \in Session : Live(s)' = Live(s)
    BY <1>6, <2>1 DEF Abort, Inv, TypeOK, Live, Tokens
  <2>4. Used' = Used
    BY <1>6, <2>1 DEF Abort, Inv, TypeOK, Used
  <2> QED
    BY <2>2, <2>3, <2>4, Stutter DEF Inv
<1>7. ASSUME NEW r \in Request,
             \/ \E o \in TokenOps, j \in Jti : Begin(r, o, j)
             \/ \E u \in User : ResetList(r, u)
             \/ GetByJtiForUpdate(r)
             \/ \E j \in Jti : LockToken(r, j)
             \/ \E s \in Session : LockSession(r, s)
             \/ RotateRejected(r) \/ RotateReuse(r) \/ RotateAccepted(r)
             \/ TokenScan(r) \/ SessionScan(r) \/ SessionsLocked(r)
             \/ \E s \in Session : Mark(r, s)
      PROVE  UNCHANGED Abstract!vars
  <2>1. UNCHANGED <<status, family, session, late>>
    BY <1>7 DEF Begin, ResetList, GetByJtiForUpdate, LockToken, LockSession,
         RotateRejected, RotateReuse, RotateAccepted, TokenScan, SessionScan,
         SessionsLocked, Mark, rows
  <2> QED
    BY <1>1, <2>1
<1>8. ASSUME NEW j \in Jti, Expire(j) PROVE UNCHANGED Abstract!vars
  BY <1>1, <1>8 DEF Expire
<1>9. CASE UNCHANGED vars
  BY <1>1, <1>9 DEF vars, rows
<1>10. CASE Next
  BY <1>2, <1>3, <1>4, <1>5, <1>6, <1>7, <1>8, <1>10 DEF Next, Acquire, Proceed
<1> QED
  BY <1>9, <1>10

\* The initial states are those of TokenFamilies.
LEMMA InitRefines == Init => Abstract!Init
  BY DEF Init, Abstract!Init, Tip, Live, Tokens

\* The service, with all its transactions interleaved, behaves as the atomic
\* token families: the races of rotations, logouts, reuse detection and resets
\* never show.
THEOREM Refinement == Spec => ImplementsTokenFamilies
<1>1. Inv /\ Inv' /\ [Next]_vars => [Abstract!Next]_(Abstract!vars)
  BY StepRefines
<1> QED
  BY Invariance, InitRefines, <1>1, PTL
     DEF Spec, ImplementsTokenFamilies, Abstract!Spec

\* A family without a usable token never has one again.
THEOREM DeadFamily == Spec => DeadFamilyStaysDead
<1>1. ASSUME Inv, Inv', [Next]_vars, NEW s \in Session,
             session[s] # "none", Live(s) = {}
      PROVE  Live(s)' = {}
  <2> SUFFICES ASSUME NEW j \in Live(s)' PROVE FALSE
    OBVIOUS
  <2>1. [Abstract!Next]_(Abstract!vars)
    BY <1>1, StepRefines
  <2>2. Tip[s] = None /\ Tip'[s] = j /\ j # None
    BY <1>1, NoTip, TipValueNext, ConstantsAssumption DEF Inv, Live, Tokens
  <2>3. CASE UNCHANGED Abstract!vars
    BY <2>2, <2>3 DEF Abstract!vars
  <2>4. CASE Abstract!Next
    BY <1>1, <2>2, <2>4, TipFunction
       DEF Abstract!Next, Abstract!Open, Abstract!Rotate, Abstract!Overrun,
           Abstract!Replace, Abstract!Revoke
  <2> QED
    BY <2>1, <2>3, <2>4
<1>2. Inv /\ Inv' /\ [Next]_vars =>
        [\A s \in Session :
            session[s] # "none" /\ Live(s) = {} => Live(s)' = {}]_vars
  BY <1>1
<1> QED
  BY Invariance, <1>2, PTL DEF Spec, DeadFamilyStaysDead

-----------------------------------------------------------------------------
(***************************************************************************)
(* What the Redis markers achieve when no password reset runs: a revoked   *)
(* session, and a session without a usable refresh token, has no access    *)
(* token that a marker does not refuse, but for that of a late rotation.   *)
(*                                                                         *)
(* The argument is in InvMarks.  A revocation sets the marker while it     *)
(* holds the locks of what it revokes.  A new access token needs the lock  *)
(* of the session row and of the live token; so between the marker and the *)
(* commit none is issued.                                                  *)
(***************************************************************************)

\* A step that leaves the rows alone and takes nothing out of Redis leaves the
\* revoked sessions covered.
LEMMA CoverKept ==
    ASSUME RevokedIsDenied, LoggedOutIsDenied, denied \subseteq denied',
           UNCHANGED <<status, family, session, late>>
    PROVE  RevokedIsDenied' /\ LoggedOutIsDenied'
  BY DEF RevokedIsDenied, LoggedOutIsDenied, Live, Tokens, Issued

\* The initial state satisfies the invariant.
LEMMA InitMarks == Init => MarksInv
  BY InitInv DEF Init, MarksInv, InvScope, InvMarks, RevokedIsDenied,
                 LoggedOutIsDenied, Issued

-----------------------------------------------------------------------------
(* Steps that change no token row: one lemma per action *)

\* The markers still cover what they must after a token expires.
LEMMA ExpireMarks ==
    ASSUME MarksInv, Inv', NEW j \in Jti, Expire(j)
    PROVE  MarksInv'
<1> USE DEF MarksInv, Inv, Expire, rows, redis, local
<1>1. InvScope'
  BY DEF TypeOK, InvScope, Issued
<1>2. InvMarks'
  BY DEF InvMarks, Doomed
<1> QED
  BY <1>1, <1>2, CoverKept

\* The markers still cover what they must after a refresh or a logout begins.
LEMMA BeginMarks ==
    ASSUME MarksInv, Inv', NEW r \in Request, NEW o \in TokenOps, NEW j \in Jti, Begin(r, o, j)
    PROVE  MarksInv'
<1> USE DEF MarksInv, Inv, Begin, TokenOps, rows, redis, local
<1>1. InvScope'
  BY DEF TypeOK, InvScope, Issued, InvRows
<1>2. InvMarks'
  <2> SUFFICES ASSUME NEW q \in Request, pc'[q] = "mark", marks'[q] = {},
                      NEW i \in Jti, Doomed(q, family[i])'
               PROVE  i \in denied'
    BY DEF InvMarks
  <2>1. CASE q # r
    BY <2>1 DEF TypeOK, InvMarks, Doomed
  <2>2. CASE q = r
    BY <2>2 DEF TypeOK
  <2> QED
    BY <2>1, <2>2
<1> QED
  BY <1>1, <1>2, CoverKept

\* The markers still cover what they must after SELECT ... FOR UPDATE returns.
LEMMA GetByJtiForUpdateMarks ==
    ASSUME MarksInv, Inv', NEW r \in Request, GetByJtiForUpdate(r)
    PROVE  MarksInv'
<1> USE DEF MarksInv, Inv, GetByJtiForUpdate, rows, redis, local
<1>1. InvScope'
  BY DEF TypeOK, InvScope, Issued
<1>2. InvMarks'
  <2> SUFFICES ASSUME NEW q \in Request, pc'[q] = "mark", marks'[q] = {},
                      NEW i \in Jti, Doomed(q, family[i])'
               PROVE  i \in denied'
    BY DEF InvMarks
  <2>1. CASE q # r
    BY <2>1 DEF TypeOK, InvMarks, Doomed
  <2>2. CASE q = r
    BY <2>2 DEF TypeOK, InvScope
  <2> QED
    BY <2>1, <2>2
<1> QED
  BY <1>1, <1>2, CoverKept

\* The markers still cover what they must after a refresh is refused.
LEMMA RotateRejectedMarks ==
    ASSUME MarksInv, Inv', NEW r \in Request, RotateRejected(r)
    PROVE  MarksInv'
<1> USE DEF MarksInv, Inv, RotateRejected, Done, rows, redis, local
<1>1. InvScope'
  BY DEF TypeOK, InvScope, Issued
<1>2. InvMarks'
  <2> SUFFICES ASSUME NEW q \in Request, pc'[q] = "mark", marks'[q] = {},
                      NEW i \in Jti, Doomed(q, family[i])'
               PROVE  i \in denied'
    BY DEF InvMarks
  <2>1. CASE q # r
    <3>1. /\ pc[q] = "mark" /\ marks[q] = {}
          /\ close'[q] = close[q] /\ kill'[q] = kill[q]
      BY <2>1 DEF TypeOK
    <3>2. Doomed(q, family[i])
      BY <3>1 DEF Doomed
    <3> QED
      BY <3>1, <3>2 DEF InvMarks
  <2>2. CASE q = r
    BY <2>2 DEF TypeOK
  <2> QED
    BY <2>1, <2>2
<1> QED
  BY <1>1, <1>2, CoverKept

\* The markers still cover what they must after a refresh finds its token used.
LEMMA RotateReuseMarks ==
    ASSUME MarksInv, Inv', NEW r \in Request, RotateReuse(r)
    PROVE  MarksInv'
<1> USE DEF MarksInv, Inv, RotateReuse, rows, redis, local
<1>1. InvScope'
  BY DEF TypeOK, InvScope, Issued
<1>2. InvMarks'
  <2> SUFFICES ASSUME NEW q \in Request, pc'[q] = "mark", marks'[q] = {},
                      NEW i \in Jti, Doomed(q, family[i])'
               PROVE  i \in denied'
    BY DEF InvMarks
  <2>1. CASE q # r
    BY <2>1 DEF TypeOK, InvMarks, Doomed
  <2>2. CASE q = r
    BY <2>2 DEF TypeOK
  <2> QED
    BY <2>1, <2>2
<1> QED
  BY <1>1, <1>2, CoverKept

\* The markers still cover what they must after a refresh passes its checks.
LEMMA RotateAcceptedMarks ==
    ASSUME MarksInv, Inv', NEW r \in Request, RotateAccepted(r)
    PROVE  MarksInv'
<1> USE DEF MarksInv, Inv, RotateAccepted, rows, redis, local
<1>1. InvScope'
  BY DEF TypeOK, InvScope, Issued
<1>2. InvMarks'
  <2> SUFFICES ASSUME NEW q \in Request, pc'[q] = "mark", marks'[q] = {},
                      NEW i \in Jti, Doomed(q, family[i])'
               PROVE  i \in denied'
    BY DEF InvMarks
  <2>1. CASE q # r
    BY <2>1 DEF TypeOK, InvMarks, Doomed
  <2>2. CASE q = r
    BY <2>2 DEF TypeOK
  <2> QED
    BY <2>1, <2>2
<1> QED
  BY <1>1, <1>2, CoverKept

\* The markers still cover what they must after the UPDATE of the tokens starts.
LEMMA TokenScanMarks ==
    ASSUME MarksInv, Inv', NEW r \in Request, TokenScan(r)
    PROVE  MarksInv'
<1> USE DEF MarksInv, Inv, TokenScan, rows, redis, local
<1>1. InvScope'
  BY DEF TypeOK, InvScope, Issued
<1>2. InvMarks'
  <2> SUFFICES ASSUME NEW q \in Request, pc'[q] = "mark", marks'[q] = {},
                      NEW i \in Jti, Doomed(q, family[i])'
               PROVE  i \in denied'
    BY DEF InvMarks
  <2>1. CASE q # r
    BY <2>1 DEF TypeOK, InvMarks, Doomed
  <2>2. CASE q = r
    BY <2>2 DEF TypeOK
  <2> QED
    BY <2>1, <2>2
<1> QED
  BY <1>1, <1>2, CoverKept

\* The markers still cover what they must after the UPDATE of the tokens locks a row.
LEMMA LockTokenMarks ==
    ASSUME MarksInv, Inv', NEW r \in Request, NEW j \in Jti, LockToken(r, j)
    PROVE  MarksInv'
<1> USE DEF MarksInv, Inv, LockToken, rows, redis, local
<1>1. InvScope'
  BY DEF TypeOK, InvScope, Issued
<1>2. InvMarks'
  <2> SUFFICES ASSUME NEW q \in Request, pc'[q] = "mark", marks'[q] = {},
                      NEW i \in Jti, Doomed(q, family[i])'
               PROVE  i \in denied'
    BY DEF InvMarks
  <2>1. CASE q # r
    BY <2>1 DEF TypeOK, InvMarks, Doomed
  <2>2. CASE q = r
    BY <2>2 DEF TypeOK
  <2> QED
    BY <2>1, <2>2
<1> QED
  BY <1>1, <1>2, CoverKept

\* The markers still cover what they must after the UPDATE of the sessions starts.
LEMMA SessionScanMarks ==
    ASSUME MarksInv, Inv', NEW r \in Request, SessionScan(r)
    PROVE  MarksInv'
<1> USE DEF MarksInv, Inv, SessionScan, rows, redis, local
<1>1. InvScope'
  BY DEF TypeOK, InvScope, Issued
<1>2. InvMarks'
  <2> SUFFICES ASSUME NEW q \in Request, pc'[q] = "mark", marks'[q] = {},
                      NEW i \in Jti, Doomed(q, family[i])'
               PROVE  i \in denied'
    BY DEF InvMarks
  <2>1. CASE q # r
    BY <2>1 DEF TypeOK, InvMarks, Doomed
  <2>2. CASE q = r
    BY <2>2 DEF TypeOK
  <2> QED
    BY <2>1, <2>2
<1> QED
  BY <1>1, <1>2, CoverKept

\* The markers still cover what they must after the UPDATE of the sessions locks a row.
LEMMA LockSessionMarks ==
    ASSUME MarksInv, Inv', NEW r \in Request, NEW s \in Session, LockSession(r, s)
    PROVE  MarksInv'
<1> USE DEF MarksInv, Inv, LockSession, rows, redis, local
<1>1. InvScope'
  BY DEF TypeOK, InvScope, Issued
<1>2. InvMarks'
  <2> SUFFICES ASSUME NEW q \in Request, pc'[q] = "mark", marks'[q] = {},
                      NEW i \in Jti, Doomed(q, family[i])'
               PROVE  i \in denied'
    BY DEF InvMarks
  <2>1. CASE q # r
    BY <2>1 DEF TypeOK, InvMarks, Doomed
  <2>2. CASE q = r
    BY <2>2 DEF TypeOK
  <2> QED
    BY <2>1, <2>2
<1> QED
  BY <1>1, <1>2, CoverKept

\* The markers still cover what they must after the UPDATE of the sessions is done.
LEMMA SessionsLockedMarks ==
    ASSUME MarksInv, Inv', NEW r \in Request, SessionsLocked(r)
    PROVE  MarksInv'
<1> USE DEF MarksInv, Inv, SessionsLocked, rows, redis, local
<1>1. InvScope'
  BY DEF TypeOK, InvScope, Issued
<1>2. InvMarks'
  <2> SUFFICES ASSUME NEW q \in Request, pc'[q] = "mark", marks'[q] = {},
                      NEW i \in Jti, Doomed(q, family[i])'
               PROVE  i \in denied'
    BY DEF InvMarks
  <2>1. CASE q # r
    BY <2>1 DEF TypeOK, InvMarks, Doomed
  <2>2. CASE q = r
    <3>1. marks[r] = {family[tok[r]]}
      BY DEF InvScope
    <3> QED
      BY <2>2, <3>1
  <2> QED
    BY <2>1, <2>2
<1> QED
  BY <1>1, <1>2, CoverKept

\* The markers still cover what they must after a marker is set.
LEMMA MarkMarks ==
    ASSUME MarksInv, Inv', NEW r \in Request, NEW s \in Session, Mark(r, s)
    PROVE  MarksInv'
<1> USE DEF MarksInv, Inv, Mark, rows, redis, local
<1>1. InvScope'
  BY DEF TypeOK, InvScope, Issued
<1>2. InvMarks'
  <2> SUFFICES ASSUME NEW q \in Request, pc'[q] = "mark", marks'[q] = {},
                      NEW i \in Jti, Doomed(q, family[i])'
               PROVE  i \in denied'
    BY DEF InvMarks
  <2>1. CASE q # r
    BY <2>1 DEF TypeOK, InvMarks, Doomed
  <2>2. CASE q = r
    <3>1. Doomed(r, family[i])
      BY <2>2 DEF TypeOK, Doomed
    <3>2. family[i] = s
      BY <2>2, <3>1 DEF InvScope, Doomed, TypeOK
    <3> QED
      BY <3>2 DEF Tokens
  <2> QED
    BY <2>1, <2>2
<1> QED
  BY <1>1, <1>2, CoverKept

-----------------------------------------------------------------------------
(* Steps that change token rows *)

\* What a request works on stays issued, in the same session.
RowsStay == \A j \in Jti : Issued(j) => Issued(j)' /\ family'[j] = family[j]

\* The markers still cover what they must after a login: no request knows the
\* new session yet.
LEMMA IssueForUserMarks ==
    ASSUME MarksInv, Inv', NEW s \in Session, NEW j \in Jti, IssueForUser(s, j)
    PROVE  MarksInv'
<1> USE DEF MarksInv, Inv, IssueForUser, redis, local
<1>1. RowsStay
  BY DEF TypeOK, RowsStay, Issued
<1>2. InvScope'
  BY <1>1 DEF TypeOK, InvScope, RowsStay
<1>3. InvMarks'
  <2> SUFFICES ASSUME NEW q \in Request, pc[q] = "mark", marks[q] = {},
                      NEW i \in Jti, Doomed(q, family[i])'
               PROVE  i \in denied
    BY DEF InvMarks
  <2>1. \A k \in kill[q] : k # j /\ family[k] # s
    <3>1. \A k \in kill[q] : k \in Jti /\ Issued(k)
      BY DEF TypeOK, InvScope
    <3>2. ~Issued(j) /\ session[s] = "none"
      BY DEF Issued
    <3>3. \A k \in Jti : Issued(k) => session[family[k]] # "none"
      BY DEF InvRows, Issued
    <3> QED
      BY <3>1, <3>2, <3>3
  <2>2. s \notin close[q]
    BY DEF InvClose
  <2>3. i # j
    BY <2>1, <2>2 DEF TypeOK, Doomed
  <2>4. Doomed(q, family[i])
    BY <2>1, <2>3 DEF TypeOK, Doomed
  <2> QED
    BY <2>4 DEF InvMarks
<1>4. RevokedIsDenied'
  BY DEF TypeOK, RevokedIsDenied, InvRows, Issued
<1>5. LoggedOutIsDenied'
  <2> SUFFICES ASSUME NEW i \in Jti, Issued(i)', Live(family[i])' = {}
               PROVE  i \in denied
    BY DEF LoggedOutIsDenied
  <2>1. i # j /\ Issued(i)
    BY DEF TypeOK, Issued, Live, Tokens
  <2>2. Live(family[i]) = {}
    BY <2>1 DEF TypeOK, Live, Tokens
  <2> QED
    BY <2>1, <2>2 DEF LoggedOutIsDenied
<1> QED
  BY <1>2, <1>3, <1>4, <1>5

\* The markers still cover what they must after a rotation issued its access
\* token: nobody who has set the marker is about to revoke the session, or the
\* token it rotates.
LEMMA RotateTouchMarks ==
    ASSUME MarksInv, Inv', NEW r \in Request, NEW k \in Jti, RotateTouch(r, k)
    PROVE  MarksInv'
<1> USE DEF MarksInv, Inv, RotateTouch, TouchFamily, redis
<1>1. PICK j \in Jti, s \in Session :
        j = tok[r] /\ s = family[j] /\ status[j] = "live" /\ j # k
  BY DEF InvRequests, InvRows, Issued
<1>2. RowsStay
  BY DEF TypeOK, RowsStay, Issued
<1>3. InvScope'
  BY <1>2 DEF TypeOK, InvScope, RowsStay
<1>4. ASSUME NEW q \in Request, pc[q] = "mark" PROVE ~Doomed(q, s)
  <2>1. q # r
    BY <1>4
  <2>2. s \notin close[q]
    BY <1>1, <2>1 DEF InvClose, SessionRowFree
  <2>3. ASSUME NEW i \in kill[q], status[i] = "live", family[i] = s PROVE FALSE
    <3>1. i \in Jti /\ i = j
      BY <1>1, <2>3 DEF TypeOK, SingleLive
    <3>2. i \in tlock[q] /\ j \in tlock[r]
      BY <1>1 DEF InvRequests
    <3> QED
      BY <2>1, <3>1, <3>2 DEF InvLocks
  <2> QED
    BY <2>2, <2>3 DEF Doomed
<1>5. InvMarks'
  <2> SUFFICES ASSUME NEW q \in Request, pc'[q] = "mark", marks[q] = {},
                      NEW i \in Jti, Doomed(q, family[i])'
               PROVE  i \in denied
    BY DEF InvMarks
  <2>1. pc[q] = "mark"
    BY DEF TypeOK
  <2>2. \A h \in kill[q] : h \in Jti \ {k}
    BY DEF TypeOK, InvScope, Issued
  <2>3. Doomed(q, family'[i])
    BY <2>2 DEF TypeOK, Doomed
  <2>4. i # k
    BY <1>1, <1>4, <2>1, <2>3 DEF TypeOK
  <2> QED
    <3>1. family'[i] = family[i]
      BY <2>4 DEF TypeOK
    <3> QED
      BY <2>1, <2>3, <3>1 DEF InvMarks
<1>6. RevokedIsDenied'
  BY DEF TypeOK, RevokedIsDenied, Issued
<1>7. LoggedOutIsDenied'
  <2>1. \A i \in Jti : Issued(i)' => Issued(i) /\ i # k /\ family'[i] = family[i]
    BY DEF TypeOK, Issued
  <2>2. \A t \in Session \cup {None} : Live(t)' = Live(t)
    BY DEF TypeOK, Live, Tokens
  <2> SUFFICES ASSUME NEW i \in Jti, Issued(i)', Live(family[i])' = {}
               PROVE  i \in denied
    BY DEF LoggedOutIsDenied
  <2>3. family'[i] = family[i] /\ family[i] \in Session \cup {None}
    BY <2>1 DEF TypeOK
  <2>4. Live(family[i]) = {}
    BY <2>2, <2>3 DEF Live, Tokens
  <2> QED
    BY <2>1, <2>4 DEF LoggedOutIsDenied
<1> QED
  BY <1>3, <1>5, <1>6, <1>7

\* The markers still cover what they must after a rotation committed: it leaves
\* a live token, and in a revoked session it is late.
LEMMA RotateCommitMarks ==
    ASSUME MarksInv, Inv', NEW r \in Request, RotateCommit(r)
    PROVE  MarksInv'
<1> USE DEF MarksInv, Inv, redis
<1>1. PICK j \in Jti, k \in Jti, s \in Session :
        /\ j = tok[r] /\ k = child[r] /\ s = family[j] /\ family[k] = s
        /\ status[j] = "live" /\ status[k] = "pending"
  BY DEF RotateCommit, InvRequests, InvRows, Issued
<1>2. /\ status' = [status EXCEPT ![j] = "rotated", ![k] = "live"]
      /\ late' = IF session[s] = "revoked" THEN late \cup {k} ELSE late
      /\ UNCHANGED <<family, session, denied>>
  BY <1>1 DEF RotateCommit
<1>3. RowsStay
  BY <1>1, <1>2 DEF TypeOK, RowsStay, Issued
<1>4. InvScope'
  BY <1>3 DEF RotateCommit, Done, TypeOK, InvScope, RowsStay
<1>5. InvMarks'
  <2> SUFFICES ASSUME NEW q \in Request, pc'[q] = "mark", marks'[q] = {},
                      NEW i \in Jti, Doomed(q, family[i])'
               PROVE  i \in denied
    BY <1>2 DEF InvMarks
  <2>1. /\ q # r /\ pc[q] = "mark" /\ marks[q] = {}
        /\ close'[q] = close[q] /\ kill'[q] = kill[q]
    BY DEF RotateCommit, Done, TypeOK
  <2>2. \A h \in kill[q] : h \in Jti \ {k}
    <3>1. kill[q] \subseteq Jti
      BY DEF TypeOK
    <3>2. \A h \in kill[q] : Issued(h)
      BY DEF InvScope
    <3> QED
      BY <1>1, <3>1, <3>2 DEF Issued
  <2>3. Doomed(q, family[i])
    BY <1>2, <2>1, <2>2 DEF TypeOK, Doomed
  <2> QED
    BY <2>1, <2>3 DEF InvMarks
<1>6. RevokedIsDenied'
  BY <1>1, <1>2 DEF TypeOK, RevokedIsDenied, Issued
<1>7. LoggedOutIsDenied'
  <2> SUFFICES ASSUME NEW i \in Jti, Issued(i)', Live(family[i])' = {}
               PROVE  i \in denied
    BY <1>2 DEF LoggedOutIsDenied
  <2>1. family[i] # s
    BY <1>1, <1>2 DEF TypeOK, Live, Tokens
  <2>2. Issued(i) /\ Live(family[i]) = {}
    BY <1>1, <1>2, <2>1 DEF TypeOK, Live, Tokens, Issued
  <2> QED
    BY <2>2 DEF LoggedOutIsDenied
<1> QED
  BY <1>4, <1>5, <1>6, <1>7

\* The markers still cover what they must after a revocation committed: it has
\* set them all.
LEMMA RevokeCommitMarks ==
    ASSUME MarksInv, Inv', NEW r \in Request, RevokeCommit(r)
    PROVE  MarksInv'
<1> USE DEF MarksInv, Inv, RevokeCommit, redis
<1>1. RowsStay
  BY DEF TypeOK, RowsStay, Issued
<1>2. InvScope'
  BY <1>1 DEF Done, TypeOK, InvScope, RowsStay
<1>3. \A i \in Jti : Doomed(r, family[i]) => i \in denied
  BY DEF InvMarks
<1>4. InvMarks'
  <2> SUFFICES ASSUME NEW q \in Request, pc'[q] = "mark", marks'[q] = {},
                      NEW i \in Jti, Doomed(q, family[i])'
               PROVE  i \in denied
    BY DEF InvMarks
  <2>1. /\ q # r /\ pc[q] = "mark" /\ marks[q] = {}
        /\ close'[q] = close[q] /\ kill'[q] = kill[q]
    BY DEF Done, TypeOK
  <2>2. Doomed(q, family[i])
    BY <2>1 DEF TypeOK, Doomed
  <2> QED
    BY <2>1, <2>2 DEF InvMarks
<1>5. RevokedIsDenied'
  <2> SUFFICES ASSUME NEW i \in Jti, Issued(i)', session'[family[i]] = "revoked"
               PROVE  i \in denied \cup late
    BY DEF RevokedIsDenied
  <2>1. Issued(i) /\ family[i] \in Session
    BY DEF TypeOK, InvRows, Issued
  <2>2. CASE family[i] \in close[r]
    BY <1>3, <2>2 DEF Doomed
  <2>3. CASE family[i] \notin close[r]
    BY <2>1, <2>3 DEF RevokedIsDenied
  <2> QED
    BY <2>2, <2>3
<1>6. LoggedOutIsDenied'
  <2> SUFFICES ASSUME NEW i \in Jti, Issued(i)', Live(family[i])' = {}
               PROVE  i \in denied
    BY DEF LoggedOutIsDenied
  <2>1. Issued(i)
    BY DEF TypeOK, Issued
  <2>2. CASE Live(family[i]) = {}
    BY <2>1, <2>2 DEF LoggedOutIsDenied
  <2>3. ASSUME NEW h \in Live(family[i]) PROVE i \in denied
    <3>1. h \in Jti /\ family[h] = family[i] /\ status[h] = "live"
      BY DEF Live, Tokens
    <3>2. h \in kill[r]
      BY <3>1 DEF TypeOK, Live, Tokens
    <3> QED
      BY <1>3, <3>1, <3>2 DEF Doomed
  <2> QED
    BY <2>2, <2>3
<1> QED
  BY <1>2, <1>4, <1>5, <1>6

\* The markers still cover what they must after a rollback: the access token
\* that goes was never sent.
LEMMA AbortMarks ==
    ASSUME MarksInv, Inv', NEW r \in Request, Abort(r)
    PROVE  MarksInv'
<1> USE DEF MarksInv, Inv
<1>1. /\ \A i \in Jti : i # child[r] => status'[i] = status[i]
                                        /\ family'[i] = family[i]
      /\ \A i \in Jti : i = child[r] => status[i] = "pending"
                                        /\ status'[i] = "free"
                                        /\ family'[i] = None
      /\ denied' = denied \ {child[r]}
      /\ UNCHANGED <<session, late>>
  BY ConstantsAssumption DEF Abort, InvRequests
<1>2. RowsStay
  BY <1>1 DEF TypeOK, RowsStay, Issued
<1>3. InvScope'
  BY <1>2 DEF Abort, Done, TypeOK, InvScope, RowsStay
<1>4. InvMarks'
  <2> SUFFICES ASSUME NEW q \in Request, pc'[q] = "mark", marks'[q] = {},
                      NEW i \in Jti, Doomed(q, family[i])'
               PROVE  i \in denied'
    BY DEF InvMarks
  <2>1. /\ q # r /\ pc[q] = "mark" /\ marks[q] = {}
        /\ close'[q] = close[q] /\ kill'[q] = kill[q]
    BY DEF Abort, Done, TypeOK
  <2>2. \A h \in kill[q] : h \in Jti \ {child[r]} /\ family[h] \in Session
    <3>1. \A h \in kill[q] : h \in Jti /\ Issued(h)
      BY DEF TypeOK, InvScope
    <3>2. \A h \in Jti : Issued(h) => h # child[r] /\ family[h] \in Session
      BY <1>1 DEF InvRows, Issued
    <3> QED
      BY <3>1, <3>2
  <2>3. i # child[r]
    BY <1>1, <2>1, <2>2, ConstantsAssumption DEF TypeOK, Doomed
  <2>4. Doomed(q, family[i])
    BY <1>1, <2>1, <2>2, <2>3 DEF Doomed
  <2> QED
    BY <1>1, <2>1, <2>3, <2>4 DEF InvMarks
<1>5. RevokedIsDenied'
  BY <1>1 DEF TypeOK, RevokedIsDenied, Issued
<1>6. LoggedOutIsDenied'
  <2> SUFFICES ASSUME NEW i \in Jti, Issued(i)', Live(family[i])' = {}
               PROVE  i \in denied'
    BY DEF LoggedOutIsDenied
  <2>1. i # child[r] /\ Issued(i) /\ family'[i] = family[i]
    BY <1>1 DEF Issued
  <2>2. Live(family[i]) = {}
    BY <1>1, <2>1 DEF Live, Tokens
  <2> QED
    BY <1>1, <2>1, <2>2 DEF LoggedOutIsDenied
<1> QED
  BY <1>3, <1>4, <1>5, <1>6

-----------------------------------------------------------------------------

\* Without password resets every step keeps the markers covering.
LEMMA NextMarks ==
    ASSUME "reset" \notin Ops, MarksInv, [Next]_vars
    PROVE  MarksInv'
<1>1. Inv'
  BY NextInv DEF MarksInv
<1>2. CASE UNCHANGED vars
  BY <1>1, <1>2 DEF vars, rows, redis, local, MarksInv, InvScope, InvMarks,
       Doomed, RevokedIsDenied, LoggedOutIsDenied, Live, Tokens, Issued
<1>3. CASE Next
  <2>1. ~\E r \in Request, u \in User : ResetList(r, u)
    BY DEF ResetList
  <2> QED
    BY <1>1, <1>3, <2>1, IssueForUserMarks, ExpireMarks, BeginMarks,
       GetByJtiForUpdateMarks, RotateTouchMarks, LockTokenMarks,
       LockSessionMarks, RotateRejectedMarks, RotateReuseMarks,
       RotateAcceptedMarks, RotateCommitMarks, TokenScanMarks,
       SessionScanMarks, SessionsLockedMarks, MarkMarks, RevokeCommitMarks,
       AbortMarks
       DEF Next, Acquire, Proceed
<1> QED
  BY <1>2, <1>3

\* While no password reset runs, the markers cover in every reachable state.
THEOREM MarksInvariance == ASSUME "reset" \notin Ops PROVE Spec => []MarksInv
<1>1. MarksInv /\ [Next]_vars => MarksInv'
  BY NextMarks
<1> QED
  BY InitMarks, <1>1, PTL DEF Spec

\* Logout of a family and reuse detection leave no access token of the session
\* that the gateway accepts, but for that of a late rotation.
THEOREM RevokedIsDeniedHolds ==
    ASSUME "reset" \notin Ops PROVE Spec => []RevokedIsDenied
<1>1. MarksInv => RevokedIsDenied
  BY DEF MarksInv
<1> QED
  BY MarksInvariance, <1>1, PTL

\* A session without a usable refresh token has no usable access token.
THEOREM LoggedOutIsDeniedHolds ==
    ASSUME "reset" \notin Ops PROVE Spec => []LoggedOutIsDenied
<1>1. MarksInv => LoggedOutIsDenied
  BY DEF MarksInv
<1> QED
  BY MarksInvariance, <1>1, PTL
=============================================================================
