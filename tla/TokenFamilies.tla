--------------------------- MODULE TokenFamilies ---------------------------
(***************************************************************************)
(* What the refresh-token service promises, with no transaction, lock or   *)
(* request in sight: every session has at most one usable token, its tip.  *)
(* A rotation replaces the tip by a token never seen before, a revocation  *)
(* removes it for good.  The one blemish is stated here and nowhere hidden: *)
(* a revoked session may see one rotation more.                            *)
(***************************************************************************)
CONSTANTS
    Session,    \* sessions, each with one refresh family
    Jti,        \* refresh tokens
    None        \* no token

VARIABLES
    phase,      \* none, active or revoked, for each session
    tip,        \* the usable token of each session, or None
    used,       \* tokens rotated or revoked
    overrun     \* sessions that saw a rotation after they were revoked

vars == <<phase, tip, used, overrun>>

Fresh(j) == j \notin used /\ \A s \in Session : tip[s] # j

Init ==
    /\ phase = [s \in Session |-> "none"]
    /\ tip   = [s \in Session |-> None]
    /\ used  = {}
    /\ overrun = {}

\* A login.
Open(s, j) ==
    /\ phase[s] = "none" /\ Fresh(j)
    /\ phase' = [phase EXCEPT ![s] = "active"]
    /\ tip'   = [tip EXCEPT ![s] = j]
    /\ UNCHANGED <<used, overrun>>

Replace(s, j) ==
    /\ tip[s] # None /\ Fresh(j)
    /\ tip'  = [tip EXCEPT ![s] = j]
    /\ used' = used \cup {tip[s]}

\* A refresh.
Rotate(s, j) ==
    /\ phase[s] = "active"
    /\ Replace(s, j)
    /\ UNCHANGED <<phase, overrun>>

\* A refresh that overtakes the revocation of its session.
Overrun(s, j) ==
    /\ phase[s] = "revoked" /\ s \notin overrun
    /\ Replace(s, j)
    /\ overrun' = overrun \cup {s}
    /\ UNCHANGED phase

\* A logout, a detected reuse or a password reset: the sessions in K lose their
\* token, those in C are revoked.
Revoke(K, C) ==
    /\ \A s \in K : tip[s] # None
    /\ \A s \in C : phase[s] = "active"
    /\ tip'   = [s \in Session |-> IF s \in K THEN None ELSE tip[s]]
    /\ used'  = used \cup {tip[s] : s \in K}
    /\ phase' = [s \in Session |-> IF s \in C THEN "revoked" ELSE phase[s]]
    /\ UNCHANGED overrun

Next ==
    \/ \E s \in Session, j \in Jti :
          Open(s, j) \/ Rotate(s, j) \/ Overrun(s, j)
    \/ \E K, C \in SUBSET Session : Revoke(K, C)

Spec == Init /\ [][Next]_vars
=============================================================================
