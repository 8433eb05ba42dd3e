-------------------------- MODULE MCRefreshTokens --------------------------
(***************************************************************************)
(* Instances of RefreshTokens for TLC.                                     *)
(***************************************************************************)
EXTENDS RefreshTokens, TLC

CONSTANTS u1

\* All sessions belong to one account, so that every request may meet every
\* other.
OneOwner == [s \in Session |-> u1]

\* Requests, tokens and sessions are interchangeable.
Symmetry == Permutations(Request) \cup Permutations(Jti)
                \cup Permutations(Session)
=============================================================================
