------------------------------ MODULE Attempts ------------------------------
(***************************************************************************)
(* What the uses of BruteForceService have in common, at a sign-in and a   *)
(* password reset (Lockout) and at a login challenge (LoginChallenge): who *)
(* tries, from where, and how often it may fail.                           *)
(***************************************************************************)
EXTENDS Integers, FiniteSets

CONSTANTS
    Request,        \* requests being handled at the same time
    Address,        \* client addresses
    MaxAttempts,    \* settings.brute_force_..._max_attempts
    MaxDeaths       \* bound on the requests that die half way

ASSUME AttemptsAssumption ==
    /\ MaxAttempts \in Nat \ {0}
    /\ MaxDeaths \in Nat
    /\ IsFiniteSet(Request)
=============================================================================
