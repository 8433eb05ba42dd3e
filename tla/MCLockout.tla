----------------------------- MODULE MCLockout -----------------------------
(***************************************************************************)
(* Instances of Lockout for TLC.                                           *)
(***************************************************************************)
EXTENDS Lockout, TLC

\* Requests and addresses are interchangeable.
Symmetry == Permutations(Request) \cup Permutations(Address)
=============================================================================
