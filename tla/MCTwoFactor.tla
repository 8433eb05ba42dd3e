---------------------------- MODULE MCTwoFactor ----------------------------
(***************************************************************************)
(* Instances of TwoFactor for TLC.                                         *)
(***************************************************************************)
EXTENDS TwoFactor, TLC

\* Requests are interchangeable, and so are the codes of a set.
Symmetry == Permutations(Request) \cup Permutations(Slot)
=============================================================================
