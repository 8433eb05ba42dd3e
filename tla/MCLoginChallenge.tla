-------------------------- MODULE MCLoginChallenge --------------------------
(***************************************************************************)
(* Instances of LoginChallenge for TLC.                                    *)
(***************************************************************************)
EXTENDS LoginChallenge, TLC

\* Nothing tells requests, challenges, addresses or agents apart.
Symmetry ==
    Permutations(Request) \cup Permutations(Challenge)
        \cup Permutations(Address) \cup Permutations(Agent)
=============================================================================
