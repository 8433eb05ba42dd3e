---------------------------- MODULE MCBrowserAuth ----------------------------
(***************************************************************************)
(* Instances of BrowserAuth for TLC.                                       *)
(***************************************************************************)
EXTENDS BrowserAuth, TLC

\* Nothing tells calls, sessions or tokens apart.
Symmetry ==
    Permutations(Call) \cup Permutations(Session) \cup Permutations(Jti)
=============================================================================
