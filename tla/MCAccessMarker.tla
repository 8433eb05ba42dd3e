--------------------------- MODULE MCAccessMarker ---------------------------
(***************************************************************************)
(* An instance of AccessMarker for TLC.                                    *)
(***************************************************************************)
EXTENDS AccessMarker, TLC

\* Tokens and requests are interchangeable.
Symmetry == Permutations(Token) \cup Permutations(Request)
=============================================================================
