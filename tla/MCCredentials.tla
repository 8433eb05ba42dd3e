--------------------------- MODULE MCCredentials ---------------------------
(***************************************************************************)
(* Instances of Credentials for TLC.                                       *)
(***************************************************************************)
EXTENDS Credentials, TLC

\* Codes, requests and addresses with the same start are interchangeable.
Symmetry == Permutations(Request) \cup Permutations(Code)
=============================================================================
