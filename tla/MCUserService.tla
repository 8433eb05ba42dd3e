---------------------------- MODULE MCUserService ----------------------------
(***************************************************************************)
(* Instances of UserService for TLC.                                       *)
(***************************************************************************)
EXTENDS UserService

\* Profiles that clients send: one column or the other differs from its default.
TwoProfiles == {[display_name |-> 1, locale |-> 0], [display_name |-> 0, locale |-> 1]}
=============================================================================
