---------------------------- MODULE MCDeployment ----------------------------
(***************************************************************************)
(* Instances of Deployment for TLC.                                        *)
(***************************************************************************)
EXTENDS Deployment

\* A mailbox without a password, with one that needs no quotes, with one that
\* has " #" in it, with the placeholder, and one whose password is in a file of
\* its own.
Mailbox(pw, path) ==
    [NoMail EXCEPT !.host = TRUE, !.user = TRUE, !.pw = pw, !.path = path]
MailChoices ==
    {Mailbox(pw, "") : pw \in {"", "plain", "hash", "placeholder"}} \cup
    {Mailbox("", "plain")}
=============================================================================
