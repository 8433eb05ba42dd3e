----------------------------- MODULE Deployment -----------------------------
(***************************************************************************)
(* The environment files of the services: the two scripts that write them  *)
(* (generate_dev_env.py, render_prod_env_from_secrets.py), one file at a   *)
(* time, the operator who edits them in between, and the Settings classes  *)
(* that accept or refuse them when a service starts.                       *)
(*                                                                         *)
(* Key pairs and passwords are numbered in the order they are generated, 0 *)
(* are those of the examples; of a text only its being there is kept, and  *)
(* of a mail password what parsing and quoting its line make of it.        *)
(***************************************************************************)
EXTENDS Integers, Sequences

CONSTANTS
    Mails,      \* what an operator may write on SMTP_* lines
    Cors,       \* what --cors-origins may be: a subset of CorsKinds
    MaxGen,     \* bound on the key pairs and passwords that are generated
    MaxEdits    \* bound on what the operator does

CorsKinds == {"explicit", "wildcard", "none"}
Allows    == {"unset", "true", "false"}      \* AUTH_ALLOW_MISSING_SMTP

\* A mail password: none; one that needs no quotes; one with " #"; one with a
\* quote or a backslash; what is left of one whose line was misread; the
\* placeholder of the examples.
Passwords == {"", "plain", "hash", "escaped", "damaged", "placeholder"}

\* The SMTP_* lines: host, username, sender, password, and SMTP_PASSWORD_FILE,
\* as the password in the file it names.
Mail   == [host : BOOLEAN, user : BOOLEAN, from : BOOLEAN, pw : Passwords,
           path : Passwords]
NoMail == [host |-> FALSE, user |-> FALSE, from |-> FALSE, pw |-> "", path |-> ""]

ASSUME DeploymentAssumption ==
    /\ Mails \subseteq Mail
    /\ Cors \subseteq CorsKinds
    /\ MaxGen \in Nat /\ MaxEdits \in Nat

Service == {"auth", "user", "gateway"}
File    == Service \cup {"compose"}
Absent  == [kind |-> "absent"]

\* What matters of services/*/.env: SERVICE_ENV, CORS_ALLOWED_ORIGINS, the key
\* pair and whether it is PEM text, the password of Redis, its database, the
\* peppers and the Fernet key, and the mail settings (of auth-service alone).
Env == [kind : {"env"}, mode : {"development", "production"}, cors : CorsKinds,
        public : Nat, private : Nat, pem : BOOLEAN, pw : Nat, redis : 0 .. 2,
        good : BOOLEAN, mail : Mail, allow : Allows]

\* infra/compose/.env.compose.
Compose == [kind : {"compose"}, pw : Nat, mail : Mail, allow : Allows]

VARIABLES
    file,       \* the four files
    secrets,    \* the directory secrets/
    gen,        \* how many key pairs and passwords were generated
    job,        \* the script that runs, and what it still has to write
    edits,      \* how many things the operator did
    mixed,      \* history: files of several origins may lie side by side
    whole       \* history: the last script ended, and nothing changed since

vars == <<file, secrets, gen, job, edits, mixed, whole>>

Idle == [kind |-> "idle"]

\* The key files (0: there are none), whether they are PEM text, whether the
\* peppers are long enough and the Fernet key is one, the smtp_*.txt files and
\* the mailbox.
Secrets == [private : Nat, public : Nat, pem : BOOLEAN, good : BOOLEAN,
            mail : Mail, ident : BOOLEAN]

Init ==
    /\ file = [f \in File |-> Absent]
    /\ secrets = [private |-> 0, public |-> 0, pem |-> TRUE, good |-> TRUE,
                  mail |-> NoMail, ident |-> FALSE]
    /\ gen = 0 /\ edits = 0
    /\ job = Idle
    /\ mixed = FALSE /\ whole = "none"

Present == {f \in File : file[f] # Absent}

-----------------------------------------------------------------------------
(* What the Settings classes make of an environment.                       *)

\* The validators the three services share: peppers, and in staging and
\* production explicit origins and PEM keys (all files say RS256).
Accepts(e) ==
    /\ e.good
    /\ e.mode = "production" => e.cors = "explicit" /\ e.pem

\* Settings of auth-service: the mail password is that of the environment, of
\* the file SMTP_PASSWORD_FILE names or of secrets/, the mailbox that of the
\* environment or of secrets/, the host is Gmail's when there is a password.
MailOf(e) ==
    LET pw    == IF e.mail.pw # "" THEN e.mail.pw
                 ELSE IF e.mail.path # "" THEN e.mail.path ELSE secrets.mail.pw
        ident == secrets.ident /\ ~e.mail.user /\ ~e.mail.from
    IN  [e.mail EXCEPT !.pw = pw, !.host = @ \/ pw # "",
                       !.user = @ \/ ident, !.from = @ \/ ident]

smtp_is_configured(mail) ==
    mail.host /\ (mail.from \/ mail.user) /\ mail.pw \notin {"", "placeholder"}

AuthAccepts(e) ==
    /\ Accepts(e)
    /\ e.mode = "production" => smtp_is_configured(MailOf(e)) \/ e.allow = "true"

UserAccepts(e)    == Accepts(e)
GatewayAccepts(e) == Accepts(e)

Starts(auth, user, gateway) ==
    AuthAccepts(auth) /\ UserAccepts(user) /\ GatewayAccepts(gateway)

\* docker-compose.prod.yml overrides SERVICE_ENV, and for auth-service
\* SMTP_PASSWORD_FILE (the file of secrets/) and AUTH_ALLOW_MISSING_SMTP.
InProduction(e) == [e EXCEPT !.mode = "production"]
InCompose(e) ==
    LET allow == file["compose"].allow
    IN  [InProduction(e) EXCEPT !.mail.path = "",
                                !.allow = IF allow = "unset" THEN "true" ELSE allow]

-----------------------------------------------------------------------------
(* What the scripts write.                                                 *)

\* Both scripts strip the quotes of a line and leave its escapes, and
\* generate_dev_env.py writes the value back without quotes.
Reread(pw)    == IF pw = "escaped" THEN "damaged" ELSE pw
Rewritten(pw) == IF pw = "hash" THEN "damaged" ELSE Reread(pw)

\* generate_dev_env.py: the lines it keeps of the SMTP_* lines of the file it
\* overwrites, those whose key its own text has too.
\* Mutated form: the password is not kept.
KeepSender(mail) == [mail EXCEPT !.pw = "", !.path = ""]
Kept(mail) == [mail EXCEPT !.pw = Rewritten(@), !.path = ""]

DevEnv(s, n, mail) ==
    [kind |-> "env", mode |-> "development", cors |-> "explicit", public |-> n,
     private |-> IF s = "auth" THEN n ELSE 0, pem |-> TRUE, pw |-> n, good |-> TRUE,
     redis |-> CASE s = "auth" -> 0 [] s = "user" -> 1 [] s = "gateway" -> 2,
     mail |-> IF s = "auth" THEN mail ELSE NoMail, allow |-> "unset"]

DevCompose(n) == [kind |-> "compose", pw |-> n, mail |-> NoMail, allow |-> "unset"]

\* render_prod_env_from_secrets.py: SMTP_* from secrets/, or .env.compose.
Resolved(c) ==
    LET pw   == IF secrets.mail.pw # "" THEN secrets.mail.pw ELSE Reread(c.mail.pw)
        user == secrets.mail.user \/ c.mail.user
    IN  [host |-> secrets.mail.host \/ c.mail.host \/ pw # "", pw |-> pw,
         user |-> user \/ secrets.ident, path |-> "",
         from |-> secrets.mail.from \/ c.mail.from \/ user \/ secrets.ident]

\* AUTH_ALLOW_MISSING_SMTP of .env.compose, or whether mail is incomplete.
\* Mutated form: a host and a sender are enough.
AllowsByHost(c) ==
    LET mail == Resolved(c)
    IN  IF c.allow # "unset" THEN c.allow
        ELSE IF mail.host /\ (mail.from \/ mail.user) THEN "false" ELSE "true"
ResolvedAllow(c) ==
    LET mail == Resolved(c)
    IN  IF c.allow # "unset" THEN c.allow
        ELSE IF mail.host /\ (mail.from \/ mail.user) /\ mail.pw # ""
             THEN "false" ELSE "true"

ProdEnv(s, cors) ==
    [DevEnv(s, secrets.public, Resolved(file["compose"])) EXCEPT
        !.mode = "production", !.cors = cors, !.pw = file["compose"].pw,
        !.private = IF s = "auth" THEN secrets.private ELSE 0,
        !.pem = secrets.pem, !.good = secrets.good,
        !.allow = IF s = "auth" THEN ResolvedAllow(file["compose"]) ELSE "unset"]

\* The examples: one text for every key, the same change_me passwords, a sender
\* without a password, and a Fernet key that is none.
Example(f) ==
    LET sender == [NoMail EXCEPT !.host = TRUE, !.user = TRUE, !.from = TRUE]
    IN  IF f = "compose"
        THEN [DevCompose(0) EXCEPT !.mail = sender, !.allow = "true"]
        ELSE [DevEnv(f, 0, [sender EXCEPT !.pw = "placeholder"]) EXCEPT
                 !.good = f # "auth", !.allow = IF f = "auth" THEN "false" ELSE "unset"]

-----------------------------------------------------------------------------
(* The scripts.                                                            *)

\* generate_dev_env.py starts: new keys and passwords, and with --force the
\* SMTP_* lines of the file that is there.
GenerateDev(force) ==
    /\ job = Idle /\ gen < MaxGen
    /\ gen' = gen + 1
    /\ LET old  == file["auth"]
           mail == IF force /\ old # Absent THEN Kept(old.mail) ELSE NoMail
       IN  job' = [kind  |-> IF force THEN "forced" ELSE "dev",
                   left  |-> <<"auth", "user", "gateway", "compose">>,
                   texts |-> [f \in File |-> IF f = "compose" THEN DevCompose(gen')
                                             ELSE DevEnv(f, gen', mail)]]
    /\ mixed' = (mixed \/ (~force /\ Present \notin {{}, File}))
    /\ whole' = "none"
    /\ UNCHANGED <<file, secrets, edits>>

\* render_prod_env_from_secrets.py starts; it stops at once when a file it
\* needs is missing.  It writes whatever it reads: origins or secrets that the
\* services will refuse too.
RenderProd(cors) ==
    /\ job = Idle
    /\ file["compose"] # Absent /\ secrets.private # 0
    /\ job' = [kind  |-> IF cors = "explicit" /\ secrets.good /\ secrets.pem
                         THEN "prod" ELSE "refused",
               left  |-> <<"auth", "user", "gateway">>,
               texts |-> [f \in Service |-> ProdEnv(f, cors)]]
    /\ whole' = "none"
    /\ UNCHANGED <<file, secrets, gen, edits, mixed>>

Paired(e) == e.private = e.public

\* The next file.  Without --force generate_dev_env.py leaves one that exists.
\* Mutated form: it leaves .env.compose even with --force.
KeepsCompose(f) == file[f] # Absent /\ (job.kind = "dev" \/ f = "compose")
Keeps(f) == file[f] # Absent /\ job.kind = "dev"

\* The files of a forced generation have one origin; so have those rendered,
\* if the two key files of secrets/ are of one pair.
WriteFile ==
    /\ job # Idle
    /\ LET f == Head(job.left)
       IN  file' = IF Keeps(f) THEN file ELSE [file EXCEPT ![f] = job.texts[f]]
    /\ IF Len(job.left) > 1
       THEN /\ job' = [job EXCEPT !.left = Tail(@)]
            /\ UNCHANGED <<mixed, whole>>
       ELSE /\ job' = Idle
            /\ whole' = job.kind
            /\ mixed' = IF job.kind = "dev" THEN mixed ELSE ~Paired(job.texts["auth"])
    /\ UNCHANGED <<secrets, gen, edits>>

\* The script is interrupted between two files.
Interrupt ==
    /\ job # Idle
    /\ job' = Idle
    /\ mixed' = TRUE
    /\ UNCHANGED <<file, secrets, gen, edits, whole>>

-----------------------------------------------------------------------------
(* The operator, while no script runs.                                     *)

Operates ==
    /\ job = Idle /\ edits < MaxEdits
    /\ edits' = edits + 1
    /\ whole' = "none"
    /\ UNCHANGED job

\* A key pair n: one there was, or the next (rotate_keys.sh).
UsesPair(n) ==
    /\ n \in 1 .. MaxGen /\ n <= gen + 1
    /\ gen' = IF n > gen THEN n ELSE gen

\* jwt_private.pem, jwt_public.pem, the peppers and the Fernet key of secrets/.
PutKeys ==
    \E private, public \in 1 .. MaxGen, pem, good \in BOOLEAN :
        /\ Operates /\ UsesPair(private) /\ public <= gen'
        /\ secrets' = [secrets EXCEPT !.private = private, !.public = public,
                                      !.pem = pem, !.good = good]
        /\ UNCHANGED <<file, mixed>>

\* smtp_*.txt of secrets/.
PutMail ==
    \E mail \in {m \in Mails : m.path = ""}, ident \in BOOLEAN :
        /\ Operates
        /\ secrets' = [secrets EXCEPT !.mail = mail, !.ident = ident]
        /\ UNCHANGED <<file, gen, mixed>>

Edit(f, text) ==
    /\ Operates
    /\ file' = [file EXCEPT ![f] = text]
    /\ UNCHANGED secrets

\* A file copied from its example: of one origin with other copies alone.
CopyExample ==
    \E f \in File \ Present :
        /\ Edit(f, Example(f))
        /\ mixed' = (mixed \/ \E g \in Present : file[g].pw # 0
                                  \/ (g # "compose" /\ file[g].public # 0))
        /\ UNCHANGED gen

Remove == \E f \in Present : Edit(f, Absent) /\ UNCHANGED <<gen, mixed>>

EditMail ==
    \E f \in Present \cap {"auth", "compose"}, mail \in Mails :
        Edit(f, [file[f] EXCEPT !.mail = mail]) /\ UNCHANGED <<gen, mixed>>

EditAllow ==
    \E f \in Present \cap {"auth", "compose"}, allow \in Allows :
        Edit(f, [file[f] EXCEPT !.allow = allow]) /\ UNCHANGED <<gen, mixed>>

\* docs/runbooks/rotate-jwt-keys.md, one service at a time.
RotateKeys ==
    \E s \in Present \cap Service, n \in 1 .. MaxGen :
        /\ UsesPair(n)
        /\ Edit(s, [file[s] EXCEPT !.public = n,
                                   !.private = IF s = "auth" THEN n ELSE @])
        /\ mixed' = TRUE

\* A password of one file is replaced, by one that another file has.
EditPassword ==
    \E f \in Present, n \in 0 .. gen :
        /\ Edit(f, [file[f] EXCEPT !.pw = n])
        /\ mixed' = TRUE
        /\ UNCHANGED gen

Next ==
    \/ \E force \in BOOLEAN : GenerateDev(force)
    \/ \E cors \in Cors : RenderProd(cors)
    \/ WriteFile \/ Interrupt
    \/ PutKeys \/ PutMail \/ CopyExample \/ Remove
    \/ EditMail \/ EditAllow \/ RotateKeys \/ EditPassword

Spec == Init /\ [][Next]_vars

-----------------------------------------------------------------------------

\* What a script has still to write, file by file.
DevLeft  == {<<"auth", "user", "gateway", "compose">>, <<"user", "gateway", "compose">>,
             <<"gateway", "compose">>, <<"compose">>}
ProdLeft == {<<"auth", "user", "gateway">>, <<"user", "gateway">>, <<"gateway">>}

DevJob  == [kind : {"dev", "forced"}, left : DevLeft, texts : [File -> Env \cup Compose]]
ProdJob == [kind : {"prod", "refused"}, left : ProdLeft, texts : [Service -> Env]]

\* Every variable has its type, and each file its own.
TypeOK ==
    /\ file \in [File -> Env \cup Compose \cup {Absent}]
    /\ \A s \in Service : file[s] \notin Compose
    /\ file["compose"] \notin Env
    /\ secrets \in Secrets
    /\ gen \in 0 .. MaxGen /\ edits \in 0 .. MaxEdits
    /\ job \in DevJob \cup ProdJob \cup {Idle}
    /\ job \in DevJob => job.texts["compose"] \in Compose
                          /\ \A s \in Service : job.texts[s] \in Env
    /\ mixed \in BOOLEAN
    /\ whole \in {"none", "dev", "forced", "prod", "refused"}

\* Texts t of the files F: the services verify with one public key and connect
\* with one password, and auth-service signs with the private key of that pair.
SameSet(t, F) ==
    /\ \A s, u \in F \cap Service : t[s].public = t[u].public
    /\ \A f, g \in F : t[f].pw = t[g].pw
Agree(t, F) == SameSet(t, F) /\ ("auth" \in F => Paired(t["auth"]))

\* The services verify with the public key of the pair auth-service signs with,
\* and use the passwords the databases are started with; except after a script
\* was interrupted, generate_dev_env.py without --force filled in some of the
\* files, an example was copied next to files that are none, a key or password
\* was edited, or files were rendered from key files of two pairs.  A forced
\* generation, or a rendering from one pair, that runs to its end repairs each
\* of these.
FilesAgree == job = Idle /\ ~mixed => Agree(file, Present)

\* The files of a script that ended start the stack of docker-compose.prod.yml,
\* and the services on their own, whatever of the mail settings is missing,
\* unless the operator forbids that (_validate_deployed_security).  The text of
\* an example as mail password is taken for one (_resolve_smtp_for_auth_env).
StackStarts ==
    whole \in {"forced", "prod"} /\ file["compose"].allow # "false" =>
        /\ Starts(InCompose(file["auth"]), InProduction(file["user"]),
                  InProduction(file["gateway"]))
        /\ file["auth"].mail.pw # "placeholder" =>
               Starts(file["auth"], file["user"], file["gateway"])

\* The password is the one the operator gave.
Delivers(e) == smtp_is_configured(MailOf(e)) /\ MailOf(e).pw # "damaged"

\* A forced generation leaves auth-service able to send mail if it was before
\* (_smtp_key_values_from_env_text, _merge_smtp_into_auth_env), with a password
\* on its line that needs no quotes, or one of secrets/.  It drops the line
\* SMTP_PASSWORD_FILE, and the quotes of a password that needs them.
MailSurvives ==
    [][\A e \in {file["auth"]} :
          (/\ job # Idle /\ job.kind = "forced" /\ Head(job.left) = "auth"
           /\ e # Absent /\ Delivers(e)
           /\ e.mail.pw = "plain" \/ (e.mail.pw = "" /\ e.mail.path = "")
           /\ file' # file)
             => Delivers(file'["auth"])]_vars

\* docs/project-book.md: the three services check the marker of a revoked
\* session, which auth-service sets; so they read the database it is set in.
MarkerReachesEveryService ==
    \A s, t \in Present \cap Service : file[s].redis = file[t].redis

\* _smtp_key_values_from_env_text: a regenerated auth .env keeps the non-empty
\* SMTP_* lines.
SmtpLinesKept ==
    [][\A e \in {file["auth"]} :
          (job # Idle /\ job.kind = "forced" /\ Head(job.left) = "auth" /\ e # Absent
             /\ file' # file)
             => file'["auth"].mail = e.mail]_vars

-----------------------------------------------------------------------------
(* Why the files agree and the stack starts: what a script has written, and  *)
(* what it has still to write.                                               *)

Pending(l) == {l[i] : i \in 1 .. Len(l)}

\* The texts agree with each other, and those of render_prod_env_from_secrets.py
\* with the .env.compose it leaves alone.
TextsAgree ==
    /\ SameSet(job.texts, DOMAIN job.texts)
    /\ job \in DevJob => Paired(job.texts["auth"])
    /\ job \in ProdJob => /\ file["compose"] # Absent
                           /\ \A s \in Service : job.texts[s].pw = file["compose"].pw

\* A script that overwrites has written every file it is done with; one that does
\* not finds all of the files, or none, unless mixed says so.
WrittenSoFar ==
    LET done == DOMAIN job.texts \ Pending(job.left) IN
    IF job.kind # "dev" THEN \A f \in done : file[f] = job.texts[f]
    ELSE \/ mixed
         \/ Present = File /\ Agree(file, File)
         \/ Present = done /\ \A f \in done : file[f] = job.texts[f]

\* Every Settings class accepts it, but for the mail.
Sound(e) == e.good /\ e.cors = "explicit" /\ e.pem

\* In production mail is complete, or may be missing.
MailSettled(e) ==
    /\ e.mail.path = ""
    /\ e.mode = "production" /\ e.allow # "true" /\ file["compose"].allow # "false" =>
           e.mail.host /\ (e.mail.from \/ e.mail.user) /\ e.mail.pw # ""

DeploymentInv ==
    /\ job = Idle /\ ~mixed => Agree(file, Present)
    /\ job # Idle => /\ TextsAgree /\ WrittenSoFar /\ whole = "none"
                     /\ job.kind \in {"forced", "prod"} =>
                            /\ \A s \in Service : Sound(job.texts[s])
                            /\ MailSettled(job.texts["auth"])
                     /\ job.kind = "forced" => job.texts["auth"].mode = "development"
                     /\ job.kind = "forced" /\ Head(job.left) = "auth" /\ file["auth"] # Absent =>
                            job.texts["auth"].mail = Kept(file["auth"].mail)
    /\ whole \in {"forced", "prod"} =>
           /\ Present = File
           /\ \A s \in Service : Sound(file[s])
           /\ MailSettled(file["auth"])
=============================================================================
