-------------------------- MODULE DeploymentProofs --------------------------
(***************************************************************************)
(* Proofs about Deployment, for any mail settings, any origins and any     *)
(* number of generated keys and of edits: the files agree, the stack       *)
(* starts and the mail password survives.                                  *)
(*                                                                         *)
(* DeploymentInv is inductive with TypeOK.  Its core: the texts of a       *)
(* script agree among themselves, and the files it is done with are those  *)
(* texts, or those that were all there before it.                          *)
(*                                                                         *)
(* At the end, AccessMarker: what the markers refuse is refused for good.  *)
(***************************************************************************)
EXTENDS Deployment, AccessMarker, TLAPS

\* The files that are there, one by one.
LEMMA Kinds ==
    /\ \A e \in Env : e.kind = "env" /\ e # Absent /\ e \notin Compose
    /\ \A e \in Compose : e.kind = "compose" /\ e # Absent /\ e \notin Env
    /\ Absent \notin Env /\ Absent \notin Compose
  BY DEF Env, Compose, Absent

\* What generate_dev_env.py has left, and what remains after one file.
LEMMA DevLefts ==
    ASSUME NEW l \in DevLeft
    PROVE  /\ Head(l) \in Pending(l) /\ Pending(l) \subseteq File
           /\ Head(l) = "auth" => Pending(l) = File
           /\ Len(l) > 1 => /\ Tail(l) \in DevLeft /\ Head(Tail(l)) # "auth"
                            /\ Pending(Tail(l)) = Pending(l) \ {Head(l)}
           /\ ~(Len(l) > 1) => Pending(l) = {Head(l)}
<1>1. CASE l = <<"auth", "user", "gateway", "compose">>
  BY <1>1 DEF DevLeft, Pending, File, Service
<1>2. CASE l = <<"user", "gateway", "compose">>
  BY <1>2 DEF DevLeft, Pending, File, Service
<1>3. CASE l = <<"gateway", "compose">>
  BY <1>3 DEF DevLeft, Pending, File, Service
<1>4. CASE l = <<"compose">>
  BY <1>4 DEF DevLeft, Pending, File, Service
<1> QED
  BY <1>1, <1>2, <1>3, <1>4 DEF DevLeft

\* The same of render_prod_env_from_secrets.py.
LEMMA ProdLefts ==
    ASSUME NEW l \in ProdLeft
    PROVE  /\ Head(l) \in Pending(l) /\ Pending(l) \subseteq Service
           /\ Head(l) = "auth" => Pending(l) = Service
           /\ Len(l) > 1 => /\ Tail(l) \in ProdLeft /\ Head(Tail(l)) # "auth"
                            /\ Pending(Tail(l)) = Pending(l) \ {Head(l)}
           /\ ~(Len(l) > 1) => Pending(l) = {Head(l)}
<1>1. CASE l = <<"auth", "user", "gateway">>
  BY <1>1 DEF ProdLeft, Pending, Service
<1>2. CASE l = <<"user", "gateway">>
  BY <1>2 DEF ProdLeft, Pending, Service
<1>3. CASE l = <<"gateway">>
  BY <1>3 DEF ProdLeft, Pending, Service
<1> QED
  BY <1>1, <1>2, <1>3 DEF ProdLeft

\* The mail settings that are kept.
LEMMA KeptType ==
    ASSUME NEW m \in Mail
    PROVE  /\ Kept(m) \in Mail /\ Kept(m).host = m.host /\ Kept(m).user = m.user
           /\ Kept(m).from = m.from /\ Kept(m).pw = Rewritten(m.pw) /\ Kept(m).path = ""
<1>1. m.pw \in Passwords /\ Rewritten(m.pw) \in Passwords /\ "" \in Passwords
  BY DEF Mail, Rewritten, Reread, Passwords
<1> QED
  BY <1>1 DEF Kept, Mail

\* No mail settings.
LEMMA NoMailType == NoMail \in Mail /\ NoMail.path = ""
  BY DEF NoMail, Mail, Passwords

\* A text of generate_dev_env.py.
LEMMA DevEnvType ==
    ASSUME NEW s \in Service, NEW n \in Nat, NEW m \in Mail
    PROVE  /\ DevEnv(s, n, m) \in Env
           /\ DevEnv(s, n, m).public = n /\ DevEnv(s, n, m).pw = n
           /\ DevEnv(s, n, m).good /\ DevEnv(s, n, m).cors = "explicit"
           /\ DevEnv(s, n, m).pem /\ DevEnv(s, n, m).mode = "development"
           /\ s = "auth" => DevEnv(s, n, m).mail = m /\ DevEnv(s, n, m).private = n
<1> DEFINE v == IF s = "auth" THEN n ELSE 0
           r == CASE s = "auth" -> 0 [] s = "user" -> 1 [] s = "gateway" -> 2
           l == IF s = "auth" THEN m ELSE NoMail
           e == [kind |-> "env", mode |-> "development", cors |-> "explicit", public |-> n,
                 private |-> v, pem |-> TRUE, pw |-> n, good |-> TRUE, redis |-> r,
                 mail |-> l, allow |-> "unset"]
<1>1. v \in Nat /\ r \in 0 .. 2 /\ l \in Mail /\ (s = "auth" => v = n /\ l = m)
  <2>1. r \in 0 .. 2
    BY DEF Service
  <2> HIDE DEF r
  <2> QED
    BY <2>1, NoMailType
<1>2. DevEnv(s, n, m) = e
  BY DEF DevEnv
<1> HIDE DEF v, r, l
<1>3. /\ e.public = n /\ e.pw = n /\ e.cors = "explicit" /\ e.mode = "development"
      /\ e.mail = l /\ e.private = v
  OBVIOUS
<1>4. e.good = TRUE /\ e.pem = TRUE
  OBVIOUS
<1>5. e \in Env
  BY <1>1 DEF Env, CorsKinds, Allows
<1> HIDE DEF e
<1>6. DevEnv(s, n, m).good /\ DevEnv(s, n, m).pem
  BY <1>2, <1>4, Zenon
<1> QED
  BY <1>1, <1>2, <1>3, <1>5, <1>6

\* The .env.compose of generate_dev_env.py.
LEMMA DevComposeType ==
    ASSUME NEW n \in Nat PROVE DevCompose(n) \in Compose /\ DevCompose(n).pw = n
  BY NoMailType DEF DevCompose, Compose, Allows

\* The mail settings render_prod_env_from_secrets.py finds, and when it says that
\* mail may be missing.
LEMMA ResolvedType ==
    ASSUME NEW c \in Compose, secrets \in Secrets
    PROVE  /\ Resolved(c) \in Mail /\ ResolvedAllow(c) \in Allows
           /\ Resolved(c).path = ""
           /\ ResolvedAllow(c) # "true" /\ c.allow # "false" =>
                 /\ Resolved(c).host /\ (Resolved(c).from \/ Resolved(c).user)
                 /\ Resolved(c).pw # ""
<1> DEFINE pw == IF secrets.mail.pw # "" THEN secrets.mail.pw ELSE Reread(c.mail.pw)
<1>1. pw \in Passwords /\ "" \in Passwords
  BY DEF Compose, Mail, Secrets, Passwords, Reread
<1>2. PICK h \in BOOLEAN : h = (secrets.mail.host \/ c.mail.host \/ pw # "")
  BY Zenon
<1>3. PICK u \in BOOLEAN : u = (secrets.mail.user \/ c.mail.user \/ secrets.ident)
  BY Zenon
<1>4. PICK f \in BOOLEAN : f = (secrets.mail.from \/ c.mail.from
                                   \/ (secrets.mail.user \/ c.mail.user) \/ secrets.ident)
  BY Zenon
<1> DEFINE r == [host |-> h, pw |-> pw, user |-> u, path |-> "", from |-> f]
<1>5. Resolved(c) = r
  <2>1. u = ((secrets.mail.user \/ c.mail.user) \/ secrets.ident)
    BY <1>3, Zenon
  <2> QED
    BY <1>2, <1>4, <2>1, Zenon DEF Resolved
<1> HIDE DEF pw
<1>6. r \in Mail /\ r.path = ""
  BY <1>1 DEF Mail
<1>7. ResolvedAllow(c) \in Allows
  BY DEF ResolvedAllow, Compose, Allows
<1>8. ResolvedAllow(c) # "true" /\ c.allow # "false" =>
         r.host /\ (r.from \/ r.user) /\ r.pw # ""
  <2> HIDE DEF r
  <2> QED
    BY <1>5 DEF ResolvedAllow, Compose, Allows
<1> QED
  BY <1>5, <1>6, <1>7, <1>8

\* A text of render_prod_env_from_secrets.py.
LEMMA ProdEnvType ==
    ASSUME secrets \in Secrets, file["compose"] \in Compose, NEW s \in Service,
           NEW cors \in CorsKinds
    PROVE  /\ ProdEnv(s, cors) \in Env
           /\ ProdEnv(s, cors).public = secrets.public
           /\ ProdEnv(s, cors).pw = file["compose"].pw
           /\ ProdEnv(s, cors).cors = cors
           /\ ProdEnv(s, cors).good = secrets.good
           /\ ProdEnv(s, cors).pem = secrets.pem
           /\ s = "auth" => /\ ProdEnv(s, cors).mail = Resolved(file["compose"])
                            /\ ProdEnv(s, cors).allow = ResolvedAllow(file["compose"])
<1> DEFINE m == Resolved(file["compose"])
           a == IF s = "auth" THEN ResolvedAllow(file["compose"]) ELSE "unset"
           v == IF s = "auth" THEN secrets.private ELSE 0
           e == DevEnv(s, secrets.public, m)
           g == secrets.good
           k == secrets.pem
           w == file["compose"].pw
<1>1. /\ m \in Mail /\ a \in Allows /\ g \in BOOLEAN /\ w \in Nat
      /\ k \in BOOLEAN /\ v \in Nat /\ secrets.public \in Nat
  BY ResolvedType DEF Compose, Secrets, Allows
<1>2. e \in Env /\ e.public = secrets.public /\ (s = "auth" => e.mail = m)
  BY <1>1, DevEnvType
<1>3. ProdEnv(s, cors) = [e EXCEPT !.mode = "production", !.cors = cors, !.pw = w,
                                   !.private = v, !.pem = k, !.good = g, !.allow = a]
  BY DEF ProdEnv
<1>4. s = "auth" => a = ResolvedAllow(file["compose"])
  OBVIOUS
<1> HIDE DEF m, a, v, e, g, k, w
<1> DEFINE y == [e EXCEPT !.mode = "production", !.cors = cors, !.pw = w,
                          !.private = v, !.pem = k, !.good = g, !.allow = a]
<1>5. y \in Env
  BY <1>1, <1>2 DEF Env
<1>6. /\ y.public = e.public /\ y.pw = w /\ y.cors = cors /\ y.good = g
      /\ y.pem = k /\ y.mail = e.mail /\ y.allow = a
  BY <1>2 DEF Env
<1> HIDE DEF y
<1>7. ProdEnv(s, cors) = y
  BY <1>3 DEF y
<1> QED
  BY <1>2, <1>4, <1>5, <1>6, <1>7 DEF g, k, w, m

\* A script that runs is one of the two, and what it has left are texts it has.
LEMMA JobParts ==
    ASSUME TypeOK, job # Idle
    PROVE  /\ job \in DevJob \cup ProdJob
           /\ job \in DevJob <=> job.kind \in {"dev", "forced"}
           /\ job \in ProdJob <=> job.kind \in {"prod", "refused"}
           /\ DOMAIN job.texts = IF job \in DevJob THEN File ELSE Service
           /\ Head(job.left) \in Pending(job.left)
           /\ Pending(job.left) \subseteq DOMAIN job.texts
           /\ Head(job.left) = "auth" => Pending(job.left) = DOMAIN job.texts
           /\ \A s \in Service : job.texts[s] \in Env
           /\ job \in DevJob => job.texts["compose"] \in Compose
<1>1. job \in DevJob \cup ProdJob
  BY DEF TypeOK
<1>2. CASE job \in DevJob
  <2>1. /\ job.kind \in {"dev", "forced"} /\ DOMAIN job.texts = File
        /\ job.left \in DevLeft /\ job \notin ProdJob
    BY <1>2 DEF DevJob, ProdJob
  <2> QED
    BY <1>1, <1>2, <2>1, DevLefts DEF TypeOK
<1>3. CASE job \in ProdJob
  <2>1. /\ job.kind \in {"prod", "refused"} /\ DOMAIN job.texts = Service
        /\ job.left \in ProdLeft /\ job \notin DevJob
        /\ \A s \in Service : job.texts[s] \in Env
    BY <1>3 DEF DevJob, ProdJob
  <2> QED
    BY <1>1, <1>3, <2>1, ProdLefts
<1> QED
  BY <1>1, <1>2, <1>3

\* Nothing runs while the operator edits.
LEMMA IdleApart == Idle \notin DevJob /\ Idle \notin ProdJob
  BY DEF Idle, DevJob, ProdJob

\* A file is of its kind.
LEMMA FileKinds ==
    ASSUME TypeOK, NEW f \in Present
    PROVE  /\ f \in File /\ (f \in Service => file[f] \in Env)
           /\ f = "compose" => file[f] \in Compose
  BY Kinds DEF TypeOK, Present, File, Service

\* Other keys, and another password.
LEMMA EnvEdited ==
    ASSUME NEW x \in Env
    PROVE  /\ \A n, k \in Nat : [x EXCEPT !.public = n, !.private = k] \in Env
           /\ \A n \in Nat : [x EXCEPT !.pw = n] \in Env
  BY DEF Env

\* Another password of .env.compose.
LEMMA ComposeEdited ==
    ASSUME NEW x \in Compose PROVE \A n \in Nat : [x EXCEPT !.pw = n] \in Compose
  BY DEF Compose

\* The mail settings or AUTH_ALLOW_MISSING_SMTP of a file are replaced.
LEMMA MailEdited ==
    ASSUME TypeOK, NEW f \in Present \cap {"auth", "compose"}, NEW e,
           \/ \E m \in Mail : e = [file[f] EXCEPT !.mail = m]
           \/ \E a \in Allows : e = [file[f] EXCEPT !.allow = a]
    PROVE  /\ f = "auth" => /\ e \in Env /\ e.public = file[f].public
                            /\ e.private = file[f].private
           /\ f = "compose" => e \in Compose
           /\ e.pw = file[f].pw
<1>1. /\ f = "auth" => file[f] \in Env
      /\ f = "compose" => file[f] \in Compose
  BY FileKinds DEF Service
<1>2. CASE \E m \in Mail : e = [file[f] EXCEPT !.mail = m]
  <2>1. CASE f = "auth"
    BY <1>1, <1>2, <2>1 DEF Env
  <2>2. CASE f = "compose"
    BY <1>1, <1>2, <2>2 DEF Compose
  <2> QED
    BY <2>1, <2>2
<1>3. CASE \E a \in Allows : e = [file[f] EXCEPT !.allow = a]
  <2>1. CASE f = "auth"
    BY <1>1, <1>3, <2>1 DEF Env
  <2>2. CASE f = "compose"
    BY <1>1, <1>3, <2>2 DEF Compose
  <2> QED
    BY <2>1, <2>2
<1> QED
  BY <1>2, <1>3

\* A file copied from its example.
LEMMA ExampleType ==
    ASSUME NEW f \in File
    PROVE  /\ f \in Service => Example(f) \in Env /\ Example(f).public = 0
           /\ f = "compose" => Example(f) \in Compose
           /\ f = "auth" => Paired(Example(f))
           /\ Example(f).pw = 0
<1> DEFINE sender == [NoMail EXCEPT !.host = TRUE, !.user = TRUE, !.from = TRUE]
           m == [sender EXCEPT !.pw = "placeholder"]
<1>1. sender \in Mail /\ m \in Mail
  BY DEF NoMail, Mail, Passwords
<1>2. CASE f = "compose"
  <2>1. Example(f) = [DevCompose(0) EXCEPT !.mail = sender, !.allow = "true"]
    BY <1>2 DEF Example
  <2>2. DevCompose(0) \in Compose /\ DevCompose(0).pw = 0
    BY DevComposeType
  <2> HIDE DEF sender
  <2> QED
    BY <1>1, <1>2, <2>1, <2>2 DEF Compose, Allows, Service
<1>3. CASE f \in Service
  <2> DEFINE e == DevEnv(f, 0, m)
             g == f # "auth"
             a == IF f = "auth" THEN "false" ELSE "unset"
  <2>1. Example(f) = [e EXCEPT !.good = g, !.allow = a]
    BY <1>3 DEF Example, Service
  <2>2. e \in Env /\ e.public = 0 /\ e.pw = 0 /\ (f = "auth" => e.private = 0)
    BY <1>1, <1>3, DevEnvType
  <2>3. g \in BOOLEAN /\ a \in Allows /\ f # "compose"
    BY <1>3, Zenon DEF Allows, Service
  <2> HIDE DEF e, g, a
  <2> QED
    BY <1>3, <2>1, <2>2, <2>3 DEF Env, Paired
<1> QED
  BY <1>2, <1>3 DEF File

\* One file is written, or left as it is.
LEMMA Wrote ==
    ASSUME TypeOK, WriteFile, NEW f, f = Head(job.left)
    PROVE  /\ job # Idle /\ f \in DOMAIN job.texts /\ f \in File
           /\ \A g \in File \ {f} : file'[g] = file[g]
           /\ Keeps(f) => file' = file
           /\ ~Keeps(f) => file' = [file EXCEPT ![f] = job.texts[f]]
           /\ ~Keeps(f) => file'[f] = job.texts[f]
           /\ UNCHANGED <<secrets, gen, edits>>
<1>1. job # Idle /\ UNCHANGED <<secrets, gen, edits>>
      /\ file' = IF Keeps(f) THEN file ELSE [file EXCEPT ![f] = job.texts[f]]
  BY DEF WriteFile
<1>2. f \in DOMAIN job.texts /\ f \in File
  BY <1>1, JobParts DEF File
<1> QED
  BY <1>1, <1>2 DEF TypeOK

\* The script goes on.
LEMMA Continues ==
    ASSUME TypeOK, WriteFile, Len(job.left) > 1
    PROVE  /\ job' # Idle /\ job' \in DevJob \cup ProdJob
           /\ job' \in DevJob <=> job \in DevJob
           /\ job' \in ProdJob <=> job \in ProdJob
           /\ job'.kind = job.kind /\ job'.texts = job.texts
           /\ Pending(job'.left) = Pending(job.left) \ {Head(job.left)}
           /\ Head(job'.left) # "auth"
           /\ UNCHANGED <<mixed, whole>>
<1>1. job # Idle /\ job' = [job EXCEPT !.left = Tail(job.left)] /\ UNCHANGED <<mixed, whole>>
  BY DEF WriteFile
<1>2. CASE job \in DevJob
  <2>1. /\ job.left \in DevLeft /\ Tail(job.left) \in DevLeft /\ Head(Tail(job.left)) # "auth"
        /\ Pending(Tail(job.left)) = Pending(job.left) \ {Head(job.left)}
    BY <1>2, DevLefts DEF DevJob
  <2>2. job' \in DevJob /\ job'.kind = job.kind /\ job'.texts = job.texts
        /\ job'.left = Tail(job.left)
    BY <1>1, <1>2, <2>1 DEF DevJob
  <2>3. job \notin ProdJob /\ job' \notin ProdJob
    BY <1>2, <2>2 DEF DevJob, ProdJob
  <2> QED
    BY <1>1, <1>2, <2>1, <2>2, <2>3, IdleApart
<1>3. CASE job \in ProdJob
  <2>1. /\ job.left \in ProdLeft /\ Tail(job.left) \in ProdLeft /\ Head(Tail(job.left)) # "auth"
        /\ Pending(Tail(job.left)) = Pending(job.left) \ {Head(job.left)}
    BY <1>3, ProdLefts DEF ProdJob
  <2>2. job' \in ProdJob /\ job'.kind = job.kind /\ job'.texts = job.texts
        /\ job'.left = Tail(job.left)
    BY <1>1, <1>3, <2>1 DEF ProdJob
  <2>3. job \notin DevJob /\ job' \notin DevJob
    BY <1>3, <2>2 DEF DevJob, ProdJob
  <2> QED
    BY <1>1, <1>3, <2>1, <2>2, <2>3, IdleApart
<1> QED
  BY <1>1, <1>2, <1>3, JobParts

\* The script ends.
LEMMA Finishes ==
    ASSUME TypeOK, WriteFile, ~(Len(job.left) > 1)
    PROVE  /\ job' = Idle /\ whole' = job.kind
           /\ mixed' = IF job.kind = "dev" THEN mixed ELSE ~Paired(job.texts["auth"])
           /\ Pending(job.left) = {Head(job.left)}
<1>1. job # Idle /\ job' = Idle /\ whole' = job.kind
      /\ mixed' = IF job.kind = "dev" THEN mixed ELSE ~Paired(job.texts["auth"])
  BY DEF WriteFile
<1>2. Pending(job.left) = {Head(job.left)}
  <2>1. CASE job \in DevJob
    BY <2>1, DevLefts DEF DevJob
  <2>2. CASE job \in ProdJob
    BY <2>2, ProdLefts DEF ProdJob
  <2> QED
    BY <1>1, <2>1, <2>2, JobParts
<1> QED
  BY <1>1, <1>2

-----------------------------------------------------------------------------
(* Types *)

\* The mail settings of a new development environment.
DevMail(force) ==
    IF force /\ file["auth"] # Absent THEN Kept(file["auth"].mail) ELSE NoMail

\* generate_dev_env.py starts.
LEMMA DevStarts ==
    ASSUME TypeOK, NEW force \in BOOLEAN, GenerateDev(force)
    PROVE  /\ gen + 1 \in Nat /\ gen' = gen + 1 /\ gen' \in 0 .. MaxGen
           /\ DevMail(force) \in Mail
           /\ job' \in DevJob /\ job' # Idle
           /\ job'.kind = (IF force THEN "forced" ELSE "dev")
           /\ job'.left = <<"auth", "user", "gateway", "compose">>
           /\ job'.texts["compose"] = DevCompose(gen + 1)
           /\ \A s \in Service : job'.texts[s] = DevEnv(s, gen + 1, DevMail(force))
<1> DEFINE n == gen + 1
           m == DevMail(force)
           t == [f \in File |-> IF f = "compose" THEN DevCompose(n) ELSE DevEnv(f, n, m)]
           l == <<"auth", "user", "gateway", "compose">>
<1>1. n \in Nat /\ gen' = n /\ n \in 0 .. MaxGen
  BY DeploymentAssumption DEF TypeOK, GenerateDev
<1>2. m \in Mail
  <2>1. file["auth"] # Absent => file["auth"] \in Env
    BY Kinds DEF TypeOK, File, Service
  <2>2. file["auth"] # Absent => file["auth"].mail \in Mail
    BY <2>1 DEF Env
  <2> QED
    BY <2>2, KeptType, NoMailType DEF DevMail
<1>3. job' = [kind |-> IF force THEN "forced" ELSE "dev", left |-> l, texts |-> t]
  BY <1>1 DEF GenerateDev, DevMail
<1>4. /\ t["compose"] = DevCompose(n) /\ \A s \in Service : t[s] = DevEnv(s, n, m)
      /\ t \in [File -> Env \cup Compose]
  <2>1. DevCompose(n) \in Compose /\ \A s \in Service : DevEnv(s, n, m) \in Env
    BY <1>1, <1>2, DevComposeType, DevEnvType
  <2> HIDE DEF n, m
  <2> QED
    BY <2>1 DEF File, Service
<1>5. l \in DevLeft
  BY DEF DevLeft
<1> HIDE DEF n, m, t, l
<1>6. job' \in DevJob /\ job'.left = l /\ job'.texts = t
      /\ job'.kind = (IF force THEN "forced" ELSE "dev")
  BY <1>3, <1>4, <1>5 DEF DevJob
<1> QED
  BY <1>1, <1>2, <1>4, <1>6, IdleApart DEF n, m, l

\* render_prod_env_from_secrets.py starts.
LEMMA ProdStarts ==
    ASSUME TypeOK, NEW cors \in Cors, RenderProd(cors)
    PROVE  /\ file["compose"] \in Compose /\ job' \in ProdJob /\ job' # Idle
           /\ job'.kind = (IF cors = "explicit" /\ secrets.good /\ secrets.pem
                           THEN "prod" ELSE "refused")
           /\ job'.left = <<"auth", "user", "gateway">>
           /\ job'.texts["auth"].mail = Resolved(file["compose"])
           /\ job'.texts["auth"].allow = ResolvedAllow(file["compose"])
           /\ \A s \in Service :
                 /\ job'.texts[s].public = secrets.public
                 /\ job'.texts[s].pw = file["compose"].pw
                 /\ job'.texts[s].cors = cors
                 /\ job'.texts[s].good = secrets.good
                 /\ job'.texts[s].pem = secrets.pem
<1> DEFINE t == [f \in Service |-> ProdEnv(f, cors)]
           l == <<"auth", "user", "gateway">>
<1>1. file["compose"] \in Compose /\ cors \in CorsKinds /\ secrets \in Secrets
  BY Kinds, DeploymentAssumption DEF TypeOK, RenderProd, File, Service
<1> DEFINE k == IF cors = "explicit" /\ secrets.good /\ secrets.pem
                THEN "prod" ELSE "refused"
<1>2. job' = [kind |-> k, left |-> l, texts |-> t] /\ k \in {"prod", "refused"}
  BY DEF RenderProd
<1>3. /\ t \in [Service -> Env]
      /\ \A s \in Service : /\ t[s].public = secrets.public /\ t[s].pw = file["compose"].pw
                            /\ t[s].cors = cors /\ t[s].good = secrets.good
                            /\ t[s].pem = secrets.pem
      /\ t["auth"].mail = Resolved(file["compose"])
      /\ t["auth"].allow = ResolvedAllow(file["compose"])
  BY <1>1, ProdEnvType DEF Service
<1>4. l \in ProdLeft
  BY DEF ProdLeft
<1> HIDE DEF t, l, k
<1>5. job' \in ProdJob /\ job'.left = l /\ job'.texts = t /\ job'.kind = k
  BY <1>2, <1>3, <1>4 DEF ProdJob
<1> QED
  BY <1>1, <1>3, <1>5, IdleApart DEF l, k

\* The initial state is well typed.
LEMMA InitType == Init => TypeOK
<1> SUFFICES ASSUME Init PROVE TypeOK
  OBVIOUS
<1>1. file \in [File -> Env \cup Compose \cup {Absent}]
  BY DEF Init
<1>2. (\A s \in Service : file[s] \notin Compose) /\ file["compose"] \notin Env
  BY Kinds DEF Init, File, Service
<1>3. secrets \in Secrets
  <2>1. [private |-> 0, public |-> 0, pem |-> TRUE, good |-> TRUE,
         mail |-> NoMail, ident |-> FALSE] \in Secrets
    BY NoMailType DEF Secrets
  <2> QED
    BY <2>1, Zenon DEF Init
<1>4. gen = 0 /\ edits = 0 /\ mixed = FALSE /\ whole = "none" /\ job = Idle
  BY DEF Init
<1>5. 0 \in 0 .. MaxGen /\ 0 \in 0 .. MaxEdits
  BY DeploymentAssumption
<1> QED
  BY <1>1, <1>2, <1>3, <1>4, <1>5, IdleApart DEF TypeOK

\* What every step of the operator does.
LEMMA OperatesType ==
    ASSUME TypeOK, Operates
    PROVE  /\ job = Idle /\ job' = Idle /\ whole' = "none" /\ edits' \in 0 .. MaxEdits
           /\ \A n : UsesPair(n) => n \in Nat /\ gen' \in 0 .. MaxGen
  BY DeploymentAssumption DEF Operates, TypeOK, UsesPair

\* A file is replaced by another of its kind, or removed.
LEMMA EditType ==
    ASSUME TypeOK, NEW f \in File, NEW e, Edit(f, e), gen' \in 0 .. MaxGen,
           mixed' \in BOOLEAN,
           \/ e = Absent
           \/ f \in Service /\ e \in Env
           \/ f = "compose" /\ e \in Compose
    PROVE  TypeOK'
<1>1. file' = [file EXCEPT ![f] = e] /\ UNCHANGED secrets /\ Operates
  BY DEF Edit
<1>2. /\ file' \in [File -> Env \cup Compose \cup {Absent}]
      /\ \A s \in Service : file'[s] \notin Compose
      /\ file'["compose"] \notin Env
  BY <1>1, Kinds DEF TypeOK, File, Service
<1>3. job' = Idle /\ whole' = "none" /\ edits' \in 0 .. MaxEdits
  BY <1>1, OperatesType
<1> QED
  BY <1>1, <1>2, <1>3, IdleApart DEF TypeOK

\* Each step keeps the types.
LEMMA NextType == TypeOK /\ [Next]_vars => TypeOK'
<1> SUFFICES ASSUME TypeOK, [Next]_vars PROVE TypeOK'
  OBVIOUS
<1>1. ASSUME NEW force \in BOOLEAN, GenerateDev(force) PROVE TypeOK'
  <2>1. UNCHANGED <<file, secrets, edits>> /\ whole' = "none" /\ mixed' \in BOOLEAN
    <3>1. mixed' = (mixed \/ (~force /\ Present \notin {{}, File}))
      BY <1>1 DEF GenerateDev
    <3>2. mixed' \in BOOLEAN
      BY <3>1, Zenon
    <3> QED
      BY <1>1, <3>2 DEF GenerateDev
  <2>2. \A s \in Service : job'.texts[s] \in Env
    BY <1>1, DevStarts, DevEnvType
  <2>3. job'.texts["compose"] \in Compose
    BY <1>1, DevStarts, DevComposeType
  <2>4. job' \in DevJob /\ gen' \in 0 .. MaxGen
    BY <1>1, DevStarts
  <2> QED
    BY <2>1, <2>2, <2>3, <2>4 DEF TypeOK
<1>2. ASSUME NEW cors \in Cors, RenderProd(cors) PROVE TypeOK'
  <2>1. UNCHANGED <<file, secrets, gen, edits, mixed>> /\ whole' = "none"
    BY <1>2 DEF RenderProd
  <2>2. job' \in ProdJob /\ job' \notin DevJob
    BY <1>2, ProdStarts DEF DevJob, ProdJob
  <2> QED
    BY <2>1, <2>2 DEF TypeOK
<1>3. CASE WriteFile
  <2> DEFINE f == Head(job.left)
  <2>0. job # Idle /\ f \in DOMAIN job.texts /\ f \in File /\ UNCHANGED <<secrets, gen, edits>>
    BY <1>3, Wrote
  <2>1. file' \in [File -> Env \cup Compose \cup {Absent}]
        /\ (\A s \in Service : file'[s] \notin Compose) /\ file'["compose"] \notin Env
    <3>1. CASE Keeps(f)
      <4>1. file' = file
        BY <1>3, <3>1, Wrote
      <4> QED
        BY <4>1 DEF TypeOK
    <3>2. CASE ~Keeps(f)
      <4>1. file' = [file EXCEPT ![f] = job.texts[f]]
        BY <1>3, <3>2, Wrote
      <4>2. /\ f \in Service => job.texts[f] \in Env
            /\ f = "compose" => job.texts[f] \in Compose
        BY <2>0, JobParts DEF Service
      <4> HIDE DEF f
      <4> QED
        BY <2>0, <4>1, <4>2, Kinds DEF TypeOK, File, Service
    <3> QED
      BY <3>1, <3>2
  <2>2. CASE Len(job.left) > 1
    <3>1. /\ job' \in DevJob \cup ProdJob /\ (job' \in DevJob => job \in DevJob)
          /\ job'.texts = job.texts /\ UNCHANGED <<mixed, whole>>
      BY <1>3, <2>2, Continues
    <3> QED
      BY <2>0, <2>1, <3>1 DEF TypeOK
  <2>3. CASE ~(Len(job.left) > 1)
    <3>1. job' = Idle /\ whole' = job.kind /\ mixed' = IF job.kind = "dev" THEN mixed ELSE ~Paired(job.texts["auth"])
      BY <1>3, <2>3, Finishes
    <3>2. job.kind \in {"dev", "forced", "prod", "refused"}
      BY <2>0, JobParts
    <3>3. mixed' \in BOOLEAN
      <4>1. (~Paired(job.texts["auth"])) \in BOOLEAN
        BY Zenon DEF Paired
      <4> QED
        BY <3>1, <4>1 DEF TypeOK
    <3> QED
      BY <2>0, <2>1, <3>1, <3>2, <3>3, IdleApart DEF TypeOK
  <2> QED
    BY <2>2, <2>3
<1>4. CASE Interrupt
  BY <1>4, IdleApart DEF Interrupt, TypeOK
<1>5. CASE PutKeys
  <2>1. PICK private, public \in 1 .. MaxGen, pem, good \in BOOLEAN :
           /\ Operates /\ UsesPair(private)
           /\ secrets' = [secrets EXCEPT !.private = private, !.public = public,
                                         !.pem = pem, !.good = good]
           /\ UNCHANGED <<file, mixed>>
    BY <1>5 DEF PutKeys
  <2>2. secrets' \in Secrets
    <3>1. private \in Nat /\ public \in Nat /\ secrets \in Secrets
      BY DeploymentAssumption DEF TypeOK
    <3> QED
      BY <2>1, <3>1 DEF Secrets
  <2> QED
    BY <2>1, <2>2, OperatesType, IdleApart DEF TypeOK
<1>6. CASE PutMail
  <2>1. PICK mail \in Mails, ident \in BOOLEAN :
           /\ Operates
           /\ secrets' = [secrets EXCEPT !.mail = mail, !.ident = ident]
           /\ UNCHANGED <<file, gen, mixed>>
    BY <1>6 DEF PutMail
  <2>2. secrets' \in Secrets
    BY <2>1, DeploymentAssumption DEF TypeOK, Secrets
  <2> QED
    BY <2>1, <2>2, OperatesType, IdleApart DEF TypeOK
<1>7. CASE CopyExample
  <2>1. PICK f \in File \ Present :
           /\ Edit(f, Example(f)) /\ UNCHANGED gen
           /\ mixed' = (mixed \/ \E g \in Present : file[g].pw # 0
                                     \/ (g # "compose" /\ file[g].public # 0))
    BY <1>7 DEF CopyExample
  <2>2. mixed' \in BOOLEAN
    BY <2>1, Zenon
  <2>3. \/ f \in Service /\ Example(f) \in Env
        \/ f = "compose" /\ Example(f) \in Compose
    BY ExampleType DEF File
  <2> QED
    BY <2>1, <2>2, <2>3, EditType DEF TypeOK
<1>8. CASE Remove
  BY <1>8, EditType DEF Remove, Present, TypeOK
<1>9. CASE EditMail \/ EditAllow
  <2>0. PICK f \in Present \cap {"auth", "compose"} : \E e :
           /\ Edit(f, e) /\ UNCHANGED <<gen, mixed>>
           /\ \/ \E m \in Mail : e = [file[f] EXCEPT !.mail = m]
              \/ \E a \in Allows : e = [file[f] EXCEPT !.allow = a]
    BY <1>9, DeploymentAssumption DEF EditMail, EditAllow
  <2>1. PICK e :
           /\ Edit(f, e) /\ UNCHANGED <<gen, mixed>>
           /\ \/ \E m \in Mail : e = [file[f] EXCEPT !.mail = m]
              \/ \E a \in Allows : e = [file[f] EXCEPT !.allow = a]
    BY <2>0
  <2>2. \/ f = "auth" /\ e \in Env
        \/ f = "compose" /\ e \in Compose
    BY <2>1, MailEdited
  <2> QED
    BY <2>1, <2>2, EditType DEF TypeOK, File, Service
<1>10. CASE RotateKeys
  <2>1. PICK s \in Present \cap Service, n \in 1 .. MaxGen :
           /\ UsesPair(n) /\ mixed' = TRUE
           /\ Edit(s, [file[s] EXCEPT !.public = n,
                                      !.private = IF s = "auth" THEN n ELSE @])
    BY <1>10 DEF RotateKeys
  <2> DEFINE k == IF s = "auth" THEN n ELSE file[s].private
             e == [file[s] EXCEPT !.public = n, !.private = k]
  <2>2. file[s] \in Env /\ n \in Nat
    BY <2>1, FileKinds
  <2>3. k \in Nat
    BY <2>2 DEF Env
  <2>4. Edit(s, e)
    BY <2>1
  <2> HIDE DEF k
  <2>5. e \in Env
    BY <2>2, <2>3, EnvEdited
  <2>6. gen' \in 0 .. MaxGen
    BY <2>1, OperatesType DEF Edit
  <2> HIDE DEF e
  <2> QED
    BY <2>1, <2>4, <2>5, <2>6, EditType DEF File
<1>11. CASE EditPassword
  <2>1. PICK f \in Present, n \in 0 .. gen :
           Edit(f, [file[f] EXCEPT !.pw = n]) /\ mixed' = TRUE /\ UNCHANGED gen
    BY <1>11 DEF EditPassword
  <2> DEFINE e == [file[f] EXCEPT !.pw = n]
  <2>2. n \in Nat /\ f \in File
    BY <2>1 DEF TypeOK, Present
  <2>3. \/ f \in Service /\ e \in Env
        \/ f = "compose" /\ e \in Compose
    BY <2>2, FileKinds, EnvEdited, ComposeEdited DEF File
  <2>4. Edit(f, e)
    BY <2>1
  <2> HIDE DEF e
  <2> QED
    BY <2>1, <2>2, <2>3, <2>4, EditType DEF TypeOK
<1>12. CASE UNCHANGED vars
  BY <1>12 DEF vars, TypeOK
<1> QED
  BY <1>1, <1>2, <1>3, <1>4, <1>5, <1>6, <1>7, <1>8, <1>9, <1>10, <1>11, <1>12 DEF Next

-----------------------------------------------------------------------------
(* The files agree and are accepted *)

\* Where the files agree after a step of the operator, or are mixed, nothing else
\* is claimed.
LEMMA OperatesKeeps ==
    ASSUME TypeOK, Operates, ~mixed' => Agree(file', Present')
    PROVE  DeploymentInv'
<1>1. job' = Idle /\ whole' = "none"
  BY OperatesType
<1> QED
  BY <1>1 DEF DeploymentInv

\* Files that agree still do when one of them is removed, or keeps its keys and
\* its password.
LEMMA EditKeeps ==
    ASSUME TypeOK, DeploymentInv, NEW f \in File, NEW e, Edit(f, e), mixed' = mixed,
           \/ e = Absent
           \/ /\ file[f] # Absent /\ e.pw = file[f].pw
              /\ f \in Service => e.public = file[f].public /\ e.private = file[f].private
    PROVE  DeploymentInv'
<1>1. Operates /\ job = Idle /\ file' = [file EXCEPT ![f] = e]
  BY DEF Edit, Operates
<1>2. /\ Present' \subseteq Present
      /\ \A g \in Present' : file'[g].pw = file[g].pw
      /\ \A s \in Service \cap Present' : /\ file'[s].public = file[s].public
                                          /\ file'[s].private = file[s].private
  BY <1>1 DEF Present, TypeOK, File
<1>3. ~mixed' => Agree(file', Present')
  BY <1>1, <1>2 DEF DeploymentInv, Agree, SameSet, Paired, Service
<1> QED
  BY <1>1, <1>3, OperatesKeeps

\* A copy of an example agrees with other copies.
LEMMA CopyKeeps ==
    ASSUME TypeOK, DeploymentInv, CopyExample PROVE DeploymentInv'
<1>1. PICK f \in File \ Present :
         /\ Edit(f, Example(f))
         /\ mixed' = (mixed \/ \E g \in Present : file[g].pw # 0
                                   \/ (g # "compose" /\ file[g].public # 0))
  BY DEF CopyExample
<1> DEFINE e == Example(f)
<1>2. /\ f \in Service => e.public = 0
      /\ f = "auth" => Paired(e)
      /\ e.pw = 0
  BY ExampleType
<1>3. Edit(f, e)
  BY <1>1
<1> HIDE DEF e
<1>4. Operates /\ job = Idle /\ file' = [file EXCEPT ![f] = e]
  BY <1>3 DEF Edit, Operates
<1>5. ASSUME ~mixed' PROVE Agree(file', Present')
  <2>1. ~mixed /\ \A g \in Present : file[g].pw = 0 /\ (g # "compose" => file[g].public = 0)
    BY <1>1, <1>5
  <2>2. "auth" \in Present => Paired(file["auth"])
    BY <1>4, <2>1 DEF DeploymentInv, Agree
  <2>3. /\ Present' \subseteq Present \cup {f}
        /\ \A g \in Present' : g # f => file'[g] = file[g]
        /\ file'[f] = e
    BY <1>4 DEF Present, TypeOK
  <2>4. \A g \in Present' : file'[g].pw = 0
    BY <1>2, <2>1, <2>3
  <2>5. \A g \in Present' \cap Service : file'[g].public = 0
    BY <1>2, <2>1, <2>3 DEF Service
  <2>6. "auth" \in Present' => Paired(file'["auth"])
    BY <1>2, <2>2, <2>3
  <2> QED
    BY <2>4, <2>5, <2>6 DEF Agree, SameSet
<1> QED
  BY <1>4, <1>5, OperatesKeeps

\* A new script has written nothing.
LEMMA DevStartKeeps ==
    ASSUME TypeOK, DeploymentInv, NEW force \in BOOLEAN, GenerateDev(force)
    PROVE  DeploymentInv'
<1> DEFINE n == gen + 1
           m == DevMail(force)
<1>1. /\ job = Idle /\ file' = file /\ whole' = "none"
      /\ mixed' = (mixed \/ (~force /\ Present \notin {{}, File}))
  BY DEF GenerateDev
<1>2. /\ n \in Nat /\ m \in Mail /\ job' \in DevJob /\ job' # Idle
      /\ job'.kind = (IF force THEN "forced" ELSE "dev")
      /\ job'.left = <<"auth", "user", "gateway", "compose">>
      /\ job'.texts["compose"] = DevCompose(n)
      /\ \A s \in Service : job'.texts[s] = DevEnv(s, n, m)
  BY DevStarts
<1> HIDE DEF n, m
<1>3. /\ DOMAIN job'.texts = File /\ Pending(job'.left) = File /\ job' \notin ProdJob
      /\ job'.kind # "prod"
  <2>1. job'.left \in DevLeft /\ Head(job'.left) = "auth"
    BY <1>2 DEF DevLeft
  <2> QED
    BY <1>2, <2>1, DevLefts DEF DevJob, ProdJob
<1>4. /\ \A s \in Service : job'.texts[s].public = n /\ job'.texts[s].pw = n
      /\ job'.texts["auth"].mail = m /\ job'.texts["auth"].private = n
      /\ job'.texts["auth"].mode = "development"
  <2>1. "auth" \in Service
    BY DEF Service
  <2> QED
    BY <1>2, <2>1, DevEnvType
<1>5. \A f \in File : job'.texts[f].pw = n
  BY <1>2, <1>4, DevComposeType DEF File
<1>6. TextsAgree'
  BY <1>3, <1>4, <1>5 DEF TextsAgree, SameSet, Paired, Service
<1>7. WrittenSoFar'
  <2>1. DOMAIN job'.texts \ Pending(job'.left) = {}
    BY <1>3
  <2>2. CASE force
    BY <1>2, <2>1, <2>2 DEF WrittenSoFar
  <2>3. CASE ~force /\ ~mixed'
    <3>1. ~mixed /\ Present \in {{}, File}
      BY <1>1, <2>3
    <3>2. Agree(file, Present)
      BY <1>1, <3>1 DEF DeploymentInv
    <3>3. Present = File \/ Present = {}
      BY <3>1
    <3>4. Present' = Present /\ (Agree(file', File) <=> Agree(file, File))
      BY <1>1 DEF Present
    <3> QED
      BY <2>1, <3>2, <3>3, <3>4 DEF WrittenSoFar
  <2>4. CASE ~force /\ mixed'
    BY <1>2, <2>4 DEF WrittenSoFar
  <2> QED
    BY <2>2, <2>3, <2>4
<1>8. /\ \A s \in Service : Sound(job'.texts[s])
      /\ job'.texts["auth"].mode = "development" /\ MailSettled(job.texts["auth"])'
  <2>1. m.path = ""
    <3>1. file["auth"] # Absent => file["auth"].mail \in Mail
      BY Kinds DEF TypeOK, File, Service, Env
    <3> QED
      BY <3>1, KeptType, NoMailType DEF m, DevMail
  <2>2. \A s \in Service : Sound(job'.texts[s])
    BY <1>2, DevEnvType DEF Sound
  <2>3. MailSettled(job.texts["auth"])'
    BY <1>4, <2>1 DEF MailSettled
  <2> QED
    BY <1>4, <2>2, <2>3
<1>9. job'.kind = "forced" /\ file'["auth"] # Absent =>
         job'.texts["auth"].mail = Kept(file'["auth"].mail)
  <2> SUFFICES ASSUME force, file["auth"] # Absent
               PROVE  job'.texts["auth"].mail = Kept(file["auth"].mail)
    BY <1>1, <1>2
  <2>1. m = Kept(file["auth"].mail)
    BY DEF m, DevMail
  <2>2. "auth" \in Service
    BY DEF Service
  <2> QED
    BY <1>2, <2>1, <2>2, DevEnvType
<1> QED
  BY <1>1, <1>2, <1>6, <1>7, <1>8, <1>9 DEF DeploymentInv

\* The same of the texts of render_prod_env_from_secrets.py.
LEMMA ProdStartKeeps ==
    ASSUME TypeOK, DeploymentInv, NEW cors \in Cors, RenderProd(cors)
    PROVE  DeploymentInv'
<1>1. job = Idle /\ UNCHANGED <<file, mixed, secrets>> /\ whole' = "none"
  BY DEF RenderProd
<1>2. /\ file["compose"] \in Compose /\ job' \in ProdJob /\ job' # Idle
      /\ job'.kind = (IF cors = "explicit" /\ secrets.good /\ secrets.pem
                      THEN "prod" ELSE "refused")
      /\ job'.left = <<"auth", "user", "gateway">>
      /\ job'.texts["auth"].mail = Resolved(file["compose"])
      /\ job'.texts["auth"].allow = ResolvedAllow(file["compose"])
      /\ \A s \in Service :
            /\ job'.texts[s].public = secrets.public
            /\ job'.texts[s].pw = file["compose"].pw
            /\ job'.texts[s].cors = cors
            /\ job'.texts[s].good = secrets.good
            /\ job'.texts[s].pem = secrets.pem
  BY ProdStarts
<1>3. DOMAIN job'.texts = Service /\ Pending(job'.left) = Service
  <2>1. job'.left \in ProdLeft /\ Head(job'.left) = "auth"
    BY <1>2 DEF ProdLeft
  <2> QED
    BY <1>2, <2>1, ProdLefts DEF ProdJob
<1>4. file'["compose"] # Absent /\ file'["compose"] = file["compose"]
  BY <1>1, <1>2, Kinds
<1>5. TextsAgree'
  <2>1. job' \notin DevJob
    BY <1>2 DEF ProdJob, DevJob
  <2> QED
    BY <1>2, <1>3, <1>4, <2>1 DEF TextsAgree, SameSet
<1>6. WrittenSoFar'
  BY <1>2, <1>3 DEF WrittenSoFar
<1>7. job'.kind \in {"forced", "prod"} => \A s \in Service : Sound(job'.texts[s])
  <2> SUFFICES ASSUME job'.kind = "prod", NEW s \in Service PROVE Sound(job'.texts[s])
    BY <1>2
  <2>1. cors = "explicit" /\ secrets.good /\ secrets.pem
    BY <1>2
  <2> QED
    BY <1>2, <2>1 DEF Sound
<1>8. job'.kind # "forced" /\ MailSettled(job.texts["auth"])'
  <2>1. secrets \in Secrets
    BY DEF TypeOK
  <2> QED
    BY <1>2, <1>4, <2>1, ResolvedType DEF MailSettled
<1> QED
  BY <1>1, <1>2, <1>5, <1>6, <1>7, <1>8 DEF DeploymentInv

\* A file is written, and others are left.
LEMMA WriteGoesOn ==
    ASSUME TypeOK, DeploymentInv, WriteFile, Len(job.left) > 1
    PROVE  DeploymentInv'
<1> DEFINE f == Head(job.left)
           done == DOMAIN job.texts \ Pending(job.left)
<1>0. /\ job # Idle /\ f \in DOMAIN job.texts /\ f \in File
      /\ \A g \in File \ {f} : file'[g] = file[g]
      /\ Keeps(f) => file' = file
      /\ ~Keeps(f) => file'[f] = job.texts[f]
  BY Wrote
<1>1. /\ TextsAgree /\ WrittenSoFar /\ whole = "none"
      /\ job.kind \in {"forced", "prod"} => /\ \A s \in Service : Sound(job.texts[s])
                                            /\ MailSettled(job.texts["auth"])
      /\ job.kind = "forced" => job.texts["auth"].mode = "development"
  BY <1>0 DEF DeploymentInv
<1>2. /\ job' # Idle /\ (job' \in ProdJob <=> job \in ProdJob)
      /\ job' \in DevJob <=> job \in DevJob
      /\ job'.kind = job.kind /\ job'.texts = job.texts
      /\ Pending(job'.left) = Pending(job.left) \ {f}
      /\ Head(job'.left) # "auth"
      /\ UNCHANGED <<mixed, whole>>
  BY Continues
<1>3. /\ f \in Pending(job.left) /\ DOMAIN job.texts \subseteq File
      /\ job \in ProdJob => DOMAIN job.texts = Service
      /\ \A g \in DOMAIN job.texts : job.texts[g] # Absent
  <2>1. /\ f \in Pending(job.left)
        /\ DOMAIN job.texts = IF job \in DevJob THEN File ELSE Service
        /\ \A s \in Service : job.texts[s] \in Env
        /\ job \in DevJob => job.texts["compose"] \in Compose
        /\ job \in ProdJob => job \notin DevJob
    BY <1>0, JobParts
  <2> QED
    BY <2>1, Kinds DEF File
<1>4. DOMAIN job'.texts \ Pending(job'.left) = done \cup {f} /\ f \notin done
      /\ done \subseteq File
  BY <1>0, <1>2, <1>3
<1>5. TextsAgree'
  <2>1. /\ SameSet(job'.texts, DOMAIN job'.texts)
        /\ job' \in DevJob => Paired(job'.texts["auth"])
    BY <1>1, <1>2 DEF TextsAgree
  <2>2. job' \in ProdJob => file'["compose"] = file["compose"]
    BY <1>0, <1>2, <1>3 DEF File, Service
  <2> QED
    BY <1>1, <1>2, <2>1, <2>2 DEF TextsAgree
<1> HIDE DEF f
<1>6. WrittenSoFar'
  <2>1. CASE job.kind # "dev"
    <3>1. \A g \in done : file[g] = job.texts[g]
      BY <1>1, <2>1 DEF WrittenSoFar
    <3>2. ~Keeps(f)
      BY <2>1 DEF Keeps
    <3>3. \A g \in done \cup {f} : file'[g] = job.texts[g]
      BY <1>0, <1>4, <3>1, <3>2
    <3> QED
      BY <1>2, <1>4, <2>1, <3>3 DEF WrittenSoFar
  <2>2. CASE job.kind = "dev" /\ mixed
    BY <1>2, <2>2 DEF WrittenSoFar
  <2>3. CASE job.kind = "dev" /\ Present = File /\ Agree(file, File)
    <3>1. Keeps(f)
      BY <1>0, <2>3 DEF Keeps, Present
    <3>2. Present' = File /\ Agree(file', File)
      BY <1>0, <2>3, <3>1 DEF Present
    <3> QED
      BY <1>2, <2>3, <3>2 DEF WrittenSoFar
  <2>4. CASE /\ job.kind = "dev" /\ Present = done
             /\ \A g \in done : file[g] = job.texts[g]
    <3>1. ~Keeps(f)
      BY <1>0, <1>4, <2>4 DEF Keeps, Present
    <3>2. \A g \in done \cup {f} : file'[g] = job.texts[g]
      BY <1>0, <1>4, <2>4, <3>1
    <3>3. Present' = done \cup {f}
      BY <1>0, <1>3, <1>4, <2>4, <3>1 DEF Present
    <3> QED
      BY <1>2, <1>4, <2>4, <3>2, <3>3 DEF WrittenSoFar
  <2> QED
    BY <1>1, <2>1, <2>2, <2>3, <2>4 DEF WrittenSoFar
<1>7. job.kind \in {"forced", "prod"} => MailSettled(job.texts["auth"])'
  <2>1. job.kind = "prod" => file'["compose"] = file["compose"]
    BY <1>0, <1>3, JobParts DEF File, Service
  <2> QED
    BY <1>1, <1>2, <2>1 DEF MailSettled
<1> QED
  BY <1>1, <1>2, <1>5, <1>6, <1>7 DEF DeploymentInv

\* The last file is written.
LEMMA WriteEnds ==
    ASSUME TypeOK, DeploymentInv, WriteFile, ~(Len(job.left) > 1)
    PROVE  DeploymentInv'
<1> DEFINE f == Head(job.left)
           T == DOMAIN job.texts
<1>0. /\ job # Idle /\ f \in T /\ f \in File
      /\ \A g \in File \ {f} : file'[g] = file[g]
      /\ Keeps(f) => file' = file
      /\ ~Keeps(f) => file'[f] = job.texts[f]
  BY Wrote
<1>1. /\ TextsAgree /\ WrittenSoFar
      /\ job.kind \in {"forced", "prod"} => /\ \A s \in Service : Sound(job.texts[s])
                                            /\ MailSettled(job.texts["auth"])
      /\ job.kind = "forced" => job.texts["auth"].mode = "development"
  BY <1>0 DEF DeploymentInv
<1>2. /\ job' = Idle /\ whole' = job.kind /\ mixed' = IF job.kind = "dev" THEN mixed ELSE ~Paired(job.texts["auth"])
      /\ Pending(job.left) = {f}
  BY Finishes
<1>3. /\ job \in DevJob \/ job \in ProdJob
      /\ job \in DevJob => T = File
      /\ job \in ProdJob => T = Service
      /\ job.kind = "dev" => job \in DevJob
      /\ job.kind = "forced" => job \in DevJob
      /\ job.kind = "prod" => job \in ProdJob
      /\ \A g \in T : job.texts[g] # Absent
  <2>1. /\ T = IF job \in DevJob THEN File ELSE Service
        /\ \A s \in Service : job.texts[s] \in Env
        /\ job \in DevJob => job.texts["compose"] \in Compose
        /\ job \in ProdJob => job \notin DevJob
        /\ job \in DevJob \cup ProdJob
        /\ job.kind \in {"dev", "forced"} => job \in DevJob
        /\ job.kind = "prod" => job \in ProdJob
    BY <1>0, JobParts
  <2> QED
    BY <2>1, Kinds DEF File
<1> HIDE DEF f
<1>4. (\A g \in T : file'[g] = job.texts[g]) \/ (job.kind = "dev" /\ mixed)
        \/ (job.kind = "dev" /\ file' = file /\ Present = File /\ Agree(file, File))
  <2>1. CASE job.kind # "dev"
    <3>1. \A g \in T \ {f} : file[g] = job.texts[g]
      BY <1>1, <1>2, <2>1 DEF WrittenSoFar
    <3>2. ~Keeps(f)
      BY <2>1 DEF Keeps
    <3> QED
      BY <1>0, <1>3, <3>1, <3>2 DEF File
  <2>2. CASE job.kind = "dev" /\ mixed
    BY <2>2
  <2>3. CASE job.kind = "dev" /\ Present = File /\ Agree(file, File)
    <3>1. Keeps(f)
      BY <1>0, <2>3 DEF Keeps, Present
    <3> QED
      BY <1>0, <2>3, <3>1
  <2>4. CASE /\ job.kind = "dev" /\ Present = T \ {f}
             /\ \A g \in T \ {f} : file[g] = job.texts[g]
    <3>1. ~Keeps(f)
      BY <1>0, <2>4 DEF Keeps, Present
    <3> QED
      BY <1>0, <1>3, <2>4, <3>1 DEF File
  <2> QED
    BY <1>1, <1>2, <2>1, <2>2, <2>3, <2>4 DEF WrittenSoFar
<1>5. ~mixed' => Agree(file', Present')
  <2> SUFFICES ASSUME ~mixed' PROVE Agree(file', Present')
    OBVIOUS
  <2>1. CASE job.kind = "dev" /\ file' = file /\ Present = File /\ Agree(file, File)
    BY <2>1 DEF Present
  <2>2. CASE \A g \in T : file'[g] = job.texts[g]
    <3>1. SameSet(job.texts, T) /\ (job \in DevJob => Paired(job.texts["auth"]))
      BY <1>1 DEF TextsAgree
    <3>2. CASE job \in DevJob
      BY <1>3, <2>2, <3>1, <3>2 DEF Agree, SameSet, Present, File, Service
    <3>3. CASE job \in ProdJob
      <4>1. T = Service /\ job.kind # "dev"
        BY <1>0, <1>3, <3>3, JobParts
      <4>2. file'["compose"] = file["compose"]
        BY <1>0, <4>1 DEF File, Service
      <4>3. \A s \in Service : file'[s].pw = file'["compose"].pw
        BY <1>1, <2>2, <3>3, <4>1, <4>2 DEF TextsAgree
      <4>4. \A s, u \in Service : file'[s].public = file'[u].public
        BY <2>2, <3>1, <4>1 DEF SameSet
      <4>5. "auth" \in Service /\ Paired(job.texts["auth"])
        BY <1>2, <4>1 DEF Service
      <4>6. Paired(file'["auth"])
        BY <2>2, <4>1, <4>5
      <4> QED
        BY <4>3, <4>4, <4>6 DEF Agree, SameSet, Present, File
    <3> QED
      BY <1>3, <3>2, <3>3
  <2> QED
    BY <1>2, <1>4, <2>1, <2>2
<1>6. ASSUME whole' \in {"forced", "prod"}
      PROVE  /\ Present' = File
             /\ \A s \in Service : Sound(file'[s])
             /\ MailSettled(file["auth"])'
  <2>1. (\A g \in T : file'[g] = job.texts[g]) /\ Service \subseteq T
    BY <1>2, <1>3, <1>4, <1>6 DEF File
  <2>2. \A s \in Service : Sound(file'[s])
    BY <1>1, <1>2, <1>6, <2>1
  <2>3. job.kind = "prod" => file'["compose"] = file["compose"] /\ file["compose"] # Absent
    BY <1>0, <1>1, <1>3 DEF TextsAgree, File, Service
  <2>4. "auth" \in Service
    BY DEF Service
  <2>5. MailSettled(file["auth"])'
    BY <1>1, <1>2, <1>6, <2>1, <2>3, <2>4 DEF MailSettled
  <2>6. file'["compose"] # Absent
    BY <1>2, <1>3, <1>6, <2>1, <2>3 DEF File
  <2>7. Present' = File
    BY <1>3, <2>1, <2>6 DEF Present, File
  <2> QED
    BY <2>2, <2>5, <2>7
<1> QED
  BY <1>2, <1>5, <1>6 DEF DeploymentInv

\* The invariant holds in every reachable state.
LEMMA DeploymentInvariance == Spec => [](TypeOK /\ DeploymentInv)
<1>1. Init => TypeOK /\ DeploymentInv
  BY InitType DEF Init, DeploymentInv, Agree, SameSet, Present
<1>2. TypeOK /\ DeploymentInv /\ [Next]_vars => (TypeOK /\ DeploymentInv)'
  <2> SUFFICES ASSUME TypeOK, DeploymentInv, [Next]_vars PROVE DeploymentInv'
    BY NextType
  <2>1. ASSUME NEW force \in BOOLEAN, GenerateDev(force) PROVE DeploymentInv'
    BY <2>1, DevStartKeeps
  <2>2. ASSUME NEW cors \in Cors, RenderProd(cors) PROVE DeploymentInv'
    BY <2>2, ProdStartKeeps
  <2>3. CASE WriteFile
    BY <2>3, WriteGoesOn, WriteEnds
  <2>4. CASE Interrupt
    <3>1. job # Idle /\ job' = Idle /\ mixed' = TRUE /\ whole' = whole
      BY <2>4 DEF Interrupt
    <3>2. whole = "none"
      BY <3>1 DEF DeploymentInv
    <3> QED
      BY <3>1, <3>2 DEF DeploymentInv
  <2>5. CASE PutKeys \/ PutMail
    <3>1. Operates /\ job = Idle /\ file' = file /\ mixed' = mixed
      BY <2>5 DEF PutKeys, PutMail, Operates
    <3>2. ~mixed' => Agree(file', Present')
      BY <3>1 DEF DeploymentInv, Agree, SameSet, Present
    <3> QED
      BY <3>1, <3>2, OperatesKeeps
  <2>6. CASE CopyExample
    BY <2>6, CopyKeeps
  <2>7. CASE EditMail \/ EditAllow
    <3>0. PICK f \in Present \cap {"auth", "compose"} : \E e :
             /\ Edit(f, e) /\ mixed' = mixed
             /\ \/ \E m \in Mail : e = [file[f] EXCEPT !.mail = m]
                \/ \E a \in Allows : e = [file[f] EXCEPT !.allow = a]
      BY <2>7, DeploymentAssumption DEF EditMail, EditAllow
    <3>1. PICK e :
             /\ Edit(f, e) /\ mixed' = mixed
             /\ \/ \E m \in Mail : e = [file[f] EXCEPT !.mail = m]
                \/ \E a \in Allows : e = [file[f] EXCEPT !.allow = a]
      BY <3>0
    <3>2. /\ f \in File /\ file[f] # Absent /\ e.pw = file[f].pw
          /\ f \in Service => e.public = file[f].public /\ e.private = file[f].private
      BY <3>1, MailEdited DEF Present, Service
    <3> QED
      BY <3>1, <3>2, EditKeeps
  <2>8. CASE Remove
    BY <2>8, EditKeeps DEF Remove, Present
  <2>9. CASE RotateKeys \/ EditPassword
    <3>1. Operates /\ mixed'
      BY <2>9 DEF RotateKeys, EditPassword, Edit
    <3> QED
      BY <3>1, OperatesKeeps
  <2>10. CASE UNCHANGED vars
    <3>1. UNCHANGED <<file, job, mixed, whole>>
      BY <2>10 DEF vars
    <3>2. /\ Present' = Present /\ (Agree(file, Present)' <=> Agree(file, Present))
          /\ WrittenSoFar' <=> WrittenSoFar
          /\ TextsAgree' <=> TextsAgree
      BY <3>1 DEF Present, Agree, SameSet, WrittenSoFar, TextsAgree
    <3>3. /\ MailSettled(job.texts["auth"])' <=> MailSettled(job.texts["auth"])
          /\ MailSettled(file["auth"])' <=> MailSettled(file["auth"])
      BY <3>1 DEF MailSettled
    <3> QED
      BY <3>1, <3>2, <3>3 DEF DeploymentInv
  <2> QED
    BY <2>1, <2>2, <2>3, <2>4, <2>5, <2>6, <2>7, <2>8, <2>9, <2>10 DEF Next
<1> QED
  BY <1>1, <1>2, PTL DEF Spec

\* Every variable has its type: the scripts write environments, whatever they find.
THEOREM TypeCorrect == Spec => []TypeOK
  BY DeploymentInvariance, PTL

\* The services verify with the public key of the pair auth-service signs with,
\* and use the passwords of .env.compose, whatever scripts run to their end and
\* whatever the operator does that is not in the list of FilesAgree; and they do
\* so again after a forced generation, or a rendering from one key pair.
THEOREM FilesAlwaysAgree == Spec => []FilesAgree
<1>1. TypeOK /\ DeploymentInv => FilesAgree
  BY DEF DeploymentInv, FilesAgree
<1> QED
  BY <1>1, DeploymentInvariance, PTL

\* An environment in which mail is settled is accepted in production, and by
\* docker-compose.prod.yml, which says itself whether mail may be missing.
LEMMA SoundStarts ==
    ASSUME NEW e \in Env, file["compose"] \in Compose, Sound(e),
           file["compose"].allow # "false"
    PROVE  /\ Accepts(e) /\ Accepts(InProduction(e))
           /\ AuthAccepts(InCompose(e))
           /\ MailSettled(e) /\ e.mail.pw # "placeholder" => AuthAccepts(e)
<1>1. Accepts(e) /\ Accepts(InProduction(e))
  BY DEF Sound, Accepts, InProduction, Env
<1>2. AuthAccepts(InCompose(e))
  <2> DEFINE a == IF file["compose"].allow = "unset" THEN "true" ELSE file["compose"].allow
             m == [e.mail EXCEPT !.path = ""]
             y == [e EXCEPT !.mode = "production", !.mail = m, !.allow = a]
  <2>1. a = "true"
    BY DEF Compose, Allows
  <2>2. InCompose(e) = y
    BY DEF InCompose, InProduction, Env
  <2> HIDE DEF a, m
  <2>3. y.good = e.good /\ y.cors = e.cors /\ y.pem = e.pem /\ y.allow = a
    BY DEF Env
  <2> HIDE DEF y
  <2> QED
    BY <2>1, <2>2, <2>3 DEF Sound, Accepts, AuthAccepts
<1>3. ASSUME MailSettled(e), e.mail.pw # "placeholder" PROVE AuthAccepts(e)
  <2>1. CASE e.mode # "production" \/ e.allow = "true"
    BY <1>1, <2>1 DEF AuthAccepts
  <2>2. CASE e.mode = "production" /\ e.allow # "true"
    <3>1. e.mail \in Mail
      BY DEF Env
    <3>2. e.mail.host /\ (e.mail.from \/ e.mail.user) /\ e.mail.pw # ""
      BY <1>3, <2>2 DEF MailSettled
    <3>3. smtp_is_configured(MailOf(e))
      BY <1>3, <3>1, <3>2 DEF smtp_is_configured, MailOf, Mail
    <3> QED
      BY <1>1, <3>3 DEF AuthAccepts
  <2> QED
    BY <2>1, <2>2
<1> QED
  BY <1>1, <1>2, <1>3

\* The Settings classes accept what a script wrote that ended, in the production
\* stack and as it is.
THEOREM StackAlwaysStarts == Spec => []StackStarts
<1>1. TypeOK /\ DeploymentInv => StackStarts
  <2> SUFFICES ASSUME TypeOK, DeploymentInv, whole \in {"forced", "prod"},
                      file["compose"].allow # "false"
               PROVE  /\ Starts(InCompose(file["auth"]), InProduction(file["user"]),
                                InProduction(file["gateway"]))
                      /\ file["auth"].mail.pw # "placeholder" =>
                             Starts(file["auth"], file["user"], file["gateway"])
    BY DEF StackStarts
  <2>1. /\ Present = File /\ MailSettled(file["auth"])
        /\ \A s \in Service : Sound(file[s])
    BY DEF DeploymentInv
  <2>2. file["compose"] \in Compose /\ \A s \in Service : file[s] \in Env
    BY <2>1, FileKinds DEF File
  <2> QED
    BY <2>1, <2>2, SoundStarts DEF Starts, UserAccepts, GatewayAccepts, Service
<1> QED
  BY <1>1, DeploymentInvariance, PTL

\* What is kept of the mail settings is enough to send mail, if they were and the
\* password needs no quotes and is not in a file of its own.
LEMMA KeptDelivers ==
    ASSUME secrets \in Secrets, NEW d \in Env, NEW e \in Env, d.mail = Kept(e.mail),
           e.mail.pw = "plain" \/ (e.mail.pw = "" /\ e.mail.path = ""), Delivers(e)
    PROVE  Delivers(d)
<1>1. /\ e.mail \in Mail /\ d.mail \in Mail
      /\ d.mail.host = e.mail.host /\ d.mail.user = e.mail.user
      /\ d.mail.from = e.mail.from /\ d.mail.path = "" /\ d.mail.pw = Rewritten(e.mail.pw)
  BY KeptType DEF Env
<1>2. d.mail.pw = e.mail.pw
  BY <1>1 DEF Rewritten, Reread
<1>3. ASSUME NEW x \in Env
      PROVE  Delivers(x) <=>
                LET pw    == IF x.mail.pw # "" THEN x.mail.pw
                             ELSE IF x.mail.path # "" THEN x.mail.path ELSE secrets.mail.pw
                    ident == secrets.ident /\ ~x.mail.user /\ ~x.mail.from
                IN  /\ x.mail.host \/ pw # ""
                    /\ (x.mail.from \/ ident) \/ (x.mail.user \/ ident)
                    /\ pw \notin {"", "placeholder"} /\ pw # "damaged"
  <2>1. x.mail \in Mail
    BY DEF Env
  <2> QED
    BY <2>1 DEF Delivers, smtp_is_configured, MailOf, Mail
<1> QED
  BY <1>1, <1>2, <1>3

\* A forced generation leaves auth-service able to send mail if it was before, be
\* the password in secrets/ or, without quotes, in its file.
THEOREM MailAlwaysSurvives == Spec => MailSurvives
<1>1. TypeOK /\ DeploymentInv /\ [Next]_vars =>
        [\A e \in {file["auth"]} :
            (/\ job # Idle /\ job.kind = "forced" /\ Head(job.left) = "auth"
             /\ e # Absent /\ Delivers(e)
             /\ e.mail.pw = "plain" \/ (e.mail.pw = "" /\ e.mail.path = "")
             /\ file' # file)
               => Delivers(file'["auth"])]_vars
  <2> SUFFICES ASSUME TypeOK, DeploymentInv, Next, job # Idle, job.kind = "forced",
                      Head(job.left) = "auth", file["auth"] # Absent,
                      Delivers(file["auth"]), file' # file,
                      \/ file["auth"].mail.pw = "plain"
                      \/ file["auth"].mail.pw = "" /\ file["auth"].mail.path = ""
               PROVE  Delivers(file'["auth"])
    OBVIOUS
  <2>1. WriteFile
    BY DEF Next, GenerateDev, RenderProd, Interrupt, PutKeys, PutMail, CopyExample, Remove,
           EditMail, EditAllow, RotateKeys, EditPassword, Edit, Operates
  <2>2. ~Keeps("auth")
    BY DEF Keeps
  <2>3. file'["auth"] = job.texts["auth"] 
    BY <2>1, <2>2, Wrote
  <2>4. job.texts["auth"].mail = Kept(file["auth"].mail)
    BY DEF DeploymentInv
  <2>5. job.texts["auth"] \in Env /\ file["auth"] \in Env /\ secrets \in Secrets
    BY JobParts, Kinds DEF TypeOK, File, Service
  <2>6. Delivers(job.texts["auth"])
    BY <2>4, <2>5, KeptDelivers
  <2> QED
    BY <2>3, <2>6, Zenon
<1> QED
  BY <1>1, DeploymentInvariance, PTL DEF Spec, MailSurvives

-----------------------------------------------------------------------------
(* The marker of a revoked session, module AccessMarker.  Deployment says    *)
(* whether a service looks where the marker is; this, that the marker it     *)
(* finds outlives every access token it is meant for, for all lifetimes and  *)
(* all clock resolutions.  The two specifications share no state.            *)

\* Dropping the fraction of a second never moves a date into the future.
LEMMA WholeBelow ==
    ASSUME NEW t \in Nat
    PROVE  Whole(t) \in Int /\ Whole(t) <= t
  BY TimeAssumption DEF Whole

\* The marker's lifetime is a natural number of readings, at least the token's.
LEMMA MarkerLongEnough ==
    /\ MarkerTTL * Hz \in Nat /\ AccessTTL * Hz \in Nat
    /\ AccessTTL * Hz <= MarkerTTL * Hz
<1>1. MarkerTTL \in Nat /\ AccessTTL <= MarkerTTL
  BY TimeAssumption DEF MarkerTTL
<1>2. \A a, b, h \in Nat : a * h \in Nat /\ (a <= b => a * h <= b * h)
  BY SMT
<1> QED
  BY <1>1, <1>2, TimeAssumption

\* The initial state satisfies the invariant.
LEMMA InitMarker == MarkerInit => MarkerInv
  BY MarkerLongEnough, TimeAssumption
     DEF MarkerInit, MarkerInv, MarkerTypeOK, MarkerCovers, Carries, TokenNotAhead

\* Every step keeps the invariant.
LEMMA NextMarker ==
    ASSUME MarkerInv, [MarkerNext]_markerVars PROVE MarkerInv'
<1> USE DEF MarkerInv, MarkerTypeOK, MarkerCovers, Carries, TokenNotAhead
<1> DEFINE M == MarkerTTL * Hz
           A == AccessTTL * Hz
<1>0. M \in Nat /\ A \in Nat /\ A <= M
  BY MarkerLongEnough
<1> HIDE DEF M, A
<1>1. CASE Tick
  BY <1>0, <1>1 DEF Tick, A
<1>2. ASSUME NEW t \in Token, NEW s \in Session, IssueAccessToken(t, s)
      PROVE  MarkerInv'
  <2>1. /\ Whole(now) \in Int /\ Whole(now + A) \in Int
        /\ Whole(now + A) <= now + A
    BY <1>0, WholeBelow
  <2>2. t \notin cut
    BY <1>2, TimeAssumption DEF IssueAccessToken
  <2> QED
    BY <1>0, <1>2, <2>1, <2>2 DEF IssueAccessToken, A
<1>3. ASSUME NEW s \in Session, MarkAccessSessionRevoked(s) PROVE MarkerInv'
  BY <1>0, <1>3, TimeAssumption DEF MarkAccessSessionRevoked, M, A
<1>4. ASSUME NEW q \in Request, NEW t \in Token, Decode(q, t) PROVE MarkerInv'
  BY <1>4 DEF Decode
<1>5. ASSUME NEW q \in Request, EnsureAccessSessionActive(q) PROVE MarkerInv'
  BY <1>5 DEF EnsureAccessSessionActive
<1>6. ASSUME NEW q \in Request, RedisFails(q) PROVE MarkerInv'
  BY <1>6 DEF RedisFails
<1>7. ASSUME NEW q \in Request, Answer(q) PROVE MarkerInv'
  BY <1>7 DEF Answer
<1>8. CASE UNCHANGED markerVars
  BY <1>8 DEF markerVars
<1> QED
  BY <1>1, <1>2, <1>3, <1>4, <1>5, <1>6, <1>7, <1>8 DEF MarkerNext

\* The inductive invariant holds in every reachable state.
THEOREM MarkerInvariance == MarkerSpec => []MarkerInv
<1>1. MarkerInv /\ [MarkerNext]_markerVars => MarkerInv'
  BY NextMarker
<1> QED
  BY InitMarker, <1>1, PTL DEF MarkerSpec

\* The marker set by _mark_access_session_revoked lasts at least as long as
\* every access token it was set for, whatever the lifetimes are.
THEOREM MarkerCoversHolds == MarkerSpec => []MarkerCovers
<1>1. MarkerInv => MarkerCovers
  BY DEF MarkerInv
<1> QED
  BY <1>1, MarkerInvariance, PTL

\* An access token cut off by a marker is never accepted before it expires.
THEOREM CutIsRefusedHolds == MarkerSpec => CutIsRefused
<1>1. ASSUME MarkerInv, MarkerNext, NEW q \in Request,
             pc[q] = "decoded", pc'[q] = "accepted", tok[q] \in cut
      PROVE  exp[tok[q]] <= now
  <2>1. EnsureAccessSessionActive(q)
    BY <1>1 DEF MarkerInv, MarkerTypeOK, MarkerNext, Tick,
         IssueAccessToken, MarkAccessSessionRevoked, Decode,
         EnsureAccessSessionActive, RedisFails, Answer
  <2>2. ~MarkerExists(sid[tok[q]])
    BY <1>1, <2>1 DEF EnsureAccessSessionActive, MarkerInv, MarkerTypeOK
  <2>3. until[sid[tok[q]]] <= now
    BY <1>1, <2>1, <2>2 DEF MarkerExists, MarkerInv, MarkerTypeOK,
         MarkerCovers, EnsureAccessSessionActive
  <2> QED
    BY <1>1, <2>3 DEF MarkerInv, MarkerTypeOK, MarkerCovers
<1>2. MarkerInv /\ [MarkerNext]_markerVars =>
        [\A q \in Request :
            pc[q] = "decoded" /\ pc'[q] = "accepted" /\ tok[q] \in cut
              => exp[tok[q]] <= now]_markerVars
  BY <1>1
<1> QED
  BY MarkerInvariance, <1>2, PTL DEF MarkerSpec, CutIsRefused
=============================================================================
