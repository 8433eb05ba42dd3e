-------------------------- MODULE BrowserAuthProofs --------------------------
(***************************************************************************)
(* The browser's cookie and its sign-out for any number of tabs, calls,    *)
(* sessions and tokens, over every behaviour auth-service promises         *)
(* (TokenFamilies).                                                        *)
(***************************************************************************)
EXTENDS BrowserAuth, TLAPS

\* The types of auth-service's variables.
ServerType ==
    /\ phase \in [Session -> {"none", "active", "revoked"}]
    /\ tip \in [Session -> Jti \cup {None}]
    /\ used \subseteq Jti /\ overrun \subseteq Session
    /\ of \in [Jti -> Session \cup {None}]

\* What auth-service never takes back: the session of a token, a revocation.
Lasting ==
    /\ \A j \in Jti : of[j] # None => of'[j] = of[j]
    /\ \A s \in Session : phase[s] = "revoked" => phase'[s] = "revoked"

-----------------------------------------------------------------------------
(* auth-service *)

\* An issued token is not fresh.
LEMMA IssuedNotFresh ==
    ASSUME ServerType, Tokens, NEW j \in Jti, Families!Fresh(j)
    PROVE  of[j] = None
  BY BrowserAuthAssumption DEF ServerType, Tokens, Families!Fresh

\* A login or a rotation gives its session a new usable token.
LEMMA IssueStep ==
    ASSUME ServerType, Tokens, NEW s \in Session, NEW j \in Jti,
           Families!Open(s, j) \/ Families!Rotate(s, j) \/ Families!Overrun(s, j),
           of' = [of EXCEPT ![j] = s]
    PROVE  /\ ServerType' /\ Tokens' /\ Lasting
           /\ of'[j] = s /\ tip'[s] = j /\ \A x \in Session \ {s} : tip'[x] = tip[x]
           /\ phase[s] = "none" \/ tip[s] # None
<1>1. Families!Fresh(j) /\ tip' = [tip EXCEPT ![s] = j]
  BY DEF Families!Open, Families!Rotate, Families!Overrun, Families!Replace
<1>2. of[j] = None
  BY <1>1, IssuedNotFresh
<1>3. /\ of'[j] = s /\ \A x \in Jti \ {j} : of'[x] = of[x]
      /\ tip'[s] = j /\ \A x \in Session \ {s} : tip'[x] = tip[x]
  BY <1>1 DEF ServerType
<1>4. CASE Families!Open(s, j)
  <2>1. /\ phase[s] = "none" /\ phase' = [phase EXCEPT ![s] = "active"]
        /\ used' = used /\ overrun' = overrun
    BY <1>4 DEF Families!Open
  <2>2. ServerType'
    BY <1>1, <2>1 DEF ServerType
  <2>3. phase'[s] = "active" /\ \A x \in Session \ {s} : phase'[x] = phase[x]
    BY <2>1 DEF ServerType
  <2>4. \A x \in Jti \ {j} : of[x] # None => of[x] \in Session \ {s}
    BY <2>1 DEF ServerType, Tokens
  <2>5. Tokens'
    BY <1>3, <2>1, <2>3, <2>4, BrowserAuthAssumption DEF Tokens
  <2> QED
    BY <1>2, <1>3, <2>1, <2>2, <2>3, <2>5 DEF Lasting
<1>5. CASE Families!Rotate(s, j) \/ Families!Overrun(s, j)
  <2>1. /\ tip[s] # None /\ phase' = phase /\ used' = used \cup {tip[s]}
        /\ overrun' = overrun \/ overrun' = overrun \cup {s}
        /\ phase[s] # "none"
    BY <1>5 DEF Families!Rotate, Families!Overrun, Families!Replace
  <2>2. ServerType'
    BY <1>1, <2>1 DEF ServerType
  <2>3. Tokens'
    BY <1>3, <2>1, BrowserAuthAssumption DEF Tokens, ServerType
  <2> QED
    BY <1>2, <1>3, <2>1, <2>2, <2>3 DEF Lasting
<1> QED
  BY <1>4, <1>5

\* A revocation takes the usable token of the session away, or misses it.
LEMMA RevokeStep ==
    ASSUME ServerType, Tokens, NEW s \in Session, NEW c \in Call,
           RevokeFamily(c, s), of' = of
    PROVE  /\ ServerType' /\ Tokens' /\ Lasting
           /\ phase[s] # "none" => phase'[s] = "revoked"
           /\ \A x \in Session \ {s} : tip'[x] = tip[x]
<1> DEFINE C == {s} \cap {x \in Session : phase[x] = "active"}
<1>1. PICK K \in SUBSET {s} : Families!Revoke(K, C)
  BY DEF RevokeFamily
<1> HIDE DEF C
<1>2. C \subseteq {s} /\ (phase[s] = "active" => s \in C) /\ (s \in C => phase[s] = "active")
  BY DEF C
<1>3. /\ \A x \in K : tip[x] # None
      /\ tip' = [x \in Session |-> IF x \in K THEN None ELSE tip[x]]
      /\ used' = used \cup {tip[x] : x \in K}
      /\ phase' = [x \in Session |-> IF x \in C THEN "revoked" ELSE phase[x]]
      /\ overrun' = overrun
  BY <1>1 DEF Families!Revoke
<1>4. ServerType'
  BY <1>1, <1>3 DEF ServerType
<1>5. Tokens'
  BY <1>1, <1>2, <1>3 DEF Tokens, ServerType
<1>6. Lasting /\ (phase[s] # "none" => phase'[s] = "revoked")
  BY <1>2, <1>3 DEF ServerType, Lasting
<1> QED
  BY <1>1, <1>3, <1>4, <1>5, <1>6

-----------------------------------------------------------------------------
(* Calls *)

\* The answers auth-service gives, and a call that is not idle.
LEMMA AnswerTypes ==
    /\ Refused \in Answer /\ ~Refused.ok /\ Refused.token = None /\ Refused.shape = "none"
    /\ NoToken \in Answer /\ NoToken.ok /\ NoToken.token = None /\ NoToken.shape = "none"
    /\ \A t \in Running : t # Idle
  BY DEF Refused, NoToken, Answer, Running, Idle

\* The type of a call that is under way.
LEMMA CallType ==
    ASSUME TypeOK, NEW c \in Call, call[c] # Idle
    PROVE  call[c] \in Running
  BY DEF TypeOK

\* A call at one of its places is under way.
LEMMA AtRuns ==
    ASSUME NEW c \in Call, call[c].at \in {"gateway", "upstream", "reply"}
    PROVE  call[c] # Idle
  BY DEF Idle

\* A call that does nothing stays in order, whatever auth-service does.
LEMMA CallKept ==
    ASSUME TypeOK, Lasting, out \subseteq out', NEW d \in Call, CallInv(d), call'[d] = call[d]
    PROVE  CallInv(d)'
<1> SUFFICES ASSUME call[d] # Idle
             PROVE  CallInv(d)'
  BY DEF CallInv
<1>1. call[d] \in Running
  BY CallType
<1>2. call[d].cookie \in Jti \cup {None} /\ call[d].answer.token \in Jti \cup {None}
  BY <1>1 DEF Running, Answer
<1>3. /\ call[d].cookie # None => of'[call[d].cookie] = of[call[d].cookie]
      /\ WasIssued(call[d].cookie)' /\ WasIssued(call[d].answer.token)'
  BY <1>2 DEF CallInv, WasIssued, Lasting
<1>4. call[d].cookie # None => of[call[d].cookie] \in Session
  BY <1>2 DEF CallInv, WasIssued, TypeOK
<1> QED
  BY <1>3, <1>4 DEF CallInv, Lasting

\* A step of one call that leaves the browser alone keeps the invariant if it
\* keeps it for that call.
LEMMA Transit ==
    ASSUME Inv, NEW c \in Call, call[c] # Idle, NEW t \in Running,
           call' = [call EXCEPT ![c] = t], UNCHANGED <<jar, out, mixed, elsewhere>>,
           ServerType', Tokens', Lasting, CallInv(c)',
           ~mixed => /\ t.waited
                     /\ t.at # "reply" => t.cookie = jar /\ Usable(jar)'
                     /\ t.at = "reply" => Usable(JarAfter(c))'
    PROVE  Inv'
<1>1. /\ call'[c] = t /\ \A d \in Call \ {c} : call'[d] = call[d]
      /\ call' \in [Call -> Running \cup {Idle}] /\ t # Idle
  BY AnswerTypes DEF Inv, TypeOK
<1>2. TypeOK'
  BY <1>1 DEF Inv, TypeOK, ServerType
<1>3. \A d \in Call : CallInv(d)'
  BY <1>1, CallKept DEF Inv
<1>4. WasIssued(jar)' /\ \A s \in out' : phase'[s] = "revoked"
  BY DEF Inv, TypeOK, WasIssued, Lasting
<1>5. OneByOne'
  <2> SUFFICES ASSUME ~mixed
               PROVE  /\ \A d, e \in Call : call'[d] # Idle /\ call'[e] # Idle => d = e
                      /\ \A d \in Call : call'[d] # Idle =>
                            /\ call'[d].waited
                            /\ call'[d].at # "reply" => call'[d].cookie = jar' /\ Usable(jar)'
                            /\ call'[d].at = "reply" => Usable(JarAfter(d))'
                      /\ (\A d \in Call : call'[d] = Idle) => Usable(jar)'
    BY DEF OneByOne
  <2>1. \A d \in Call : call'[d] # Idle => d = c
    BY <1>1 DEF Inv, OneByOne
  <2> QED
    BY <1>1, <2>1
<1> QED
  BY <1>2, <1>3, <1>4, <1>5 DEF Inv

\* An answer keeps the invariant if it says the truth about a sign-out, grants
\* no refresh that was sent after one, and leads to a cookie that is usable.
LEMMA ReplyStep ==
    ASSUME Inv, NEW c \in Call, call[c].at \in {"gateway", "upstream"},
           NEW a \in Answer, Reply(c, a), UNCHANGED <<jar, out, mixed, elsewhere>>,
           ServerType', Tokens', Lasting, WasIssued(a.token)',
           call[c].kind = "revoke" /\ a.ok =>
              call[c].cookie # None /\ phase'[of'[call[c].cookie]] = "revoked",
           call[c].after /\ call[c].kind = "refresh" => ~a.ok,
           ~mixed => Usable(JarAfter(c))'
    PROVE  Inv'
<1> DEFINE t == [call[c] EXCEPT !.at = "reply", !.answer = a]
<1>1. call[c] # Idle /\ call[c] \in Running /\ CallInv(c)
  BY AtRuns, CallType DEF Inv
<1>2. t \in Running
  BY <1>1 DEF Running
<1>3. /\ t.at = "reply" /\ t.answer = a /\ t.kind = call[c].kind
      /\ t.cookie = call[c].cookie /\ t.early = call[c].early
      /\ t.waited = call[c].waited /\ t.after = call[c].after
  BY <1>1 DEF Running
<1>4. call' = [call EXCEPT ![c] = t]
  BY DEF Reply, Inv, TypeOK
<1> HIDE DEF t
<1>5. call'[c] = t
  BY <1>4 DEF Inv, TypeOK
<1>6. call[c].cookie # None => of'[call[c].cookie] = of[call[c].cookie]
  BY <1>1 DEF CallInv, WasIssued, Lasting, Running
<1>7. CallInv(c)'
  BY <1>1, <1>3, <1>5, <1>6 DEF CallInv, WasIssued
<1>8. ~mixed => t.waited
  BY <1>1, <1>3 DEF Inv, OneByOne
<1> QED
  BY <1>1, <1>2, <1>3, <1>4, <1>5, <1>7, <1>8, Transit

\* auth-service does nothing.
LEMMA ServerIdle ==
    ASSUME Inv, UNCHANGED server
    PROVE  /\ ServerType' /\ Tokens' /\ Lasting
           /\ UNCHANGED <<phase, tip, used, overrun, of>>
<1>1. UNCHANGED <<phase, tip, used, overrun, of>>
  BY DEF server
<1> QED
  BY <1>1 DEF Inv, TypeOK, ServerType, Tokens, Lasting

\* A refusal, or an answer without a token to a sign-in, changes no cookie.
LEMMA EmptyAnswer ==
    ASSUME Inv, NEW c \in Call, call[c].at \in {"gateway", "upstream"},
           UNCHANGED server, UNCHANGED <<jar, out, mixed, elsewhere>>,
           \/ Reply(c, Refused)
           \/ call[c].kind \in {"register", "login"} /\ Reply(c, NoToken)
    PROVE  Inv'
<1>1. PICK a \in {Refused, NoToken} :
        Reply(c, a) /\ (a = NoToken => call[c].kind \in {"register", "login"})
  BY AnswerTypes
<1>2. a \in Answer /\ a.token = None /\ a.shape = "none" /\ (a.ok => a = NoToken)
  BY AnswerTypes
<1>3. /\ ServerType' /\ Tokens' /\ Lasting /\ UNCHANGED <<phase, tip, used, overrun, of>>
  BY ServerIdle
<1>4. call[c] # Idle /\ call[c] \in Running
  BY AtRuns, CallType DEF Inv
<1>5. call'[c].answer = a /\ call'[c].kind = call[c].kind
  BY <1>1, <1>4 DEF Reply, Inv, TypeOK, Running
<1>6. JarAfter(c)' = jar
  BY <1>1, <1>2, <1>5 DEF JarAfter, _strip_refresh_from_json
<1>7. ~mixed => Usable(jar)
  BY <1>4 DEF Inv, OneByOne
<1>8. ~mixed => Usable(JarAfter(c))'
  BY <1>3, <1>6, <1>7 DEF Usable
<1>9. WasIssued(a.token)'
  BY <1>2 DEF WasIssued
<1> QED
  BY <1>1, <1>2, <1>3, <1>8, <1>9, ReplyStep

\* A call that gets a new token is answered with the usable one of its session.
LEMMA TokenAnswer ==
    ASSUME Inv, NEW c \in Call, call[c].at = "upstream", call[c].kind \in SetsCookie,
           NEW s \in Session, NEW j \in Jti, NEW shape \in {"top", "nested"},
           Families!Open(s, j) \/ Families!Rotate(s, j) \/ Families!Overrun(s, j),
           Issued(c, s, j, shape), ~(call[c].after /\ call[c].kind = "refresh"),
           ~mixed /\ s \notin elsewhere => phase'[s] = "active"
    PROVE  Inv'
<1> DEFINE a == [ok |-> TRUE, shape |-> shape, token |-> j]
<1>1. /\ of' = [of EXCEPT ![j] = s] /\ Reply(c, a) /\ UNCHANGED <<jar, out, mixed, elsewhere>>
  BY DEF Issued
<1>2. a \in Answer /\ a.ok /\ a.shape \in {"top", "nested"} /\ a.token = j
  BY DEF Answer
<1> HIDE DEF a
<1>3. /\ ServerType' /\ Tokens' /\ Lasting /\ of'[j] = s /\ tip'[s] = j
  BY <1>1, IssueStep DEF Inv, TypeOK, ServerType
<1>4. call[c] # Idle /\ call[c] \in Running
  BY AtRuns, CallType DEF Inv
<1>5. call'[c].answer = a /\ call'[c].kind = call[c].kind
  BY <1>1, <1>4 DEF Reply, Inv, TypeOK, Running
<1>6. j # None
  BY BrowserAuthAssumption
<1>7. JarAfter(c)' = j
  BY <1>2, <1>5, <1>6 DEF JarAfter, _strip_refresh_from_json
<1>8. ~mixed => Usable(JarAfter(c))'
  BY <1>1, <1>3, <1>7 DEF Usable
<1>9. WasIssued(a.token)'
  BY <1>2, <1>3, BrowserAuthAssumption DEF WasIssued
<1>10. call[c].kind # "revoke"
  BY DEF SetsCookie
<1> QED
  BY <1>1, <1>2, <1>3, <1>8, <1>9, <1>10, ReplyStep

\* login and login/2fa.
LEMMA SignInStep ==
    ASSUME Inv, NEW c \in Call, NEW s \in Session, NEW j \in Jti, SignIn(c, s, j)
    PROVE  Inv'
<1> DEFINE shape == IF call[c].kind = "login" THEN "nested" ELSE "top"
<1>1. /\ call[c].at = "upstream" /\ call[c].kind \in {"login", "login_2fa"}
      /\ Families!Open(s, j) /\ Issued(c, s, j, shape)
  BY DEF SignIn
<1>2. shape \in {"top", "nested"} /\ call[c].kind \in SetsCookie /\ call[c].kind # "refresh"
  BY <1>1 DEF SetsCookie
<1> HIDE DEF shape
<1>3. phase'[s] = "active"
  BY <1>1 DEF Families!Open, Inv, TypeOK
<1> QED
  BY <1>1, <1>2, <1>3, TokenAnswer

\* The session of a cookie that auth-service looks at.
LEMMA CookieSession ==
    ASSUME Inv, NEW c \in Call, call[c].at = "upstream", call[c].kind \in NeedsCookie
    PROVE  /\ call[c].cookie \in Jti /\ call[c].cookie # None
           /\ of[call[c].cookie] \in Session /\ phase[of[call[c].cookie]] # "none"
<1>1. call[c] # Idle /\ call[c] \in Running /\ CallInv(c)
  BY AtRuns, CallType DEF Inv
<1>2. call[c].cookie \in Jti \cup {None} /\ call[c].cookie # None /\ of[call[c].cookie] # None
  BY <1>1 DEF Running, CallInv, WasIssued
<1> QED
  BY <1>2 DEF Inv, TypeOK, Tokens

\* A call that comes alone presents the usable token, unless its session was
\* revoked elsewhere.
LEMMA AloneCarriesUsable ==
    ASSUME Inv, NEW c \in Call, call[c].at = "upstream", call[c].kind \in NeedsCookie,
           ~mixed, of[call[c].cookie] \notin elsewhere
    PROVE  /\ tip[of[call[c].cookie]] = call[c].cookie
           /\ phase[of[call[c].cookie]] = "active"
<1>1. call[c] # Idle
  BY AtRuns
<1>2. call[c].cookie = jar /\ Usable(jar)
  BY <1>1 DEF Inv, OneByOne
<1> QED
  BY <1>2, CookieSession DEF Usable

\* refresh: a session that was signed out of is revoked, and a call that was sent
\* afterwards has never seen it active.
LEMMA RefreshStep ==
    ASSUME Inv, NEW c \in Call, NEW j \in Jti, Refresh(c, j)
    PROVE  Inv'
<1> DEFINE s == of[call[c].cookie]
<1>1. /\ call[c].at = "upstream" /\ call[c].kind = "refresh"
      /\ Families!Rotate(s, j) \/ (call[c].early /\ Families!Overrun(s, j))
      /\ Issued(c, s, j, "top")
  BY DEF Refresh
<1>2. call[c].kind \in SetsCookie /\ call[c].kind \in NeedsCookie
  BY <1>1 DEF SetsCookie, NeedsCookie
<1>3. s \in Session
  BY <1>1, <1>2, CookieSession
<1>4. ~call[c].after
  <2> SUFFICES ASSUME call[c].after
               PROVE  FALSE
    OBVIOUS
  <2>1. call[c] # Idle /\ CallInv(c)
    BY <1>1, AtRuns DEF Inv
  <2>2. s \in out /\ ~call[c].early
    BY <2>1 DEF CallInv
  <2>3. phase[s] = "revoked"
    BY <2>2 DEF Inv
  <2> QED
    BY <1>1, <2>2, <2>3 DEF Families!Rotate
<1>5. ~mixed /\ s \notin elsewhere => phase[s] = "active"
  BY <1>1, <1>2, AloneCarriesUsable
<1> HIDE DEF s
<1>6. phase' = phase
  BY <1>1 DEF Families!Rotate, Families!Overrun, Families!Replace
<1> QED
  BY <1>1, <1>2, <1>3, <1>4, <1>5, <1>6, TokenAnswer

\* A refresh with a used token: calls that come one after the other never send
\* one, unless the session's token was revoked elsewhere.
LEMMA ReuseStep ==
    ASSUME Inv, NEW c \in Call, ReuseDetected(c)
    PROVE  Inv'
<1> DEFINE s == of[call[c].cookie]
<1>1. /\ call[c].at = "upstream" /\ call[c].kind = "refresh"
      /\ call[c].cookie # tip[s] /\ RevokeFamily(c, s) /\ Reply(c, Refused)
      /\ UNCHANGED <<of, jar, out, mixed, elsewhere>>
  BY DEF ReuseDetected
<1>2. s \in Session /\ call[c].cookie # None
  BY <1>1, CookieSession DEF NeedsCookie
<1>3. ServerType' /\ Tokens' /\ Lasting
  BY <1>1, <1>2, RevokeStep DEF Inv, TypeOK, ServerType
<1>4. mixed \/ s \in elsewhere
  BY <1>1, AloneCarriesUsable DEF NeedsCookie
<1>5. call[c] # Idle /\ call[c] \in Running
  BY <1>1, AtRuns, CallType DEF Inv
<1>6. call'[c].answer = Refused
  BY <1>1, <1>5 DEF Reply, Inv, TypeOK, Running
<1>7. JarAfter(c)' = jar
  BY <1>1, <1>6, AnswerTypes DEF JarAfter
<1>8. ~mixed => call[c].cookie = jar
  BY <1>1, <1>5 DEF Inv, OneByOne
<1>9. ~mixed => Usable(JarAfter(c))'
  BY <1>1, <1>4, <1>7, <1>8 DEF Usable
<1>10. WasIssued(Refused.token)'
  BY AnswerTypes DEF WasIssued
<1> QED
  BY <1>1, <1>3, <1>9, <1>10, AnswerTypes, ReplyStep

\* A sign-out revokes the session of its cookie.
LEMMA RevokeCallStep ==
    ASSUME Inv, NEW c \in Call, Revoke(c)
    PROVE  Inv'
<1> DEFINE s == of[call[c].cookie]
<1>1. /\ call[c].at = "upstream" /\ call[c].kind = "revoke"
      /\ RevokeFamily(c, s) /\ Reply(c, NoToken) /\ UNCHANGED <<of, jar, out, mixed, elsewhere>>
  BY DEF Revoke
<1>2. s \in Session /\ call[c].cookie # None /\ phase[s] # "none"
  BY <1>1, CookieSession DEF NeedsCookie
<1>3. ServerType' /\ Tokens' /\ Lasting /\ phase'[s] = "revoked"
  BY <1>1, <1>2, RevokeStep DEF Inv, TypeOK, ServerType
<1>4. call[c] # Idle /\ call[c] \in Running
  BY <1>1, AtRuns, CallType DEF Inv
<1>5. call'[c].answer = NoToken /\ call'[c].kind = "revoke"
  BY <1>1, <1>4 DEF Reply, Inv, TypeOK, Running
<1>6. JarAfter(c)' = None
  BY <1>5, AnswerTypes DEF JarAfter, _strip_refresh_from_json, SetsCookie
<1>7. Usable(JarAfter(c))'
  BY <1>6 DEF Usable
<1>8. WasIssued(NoToken.token)'
  BY AnswerTypes DEF WasIssued
<1> QED
  BY <1>1, <1>2, <1>3, <1>7, <1>8, AnswerTypes, ReplyStep

-----------------------------------------------------------------------------
(* The browser and the gateway *)

\* What a call notes is a truth value.
LEMMA NoteTypes ==
    ASSUME NEW x, NEW y, NEW z, NEW S
    PROVE  /\ (x # None /\ y = z) = TRUE \/ (x # None /\ y = z) = FALSE
           /\ (x # None /\ y \in S) = TRUE \/ (x # None /\ y \in S) = FALSE
  BY Zenon

\* The gateway passes the call on.
LEMMA ForwardStep ==
    ASSUME Inv, NEW c \in Call, Forward(c)
    PROVE  Inv'
<1> DEFINE j == call[c].cookie
           early == j # None /\ phase[of[j]] = "active"
           u(b) == [call[c] EXCEPT !.at = "upstream", !.early = b]
           t == u(early)
<1>1. /\ call[c].at = "gateway" /\ UNCHANGED server /\ UNCHANGED <<jar, out, mixed, elsewhere>>
      /\ call[c].kind \in NeedsCookie => j # None
      /\ call' = [call EXCEPT ![c] = t]
  BY DEF Forward, Inv, TypeOK
<1>2. call[c] # Idle /\ call[c] \in Running /\ CallInv(c)
  BY <1>1, AtRuns, CallType DEF Inv
<1>3. \A b \in BOOLEAN :
        /\ u(b) \in Running /\ u(b).at = "upstream" /\ u(b).early = b
        /\ u(b).kind = call[c].kind /\ u(b).cookie = call[c].cookie
        /\ u(b).answer = call[c].answer /\ u(b).waited = call[c].waited
        /\ u(b).after = call[c].after
  BY <1>2 DEF Running
<1> HIDE DEF u
<1>4. early = TRUE \/ early = FALSE
  BY NoteTypes, Zenon
<1>5. PICK b \in BOOLEAN : t = u(b) /\ (b <=> early)
  BY <1>4
<1>6. /\ t \in Running /\ t.at = "upstream" /\ t.early = b
      /\ t.kind = call[c].kind /\ t.cookie = call[c].cookie
      /\ t.answer = call[c].answer /\ t.waited = call[c].waited
      /\ t.after = call[c].after
  BY <1>3, <1>5
<1>7. b => j # None /\ phase[of[j]] = "active"
  BY <1>5
<1> HIDE DEF t
<1>8. /\ ServerType' /\ Tokens' /\ Lasting /\ UNCHANGED <<phase, tip, used, overrun, of>>
  BY <1>1, ServerIdle
<1>9. call'[c] = t
  BY <1>1 DEF Inv, TypeOK
<1>10. call[c].after => ~b
  BY <1>2, <1>7 DEF CallInv, Inv
<1>11. CallInv(c)'
  BY <1>1, <1>2, <1>6, <1>8, <1>9, <1>10 DEF CallInv, WasIssued
<1>12. ~mixed => t.waited /\ t.cookie = jar /\ Usable(jar)'
  <2>1. ~mixed => call[c].waited /\ call[c].cookie = jar /\ Usable(jar)
    BY <1>1, <1>2 DEF Inv, OneByOne
  <2> QED
    BY <1>1, <1>6, <1>8, <2>1 DEF Usable
<1> QED
  BY <1>1, <1>2, <1>6, <1>8, <1>11, <1>12, Transit

\* The page sends a call with the cookie there is.
LEMMA SendStep ==
    ASSUME Inv, NEW c \in Call, NEW k \in Kind, Send(c, k)
    PROVE  Inv'
<1> DEFINE after == jar # None /\ of[jar] \in out
           u(b) == [at |-> "gateway", kind |-> k, cookie |-> jar, early |-> FALSE,
                    answer |-> Refused, waited |-> TRUE, after |-> b]
           t == u(after)
           other == \E d \in Call : call[d] # Idle
<1>1. /\ call[c] = Idle /\ UNCHANGED server /\ UNCHANGED <<jar, out, elsewhere>>
      /\ call' = [call EXCEPT ![c] = t]
  BY DEF Send
<1>2. mixed' = (mixed \/ other)
  BY DEF Send
<1>3. \A b \in BOOLEAN :
        /\ u(b) \in Running /\ u(b).at = "gateway" /\ u(b).early = FALSE
        /\ u(b).kind = k /\ u(b).cookie = jar
        /\ u(b).answer = Refused /\ u(b).waited = TRUE /\ u(b).after = b
  BY AnswerTypes DEF Running, Inv, TypeOK
<1> HIDE DEF u
<1>4. after = TRUE \/ after = FALSE
  BY NoteTypes, Zenon
<1>5. PICK b \in BOOLEAN : t = u(b) /\ (b <=> after)
  BY <1>4
<1>6. /\ t \in Running /\ t.at = "gateway" /\ ~t.early
      /\ t.kind = k /\ t.cookie = jar
      /\ t.answer = Refused /\ t.waited /\ t.after = b
  BY <1>3, <1>5
<1>7. b => jar # None /\ of[jar] \in out
  BY <1>5
<1> HIDE DEF t
<1>8. /\ ServerType' /\ Tokens' /\ Lasting /\ UNCHANGED <<phase, tip, used, overrun, of>>
  BY <1>1, ServerIdle
<1>9. /\ call'[c] = t /\ \A d \in Call \ {c} : call'[d] = call[d]
      /\ call' \in [Call -> Running \cup {Idle}]
  BY <1>1, <1>6 DEF Inv, TypeOK
<1>10. mixed' \in BOOLEAN /\ (~mixed' => ~mixed /\ \A d \in Call : call[d] = Idle)
  <2>1. CASE other
    BY <1>2, <2>1
  <2>2. CASE ~other
    <3>1. mixed' = mixed
      BY <1>2, <2>2 DEF Inv, TypeOK
    <3> QED
      BY <2>2, <3>1 DEF Inv, TypeOK
  <2> QED
    BY <2>1, <2>2
<1> HIDE DEF other
<1>11. TypeOK'
  BY <1>1, <1>8, <1>9, <1>10 DEF Inv, TypeOK, ServerType
<1>12. CallInv(c)'
  BY <1>1, <1>6, <1>7, <1>8, <1>9, AnswerTypes DEF CallInv, WasIssued, Inv
<1>13. \A d \in Call : CallInv(d)'
  BY <1>1, <1>8, <1>9, <1>12, CallKept DEF Inv
<1>14. WasIssued(jar)' /\ \A s \in out' : phase'[s] = "revoked"
  BY <1>1, <1>8 DEF Inv, WasIssued
<1>15. OneByOne'
  <2> SUFFICES ASSUME ~mixed'
               PROVE  /\ \A d, e \in Call : call'[d] # Idle /\ call'[e] # Idle => d = e
                      /\ \A d \in Call : call'[d] # Idle =>
                            /\ call'[d].waited
                            /\ call'[d].at # "reply" => call'[d].cookie = jar' /\ Usable(jar)'
                            /\ call'[d].at = "reply" => Usable(JarAfter(d))'
                      /\ (\A d \in Call : call'[d] = Idle) => Usable(jar)'
    BY DEF OneByOne
  <2>1. \A d \in Call : call'[d] # Idle => d = c
    BY <1>9, <1>10
  <2>2. Usable(jar)'
    BY <1>1, <1>8, <1>10 DEF Inv, OneByOne, Usable
  <2> QED
    BY <1>1, <1>6, <1>9, <2>1, <2>2
<1> QED
  BY <1>8, <1>11, <1>13, <1>14, <1>15 DEF Inv

\* Nobody waits for the answer any more.
LEMMA LeaveStep ==
    ASSUME Inv, NEW c \in Call, Leave(c)
    PROVE  Inv'
<1> DEFINE t == [call[c] EXCEPT !.waited = FALSE]
<1>1. /\ call[c] # Idle /\ UNCHANGED server /\ mixed' = TRUE
      /\ UNCHANGED <<jar, out, elsewhere>>
      /\ call' = [call EXCEPT ![c] = t]
  BY DEF Leave, Inv, TypeOK
<1>2. call[c] \in Running /\ CallInv(c)
  BY <1>1, CallType DEF Inv
<1>3. /\ t \in Running /\ t.at = call[c].at /\ t.early = call[c].early
      /\ t.kind = call[c].kind /\ t.cookie = call[c].cookie
      /\ t.answer = call[c].answer /\ t.after = call[c].after
  BY <1>2 DEF Running
<1> HIDE DEF t
<1>4. /\ ServerType' /\ Tokens' /\ Lasting /\ UNCHANGED <<phase, tip, used, overrun, of>>
  BY <1>1, ServerIdle
<1>5. /\ call'[c] = t /\ \A d \in Call \ {c} : call'[d] = call[d]
      /\ call' \in [Call -> Running \cup {Idle}]
  BY <1>1, <1>3 DEF Inv, TypeOK
<1>6. TypeOK'
  BY <1>1, <1>4, <1>5 DEF Inv, TypeOK, ServerType
<1>7. CallInv(c)'
  BY <1>1, <1>2, <1>3, <1>4, <1>5 DEF CallInv, WasIssued
<1>8. \A d \in Call : CallInv(d)'
  BY <1>1, <1>4, <1>5, <1>7, CallKept DEF Inv
<1>9. WasIssued(jar)' /\ (\A s \in out' : phase'[s] = "revoked") /\ OneByOne'
  BY <1>1, <1>4 DEF Inv, WasIssued, OneByOne
<1> QED
  BY <1>4, <1>6, <1>8, <1>9 DEF Inv

\* The end of a call that leaves auth-service alone.
LEMMA EndStep ==
    ASSUME Inv, NEW c \in Call, call[c] # Idle, call' = [call EXCEPT ![c] = Idle],
           UNCHANGED server, UNCHANGED <<mixed, elsewhere>>,
           jar' \in Jti \cup {None}, WasIssued(jar)',
           out \subseteq out', out' \subseteq Session, \A s \in out' : phase[s] = "revoked",
           ~mixed => Usable(jar)'
    PROVE  Inv'
<1>1. /\ ServerType' /\ Tokens' /\ Lasting /\ UNCHANGED <<phase, tip, used, overrun, of>>
  BY ServerIdle
<1>2. /\ call'[c] = Idle /\ \A d \in Call \ {c} : call'[d] = call[d]
      /\ call' \in [Call -> Running \cup {Idle}]
  BY DEF Inv, TypeOK
<1>3. TypeOK'
  BY <1>1, <1>2 DEF Inv, TypeOK, ServerType
<1>4. \A d \in Call : CallInv(d)'
  <2>1. CallInv(c)'
    BY <1>2 DEF CallInv
  <2> QED
    BY <1>1, <1>2, <2>1, CallKept DEF Inv
<1>5. ~mixed => \A d \in Call : call'[d] = Idle
  BY <1>2 DEF Inv, OneByOne
<1>6. OneByOne'
  BY <1>5 DEF OneByOne
<1> QED
  BY <1>1, <1>3, <1>4, <1>6 DEF Inv

\* The answer arrives, and the browser takes the cookie that comes with it.
LEMMA DeliverStep ==
    ASSUME Inv, NEW c \in Call, Deliver(c)
    PROVE  Inv'
<1>1. /\ call[c].at = "reply" /\ call[c].waited /\ call' = [call EXCEPT ![c] = Idle]
      /\ UNCHANGED server /\ UNCHANGED <<mixed, elsewhere>>
  BY DEF Deliver
<1>2. call[c] # Idle /\ call[c] \in Running /\ CallInv(c)
  BY <1>1, AtRuns, CallType DEF Inv
<1>3. /\ call[c].cookie \in Jti \cup {None} /\ call[c].answer.token \in Jti \cup {None}
      /\ call[c].answer.ok \in BOOLEAN
  BY <1>2 DEF Running, Answer
<1>4. UNCHANGED <<phase, tip, used, overrun, of>>
  BY <1>1 DEF server
<1>5. jar' = JarAfter(c)
  BY DEF Deliver, JarAfter, set_cookie_on_ok, clear_cookie_on_ok, _set_refresh_cookie,
         _clear_refresh_cookie, SetsCookie
<1>6. jar' \in Jti \cup {None} /\ WasIssued(jar)'
  BY <1>2, <1>3, <1>4, <1>5
     DEF JarAfter, _strip_refresh_from_json, CallInv, WasIssued, Inv, TypeOK
<1>7. /\ out \subseteq out' /\ out' \subseteq Session
      /\ \A s \in out' : phase[s] = "revoked"
  <2>1. out' = IF call[c].answer.ok /\ call[c].kind = "revoke"
               THEN out \cup {of[call[c].cookie]} ELSE out
    BY DEF Deliver, SignedOut
  <2>2. call[c].answer.ok /\ call[c].kind = "revoke" =>
          of[call[c].cookie] \in Session /\ phase[of[call[c].cookie]] = "revoked"
    BY <1>2, <1>3 DEF CallInv, WasIssued, Inv, TypeOK
  <2> QED
    BY <2>1, <2>2 DEF Inv, TypeOK
<1>8. ~mixed => Usable(jar)'
  BY <1>1, <1>2, <1>4, <1>5 DEF Inv, OneByOne, Usable
<1> QED
  BY <1>1, <1>2, <1>6, <1>7, <1>8, EndStep

\* The answer finds nobody.
LEMMA DropStep ==
    ASSUME Inv, NEW c \in Call, Drop(c)
    PROVE  Inv'
<1>1. /\ call[c].at = "reply" /\ ~call[c].waited /\ call' = [call EXCEPT ![c] = Idle]
      /\ UNCHANGED server /\ UNCHANGED <<jar, out, mixed, elsewhere>>
  BY DEF Drop
<1>2. call[c] # Idle
  BY <1>1, AtRuns
<1>3. mixed
  BY <1>1, <1>2 DEF Inv, OneByOne
<1>4. WasIssued(jar)' /\ jar' \in Jti \cup {None}
  BY <1>1 DEF Inv, TypeOK, WasIssued, server
<1> QED
  BY <1>1, <1>2, <1>3, <1>4, EndStep DEF Inv, TypeOK

-----------------------------------------------------------------------------
(* Others *)

\* A reset, or another client, revokes sessions and tokens: the cookie of any
\* other session stays what it was.
LEMMA ElsewhereStep ==
    ASSUME Inv, RevokedElsewhere
    PROVE  Inv'
<1>1. PICK K \in SUBSET Session, C \in SUBSET Session :
        Families!Revoke(K, C) /\ elsewhere' = elsewhere \cup K \cup C
  BY DEF RevokedElsewhere
<1>2. UNCHANGED <<of, jar, call, out, mixed>>
  BY DEF RevokedElsewhere
<1>3. /\ \A x \in K : tip[x] # None
      /\ \A x \in C : phase[x] = "active"
      /\ tip' = [x \in Session |-> IF x \in K THEN None ELSE tip[x]]
      /\ used' = used \cup {tip[x] : x \in K}
      /\ phase' = [x \in Session |-> IF x \in C THEN "revoked" ELSE phase[x]]
      /\ overrun' = overrun
  BY <1>1 DEF Families!Revoke
<1>4. TypeOK'
  BY <1>1, <1>2, <1>3 DEF Inv, TypeOK
<1>5. Tokens'
  BY <1>2, <1>3 DEF Inv, TypeOK, Tokens
<1>6. Lasting
  BY <1>2, <1>3 DEF Lasting, Inv, TypeOK
<1>7. \A d \in Call : CallInv(d)'
  BY <1>2, <1>6, CallKept DEF Inv
<1>8. WasIssued(jar)' /\ \A s \in out' : phase'[s] = "revoked"
  BY <1>2, <1>6 DEF Inv, TypeOK, WasIssued, Lasting
<1>9. ASSUME NEW j, WasIssued(j), j \in Jti \cup {None}, Usable(j)
      PROVE  Usable(j)'
  <2>1. j # None => of[j] \in Session /\ of'[j] = of[j]
    BY <1>2, <1>9 DEF WasIssued, Inv, TypeOK
  <2>2. \A s \in Session \ elsewhere' :
          s \notin elsewhere /\ tip'[s] = tip[s] /\ phase'[s] = phase[s]
    BY <1>1, <1>3
  <2> QED
    BY <1>9, <2>1, <2>2 DEF Usable
<1>10. \A c \in Call : call[c] # Idle =>
         JarAfter(c)' = JarAfter(c) /\ JarAfter(c) \in Jti \cup {None} /\ WasIssued(JarAfter(c))
  <2> TAKE c \in Call
  <2> HAVE call[c] # Idle
  <2>1. call[c] \in Running /\ CallInv(c)
    BY CallType DEF Inv
  <2>2. call[c].answer.token \in Jti \cup {None} /\ jar \in Jti \cup {None}
    BY <2>1 DEF Running, Answer, Inv, TypeOK
  <2>3. WasIssued(call[c].answer.token) /\ WasIssued(jar) /\ WasIssued(None)
    BY <2>1 DEF CallInv, Inv, WasIssued
  <2>4. JarAfter(c) \in {call[c].answer.token, jar, None}
    BY DEF JarAfter, _strip_refresh_from_json
  <2>5. JarAfter(c)' = JarAfter(c)
    BY <1>2 DEF JarAfter
  <2> QED
    BY <2>2, <2>3, <2>4, <2>5
<1>11. OneByOne'
  <2> SUFFICES ASSUME ~mixed
               PROVE  OneByOne'
    BY <1>2 DEF OneByOne
  <2>1. Usable(jar) => Usable(jar)'
    BY <1>2, <1>9 DEF Inv, TypeOK, Usable
  <2>2. \A c \in Call : call[c] # Idle /\ Usable(JarAfter(c)) => Usable(JarAfter(c))'
    BY <1>9, <1>10 DEF Usable
  <2> QED
    BY <1>2, <2>1, <2>2 DEF Inv, OneByOne
<1> QED
  BY <1>4, <1>5, <1>7, <1>8, <1>11 DEF Inv

-----------------------------------------------------------------------------
(* The theorems *)

\* At the start there are no sessions, calls or cookies.
LEMMA InitInv == Init => Inv
<1> SUFFICES ASSUME Init
             PROVE  Inv
  OBVIOUS
<1>1. TypeOK
  BY DEF Init, Families!Init, TypeOK
<1>2. /\ \A s \in Session : phase[s] = "none" /\ tip[s] = None
      /\ \A j \in Jti : of[j] = None
      /\ \A c \in Call : call[c] = Idle
  BY DEF Init, Families!Init
<1>3. jar = None /\ out = {} /\ elsewhere = {}
  BY DEF Init
<1> QED
  BY <1>1, <1>2, <1>3 DEF Inv, Tokens, WasIssued, CallInv, OneByOne, Usable

\* Every step keeps the invariant.
LEMMA NextInv ==
    ASSUME Inv, [Next]_vars
    PROVE  Inv'
<1>1. CASE UNCHANGED vars
  <2>1. UNCHANGED <<phase, tip, used, overrun, of, jar, call, out, mixed, elsewhere>>
    BY <1>1 DEF vars, server
  <2>2. TypeOK' /\ Tokens' /\ WasIssued(jar)' /\ \A s \in out' : phase'[s] = "revoked"
    BY <2>1 DEF Inv, TypeOK, Tokens, WasIssued
  <2>3. \A c \in Call : CallInv(c)'
    BY <2>1 DEF Inv, CallInv, WasIssued
  <2>4. OneByOne'
    BY <2>1 DEF Inv, OneByOne, Usable, JarAfter
  <2> QED
    BY <2>2, <2>3, <2>4 DEF Inv
<1>2. ASSUME NEW c \in Call, Refuse(c) \/ Process(c)
      PROVE  Inv'
  BY <1>2, EmptyAnswer DEF Refuse, Process
<1> QED
  BY <1>1, <1>2, SendStep, LeaveStep, ForwardStep, ReuseStep, RevokeCallStep, RefreshStep,
     SignInStep, DeliverStep, DropStep, ElsewhereStep DEF Next

\* Whatever the tabs of a browser send, lose and give up on, the invariant holds.
THEOREM Invariance == Spec => []Inv
<1>1. Inv /\ [Next]_vars => Inv'
  BY NextInv
<1> QED
  BY <1>1, InitInv, PTL DEF Spec

\* Every variable keeps its type.
THEOREM TypeCorrect == Spec => []TypeOK
<1>1. Inv => TypeOK
  BY DEF Inv
<1> QED
  BY <1>1, Invariance, PTL

\* As long as calls come one after the other and are answered, the gateway's
\* cookie (_set_refresh_cookie) is the usable token of its active session, unless
\* a reset or another client revoked that session or its token; sessions that end
\* elsewhere take no other session's cookie along.
THEOREM CookieStaysUsable == Spec => []CookieIsTip
<1>1. Inv => CookieIsTip
  BY DEF Inv, OneByOne, Usable, CookieIsTip
<1> QED
  BY <1>1, Invariance, PTL

\* After a sign-out that the page was told of (browser_revoke), no refresh that
\* is sent later succeeds, however late answers bring cookies back.
THEOREM SignOutIsFinal == Spec => []SignedOutStays
<1>1. Inv => SignedOutStays
  BY DEF Inv, CallInv, SignedOutStays
<1> QED
  BY <1>1, Invariance, PTL
=============================================================================
