--------------------------- MODULE Session_proofs ---------------------------
(***************************************************************************)
(* What holds of the sessions of a browser, for any tabs, requests, users  *)
(* and times to live.                                                      *)
(***************************************************************************)
EXTENDS Session, TLAPS

\* A request for an account names it; a success brings a token of who it names.
AnswerSound ==
  \A q \in Request :
    /\ good[q] => stage[q] = "answered"
    /\ kind[q] \in {"register", "login", "guest"} => who[q] \in User
    /\ stage[q] = "answered" /\ good[q] /\ kind[q] \in {"login", "guest", "session"} =>
         token[q] # NoToken /\ who[q] = token[q].user
    /\ stage[q] = "answered" /\ good[q] /\ kind[q] = "logout" => token[q] # NoToken

\* A session check that was sent since the jar was written carries what is in it,
\* and the socket of its tab, if any, was opened with it.
FreshSound ==
  \A q \in Request : kind[q] = "session" /\ stage[q] # "idle" /\ fresh[q] =>
    /\ token[q] = cookie
    /\ by[q] # NoTab => sock[by[q]] = NoUser \/ (cookie # NoToken /\ sock[by[q]] = cookie.user)

\* A token that was issued once, and has not arrived, is nowhere else.
Undelivered(q) == stage[q] = "answered" /\ good[q] /\ kind[q] \in {"login", "guest"}
TokenSound ==
  \A q \in Request : Undelivered(q) /\ token[q] \notin twins =>
    /\ cookie # token[q]
    /\ token[q] \notin revoked
    /\ \A r \in Request \ {q} : token[r] # token[q]

\* A recorded logout lasts as long as its token, which leaves the jar with the
\* answer of the logout.
RevokedSound ==
  /\ \A t \in revoked : black[t] = Exp(t)
  /\ cookie \in revoked =>
       \/ cookie \in twins \cup kept
       \/ \E q \in Request : /\ kind[q] = "logout" /\ stage[q] = "answered" /\ good[q]
                             /\ token[q] = cookie

\* The counter's end lies within the window, and whoever is to set it finds it unset.
LimitSound ==
  /\ deadline # 0 => count > 0 /\ now < deadline /\ deadline <= now + Window
  /\ \A q \in Request : At(q, "login", "expire") => count > 0 /\ deadline = 0
  /\ \A q, r \in Request : At(q, "login", "expire") /\ At(r, "login", "expire") => q = r
  /\ count > 0 => \/ deadline # 0 \/ stuck
                  \/ \E q \in Request : At(q, "login", "expire")

Inv == /\ TypeOK /\ AnswerSound /\ FreshSound /\ TabActsAsShown
       /\ TokenSound /\ RevokedSound /\ LimitSound

-----------------------------------------------------------------------------
\* Initially nobody is logged in.
LEMMA InvInit == Init => Inv
<1> SUFFICES ASSUME Init PROVE Inv
  OBVIOUS
<1> USE TokenAssumption, NobodyAssumption, AsksAssumption DEF Init, TokensInit
<1>1. TypeOK
  <2>1. TokensTypeOK
    <3>1. now = 0 /\ count = 0 /\ deadline = 0 /\ stuck = FALSE
      OBVIOUS
    <3>2. black \in [Token -> Nat]
      OBVIOUS
    <3>3. issued = {} /\ twins = {} /\ revoked = {}
      OBVIOUS
    <3>4. now \in 0..MaxTime
      <4>1. MaxTime \in Nat
        BY TokenAssumption
      <4> QED
        BY ONLY <3>1, <4>1
    <3> QED
      BY ONLY <3>1, <3>2, <3>3, <3>4 DEF TokensTypeOK
  <2>2. stage \in [Request -> Stage] /\ kind \in [Request -> Kind]
    BY DEF Stage, Kind
  <2> QED
    BY <2>1, <2>2 DEF TypeOK
<1>2. AnswerSound /\ FreshSound /\ TabActsAsShown
  BY DEF AnswerSound, FreshSound, TabActsAsShown
<1>3. TokenSound /\ RevokedSound
  BY DEF TokenSound, RevokedSound, Undelivered
<1>4. LimitSound
  BY DEF LimitSound, At
<1> QED
  BY <1>1, <1>2, <1>3, <1>4 DEF Inv

-----------------------------------------------------------------------------
(* The page.                                                               *)

LEMMA HandleSubmitStep ==
  ASSUME Inv, NEW b \in Tab, NEW q \in Request, NEW u \in User, NEW k \in Kind,
         HandleSubmit(b, q, k, u)
  PROVE  Inv'
<1> USE NobodyAssumption DEF Inv, TypeOK, Kind, HandleSubmit, Ask
<1>1. TypeOK'
  BY AsksAssumption DEF TokensTypeOK, Stage, tokens, Exp
<1>2. AnswerSound'
  BY DEF AnswerSound
<1>3. FreshSound'
  BY DEF FreshSound
<1>4. TabActsAsShown'
  BY DEF TabActsAsShown
<1>5. TokenSound'
  BY DEF TokenSound, Undelivered, tokens
<1>6. RevokedSound'
  BY DEF RevokedSound, tokens, Exp
<1>7. LimitSound'
  BY DEF LimitSound, At, tokens
<1> QED
  BY <1>1, <1>2, <1>3, <1>4, <1>5, <1>6, <1>7

LEMMA LogoutStep ==
  ASSUME Inv, NEW b \in Tab, NEW q \in Request, Logout(b, q)
  PROVE  Inv'
<1> USE NobodyAssumption DEF Inv, TypeOK, Kind, Logout, ShowNobody, Ask
<1>1. TypeOK'
  BY AsksAssumption DEF TokensTypeOK, Stage, tokens, Exp
<1>2. AnswerSound'
  BY DEF AnswerSound
<1>3. FreshSound'
  BY DEF FreshSound
<1>4. TabActsAsShown'
  BY DEF TabActsAsShown
<1>5. TokenSound'
  BY DEF TokenSound, Undelivered, tokens
<1>6. RevokedSound'
  BY DEF RevokedSound, tokens, Exp
<1>7. LimitSound'
  BY DEF LimitSound, At, tokens
<1> QED
  BY <1>1, <1>2, <1>3, <1>4, <1>5, <1>6, <1>7

LEMMA LoadStep ==
  ASSUME Inv, NEW b \in Tab, NEW q \in Request, Load(b, q)
  PROVE  Inv'
<1> USE NobodyAssumption DEF Inv, TypeOK, Kind
<1>1. /\ stage[q] = "idle"
      /\ identity' = [identity EXCEPT ![b] = stored]
      /\ sock' = [sock EXCEPT ![b] = NoUser]
      /\ confirmed' = [confirmed EXCEPT ![b] = FALSE]
      /\ UNCHANGED <<tokens, accounts, cookie, stored, kept, asks, who, good>>
  BY DEF Load
<1>2. /\ \A r \in Request \ {q} : /\ stage'[r] = stage[r] /\ kind'[r] = kind[r]
                                  /\ token'[r] = token[r] /\ fresh'[r] = fresh[r]
                                  /\ by'[r] \in {by[r], NoTab} /\ by'[r] # b
      /\ \/ /\ stage'[q] = "idle" /\ kind'[q] = kind[q] /\ token'[q] = token[q]
            /\ fresh'[q] = fresh[q]
         \/ /\ stage'[q] = "sent" /\ kind'[q] = "session" /\ token'[q] = cookie
            /\ fresh'[q] = TRUE /\ by'[q] = b
  <2>1. CASE stored = NoUser
    BY <2>1 DEF Load
  <2>2. CASE stored # NoUser
    <3>1. by' = [[r \in Request |-> IF by[r] = b THEN NoTab ELSE by[r]] EXCEPT ![q] = b]
      BY <2>2 DEF Load
    <3>2. /\ stage' = [stage EXCEPT ![q] = "sent"] /\ kind' = [kind EXCEPT ![q] = "session"]
          /\ token' = [token EXCEPT ![q] = cookie] /\ fresh' = [fresh EXCEPT ![q] = TRUE]
      BY <2>2 DEF Load
    <3>3. \A r \in Request : by'[r] = IF r = q THEN b ELSE IF by[r] = b THEN NoTab ELSE by[r]
      BY <3>1
    <3>4. fresh'[q] = TRUE
      BY <3>2
    <3> QED
      BY <3>2, <3>3, <3>4
  <2> QED
    BY <2>1, <2>2
<1>3. TypeOK'
  <2>1. /\ stage' \in [Request -> Stage] /\ kind' \in [Request -> Kind]
        /\ token' \in [Request -> issued \cup {NoToken}]
        /\ by' \in [Request -> Tab \cup {NoTab}] /\ fresh' \in [Request -> BOOLEAN]
    <3>1. CASE stored = NoUser
      BY <3>1 DEF Load
    <3>2. CASE stored # NoUser
      <4>1. by' = [[r \in Request |-> IF by[r] = b THEN NoTab ELSE by[r]] EXCEPT ![q] = b]
        BY <3>2 DEF Load
      <4>2. by' \in [Request -> Tab \cup {NoTab}]
        BY <4>1
      <4>3. fresh' \in [Request -> BOOLEAN]
        BY <3>2 DEF Load
      <4>4. /\ stage' = [stage EXCEPT ![q] = "sent"] /\ kind' = [kind EXCEPT ![q] = "session"]
            /\ token' = [token EXCEPT ![q] = cookie]
        BY <3>2 DEF Load
      <4> QED
        BY <4>2, <4>3, <4>4 DEF Stage
    <3> QED
      BY <3>1, <3>2
  <2>2. TokensTypeOK'
    BY <1>1 DEF TokensTypeOK, tokens, Exp
  <2> QED
    BY <1>1, <2>1, <2>2 DEF tokens
<1>4. AnswerSound'
  BY <1>1, <1>2 DEF AnswerSound
<1>5. FreshSound'
  BY <1>1, <1>2 DEF FreshSound
<1>6. TabActsAsShown'
  BY <1>1 DEF TabActsAsShown
<1>7. TokenSound'
  BY <1>1, <1>2 DEF TokenSound, Undelivered, tokens
<1>8. RevokedSound'
  BY <1>1, <1>2 DEF RevokedSound, tokens, Exp
<1>9. LimitSound'
  BY <1>1, <1>2 DEF LimitSound, At, tokens
<1> QED
  BY <1>3, <1>4, <1>5, <1>6, <1>7, <1>8, <1>9

LEMMA ServeWSStep ==
  ASSUME Inv, NEW b \in Tab, ServeWS(b)
  PROVE  Inv'
<1> USE NobodyAssumption DEF Inv, TypeOK
<1>1. /\ identity[b] # NoUser /\ cookie # NoToken
      /\ sock' = [sock EXCEPT ![b] = cookie.user]
      /\ UNCHANGED <<tokens, accounts, requests, cookie, stored, identity, confirmed, kept, asks>>
  BY DEF ServeWS, Accepts, Parse
<1>2. cookie.user \in User
  BY <1>1 DEF TokensTypeOK, Token
<1>3. TypeOK'
  BY <1>1, <1>2 DEF TokensTypeOK, tokens, requests
<1>4. AnswerSound' /\ TokenSound' /\ RevokedSound' /\ LimitSound'
  BY <1>1 DEF AnswerSound, TokenSound, Undelivered, RevokedSound, LimitSound, At, tokens,
       requests
<1>5. FreshSound'
  BY <1>1 DEF FreshSound, requests
<1>6. TabActsAsShown'
  BY <1>1 DEF TabActsAsShown
<1> QED
  BY <1>3, <1>4, <1>5, <1>6

LEMMA SocketDropsStep ==
  ASSUME Inv, NEW b \in Tab, SocketDrops(b)
  PROVE  Inv'
<1> USE NobodyAssumption DEF Inv, TypeOK
<1>1. /\ sock' = [sock EXCEPT ![b] = NoUser]
      /\ UNCHANGED <<tokens, accounts, requests, cookie, stored, identity, confirmed, kept, asks>>
  BY DEF SocketDrops
<1>2. TypeOK'
  BY <1>1 DEF TokensTypeOK, tokens, requests
<1>3. AnswerSound' /\ TokenSound' /\ RevokedSound' /\ LimitSound'
  BY <1>1 DEF AnswerSound, TokenSound, Undelivered, RevokedSound, LimitSound, At, tokens,
       requests
<1>4. FreshSound' /\ TabActsAsShown'
  BY <1>1 DEF FreshSound, TabActsAsShown, requests
<1> QED
  BY <1>2, <1>3, <1>4

-----------------------------------------------------------------------------
(* The server.                                                             *)

\* A step of the server that issues and revokes nothing: the request goes on, or
\* it is refused, or it is a session check that goes well.
LEMMA RequestMoves ==
  ASSUME Inv, NEW q \in Request, NEW s \in Stage \ {"idle"}, NEW g \in BOOLEAN,
         NEW u \in User \cup {NoUser},
         stage[q] # "idle", ~(kind[q] = "logout" /\ stage[q] = "answered"),
         stage' = [stage EXCEPT ![q] = s],
         good' = [good EXCEPT ![q] = g],
         who' = [who EXCEPT ![q] = u],
         g => s = "answered" /\ kind[q] \in {"register", "session"},
         kind[q] \in {"register", "login", "guest"} => u = who[q],
         g /\ kind[q] = "session" => token[q] # NoToken /\ u = token[q].user,
         UNCHANGED <<now, black, issued, twins, revoked, kind, by, token, fresh, browser>>
  PROVE  /\ stage' \in [Request -> Stage] /\ good' \in [Request -> BOOLEAN]
         /\ who' \in [Request -> User \cup {NoUser}]
         /\ AnswerSound' /\ FreshSound' /\ TabActsAsShown' /\ TokenSound' /\ RevokedSound'
<1> USE DEF Inv, TypeOK
<1>1. /\ stage' \in [Request -> Stage] /\ good' \in [Request -> BOOLEAN]
      /\ who' \in [Request -> User \cup {NoUser}]
  OBVIOUS
<1>2. AnswerSound'
  BY DEF AnswerSound
<1>3. FreshSound' /\ TabActsAsShown'
  BY DEF FreshSound, TabActsAsShown, browser
<1>4. TokenSound'
  BY DEF TokenSound, Undelivered, browser
<1>5. RevokedSound'
  BY DEF RevokedSound, browser, Exp
<1> QED
  BY <1>1, <1>2, <1>3, <1>4, <1>5

\* Nothing of the tokens and accounts changes with it.
LEMMA TypesMove ==
  ASSUME Inv, stage' \in [Request -> Stage], good' \in [Request -> BOOLEAN],
         who' \in [Request -> User \cup {NoUser}], accounts' \subseteq User,
         UNCHANGED <<tokens, kind, by, token, fresh, browser>>
  PROVE  TypeOK'
BY DEF Inv, TypeOK, TokensTypeOK, tokens, browser, Exp

\* Going on and refusing are such moves.
LEMMA PassMoves ==
  ASSUME Inv, NEW q \in Request, NEW s \in Stage \ {"idle", "answered"}, Pass(q, s),
         stage[q] \notin {"idle", "answered"}
  PROVE  /\ stage' = [stage EXCEPT ![q] = s]
         /\ good' = [good EXCEPT ![q] = FALSE]
         /\ who' = [who EXCEPT ![q] = who[q]]
         /\ UNCHANGED <<kind, by, token, fresh>>
<1>1. good[q] = FALSE
  BY DEF Inv, TypeOK, AnswerSound
<1> QED
  BY <1>1 DEF Inv, TypeOK, Pass

LEMMA RefuseMoves ==
  ASSUME Inv, NEW q \in Request, Refuse(q)
  PROVE  /\ stage' = [stage EXCEPT ![q] = "answered"]
         /\ good' = [good EXCEPT ![q] = FALSE]
         /\ who' = [who EXCEPT ![q] = who[q]]
         /\ UNCHANGED <<kind, by, token, fresh>>
BY DEF Inv, TypeOK, Refuse, Answer

LEMMA LimiterStep ==
  ASSUME Inv, NEW q \in Request, LoginRateLimiter(q)
  PROVE  Inv'
<1> USE DEF Inv, TypeOK, TokensTypeOK
<1>1. /\ kind[q] = "login" /\ stage[q] = "sent" /\ UNCHANGED <<accounts, browser>>
      /\ UNCHANGED <<now, black, deadline, issued, twins, revoked>>
      /\ count' \in {count, count + 1}
      /\ stuck' \in BOOLEAN /\ (stuck => stuck')
  BY DEF LoginRateLimiter, At, Incr, IncrUnanswered, tokens
<1>2. PICK s \in {"handler", "expire", "answered"} :
        /\ \/ Pass(q, s) /\ s # "answered"
           \/ Refuse(q) /\ s = "answered"
        /\ \/ count' = count /\ s = "handler"
           \/ count' = count + 1 /\ (s = "expire" <=> count' = 1)
           \/ count' = count + 1 /\ s = "handler" /\ (count > 0 \/ stuck')
  <2>1. CASE Pass(q, "handler") /\ UNCHANGED tokens
    BY <2>1 DEF tokens
  <2>3. CASE Pass(q, "handler") /\ IncrUnanswered
    <3>1. count > 0 \/ count = 0
      OBVIOUS
    <3>2. count = 0 => stuck'
      BY <2>3 DEF IncrUnanswered
    <3>3. count' = count + 1
      BY <2>3 DEF IncrUnanswered
    <3> QED
      BY <2>3, <3>1, <3>2, <3>3
  <2>2. CASE /\ Incr
             /\ IF count' = 1 THEN Pass(q, "expire")
                ELSE IF count' > Limit THEN Refuse(q) ELSE Pass(q, "handler")
    BY <2>2 DEF Incr
  <2> QED
    BY <2>1, <2>2, <2>3 DEF LoginRateLimiter
<1>3. /\ stage' = [stage EXCEPT ![q] = s]
      /\ good' = [good EXCEPT ![q] = FALSE]
      /\ who' = [who EXCEPT ![q] = who[q]]
      /\ UNCHANGED <<kind, by, token, fresh>>
  BY <1>1, <1>2, PassMoves, RefuseMoves DEF Stage
<1>4. /\ stage' \in [Request -> Stage] /\ good' \in [Request -> BOOLEAN]
      /\ who' \in [Request -> User \cup {NoUser}]
      /\ AnswerSound' /\ FreshSound' /\ TabActsAsShown' /\ TokenSound' /\ RevokedSound'
  BY <1>1, <1>2, <1>3, RequestMoves DEF Stage
<1>5. TypeOK'
  BY <1>1, <1>3, <1>4 DEF browser, Exp
<1>6. LimitSound'
  <2>1. \A r \in Request : At(r, "login", "expire")' =>
                            At(r, "login", "expire") \/ (r = q /\ s = "expire")
    BY <1>1, <1>3 DEF At
  <2>2. \A r \in Request : At(r, "login", "expire") => At(r, "login", "expire")'
    BY <1>1, <1>3 DEF At
  <2>3. s = "expire" => At(q, "login", "expire")'
    BY <1>1, <1>3 DEF At
  <2> QED
    BY <1>1, <1>2, <2>1, <2>2, <2>3, TokenAssumption DEF LimitSound
<1> QED
  BY <1>4, <1>5, <1>6

LEMMA SetExpiryStep ==
  ASSUME Inv, NEW q \in Request, SetExpiry(q)
  PROVE  Inv'
<1> USE DEF Inv, TypeOK, TokensTypeOK
<1>1. /\ kind[q] = "login" /\ stage[q] = "expire" /\ UNCHANGED <<accounts, browser>>
      /\ UNCHANGED <<now, black, count, issued, twins, revoked>>
      /\ \/ deadline' = now + Window /\ stuck' = stuck
         \/ stuck' = TRUE /\ deadline' = deadline
  BY DEF SetExpiry, ExpireCount, At
<1>2. /\ stage' = [stage EXCEPT ![q] = "handler"]
      /\ good' = [good EXCEPT ![q] = FALSE]
      /\ who' = [who EXCEPT ![q] = who[q]]
      /\ UNCHANGED <<kind, by, token, fresh>>
  BY <1>1, PassMoves DEF SetExpiry, Stage
<1>3. /\ stage' \in [Request -> Stage] /\ good' \in [Request -> BOOLEAN]
      /\ who' \in [Request -> User \cup {NoUser}]
      /\ AnswerSound' /\ FreshSound' /\ TabActsAsShown' /\ TokenSound' /\ RevokedSound'
  BY <1>1, <1>2, RequestMoves DEF Stage
<1>4. Window \in Nat \ {0}
  BY TokenAssumption
<1>5. deadline' \in Nat /\ stuck' \in BOOLEAN
  <2>1. deadline' \in Nat
    BY <1>1, <1>4
  <2>2. stuck' \in BOOLEAN
    BY <1>1
  <2> QED
    BY <2>1, <2>2
<1>6. TypeOK'
  BY <1>1, <1>2, <1>3, <1>5 DEF browser, Exp
<1>7. LimitSound'
  <2>1. \A r \in Request : r # q /\ At(r, "login", "expire")' => At(r, "login", "expire")
    BY <1>2 DEF At
  <2>2. count > 0 /\ deadline = 0 /\ ~At(q, "login", "expire")'
    BY <1>1, <1>2 DEF LimitSound, At
  <2>3. \A r \in Request : ~At(r, "login", "expire")'
    <3>1. \A r \in Request : At(r, "login", "expire") => r = q
      BY <1>1 DEF LimitSound, At
    <3> QED
      BY <2>1, <2>2, <3>1
  <2>4. CASE deadline' = now + Window
    BY <1>1, <1>4, <2>2, <2>3, <2>4 DEF LimitSound
  <2>5. CASE stuck' = TRUE /\ deadline' = deadline
    BY <1>1, <1>4, <2>2, <2>3, <2>5 DEF LimitSound
  <2> QED
    BY <1>1, <2>4, <2>5
<1> QED
  BY <1>3, <1>6, <1>7

\* A step that leaves the counter alone keeps its end.
LEMMA LimitKeeps ==
  ASSUME LimitSound, UNCHANGED <<now, count, deadline, stuck>>,
         \A r \in Request : At(r, "login", "expire")' <=> At(r, "login", "expire")
  PROVE  LimitSound'
BY DEF LimitSound

\* The refusals, and the successes that bring no new token.
LEMMA AnswersStep ==
  ASSUME Inv, NEW q \in Request,
         FindByUsername(q) \/ CreateUser(q) \/ CheckSession(q) \/ Fail(q)
  PROVE  Inv'
<1> USE DEF Inv, TypeOK, TokensTypeOK
<1>1. /\ UNCHANGED <<tokens, browser>> /\ accounts' \subseteq User
      /\ stage[q] \in {"sent", "create", "handler"}
      /\ kind[q] \in {"register", "login", "guest", "session"}
  <2>1. kind[q] \in {"register", "login", "guest"} => who[q] \in User
    BY DEF AnswerSound
  <2> QED
    BY <2>1 DEF FindByUsername, CreateUser, CheckSession, Fail, At
<1>2. CASE Refuse(q)
  <2>1. /\ stage' = [stage EXCEPT ![q] = "answered"]
        /\ good' = [good EXCEPT ![q] = FALSE]
        /\ who' = [who EXCEPT ![q] = who[q]]
        /\ UNCHANGED <<kind, by, token, fresh>>
    BY <1>2, RefuseMoves
  <2>2. /\ stage' \in [Request -> Stage] /\ good' \in [Request -> BOOLEAN]
        /\ who' \in [Request -> User \cup {NoUser}]
        /\ AnswerSound' /\ FreshSound' /\ TabActsAsShown' /\ TokenSound' /\ RevokedSound'
    BY <1>1, <2>1, RequestMoves DEF Stage, tokens
  <2>3. TypeOK'
    BY <1>1, <2>1, <2>2, TypesMove
  <2>4. LimitSound'
    BY <1>1, <2>1, LimitKeeps DEF At, tokens
  <2> QED
    BY <2>2, <2>3, <2>4
<1>3. CASE Pass(q, "create")
  <2>1. /\ stage' = [stage EXCEPT ![q] = "create"]
        /\ good' = [good EXCEPT ![q] = FALSE]
        /\ who' = [who EXCEPT ![q] = who[q]]
        /\ UNCHANGED <<kind, by, token, fresh>>
    BY <1>1, <1>3, PassMoves DEF Stage
  <2>2. /\ stage' \in [Request -> Stage] /\ good' \in [Request -> BOOLEAN]
        /\ who' \in [Request -> User \cup {NoUser}]
        /\ AnswerSound' /\ FreshSound' /\ TabActsAsShown' /\ TokenSound' /\ RevokedSound'
    BY <1>1, <2>1, RequestMoves DEF Stage, tokens
  <2>3. TypeOK'
    BY <1>1, <2>1, <2>2, TypesMove
  <2>4. LimitSound'
    BY <1>1, <2>1, LimitKeeps DEF At, tokens
  <2> QED
    BY <2>2, <2>3, <2>4
<1>4. ASSUME kind[q] = "session", token[q] # NoToken,
             Answer(q, TRUE, token[q].user, token[q])
      PROVE  Inv'
  <2>1. token[q].user \in User
    BY <1>4 DEF Token
  <2>2. /\ stage' = [stage EXCEPT ![q] = "answered"]
        /\ good' = [good EXCEPT ![q] = TRUE]
        /\ who' = [who EXCEPT ![q] = token[q].user]
        /\ UNCHANGED <<kind, by, token, fresh>>
    BY <1>4 DEF Answer
  <2>3. /\ stage' \in [Request -> Stage] /\ good' \in [Request -> BOOLEAN]
        /\ who' \in [Request -> User \cup {NoUser}]
        /\ AnswerSound' /\ FreshSound' /\ TabActsAsShown' /\ TokenSound' /\ RevokedSound'
    BY <1>1, <1>4, <2>1, <2>2, RequestMoves DEF Stage, tokens
  <2>4. TypeOK'
    BY <1>1, <2>2, <2>3, TypesMove
  <2>5. LimitSound'
    BY <1>1, <2>2, LimitKeeps DEF At, tokens
  <2> QED
    BY <2>3, <2>4, <2>5
<1>5. ASSUME kind[q] = "register", Answer(q, TRUE, who[q], NoToken)
      PROVE  Inv'
  <2>1. who[q] \in User
    BY <1>5 DEF AnswerSound
  <2>2. /\ stage' = [stage EXCEPT ![q] = "answered"]
        /\ good' = [good EXCEPT ![q] = TRUE]
        /\ who' = who
        /\ token' = [token EXCEPT ![q] = NoToken]
        /\ UNCHANGED <<kind, by, fresh>>
    BY <1>5 DEF Answer
  <2>3. TypeOK'
    BY <1>1, <2>2 DEF Stage, tokens, browser, Exp
  <2>4. AnswerSound'
    BY <1>5, <2>1, <2>2 DEF AnswerSound
  <2>5. FreshSound' /\ TabActsAsShown'
    BY <1>1, <1>5, <2>2 DEF FreshSound, TabActsAsShown, browser
  <2>6. TokenSound'
    <3>1. NoToken \notin issued
      BY TokenAssumption
    <3>2. \A r \in Request : Undelivered(r)' => Undelivered(r) /\ token'[r] = token[r] /\ token[r] # NoToken
      BY <1>5, <2>2 DEF Undelivered, AnswerSound
    <3>3. \A r \in Request : token'[r] \in {token[r], NoToken}
      BY <2>2
    <3> QED
      BY <1>1, <3>2, <3>3 DEF TokenSound, browser, tokens
  <2>7. RevokedSound'
    BY <1>1, <1>5, <2>2 DEF RevokedSound, browser, tokens, Exp
  <2>8. LimitSound'
    BY <1>1, <1>5, <2>2, LimitKeeps DEF At, tokens
  <2> QED
    BY <2>3, <2>4, <2>5, <2>6, <2>7, <2>8
<1> QED
  BY <1>2, <1>3, <1>4, <1>5 DEF FindByUsername, CreateUser, CheckSession, Fail, At, Accepts, Parse

\* A new token is nowhere but in its answer, unless it was issued before.
LEMMA IssueStep ==
  ASSUME Inv, NEW q \in Request, stage[q] \in {"sent", "handler"}, kind[q] \in {"login", "guest"},
         Generate(Issue(who[q])), Answer(q, TRUE, who[q], Issue(who[q])),
         accounts' \subseteq User, UNCHANGED browser
  PROVE  Inv'
<1> USE DEF Inv, TypeOK, TokensTypeOK
<1> DEFINE t == Issue(who[q])
<1>1. who[q] \in User
  BY DEF AnswerSound
<1>2. t \in Token /\ t.iat = now /\ t.user = who[q] /\ t # NoToken
  BY <1>1, TokenAssumption DEF Issue, Token
<1>3. /\ stage' = [stage EXCEPT ![q] = "answered"]
      /\ good' = [good EXCEPT ![q] = TRUE]
      /\ who' = who
      /\ token' = [token EXCEPT ![q] = t]
      /\ UNCHANGED <<kind, by, fresh>>
  BY DEF Answer
<1>4. /\ issued' = issued \cup {t}
      /\ twins' = IF t \in issued THEN twins \cup {t} ELSE twins
      /\ UNCHANGED <<now, black, count, deadline, revoked, stuck>>
  BY DEF Generate
<1> HIDE DEF t
<1>5. TypeOK'
  <2>1. TokensTypeOK'
    <3>1. issued' \subseteq Token /\ twins' \subseteq issued' /\ revoked' \subseteq issued'
      BY <1>2, <1>4
    <3>2. \A x \in issued' : x.iat <= now'
      BY <1>2, <1>4
    <3> QED
      BY <1>4, <3>1, <3>2 DEF Exp
  <2>2. /\ stage' \in [Request -> Stage] /\ good' \in [Request -> BOOLEAN]
        /\ token' \in [Request -> issued' \cup {NoToken}]
    BY <1>3, <1>4 DEF Stage
  <2>3. cookie' \in issued' \cup {NoToken} /\ kept' \subseteq issued'
    BY <1>4 DEF browser
  <2> QED
    BY <1>3, <2>1, <2>2, <2>3 DEF browser
<1>6. AnswerSound'
  BY <1>1, <1>2, <1>3 DEF AnswerSound
<1>7. FreshSound' /\ TabActsAsShown'
  BY <1>3 DEF FreshSound, TabActsAsShown, browser
<1>8. TokenSound'
  <2>1. CASE t \in issued
    <3>1. t \in twins' /\ twins \subseteq twins'
      BY <1>4, <2>1
    <3>2. \A r \in Request \ {q} : Undelivered(r)' => Undelivered(r) /\ token'[r] = token[r]
      BY <1>3 DEF Undelivered
    <3> QED
      BY <1>3, <1>4, <3>1, <3>2 DEF TokenSound, browser
  <2>2. CASE t \notin issued
    <3>1. \A r \in Request \ {q} : token'[r] = token[r] /\ token[r] # t
      BY <1>2, <1>3, <2>2
    <3>2. cookie # t /\ t \notin revoked
      BY <1>2, <2>2
    <3>3. \A r \in Request \ {q} : Undelivered(r)' => Undelivered(r)
      BY <1>3 DEF Undelivered
    <3> QED
      BY <1>3, <1>4, <2>2, <3>1, <3>2, <3>3 DEF TokenSound, browser
  <2> QED
    BY <2>1, <2>2
<1>9. RevokedSound'
  BY <1>3, <1>4 DEF RevokedSound, browser, Exp
<1>10. LimitSound'
  BY <1>3, <1>4, LimitKeeps DEF At
<1> QED
  BY <1>5, <1>6, <1>7, <1>8, <1>9, <1>10

LEMMA LoginStep ==
  ASSUME Inv, NEW q \in Request, Login(q) \/ GuestLogin(q)
  PROVE  Inv'
<1>1. stage[q] \in {"sent", "handler"} /\ kind[q] \in {"login", "guest"} /\ UNCHANGED browser
  BY DEF Login, GuestLogin, At
<1>2. who[q] \in User
  BY <1>1 DEF Inv, AnswerSound
<1>3. accounts' \subseteq User
  BY <1>2 DEF Login, GuestLogin, Inv, TypeOK
<1>4. CASE Generate(Issue(who[q])) /\ Answer(q, TRUE, who[q], Issue(who[q]))
  BY <1>1, <1>3, <1>4, IssueStep
<1>5. CASE Refuse(q) /\ UNCHANGED tokens
  <2>1. /\ stage' = [stage EXCEPT ![q] = "answered"]
        /\ good' = [good EXCEPT ![q] = FALSE]
        /\ who' = [who EXCEPT ![q] = who[q]]
        /\ UNCHANGED <<kind, by, token, fresh>>
    BY <1>5, RefuseMoves
  <2>2. /\ stage' \in [Request -> Stage] /\ good' \in [Request -> BOOLEAN]
        /\ who' \in [Request -> User \cup {NoUser}]
        /\ AnswerSound' /\ FreshSound' /\ TabActsAsShown' /\ TokenSound' /\ RevokedSound'
    BY <1>1, <1>2, <1>5, <2>1, RequestMoves DEF Stage, tokens
  <2>3. TypeOK'
    BY <1>1, <1>3, <1>5, <2>1, <2>2, TypesMove
  <2>4. LimitSound'
    BY <1>1, <1>5, <2>1, LimitKeeps DEF At, tokens, Inv, TypeOK
  <2> QED
    BY <2>2, <2>3, <2>4 DEF Inv
<1> QED
  BY <1>4, <1>5 DEF Login, GuestLogin

LEMMA RevokeStep ==
  ASSUME Inv, NEW q \in Request, Revoke(q)
  PROVE  Inv'
<1> USE DEF Inv, TypeOK, TokensTypeOK
<1>1. kind[q] = "logout" /\ stage[q] = "sent" /\ UNCHANGED <<accounts, browser>>
  BY DEF Revoke, At
<1>2. CASE Refuse(q) /\ UNCHANGED tokens
  <2>1. /\ stage' = [stage EXCEPT ![q] = "answered"]
        /\ good' = [good EXCEPT ![q] = FALSE]
        /\ who' = [who EXCEPT ![q] = who[q]]
        /\ UNCHANGED <<kind, by, token, fresh>>
    BY <1>2, RefuseMoves
  <2>2. /\ stage' \in [Request -> Stage] /\ good' \in [Request -> BOOLEAN]
        /\ who' \in [Request -> User \cup {NoUser}]
        /\ AnswerSound' /\ FreshSound' /\ TabActsAsShown' /\ TokenSound' /\ RevokedSound'
    BY <1>1, <1>2, <2>1, RequestMoves DEF Stage, tokens
  <2>3. TypeOK'
    BY <1>1, <1>2, <2>1, <2>2, TypesMove
  <2>4. LimitSound'
    BY <1>1, <1>2, <2>1, LimitKeeps DEF At, tokens
  <2> QED
    BY <2>2, <2>3, <2>4
<1>3. ASSUME token[q] # NoToken, Answer(q, TRUE, NoUser, token[q]),
             Blacklist(token[q]) \/ UNCHANGED tokens
      PROVE  Inv'
  <2> DEFINE t == token[q]
  <2>1. t \in issued /\ t \in Token /\ Exp(t) \in Nat
    BY <1>3, TokenAssumption DEF Exp, Token
  <2>2. /\ stage' = [stage EXCEPT ![q] = "answered"]
        /\ good' = [good EXCEPT ![q] = TRUE]
        /\ who' = [who EXCEPT ![q] = NoUser]
        /\ UNCHANGED <<kind, by, token, fresh>>
    BY <1>3 DEF Answer
  <2>3. /\ \/ black' = [black EXCEPT ![t] = Exp(t)] /\ revoked' = revoked \cup {t}
           \/ black' = black /\ revoked' = revoked
        /\ UNCHANGED <<now, count, deadline, issued, twins, stuck>>
    BY <1>3 DEF Blacklist, tokens
  <2> HIDE DEF t
  <2>4. TypeOK'
    <3>1. black' \in [Token -> Nat] /\ revoked' \subseteq issued
      BY <2>1, <2>3
    <3> QED
      BY <1>1, <2>2, <2>3, <3>1 DEF browser, Stage, Kind
  <2>5. AnswerSound'
    BY <1>1, <1>3, <2>2 DEF AnswerSound
  <2>6. FreshSound' /\ TabActsAsShown'
    BY <1>1, <2>2 DEF FreshSound, TabActsAsShown, browser
  <2>7. TokenSound'
    <3>1. \A r \in Request : Undelivered(r)' => Undelivered(r) /\ r # q
      BY <1>1, <2>2 DEF Undelivered
    <3>2. \A r \in Request : Undelivered(r)' /\ token[r] \notin twins => token[r] # t
      BY <1>1, <3>1 DEF TokenSound, t
    <3> QED
      BY <1>1, <2>2, <2>3, <3>1, <3>2 DEF TokenSound, browser
  <2>8. RevokedSound'
    <3>1. \A x \in revoked' : black'[x] = Exp(x)
      BY <2>1, <2>3 DEF RevokedSound
    <3>2. ASSUME cookie \in revoked'
          PROVE  \/ cookie \in twins \cup kept
                 \/ \E r \in Request : /\ kind[r] = "logout" /\ stage'[r] = "answered" /\ good'[r]
                                       /\ token[r] = cookie
      <4>1. CASE cookie = t
        BY <1>1, <2>2, <4>1 DEF t
      <4>2. CASE cookie \in revoked
        BY <1>1, <2>2, <4>2 DEF RevokedSound
      <4> QED
        BY <2>3, <3>2, <4>1, <4>2
    <3> QED
      BY <1>1, <2>2, <2>3, <3>1, <3>2 DEF RevokedSound, browser, Exp
  <2>9. LimitSound'
    BY <1>1, <2>2, <2>3, LimitKeeps DEF At
  <2> QED
    BY <2>4, <2>5, <2>6, <2>7, <2>8, <2>9
<1> QED
  BY <1>2, <1>3 DEF Revoke, Accepts, Parse

-----------------------------------------------------------------------------
(* The answers.                                                            *)

\* What a request that is over leaves.
LEMMA OverLeaves ==
  ASSUME Inv, NEW q \in Request, Over(q)
  PROVE  /\ stage' \in [Request -> Stage] /\ kind' \in [Request -> Kind]
         /\ by' \in [Request -> Tab \cup {NoTab}]
         /\ who' \in [Request -> User \cup {NoUser}]
         /\ token' \in [Request -> issued \cup {NoToken}]
         /\ good' \in [Request -> BOOLEAN]
         /\ stage'[q] = "idle" /\ kind'[q] = "session" /\ token'[q] = NoToken
         /\ good'[q] = FALSE
         /\ \A r \in Request \ {q} :
              /\ stage'[r] = stage[r] /\ kind'[r] = kind[r] /\ by'[r] = by[r]
              /\ who'[r] = who[r] /\ token'[r] = token[r] /\ good'[r] = good[r]
<1> USE DEF Over, Inv, TypeOK
<1>1. /\ stage' \in [Request -> Stage] /\ kind' \in [Request -> Kind]
      /\ by' \in [Request -> Tab \cup {NoTab}]
      /\ who' \in [Request -> User \cup {NoUser}]
      /\ token' \in [Request -> issued \cup {NoToken}]
  BY DEF Stage, Kind
<1>2. good' \in [Request -> BOOLEAN]
  OBVIOUS
<1>3. good'[q] = FALSE /\ \A r \in Request \ {q} : good'[r] = good[r]
  OBVIOUS
<1>4. /\ stage'[q] = "idle" /\ kind'[q] = "session" /\ token'[q] = NoToken
      /\ \A r \in Request \ {q} :
           /\ stage'[r] = stage[r] /\ kind'[r] = kind[r] /\ by'[r] = by[r]
           /\ who'[r] = who[r] /\ token'[r] = token[r]
  OBVIOUS
<1> QED
  BY <1>1, <1>2, <1>3, <1>4

\* A token that has not arrived is one.
LEMMA UndeliveredIsToken ==
  ASSUME Inv, NEW q \in Request, Undelivered(q)
  PROVE  token[q] \in issued /\ token[q] # NoToken /\ who[q] = token[q].user /\ who[q] \in User
BY DEF Inv, TypeOK, AnswerSound, Undelivered

LEMMA LoginArrivesStep ==
  ASSUME Inv, NEW q \in Request, LoginArrives(q)
  PROVE  Inv'
<1> USE NobodyAssumption DEF Inv, TypeOK
<1> DEFINE t == token[q]
           b == by[q]
<1>1. Undelivered(q) /\ cookie' = t /\ UNCHANGED <<tokens, accounts, kept, asks>>
  BY DEF LoginArrives, Undelivered
<1>2. t \in issued /\ t # NoToken /\ who[q] = t.user /\ who[q] \in User
  BY <1>1, UndeliveredIsToken
<1>3. \/ /\ Over(q) /\ fresh' = [r \in Request |-> FALSE]
         /\ confirmed' = [c \in Tab |-> FALSE]
         /\ \/ UNCHANGED <<stored, identity, sock>>
            \/ /\ b \in Tab
               /\ stored' = who[q] /\ identity' = [identity EXCEPT ![b] = who[q]] /\ sock' = sock
      \/ /\ b \in Tab /\ identity[b] = NoUser
         /\ stored' = who[q] /\ identity' = [identity EXCEPT ![b] = who[q]] /\ sock' = sock
         /\ confirmed' = [[c \in Tab |-> FALSE] EXCEPT ![b] = TRUE]
         /\ Ask(b, q, "session", NoUser, t)
         /\ fresh' = [r \in Request |-> r = q]
  <2>1. CASE b = NoTab
    BY <2>1 DEF LoginArrives, Write
  <2>2. CASE b # NoTab /\ identity[b] = NoUser
    BY <2>2 DEF LoginArrives
  <2>3. CASE b # NoTab /\ identity[b] # NoUser
    BY <2>3 DEF LoginArrives, Write
  <2> QED
    BY <2>1, <2>2, <2>3
<1> HIDE DEF t, b
<1>4. \A r \in Request : fresh'[r] => r = q /\ Ask(b, q, "session", NoUser, t)
  <2>1. CASE fresh' = [r \in Request |-> FALSE]
    BY <2>1
  <2>2. CASE fresh' = [r \in Request |-> r = q] /\ Ask(b, q, "session", NoUser, t)
    BY <2>2
  <2> QED
    BY <1>3, <2>1, <2>2
<1>5. fresh' \in [Request -> BOOLEAN] /\ confirmed' \in [Tab -> BOOLEAN]
  <2>1. fresh' \in [Request -> BOOLEAN]
    BY <1>3
  <2>2. confirmed' \in [Tab -> BOOLEAN]
    BY <1>3
  <2> QED
    BY <2>1, <2>2
<1>6. /\ stage' \in [Request -> Stage] /\ kind' \in [Request -> Kind]
      /\ by' \in [Request -> Tab \cup {NoTab}]
      /\ who' \in [Request -> User \cup {NoUser}]
      /\ token' \in [Request -> issued \cup {NoToken}]
      /\ good' \in [Request -> BOOLEAN]
  <2>1. CASE Over(q)
    BY <2>1, OverLeaves
  <2>2. CASE Ask(b, q, "session", NoUser, t) /\ b \in Tab
    <3>1. /\ stage' \in [Request -> Stage] /\ kind' \in [Request -> Kind]
          /\ by' \in [Request -> Tab \cup {NoTab}]
          /\ who' \in [Request -> User \cup {NoUser}]
          /\ token' \in [Request -> issued \cup {NoToken}]
      BY <1>2, <2>2 DEF Ask, Stage, Kind
    <3>2. good' \in [Request -> BOOLEAN]
      BY <2>2 DEF Ask
    <3> QED
      BY <3>1, <3>2
  <2> QED
    BY <1>3, <2>1, <2>2
<1>7. /\ stage'[q] \in {"idle", "sent"} /\ kind'[q] = "session" /\ token'[q] \in {t, NoToken}
      /\ good'[q] = FALSE
      /\ \A r \in Request \ {q} :
           /\ stage'[r] = stage[r] /\ kind'[r] = kind[r] /\ by'[r] = by[r]
           /\ who'[r] = who[r] /\ token'[r] = token[r] /\ good'[r] = good[r]
  <2>1. CASE Over(q)
    BY <2>1, OverLeaves
  <2>2. CASE Ask(b, q, "session", NoUser, t)
    <3>1. good'[q] = FALSE /\ \A r \in Request \ {q} : good'[r] = good[r]
      BY <2>2 DEF Ask
    <3>2. /\ stage'[q] = "sent" /\ kind'[q] = "session" /\ token'[q] = t
          /\ \A r \in Request \ {q} :
               /\ stage'[r] = stage[r] /\ kind'[r] = kind[r] /\ by'[r] = by[r]
               /\ who'[r] = who[r] /\ token'[r] = token[r]
      BY <2>2 DEF Ask
    <3> QED
      BY <3>1, <3>2
  <2> QED
    BY <1>3, <2>1, <2>2
<1>8. TypeOK'
  <2>1. TokensTypeOK'
    BY <1>1 DEF TokensTypeOK, tokens, Exp
  <2>2. /\ stored' \in User \cup {NoUser} /\ identity' \in [Tab -> User \cup {NoUser}]
        /\ sock' = sock
        /\ \A c \in Tab : identity'[c] = NoUser => sock[c] = NoUser
    BY <1>2, <1>3
  <2> QED
    BY <1>1, <1>2, <1>5, <1>6, <2>1, <2>2 DEF tokens
<1>9. AnswerSound'
  BY <1>7 DEF AnswerSound
<1>10. FreshSound'
  <2>1. ASSUME Ask(b, q, "session", NoUser, t)
        PROVE  token'[q] = t /\ (by'[q] # NoTab => sock'[by'[q]] = NoUser)
    <3>1. CASE Over(q)
      <4>1. stage'[q] = "idle" /\ stage'[q] = "sent"
        BY <2>1, <3>1 DEF Ask, Over
      <4> QED
        BY <4>1
    <3>2. CASE b \in Tab /\ identity[b] = NoUser /\ sock' = sock
      BY <2>1, <3>2 DEF Ask
    <3> QED
      BY <1>3, <3>1, <3>2
  <2> QED
    BY <1>1, <1>4, <2>1 DEF FreshSound
<1>11. TabActsAsShown'
  <2>1. CASE confirmed' = [c \in Tab |-> FALSE]
    BY <2>1 DEF TabActsAsShown
  <2>2. CASE /\ b \in Tab /\ identity[b] = NoUser
             /\ identity' = [identity EXCEPT ![b] = who[q]] /\ sock' = sock
             /\ confirmed' = [[c \in Tab |-> FALSE] EXCEPT ![b] = TRUE]
    <3>1. \A c \in Tab : confirmed'[c] => c = b
      BY <2>2
    <3>2. identity'[b] = t.user /\ sock'[b] = NoUser
      BY <1>2, <2>2
    <3> QED
      BY <1>1, <1>2, <3>1, <3>2 DEF TabActsAsShown
  <2> QED
    BY <1>3, <2>1, <2>2
<1>12. TokenSound'
  <2>1. \A r \in Request : Undelivered(r)' =>
           Undelivered(r) /\ r # q /\ token'[r] = token[r] /\ token[r] # NoToken
    BY <1>7, UndeliveredIsToken DEF Undelivered
  <2>2. \A r \in Request : token'[r] \in {token[r], NoToken}
    BY <1>7 DEF t
  <2> QED
    BY <1>1, <2>1, <2>2 DEF TokenSound, tokens, t
<1>13. RevokedSound'
  <2>1. t \in revoked => t \in twins
    BY <1>1 DEF TokenSound, t
  <2> QED
    BY <1>1, <2>1 DEF RevokedSound, tokens, Exp
<1>14. LimitSound'
  <2>1. \A r \in Request : At(r, "login", "expire")' <=> At(r, "login", "expire")
    BY <1>1, <1>7 DEF At, Undelivered
  <2> QED
    BY <1>1, <2>1, LimitKeeps DEF tokens
<1> QED
  BY <1>8, <1>9, <1>10, <1>11, <1>12, <1>13, <1>14

\* When a request is over, what was said of the others still holds.
LEMMA OverKeeps ==
  ASSUME Inv, NEW q \in Request, Over(q), stage[q] # "expire", UNCHANGED tokens
  PROVE  /\ AnswerSound' /\ LimitSound'
         /\ cookie' \in {cookie, NoToken} => TokenSound'
<1> USE DEF Inv, TypeOK
<1>1. AnswerSound'
  <2>1. /\ stage'[q] = "idle" /\ kind'[q] = "session" /\ good'[q] = FALSE
        /\ \A r \in Request \ {q} :
             /\ stage'[r] = stage[r] /\ kind'[r] = kind[r] /\ who'[r] = who[r]
             /\ token'[r] = token[r] /\ good'[r] = good[r]
    BY OverLeaves
  <2> QED
    BY <2>1 DEF AnswerSound
<1>2. LimitSound'
  <2>1. \A r \in Request : At(r, "login", "expire")' <=> At(r, "login", "expire")
    BY OverLeaves DEF At
  <2> QED
    BY <2>1, LimitKeeps DEF tokens
<1>3. ASSUME cookie' \in {cookie, NoToken}
      PROVE  TokenSound'
  <2>1. \A r \in Request : Undelivered(r)' =>
           Undelivered(r) /\ token'[r] = token[r] /\ token[r] # NoToken
    BY OverLeaves, UndeliveredIsToken DEF Undelivered
  <2>2. \A r \in Request : token'[r] \in {token[r], NoToken}
    BY OverLeaves
  <2> QED
    BY <1>3, <2>1, <2>2 DEF TokenSound, tokens
<1> QED
  BY <1>1, <1>2, <1>3

\* A request that is over leaves the session checks of the others as they were.
LEMMA OverKeepsFresh ==
  ASSUME Inv, NEW q \in Request, Over(q), UNCHANGED <<cookie, fresh>>,
         \A b \in Tab : sock'[b] \in {sock[b], NoUser}
  PROVE  FreshSound'
<1> SUFFICES ASSUME NEW r \in Request, kind'[r] = "session", stage'[r] # "idle", fresh'[r]
             PROVE  /\ token'[r] = cookie
                    /\ by'[r] # NoTab => \/ sock'[by'[r]] = NoUser
                                         \/ cookie # NoToken /\ sock'[by'[r]] = cookie.user
  BY DEF FreshSound
<1>1. r # q /\ kind[r] = "session" /\ stage[r] # "idle" /\ fresh[r]
      /\ token'[r] = token[r] /\ by'[r] = by[r]
  <2>1. r # q
    BY OverLeaves
  <2> QED
    BY <2>1, OverLeaves
<1>2. by[r] \in Tab \cup {NoTab}
  BY DEF Inv, TypeOK
<1> QED
  BY <1>1, <1>2 DEF Inv, FreshSound

\* Unless it is a logout, it says nothing of the revoked tokens.
LEMMA OverKeepsRevoked ==
  ASSUME Inv, NEW q \in Request, Over(q), kind[q] # "logout", UNCHANGED <<tokens, cookie, kept>>
  PROVE  RevokedSound'
<1>1. ASSUME NEW r \in Request, kind[r] = "logout", stage[r] = "answered", good[r],
             token[r] = cookie
      PROVE  kind'[r] = "logout" /\ stage'[r] = "answered" /\ good'[r] /\ token'[r] = cookie
  BY <1>1, OverLeaves
<1> QED
  BY <1>1 DEF Inv, RevokedSound, tokens, Exp

LEMMA SessionArrivesStep ==
  ASSUME Inv, NEW q \in Request, SessionArrives(q)
  PROVE  Inv'
<1> USE NobodyAssumption DEF Inv, TypeOK
<1> DEFINE b == by[q]
<1>1. /\ stage[q] = "answered" /\ good[q] /\ kind[q] = "session" /\ Over(q)
      /\ UNCHANGED <<tokens, accounts, cookie, stored, sock, kept, fresh, asks>>
  BY DEF SessionArrives
<1>2. \/ /\ b \in Tab
         /\ identity' = [identity EXCEPT ![b] = who[q]]
         /\ confirmed' = [confirmed EXCEPT ![b] = fresh[q]]
      \/ UNCHANGED <<identity, confirmed>>
  BY DEF SessionArrives
<1> HIDE DEF b
<1>3. token[q] \in issued /\ token[q] # NoToken /\ who[q] = token[q].user /\ who[q] \in User
  <2>1. token[q] \in issued /\ token[q] # NoToken /\ who[q] = token[q].user
    BY <1>1 DEF AnswerSound
  <2>2. token[q].user \in User
    BY <2>1 DEF TokensTypeOK, Token
  <2> QED
    BY <2>1, <2>2
<1>4. TypeOK'
  <2>1. TokensTypeOK'
    BY <1>1 DEF TokensTypeOK, tokens, Exp
  <2>2. /\ identity' \in [Tab -> User \cup {NoUser}]
        /\ \A c \in Tab : identity'[c] = NoUser => sock[c] = NoUser
    BY <1>2, <1>3
  <2>3. confirmed' \in [Tab -> BOOLEAN]
    BY <1>2
  <2> QED
    BY <1>1, <2>1, <2>2, <2>3, OverLeaves DEF tokens
<1>5. AnswerSound' /\ TokenSound' /\ LimitSound'
  BY <1>1, OverKeeps
<1>6. FreshSound'
  BY <1>1, OverKeepsFresh
<1>7. TabActsAsShown'
  <2>1. CASE UNCHANGED <<identity, confirmed>>
    BY <1>1, <2>1 DEF TabActsAsShown
  <2>2. CASE /\ b \in Tab
             /\ identity' = [identity EXCEPT ![b] = who[q]]
             /\ confirmed' = [confirmed EXCEPT ![b] = fresh[q]]
    <3>1. confirmed'[b] = fresh[q] /\ \A c \in Tab \ {b} : confirmed'[c] = confirmed[c]
      BY <2>2
    <3>2. identity'[b] = who[q] /\ \A c \in Tab \ {b} : identity'[c] = identity[c]
      BY <2>2
    <3>3. fresh[q] => token[q] = cookie /\ sock[b] \in {NoUser, cookie.user}
      BY <1>1, <2>2 DEF FreshSound, b
    <3>4. \A c \in Tab \ {b} : confirmed'[c] /\ identity'[c] # NoUser =>
             cookie # NoToken /\ cookie.user = identity'[c] /\ sock[c] \in {NoUser, identity'[c]}
      BY <3>1, <3>2 DEF TabActsAsShown
    <3>5. confirmed'[b] =>
             cookie # NoToken /\ cookie.user = identity'[b] /\ sock[b] \in {NoUser, identity'[b]}
      BY <1>3, <3>1, <3>2, <3>3
    <3> QED
      BY <1>1, <3>4, <3>5 DEF TabActsAsShown
  <2> QED
    BY <1>2, <2>1, <2>2
<1>8. RevokedSound'
  BY <1>1, OverKeepsRevoked
<1> QED
  BY <1>4, <1>5, <1>6, <1>7, <1>8

LEMMA LogoutArrivesStep ==
  ASSUME Inv, NEW q \in Request, LogoutArrives(q)
  PROVE  Inv'
<1> USE NobodyAssumption DEF Inv, TypeOK
<1>1. /\ stage[q] = "answered" /\ Over(q) /\ cookie' = NoToken
      /\ fresh' = [r \in Request |-> FALSE] /\ confirmed' = [b \in Tab |-> FALSE]
      /\ UNCHANGED <<tokens, accounts, stored, identity, sock, kept, asks>>
  BY DEF LogoutArrives, Write
<1>2. fresh' \in [Request -> BOOLEAN] /\ \A r \in Request : ~fresh'[r]
  <2>1. fresh' \in [Request -> BOOLEAN]
    BY <1>1
  <2>2. \A r \in Request : ~fresh'[r]
    BY <1>1
  <2> QED
    BY <2>1, <2>2
<1>3. confirmed' \in [Tab -> BOOLEAN] /\ \A b \in Tab : ~confirmed'[b]
  <2>1. confirmed' \in [Tab -> BOOLEAN]
    BY <1>1
  <2>2. \A b \in Tab : ~confirmed'[b]
    BY <1>1
  <2> QED
    BY <2>1, <2>2
<1>4. TypeOK'
  <2>1. TokensTypeOK'
    BY <1>1 DEF TokensTypeOK, tokens, Exp
  <2> QED
    BY <1>1, <1>2, <1>3, <2>1, OverLeaves DEF tokens
<1>5. AnswerSound' /\ TokenSound' /\ LimitSound'
  BY <1>1, OverKeeps
<1>6. FreshSound'
  BY <1>2 DEF FreshSound
<1>7. TabActsAsShown'
  BY <1>3 DEF TabActsAsShown
<1>8. RevokedSound'
  <2>1. NoToken \notin revoked
    BY TokenAssumption DEF TokensTypeOK
  <2> QED
    BY <1>1, <2>1 DEF RevokedSound, tokens, Exp
<1> QED
  BY <1>4, <1>5, <1>6, <1>7, <1>8

LEMMA RegisterArrivesStep ==
  ASSUME Inv, NEW q \in Request, RegisterArrives(q)
  PROVE  Inv'
<1> USE NobodyAssumption DEF Inv, TypeOK
<1>1. /\ stage[q] = "answered" /\ kind[q] = "register" /\ Over(q)
      /\ UNCHANGED <<tokens, accounts, browser, fresh>>
  BY DEF RegisterArrives
<1>2. TypeOK'
  <2>1. TokensTypeOK'
    BY <1>1 DEF TokensTypeOK, tokens, Exp
  <2> QED
    BY <1>1, <2>1, OverLeaves DEF tokens, browser
<1>3. AnswerSound' /\ TokenSound' /\ LimitSound'
  BY <1>1, OverKeeps DEF browser
<1>4. FreshSound' /\ TabActsAsShown'
  BY <1>1, OverKeepsFresh DEF TabActsAsShown, browser
<1>5. RevokedSound'
  BY <1>1, OverKeepsRevoked DEF browser
<1> QED
  BY <1>2, <1>3, <1>4, <1>5

LEMMA RequestFailsStep ==
  ASSUME Inv, NEW q \in Request, RequestFails(q)
  PROVE  Inv'
<1> USE NobodyAssumption DEF Inv, TypeOK
<1> DEFINE b == by[q]
<1>1. /\ stage[q] \in {"sent", "answered"} /\ Over(q)
      /\ UNCHANGED <<tokens, accounts, cookie, fresh, asks>>
      /\ kept' = IF At(q, "logout", "answered") /\ good[q] THEN kept \cup {token[q]} ELSE kept
  BY DEF RequestFails
<1>2. \/ b \in Tab /\ ShowNobody(b)
      \/ UNCHANGED <<identity, stored, sock, confirmed>>
  BY DEF RequestFails
<1> HIDE DEF b
<1>3. /\ identity' \in [Tab -> User \cup {NoUser}] /\ stored' \in User \cup {NoUser}
      /\ sock' \in [Tab -> User \cup {NoUser}]
      /\ \A c \in Tab : identity'[c] = NoUser => sock'[c] = NoUser
      /\ \A c \in Tab : sock'[c] \in {sock[c], NoUser} /\ identity'[c] \in {identity[c], NoUser}
  BY <1>2 DEF ShowNobody
<1>4. confirmed' \in [Tab -> BOOLEAN] /\ \A c \in Tab : confirmed'[c] => confirmed[c]
  <2>1. CASE confirmed' = [confirmed EXCEPT ![b] = FALSE]
    <3>1. confirmed' \in [Tab -> BOOLEAN]
      BY <2>1
    <3>2. \A c \in Tab : confirmed'[c] => confirmed[c]
      BY <2>1
    <3> QED
      BY <3>1, <3>2
  <2> QED
    BY <1>2, <2>1 DEF ShowNobody
<1>5. TypeOK'
  <2>1. TokensTypeOK'
    BY <1>1 DEF TokensTypeOK, tokens, Exp
  <2>2. kept' \subseteq issued
    <3>1. At(q, "logout", "answered") /\ good[q] => token[q] \in issued \cup {NoToken}
      OBVIOUS
    <3>2. At(q, "logout", "answered") /\ good[q] => token[q] # NoToken
      BY DEF AnswerSound, At
    <3> QED
      BY <1>1, <3>1, <3>2
  <2> QED
    BY <1>1, <1>3, <1>4, <2>1, <2>2, OverLeaves DEF tokens
<1>6. AnswerSound' /\ TokenSound' /\ LimitSound'
  BY <1>1, OverKeeps
<1>7. FreshSound'
  BY <1>1, <1>3, OverKeepsFresh
<1>8. TabActsAsShown'
  BY <1>1, <1>3, <1>4 DEF TabActsAsShown
<1>9. RevokedSound'
  <2>1. ASSUME cookie \in revoked
        PROVE  \/ cookie \in twins \cup kept'
               \/ \E r \in Request : /\ kind'[r] = "logout" /\ stage'[r] = "answered" /\ good'[r]
                                     /\ token'[r] = cookie
    <3>1. CASE cookie \in twins \cup kept
      BY <1>1, <3>1
    <3>2. CASE \E r \in Request : /\ kind[r] = "logout" /\ stage[r] = "answered" /\ good[r]
                                  /\ token[r] = cookie
      <4>1. PICK r \in Request : /\ kind[r] = "logout" /\ stage[r] = "answered" /\ good[r]
                                 /\ token[r] = cookie
        BY <3>2
      <4>2. CASE r = q
        BY <1>1, <4>1, <4>2 DEF At
      <4>3. CASE r # q
        BY <1>1, <4>1, <4>3, OverLeaves
      <4> QED
        BY <4>2, <4>3
    <3> QED
      BY <2>1, <3>1, <3>2 DEF RevokedSound
  <2> QED
    BY <1>1, <2>1 DEF RevokedSound, tokens, Exp
<1> QED
  BY <1>5, <1>6, <1>7, <1>8, <1>9

-----------------------------------------------------------------------------
(* Time, and the whole.                                                    *)

LEMMA TimePassesStep ==
  ASSUME Inv, TimePasses
  PROVE  Inv'
<1> USE DEF Inv
<1>1. /\ now' = now + 1 /\ now < MaxTime /\ now \in Nat
      /\ UNCHANGED <<black, issued, twins, revoked, stuck, accounts, requests, browser>>
      /\ \/ deadline = now' /\ count' = 0 /\ deadline' = 0
         \/ deadline # now' /\ count' = count /\ deadline' = deadline
  BY TokenAssumption DEF TimePasses, Tick, TypeOK, TokensTypeOK
<1>2. TypeOK'
  <2>1. now' \in 0..MaxTime /\ count' \in Nat /\ deadline' \in Nat
    BY <1>1, TokenAssumption DEF TypeOK, TokensTypeOK
  <2>2. \A t \in issued : t.iat <= now'
    BY <1>1 DEF TypeOK, TokensTypeOK, Token
  <2>3. TokensTypeOK'
    BY <1>1, <2>1, <2>2 DEF TypeOK, TokensTypeOK
  <2> QED
    BY <1>1, <2>3 DEF TypeOK, requests, browser
<1>3. AnswerSound' /\ FreshSound' /\ TabActsAsShown'
  BY <1>1 DEF AnswerSound, FreshSound, TabActsAsShown, requests, browser
<1>4. TokenSound' /\ RevokedSound'
  BY <1>1 DEF TokenSound, Undelivered, RevokedSound, Exp, requests, browser
<1>5. LimitSound'
  <2>1. \A r \in Request : At(r, "login", "expire")' <=> At(r, "login", "expire")
    BY <1>1 DEF At, requests
  <2>2. now \in Nat /\ count \in Nat /\ deadline \in Nat /\ Window \in Nat
    BY <1>1, TokenAssumption DEF TypeOK, TokensTypeOK
  <2> DEFINE E(r) == At(r, "login", "expire")
  <2>3. deadline = now' => \A r \in Request : ~E(r)
    BY <1>1, <2>2 DEF LimitSound
  <2>4. CASE deadline = now' /\ count' = 0 /\ deadline' = 0
    BY <1>1, <2>1, <2>2, <2>3, <2>4 DEF LimitSound
  <2>5. CASE deadline # now' /\ count' = count /\ deadline' = deadline
    BY <1>1, <2>1, <2>2, <2>5 DEF LimitSound
  <2> QED
    BY <1>1, <2>4, <2>5
<1> QED
  BY <1>2, <1>3, <1>4, <1>5

LEMMA StutterStep ==
  ASSUME Inv, UNCHANGED vars
  PROVE  Inv'
<1> USE DEF Inv, vars, tokens, requests, browser
<1>1. TypeOK'
  BY DEF TypeOK, TokensTypeOK, Exp
<1>2. AnswerSound' /\ FreshSound' /\ TabActsAsShown'
  BY DEF AnswerSound, FreshSound, TabActsAsShown
<1>3. TokenSound' /\ RevokedSound'
  BY DEF TokenSound, Undelivered, RevokedSound, Exp
<1>4. LimitSound'
  BY LimitKeeps DEF At
<1> QED
  BY <1>1, <1>2, <1>3, <1>4

LEMMA InvStep == Inv /\ [Next]_vars => Inv'
<1> SUFFICES ASSUME Inv, [Next]_vars PROVE Inv'
  OBVIOUS
<1>1. ASSUME NEW b \in Tab, Page(b) PROVE Inv'
  BY <1>1, HandleSubmitStep, LogoutStep, LoadStep, ServeWSStep, SocketDropsStep DEF Page
<1>2. ASSUME NEW q \in Request, Serve(q) PROVE Inv'
  BY <1>2, LimiterStep, SetExpiryStep, AnswersStep, LoginStep, RevokeStep DEF Serve
<1>3. ASSUME NEW q \in Request, Arrive(q) PROVE Inv'
  BY <1>3, LoginArrivesStep, SessionArrivesStep, LogoutArrivesStep, RegisterArrivesStep,
     RequestFailsStep DEF Arrive
<1>4. CASE TimePasses
  BY <1>4, TimePassesStep
<1>5. CASE UNCHANGED vars
  BY <1>5, StutterStep
<1> QED
  BY <1>1, <1>2, <1>3, <1>4, <1>5 DEF Next

\* The invariant holds of every behaviour of the browser and the server.
THEOREM InvCorrect == Spec => []Inv
BY InvInit, InvStep, PTL DEF Spec

\* Every variable keeps its type, and a tab that shows nobody has no socket.
THEOREM TypeCorrect == Spec => []TypeOK
<1>1. Inv => TypeOK
  BY DEF Inv
<1> QED
  BY <1>1, InvCorrect, PTL

\* A tab whose user was confirmed since the jar was written acts as that user, over
\* HTTP and over its socket (AuthContext.tsx, SocketContext.tsx, ws/handler.go).
THEOREM TabCorrect == Spec => []TabActsAsShown
<1>1. Inv => TabActsAsShown
  BY DEF Inv
<1> QED
  BY <1>1, InvCorrect, PTL

\* A recorded logout is final (auth_service.go Logout, token_blacklist.go).
THEOREM LogoutCorrect == Spec => []LogoutIsFinal
<1>1. Inv => LogoutIsFinal
  <2> SUFFICES ASSUME Inv PROVE LogoutIsFinal
    OBVIOUS
  <2>1. ASSUME NEW t \in revoked PROVE IsBlacklisted(t) \/ ~Parse(t)
    <3>1. black[t] = Exp(t)
      BY DEF Inv, RevokedSound
    <3> QED
      BY <3>1 DEF IsBlacklisted, Parse
  <2> QED
    BY <2>1 DEF LogoutIsFinal, Inv, RevokedSound
<1> QED
  BY <1>1, InvCorrect, PTL

\* The login limiter locks nobody out for longer than its window, unless an EXPIRE
\* was lost (login_rate_limit.go).
THEOREM LockoutCorrect == Spec => []LockoutIsTemporary
<1>1. Inv => LockoutIsTemporary
  BY DEF Inv, LimitSound, LockoutIsTemporary
<1> QED
  BY <1>1, InvCorrect, PTL
=============================================================================
