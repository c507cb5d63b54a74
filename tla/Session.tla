------------------------------ MODULE Session ------------------------------
(***************************************************************************)
(* The accounts of a browser: tabs that share a cookie jar and a stored    *)
(* identity (AuthContext.tsx, SocketContext.tsx), and what the server does *)
(* with their requests (api/auth.go, auth_service.go, middleware/auth.go,  *)
(* ws/handler.go).                                                         *)
(*                                                                         *)
(* The scripts see no token, only the name of the user.  A request carries *)
(* the cookie that is in the jar when it is sent, and its answer changes   *)
(* the jar when it arrives, whatever happened in between.                  *)
(***************************************************************************)
EXTENDS Tokens

CONSTANTS
  Tab,         \* tabs of the browser
  NoTab,       \* the sender of a request whose page is gone
  Request,     \* requests that may be under way at a time
  NoUser,      \* "nobody"
  MaxAsks      \* bound on the registrations, logins and guests asked for

ASSUME NobodyAssumption == NoTab \notin Tab /\ NoUser \notin User
ASSUME AsksAssumption == MaxAsks \in Nat

VARIABLES
  accounts,    \* table users
  cookie,      \* the jar: the token in im_session
  stored,      \* localStorage: the identity kept for the next page load
  identity,    \* the user a tab shows
  sock,        \* the user the server knows a tab's socket by
  stage,       \* where a request is
  kind,        \* what it asks for
  by,          \* the tab whose script waits for it
  who,         \* the name in a registration, a login or a guest's answer
  token,       \* the token it carries, or brings back
  good,        \* whether it is answered with success
  fresh,       \* history: the jar was not written since it was sent
  confirmed,   \* history: a login or a session check told a tab its user since
               \* the jar was written, and the tab was not logged in before
  kept,        \* history: tokens whose logout's answer never came
  asks         \* registrations, logins and guests asked for

requests == <<stage, kind, by, who, token, good, fresh>>
browser  == <<cookie, stored, identity, sock, confirmed, kept, asks>>
vars     == <<tokens, accounts, requests, browser>>

Stage == {"idle", "sent", "create", "expire", "handler", "answered"}
Kind  == {"register", "login", "guest", "session", "logout"}

TypeOK ==
  /\ TokensTypeOK
  /\ accounts \subseteq User
  /\ cookie \in issued \cup {NoToken}
  /\ stored \in User \cup {NoUser}
  /\ identity \in [Tab -> User \cup {NoUser}]
  /\ sock \in [Tab -> User \cup {NoUser}]
  /\ stage \in [Request -> Stage]
  /\ kind \in [Request -> Kind]
  /\ by \in [Request -> Tab \cup {NoTab}]
  /\ who \in [Request -> User \cup {NoUser}]
  /\ token \in [Request -> issued \cup {NoToken}]
  /\ good \in [Request -> BOOLEAN]
  /\ fresh \in [Request -> BOOLEAN]
  /\ confirmed \in [Tab -> BOOLEAN]
  /\ kept \subseteq issued
  /\ asks \in 0..MaxAsks
  /\ \A b \in Tab : identity[b] = NoUser => sock[b] = NoUser

Init ==
  /\ TokensInit
  /\ accounts \in SUBSET User
  /\ cookie = NoToken
  /\ stored = NoUser
  /\ identity = [b \in Tab |-> NoUser]
  /\ sock = [b \in Tab |-> NoUser]
  /\ stage = [q \in Request |-> "idle"]
  /\ kind = [q \in Request |-> "session"]
  /\ by = [q \in Request |-> NoTab]
  /\ who = [q \in Request |-> NoUser]
  /\ token = [q \in Request |-> NoToken]
  /\ good = [q \in Request |-> FALSE]
  /\ fresh = [q \in Request |-> FALSE]
  /\ confirmed = [b \in Tab |-> FALSE]
  /\ kept = {}
  /\ asks = 0

-----------------------------------------------------------------------------
(* api/client.ts: the parts of a request.                                  *)

\* Tab b sends request q with the token in jar.
Ask(b, q, k, u, jar) ==
  /\ stage' = [stage EXCEPT ![q] = "sent"]
  /\ kind' = [kind EXCEPT ![q] = k]
  /\ by' = [by EXCEPT ![q] = b]
  /\ who' = [who EXCEPT ![q] = u]
  /\ token' = [token EXCEPT ![q] = jar]
  /\ good' = [good EXCEPT ![q] = FALSE]

\* Request q is over.
Over(q) ==
  /\ stage' = [stage EXCEPT ![q] = "idle"]
  /\ kind' = [kind EXCEPT ![q] = "session"]
  /\ by' = [by EXCEPT ![q] = NoTab]
  /\ who' = [who EXCEPT ![q] = NoUser]
  /\ token' = [token EXCEPT ![q] = NoToken]
  /\ good' = [good EXCEPT ![q] = FALSE]

\* The server answers q; u and t are what a success brings.
Answer(q, success, u, t) ==
  /\ stage' = [stage EXCEPT ![q] = "answered"]
  /\ good' = [good EXCEPT ![q] = success]
  /\ who' = [who EXCEPT ![q] = u]
  /\ token' = [token EXCEPT ![q] = t]
  /\ UNCHANGED <<kind, by, fresh>>

Refuse(q) == Answer(q, FALSE, who[q], token[q])

\* The handling of q goes on with the next statement.
Pass(q, next) ==
  /\ stage' = [stage EXCEPT ![q] = next]
  /\ UNCHANGED <<kind, by, who, token, good, fresh>>

-----------------------------------------------------------------------------
(* The page.                                                               *)

\* AuthPage: its buttons are off while a request of theirs is under way.  The
\* page is there whether the tab shows a user or not.
HandleSubmit(b, q, k, u) ==
  /\ stage[q] = "idle"
  /\ k \in {"register", "login", "guest"}
  /\ \A r \in Request : by[r] = b => kind[r] \in {"session", "logout"}
  /\ asks < MaxAsks
  /\ asks' = asks + 1
  /\ Ask(b, q, k, u, cookie)
  /\ UNCHANGED <<tokens, accounts, cookie, stored, identity, sock, confirmed, kept, fresh>>

\* The tab shows nobody, and will not after a load; its socket is closed.
ShowNobody(b) ==
  /\ identity' = [identity EXCEPT ![b] = NoUser]
  /\ stored' = NoUser
  /\ sock' = [sock EXCEPT ![b] = NoUser]
  /\ confirmed' = [confirmed EXCEPT ![b] = FALSE]

\* Mutant of Logout: the socket stays open.
LogoutKeepingSocket(b, q) ==
  /\ stage[q] = "idle"
  /\ identity[b] # NoUser
  /\ identity' = [identity EXCEPT ![b] = NoUser]
  /\ stored' = NoUser
  /\ confirmed' = [confirmed EXCEPT ![b] = FALSE]
  /\ Ask(b, q, "logout", NoUser, cookie)
  /\ UNCHANGED <<tokens, accounts, cookie, sock, fresh, kept, asks>>

\* logout: nobody at once, and a request nobody waits for.
Logout(b, q) ==
  /\ stage[q] = "idle"
  /\ identity[b] # NoUser
  /\ ShowNobody(b)
  /\ Ask(b, q, "logout", NoUser, cookie)
  /\ UNCHANGED <<tokens, accounts, cookie, fresh, kept, asks>>

\* The page is loaded anew with the stored identity; with one, the session is
\* checked.  The scripts that waited for answers are gone, the requests are not.
Load(b, q) ==
  /\ stage[q] = "idle"
  /\ identity' = [identity EXCEPT ![b] = stored]
  /\ sock' = [sock EXCEPT ![b] = NoUser]
  /\ confirmed' = [confirmed EXCEPT ![b] = FALSE]
  /\ LET orphaned == [r \in Request |-> IF by[r] = b THEN NoTab ELSE by[r]]
     IN IF stored = NoUser
        THEN by' = orphaned /\ UNCHANGED <<stage, kind, who, token, good, fresh>>
        ELSE /\ by' = [orphaned EXCEPT ![q] = b]
             /\ stage' = [stage EXCEPT ![q] = "sent"]
             /\ kind' = [kind EXCEPT ![q] = "session"]
             /\ token' = [token EXCEPT ![q] = cookie]
             /\ fresh' = [fresh EXCEPT ![q] = TRUE]
             /\ UNCHANGED <<who, good>>
  /\ UNCHANGED <<tokens, accounts, cookie, stored, kept, asks>>

\* The tab's WebSocket, and the server's handshake: the token is looked at here
\* and never again.
ServeWS(b) ==
  /\ identity[b] # NoUser
  /\ sock[b] = NoUser
  /\ \E fails \in BOOLEAN : Accepts(cookie, fails)
  /\ sock' = [sock EXCEPT ![b] = cookie.user]
  /\ UNCHANGED <<tokens, accounts, requests, cookie, stored, identity, confirmed, kept, asks>>

SocketDrops(b) ==
  /\ sock[b] # NoUser
  /\ sock' = [sock EXCEPT ![b] = NoUser]
  /\ UNCHANGED <<tokens, accounts, requests, cookie, stored, identity, confirmed, kept, asks>>

-----------------------------------------------------------------------------
(* The server.                                                             *)

At(q, k, s) == kind[q] = k /\ stage[q] = s

\* Mutant of LoginRateLimiter: the time to live is set by the second attempt.
LimitFromSecond(q) ==
  /\ At(q, "login", "sent")
  /\ \/ Pass(q, "handler") /\ UNCHANGED tokens
     \/ /\ Incr
        /\ IF count' = 2 THEN Pass(q, "expire")
           ELSE IF count' > Limit THEN Refuse(q) ELSE Pass(q, "handler")
  /\ UNCHANGED <<accounts, browser>>

\* An INCR without an answer, applied or not, lets the attempt pass; the first of a
\* window sets its end.
LoginRateLimiter(q) ==
  /\ At(q, "login", "sent")
  /\ \/ Pass(q, "handler") /\ (UNCHANGED tokens \/ IncrUnanswered)
     \/ /\ Incr
        /\ IF count' = 1 THEN Pass(q, "expire")
           ELSE IF count' > Limit THEN Refuse(q) ELSE Pass(q, "handler")
  /\ UNCHANGED <<accounts, browser>>

SetExpiry(q) ==
  /\ At(q, "login", "expire")
  /\ ExpireCount
  /\ Pass(q, "handler")
  /\ UNCHANGED <<accounts, browser>>

\* Login with the right password; a wrong one and an unknown name are refused alike.
Login(q) ==
  /\ At(q, "login", "handler")
  /\ IF who[q] \in accounts
     THEN Generate(Issue(who[q])) /\ Answer(q, TRUE, who[q], Issue(who[q]))
     ELSE Refuse(q) /\ UNCHANGED tokens
  /\ UNCHANGED <<accounts, browser>>

\* FindByUsername of a registration.
FindByUsername(q) ==
  /\ At(q, "register", "sent")
  /\ IF who[q] \in accounts THEN Refuse(q) ELSE Pass(q, "create")
  /\ UNCHANGED <<tokens, accounts, browser>>

\* Its INSERT; the name is unique.
CreateUser(q) ==
  /\ At(q, "register", "create")
  /\ IF who[q] \in accounts THEN Refuse(q) ELSE Answer(q, TRUE, who[q], NoToken)
  /\ accounts' = accounts \cup {who[q]}
  /\ UNCHANGED <<tokens, browser>>

\* GuestLogin: a new account, and a token for it.
GuestLogin(q) ==
  /\ At(q, "guest", "sent")
  /\ who[q] \notin accounts
  /\ accounts' = accounts \cup {who[q]}
  /\ Generate(Issue(who[q]))
  /\ Answer(q, TRUE, who[q], Issue(who[q]))
  /\ UNCHANGED browser

\* RequireAuth, then Session.
CheckSession(q) ==
  /\ At(q, "session", "sent")
  /\ \E fails \in BOOLEAN :
       IF Accepts(token[q], fails)
       THEN Answer(q, TRUE, token[q].user, token[q]) ELSE Refuse(q)
  /\ UNCHANGED <<tokens, accounts, browser>>

\* RequireAuth, then Logout; the jar is to be cleared whether Add worked or not.
Revoke(q) ==
  /\ At(q, "logout", "sent")
  /\ \E fails \in BOOLEAN :
       IF Accepts(token[q], fails)
       THEN /\ Answer(q, TRUE, NoUser, token[q])
            /\ Blacklist(token[q]) \/ UNCHANGED tokens
       ELSE Refuse(q) /\ UNCHANGED tokens
  /\ UNCHANGED <<accounts, browser>>

\* A wrong password, guests not allowed, or a statement failed.
Fail(q) ==
  /\ \/ kind[q] = "register" /\ stage[q] \in {"sent", "create"}
     \/ At(q, "login", "handler")
     \/ At(q, "guest", "sent")
  /\ Refuse(q)
  /\ UNCHANGED <<tokens, accounts, browser>>

-----------------------------------------------------------------------------
(* The answers.                                                            *)

\* Set-Cookie.
Write(t) ==
  /\ cookie' = t
  /\ fresh' = [r \in Request |-> FALSE]

\* login, guestLogin: the answer's cookie, then persist.  A tab that showed nobody
\* checks the new session; one that showed a user keeps its socket and checks nothing.
LoginArrives(q) ==
  /\ stage[q] = "answered" /\ good[q] /\ kind[q] \in {"login", "guest"}
  /\ cookie' = token[q]
  /\ LET b == by[q]
         others == [t \in Tab |-> FALSE]
     IN IF b = NoTab
        THEN /\ Write(token[q]) /\ Over(q)
             /\ confirmed' = others
             /\ UNCHANGED <<stored, identity, sock>>
        ELSE /\ stored' = who[q]
             /\ identity' = [identity EXCEPT ![b] = who[q]]
             /\ UNCHANGED sock
             /\ IF identity[b] = NoUser
                THEN /\ confirmed' = [others EXCEPT ![b] = TRUE]
                     /\ Ask(b, q, "session", NoUser, token[q])
                     /\ fresh' = [r \in Request |-> r = q]
                ELSE /\ confirmed' = others
                     /\ Over(q)
                     /\ Write(token[q])
  /\ UNCHANGED <<tokens, accounts, kept, asks>>

\* Mutant of SessionArrives: the name that was shown stays.
SessionArrivesKeepingName(q) ==
  /\ stage[q] = "answered" /\ good[q] /\ kind[q] = "session"
  /\ LET b == by[q]
     IN IF b # NoTab /\ identity[b] # NoUser
        THEN confirmed' = [confirmed EXCEPT ![b] = fresh[q]]
        ELSE UNCHANGED confirmed
  /\ Over(q)
  /\ UNCHANGED <<tokens, accounts, cookie, stored, identity, sock, kept, fresh, asks>>

\* The session check went well: its user is shown, if one is shown at all.
SessionArrives(q) ==
  /\ stage[q] = "answered" /\ good[q] /\ kind[q] = "session"
  /\ LET b == by[q]
     IN IF b # NoTab /\ identity[b] # NoUser
        THEN /\ identity' = [identity EXCEPT ![b] = who[q]]
             /\ confirmed' = [confirmed EXCEPT ![b] = fresh[q]]
        ELSE UNCHANGED <<identity, confirmed>>
  /\ Over(q)
  /\ UNCHANGED <<tokens, accounts, cookie, stored, sock, kept, fresh, asks>>

\* The answer of a logout clears the jar, whatever is in it by now.
LogoutArrives(q) ==
  /\ stage[q] = "answered" /\ good[q] /\ kind[q] = "logout"
  /\ Write(NoToken)
  /\ confirmed' = [b \in Tab |-> FALSE]
  /\ Over(q)
  /\ UNCHANGED <<tokens, accounts, stored, identity, sock, kept, asks>>

\* The name is free to log in with; nothing of it is kept.
RegisterArrives(q) ==
  /\ stage[q] = "answered" /\ good[q] /\ kind[q] = "register"
  /\ Over(q)
  /\ UNCHANGED <<tokens, accounts, browser, fresh>>

\* A refusal, or a request or an answer that is lost.  A session check that fails
\* for whatever reason ends the tab's session.
RequestFails(q) ==
  /\ stage[q] \in {"sent", "answered"}
  /\ IF kind[q] = "session" /\ by[q] # NoTab
     THEN ShowNobody(by[q]) ELSE UNCHANGED <<identity, stored, sock, confirmed>>
  /\ kept' = IF At(q, "logout", "answered") /\ good[q] THEN kept \cup {token[q]} ELSE kept
  /\ Over(q)
  /\ UNCHANGED <<tokens, accounts, cookie, fresh, asks>>

-----------------------------------------------------------------------------
Page(b) ==
  \/ \E q \in Request :
       \/ \E u \in User, k \in Kind : HandleSubmit(b, q, k, u)
       \/ Logout(b, q)
       \/ Load(b, q)
  \/ ServeWS(b)
  \/ SocketDrops(b)

Serve(q) ==
  \/ LoginRateLimiter(q) \/ SetExpiry(q) \/ Login(q)
  \/ FindByUsername(q) \/ CreateUser(q) \/ GuestLogin(q)
  \/ CheckSession(q) \/ Revoke(q) \/ Fail(q)

Arrive(q) ==
  \/ LoginArrives(q) \/ SessionArrives(q) \/ LogoutArrives(q)
  \/ RegisterArrives(q) \/ RequestFails(q)

TimePasses == Tick /\ UNCHANGED <<accounts, requests, browser>>

Next == \/ \E b \in Tab : Page(b)
        \/ \E q \in Request : Serve(q) \/ Arrive(q)
        \/ TimePasses

Spec == Init /\ [][Next]_vars

-----------------------------------------------------------------------------
\* A tab that was told its user by a login or by a session check acts as that
\* user, over HTTP and over its socket, until the jar is written again: whatever
\* page loads, lost answers, drops and reconnections come in between.  What the
\* other tabs, a late answer or a login over a live session do to the jar is the
\* only way to act as somebody else.
TabActsAsShown ==
  \A b \in Tab : confirmed[b] /\ identity[b] # NoUser =>
    /\ cookie # NoToken
    /\ cookie.user = identity[b]
    /\ sock[b] \in {NoUser, identity[b]}

\* A recorded logout is final: its token is dead until it would have ended by
\* itself, and is out of the jar unless the answer that clears it has yet to come,
\* was lost, or the user logged in twice within a second and got the token again.
LogoutIsFinal ==
  /\ \A t \in revoked : IsBlacklisted(t) \/ ~Parse(t)
  /\ cookie \in revoked =>
       \/ cookie \in twins \cup kept
       \/ \E q \in Request : kind[q] = "logout" /\ token[q] = cookie

\* The login limiter never locks an address out for longer than its window, unless
\* an EXPIRE or the answer to a first INCR was lost: however attempts overlap, a
\* count has an end, or the attempt that is to set it is under way.
LockoutIsTemporary ==
  count > 0 =>
    \/ now < deadline /\ deadline <= now + Window
    \/ stuck
    \/ \E q \in Request : At(q, "login", "expire")
=============================================================================
