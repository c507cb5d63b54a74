------------------------------- MODULE Tokens -------------------------------
(***************************************************************************)
(* What the server keeps of sessions: nothing but Redis keys with a time   *)
(* to live - the blacklist of tokens that were logged out                  *)
(* (token_blacklist.go) and the counter of login attempts of an address    *)
(* (login_rate_limit.go).                                                  *)
(*                                                                         *)
(* A JWT says the user, and in whole seconds when it was issued: two       *)
(* logins of a user within a second get the very same token.  Time is      *)
(* counted in those seconds.                                               *)
(***************************************************************************)
EXTENDS Naturals

CONSTANTS
  User,        \* accounts; a guest's is made by its login
  NoToken,     \* "no token"
  Life,        \* JWTExpiry
  Window,      \* the minute of the login limiter
  Limit,       \* LoginRateLimitPerMinute
  MaxTime      \* bound on the seconds that pass

Token == [user : User, iat : 0..MaxTime]
Exp(t) == t.iat + Life

ASSUME TokenAssumption ==
  /\ NoToken \notin Token
  /\ {Life, Window, Limit} \subseteq Nat \ {0}
  /\ MaxTime \in Nat

VARIABLES
  now,         \* the second
  black,       \* when the blacklist entry of a token ends, 0 without one
  count,       \* login attempts counted
  deadline,    \* when the counter ends, 0 while it has no time to live
  issued,      \* history: tokens issued
  twins,       \* history: tokens issued more than once
  revoked,     \* history: tokens whose logout was recorded
  stuck        \* history: EXPIRE, or the answer to the INCR that was to be followed
               \* by it, was lost: the counter may have no end

tokens == <<now, black, count, deadline, issued, twins, revoked, stuck>>

TokensTypeOK ==
  /\ now \in 0..MaxTime
  /\ black \in [Token -> Nat]
  /\ count \in Nat /\ deadline \in Nat
  /\ issued \subseteq Token /\ twins \subseteq issued /\ revoked \subseteq issued
  /\ stuck \in BOOLEAN
  /\ \A t \in issued : t.iat <= now

TokensInit ==
  /\ now = 0
  /\ black = [t \in Token |-> 0]
  /\ count = 0 /\ deadline = 0
  /\ issued = {} /\ twins = {} /\ revoked = {}
  /\ stuck = FALSE

-----------------------------------------------------------------------------
\* GenerateToken.
Issue(u) == [user |-> u, iat |-> now]

\* ParseToken: the signature is the server's and exp has not come.
Parse(t) == t # NoToken /\ now < Exp(t)

IsBlacklisted(t) == black[t] > now

\* RequireAuth and ServeWS alike: a failed lookup lets the token pass.
Accepts(t, lookupFails) == Parse(t) /\ (lookupFails \/ ~IsBlacklisted(t))

Generate(t) ==
  /\ issued' = issued \cup {t}
  /\ twins' = IF t \in issued THEN twins \cup {t} ELSE twins
  /\ UNCHANGED <<now, black, count, deadline, revoked, stuck>>

\* Mutant of Blacklist: the time to live does not reach the end of the token.
BlacklistTooShort(t) ==
  /\ black' = [black EXCEPT ![t] = Exp(t) - 1]
  /\ revoked' = revoked \cup {t}
  /\ UNCHANGED <<now, count, deadline, issued, twins, stuck>>

\* Add, with the time the token has still to live.
Blacklist(t) ==
  /\ black' = [black EXCEPT ![t] = Exp(t)]
  /\ revoked' = revoked \cup {t}
  /\ UNCHANGED <<now, count, deadline, issued, twins, stuck>>

-----------------------------------------------------------------------------
\* INCR.
Incr ==
  /\ count' = count + 1
  /\ UNCHANGED <<now, black, deadline, issued, twins, revoked, stuck>>

\* INCR took effect and its answer was lost: if it made the counter, no EXPIRE will.
IncrUnanswered ==
  /\ count' = count + 1
  /\ stuck' = (stuck \/ count = 0)
  /\ UNCHANGED <<now, black, deadline, issued, twins, revoked>>

\* EXPIRE, or its loss.
ExpireCount ==
  /\ \/ deadline' = now + Window /\ UNCHANGED stuck
     \/ stuck' = TRUE /\ UNCHANGED deadline
  /\ UNCHANGED <<now, black, count, issued, twins, revoked>>

\* A second passes.  A counter whose time has come is gone.
Tick ==
  /\ now < MaxTime
  /\ now' = now + 1
  /\ IF deadline = now' THEN count' = 0 /\ deadline' = 0
     ELSE UNCHANGED <<count, deadline>>
  /\ UNCHANGED <<black, issued, twins, revoked, stuck>>
=============================================================================
