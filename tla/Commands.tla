------------------------------ MODULE Commands ------------------------------
(***************************************************************************)
(* The commands of recommendations and reports behind the replay           *)
(* protection (cmd/server/main.go:212-228): RequireAuth, authIdempotency,  *)
(* handler.  A key belongs to one command, which its caller repeats with   *)
(* the same body.                                                          *)
(***************************************************************************)
EXTENDS Recommend, Reports

CONSTANTS
  Command,     \* the commands that callers give
  NoCommand,   \* "no command"
  Contact,     \* pairs of users who become friends or part meanwhile
  MaxChanges   \* bound on the changes of topics and friendships

Generate == [kind : {"generate"}]
Respond  == [kind : {"respond"}, id : Id, user : User, to : {"confirmed", "dismissed"}]
Report   == [kind : {"report"}, case : Case]

ASSUME CommandAssumption ==
  Command \subseteq Generate \cup Respond \cup Report /\ NoCommand \notin Command

ASSUME ContactAssumption == Contact \subseteq Pairs /\ MaxChanges \in Nat

VARIABLES
  command,     \* the command of a key, while the key is known
  changes      \* the changes of topics and friendships so far

vars == <<idem, rec, rep, command, changes>>

TypeOK ==
  /\ IdemTypeOK
  /\ RecTypeOK
  /\ RepTypeOK
  /\ command \in [Key -> Command \cup {NoCommand}]
  /\ changes \in 0..MaxChanges
  /\ at \in [Call -> {"start", "pairs", "insert", "update", "find", "create"}]
  /\ \A c \in Call : at[c] # "start" => stage[c] = "run"

Init ==
  /\ IdemInit
  /\ RecInit
  /\ RepInit
  /\ command = [k \in Key |-> NoCommand]
  /\ changes = 0

-----------------------------------------------------------------------------
\* A request arrives with a key, new or used before.
Send(c, k) ==
  /\ \/ command[k] # NoCommand /\ UNCHANGED command
     \/ /\ command[k] = NoCommand
        /\ \E x \in Command : command' = [command EXCEPT ![k] = x]
  /\ Claim(c, k)
  /\ UNCHANGED <<rec, rep, changes>>

\* The handler of x begins.
Begins(c, x) ==
  /\ stage[c] = "run" /\ at[c] = "start"
  /\ command[key[c]] = x

\* POST /recommendations/generate, by whoever is logged in.
HandleGenerate(c) ==
  \E x \in Command \cap Generate : Begins(c, x) /\ ListAll(c) /\ UNCHANGED rep

\* PUT /recommendations/:id; every refusal of the service is an answer of its own.
HandleRespond(c) ==
  \E x \in Command \cap Respond :
    Begins(c, x) /\ FindCandidate(c, x.id, x.user) /\ UNCHANGED rep

\* POST /reports.
HandleReport(c) ==
  \E x \in Command \cap Report : Begins(c, x) /\ CheckTarget(c, x.case) /\ UNCHANGED rec

Start(c) ==
  /\ HandleGenerate(c) \/ HandleRespond(c) \/ HandleReport(c)
  /\ UNCHANGED <<command, changes>>

\* The later statements.
Proceed(c) ==
  /\ \/ (CheckPair(c) \/ Insert(c) \/ Generated(c)) /\ UNCHANGED rep
     \/ /\ at[c] = "update"
        /\ UpdateStatus(c, command[key[c]].id, command[key[c]].to)
        /\ UNCHANGED rep
     \/ (FindExisting(c) \/ CreateReport(c)) /\ UNCHANGED rec
  /\ UNCHANGED <<command, changes>>

\* A statement fails: 500, and what was inserted before stays (a candidate that
\* was inserted and reported failed is one such).  FindExisting is the one whose
\* error is dropped.
StatementFails(c) ==
  /\ stage[c] = "run"
  /\ at[c] # "find"
  /\ Handled(c, FALSE)
  /\ Discard(c)
  /\ Close(c)
  /\ UNCHANGED <<reports, rows, blind, command, changes>>

\* The middleware has the last word; or the call dies.
Leave(c) ==
  /\ \/ (Lookup(c) \/ Finish(c)) /\ UNCHANGED <<rec, rep>>
     \/ Die(c) /\ Discard(c) /\ Close(c) /\ UNCHANGED <<reports, rows, blind>>
  /\ UNCHANGED <<command, changes>>

KeyIsForgotten(k) ==
  /\ Expire(k)
  /\ Forget(k)
  /\ command' = [command EXCEPT ![k] = NoCommand]
  /\ UNCHANGED <<rec, changes>>

\* What goes on beside: single statements of other commands.
Outside ==
  /\ changes < MaxChanges
  /\ changes' = changes + 1
  /\ \/ \E t \in Topic : CreateTopic(t) \/ DeleteTopic(t)
     \/ \E p \in Contact : FriendshipChanges(p)
  /\ UNCHANGED <<idem, rep, command>>

CallStep(c) == Start(c) \/ Proceed(c) \/ StatementFails(c) \/ Leave(c)

Next == \/ \E c \in Call : CallStep(c) \/ \E k \in Key : Send(c, k)
        \/ \E k \in Key : KeyIsForgotten(k)
        \/ Outside

Spec == Init /\ [][Next]_vars

-----------------------------------------------------------------------------
\* A caller who was answered with success finds its verdict for good: no other
\* party, retry or overlapping call turns it over.
AnsweredVerdictStands ==
  \A k \in told : command[k] \in Respond =>
    cands[command[k].id].status = command[k].to
=============================================================================
