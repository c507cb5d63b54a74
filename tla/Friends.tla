------------------------------ MODULE Friends ------------------------------
(***************************************************************************)
(* Friendships (service/friend_service.go,                                 *)
(* repository/friendship_repository.go) and the conversations that need    *)
(* them (service/conversation_service.go,                                  *)
(* repository/conversation_repository.go).                                 *)
(*                                                                         *)
(* A command is run by a task: the goroutine of an HTTP request, or a      *)
(* readPump.  One action is one SQL statement with what the service does   *)
(* up to the next one; the statements of other tasks come between.  A      *)
(* command that is refused changes nothing and is left out.  Notifications *)
(* and event records follow a request that is stored already, and their    *)
(* failure is ignored.                                                     *)
(***************************************************************************)
EXTENDS Naturals

CONSTANTS
  User,        \* user ids
  Task,        \* commands that may be under way at a time
  MaxRows,     \* bound on the requests ever stored
  Nobody       \* "no user"

ASSUME UserAssumption == Nobody \notin User
ASSUME RowAssumption == MaxRows \in Nat

Id     == 1..MaxRows
Status == {"none", "pending", "accepted", "rejected"}
Row    == [from : User \cup {Nobody}, to : User \cup {Nobody}, status : Status]
NoRow  == [from |-> Nobody, to |-> Nobody, status |-> "none"]

VARIABLES
  rows,        \* table friendships: a row per id, NoRow if deleted or not yet used
  next,        \* the id of the next row
  convs,       \* table conversations: unordered pairs {user_a_id, user_b_id}
  pc,          \* the statement a task executes next
  me,          \* the user of the command
  peer,        \* the other user of the command
  id,          \* the request the command answers
  verdict,     \* its answer
  friends,     \* history: pairs with a request accepted and no removal since
  met          \* history: pairs that were friends at some time

task == <<pc, me, peer, id, verdict>>
vars == <<rows, next, convs, task, friends, met>>

Live == {i \in Id : rows[i].status # "none"}
Pairs == {{a, b} : a, b \in User}

TypeOK ==
  /\ rows \in [Id -> Row]
  /\ next \in 1..(MaxRows + 1)
  /\ convs \subseteq Pairs
  /\ pc \in [Task -> {"idle", "create", "update", "open"}]
  /\ me \in [Task -> User \cup {Nobody}]
  /\ peer \in [Task -> User \cup {Nobody}]
  /\ id \in [Task -> Nat]
  /\ verdict \in [Task -> {"accepted", "rejected"}]
  /\ friends \subseteq Pairs
  /\ met \subseteq Pairs
  /\ \A i \in Live : rows[i].from \in User /\ rows[i].to \in User

Init ==
  /\ rows = [i \in Id |-> NoRow]
  /\ next = 1
  /\ convs = {}
  /\ pc = [t \in Task |-> "idle"]
  /\ me = [t \in Task |-> Nobody]
  /\ peer = [t \in Task |-> Nobody]
  /\ id = [t \in Task |-> 0]
  /\ verdict = [t \in Task |-> "rejected"]
  /\ friends = {}
  /\ met = {}

-----------------------------------------------------------------------------
(* The statements of the repositories.                                     *)

\* FindBetween finds a row, whoever sent the request.
Related(a, b) == \E i \in Live : {rows[i].from, rows[i].to} = {a, b}

\* Mutant of IsFriend: the status is not asked for.
IsFriendWithAnyRow(a, b) == Related(a, b)

\* IsFriend: an accepted row in either direction.
IsFriend(a, b) ==
  \E i \in Live : rows[i].status = "accepted" /\ {rows[i].from, rows[i].to} = {a, b}

\* Create: the unique index is on the ordered pair.
InsertRow(a, b) ==
  IF \E i \in Live : rows[i].from = a /\ rows[i].to = b
  THEN UNCHANGED <<rows, next>>
  ELSE /\ next <= MaxRows
       /\ rows' = [rows EXCEPT ![next] = [from |-> a, to |-> b, status |-> "pending"]]
       /\ next' = next + 1

\* Mutant of UpdateStatus: the status is not compared again.
UpdateStatusUnguarded(i, s) ==
  rows' = IF i \in Live THEN [rows EXCEPT ![i].status = s] ELSE rows

\* UpdateStatus: only while the row is pending.
UpdateStatus(i, s) ==
  rows' = IF rows[i].status = "pending" THEN [rows EXCEPT ![i].status = s] ELSE rows

\* Mutant of Delete: only the direction in which the operator asked.
DeleteOneWay(a, b) ==
  rows' = [i \in Id |->
             IF rows[i].status = "accepted" /\ rows[i].from = a /\ rows[i].to = b
             THEN NoRow ELSE rows[i]]

\* Mutant of Delete: the row is kept and marked.
DeleteSoftly(a, b) ==
  rows' = [i \in Id |->
             IF rows[i].status = "accepted" /\ {rows[i].from, rows[i].to} = {a, b}
             THEN [rows[i] EXCEPT !.status = "removed"] ELSE rows[i]]

\* Delete: the accepted rows of the pair, in both directions.
Delete(a, b) ==
  rows' = [i \in Id |->
             IF rows[i].status = "accepted" /\ {rows[i].from, rows[i].to} = {a, b}
             THEN NoRow ELSE rows[i]]

-----------------------------------------------------------------------------
(* The commands.                                                           *)

Start(t, where, a, b) ==
  /\ pc[t] = "idle"
  /\ pc' = [pc EXCEPT ![t] = where]
  /\ me' = [me EXCEPT ![t] = a]
  /\ peer' = [peer EXCEPT ![t] = b]

\* The command ends, and nothing of it is kept.
Return(t) ==
  /\ pc' = [pc EXCEPT ![t] = "idle"]
  /\ me' = [me EXCEPT ![t] = Nobody]
  /\ peer' = [peer EXCEPT ![t] = Nobody]
  /\ id' = [id EXCEPT ![t] = 0]
  /\ verdict' = [verdict EXCEPT ![t] = "rejected"]

\* SendRequest up to FindBetween.
SendRequest(t, a, b) ==
  /\ a # b /\ ~Related(a, b)
  /\ Start(t, "create", a, b)
  /\ UNCHANGED <<rows, next, convs, id, verdict, friends, met>>

\* SendRequest, continued.
CreateRequest(t) ==
  /\ pc[t] = "create"
  /\ InsertRow(me[t], peer[t])
  /\ Return(t)
  /\ UNCHANGED <<convs, friends, met>>

\* RespondRequest up to the checks on the row found by its id.
RespondRequest(t, i, v) ==
  /\ rows[i].status = "pending"
  /\ Start(t, "update", rows[i].to, rows[i].from)
  /\ id' = [id EXCEPT ![t] = i]
  /\ verdict' = [verdict EXCEPT ![t] = v]
  /\ UNCHANGED <<rows, next, convs, friends, met>>

\* RespondRequest, continued.
Resolve(t) ==
  /\ pc[t] = "update"
  /\ UpdateStatus(id[t], verdict[t])
  /\ LET made == IF rows[id[t]].status = "pending" /\ verdict[t] = "accepted"
                 THEN {{me[t], peer[t]}} ELSE {}
     IN friends' = friends \cup made /\ met' = met \cup made
  /\ Return(t)
  /\ UNCHANGED <<next, convs>>

\* RemoveFriend, a single statement.
RemoveFriend(a, b) ==
  /\ a # b /\ IsFriend(a, b)
  /\ Delete(a, b)
  /\ friends' = friends \ {{a, b}}
  /\ UNCHANGED <<next, convs, task, met>>

\* SendDirectMessage up to IsFriend.
SendDirectMessage(t, a, b) ==
  /\ a # b /\ IsFriend(a, b)
  /\ Start(t, "open", a, b)
  /\ UNCHANGED <<rows, next, convs, id, verdict, friends, met>>

\* GetOrCreate: the pair is stored in a canonical order, and a conversation is
\* never deleted.  Storing the message in it is modelled in Delivery.
GetOrCreate(t) ==
  /\ pc[t] = "open"
  /\ convs' = convs \cup {{me[t], peer[t]}}
  /\ Return(t)
  /\ UNCHANGED <<rows, next, friends, met>>

\* The database fails, or the client that waits for the answer has gone and its
\* context cancels the rest of the command.
Abandon(t) ==
  /\ pc[t] # "idle"
  /\ Return(t)
  /\ UNCHANGED <<rows, next, convs, friends, met>>

Next ==
  \/ \E t \in Task :
       \/ CreateRequest(t) \/ Resolve(t) \/ GetOrCreate(t) \/ Abandon(t)
       \/ \E a, b \in User : SendRequest(t, a, b) \/ SendDirectMessage(t, a, b)
       \/ \E i \in Id, v \in {"accepted", "rejected"} : RespondRequest(t, i, v)
  \/ \E a, b \in User : RemoveFriend(a, b)

Spec == Init /\ [][Next]_vars

-----------------------------------------------------------------------------
(* Properties.                                                             *)

\* Two users are friends exactly if one accepted a request of the other and neither
\* has removed the other since.  With mirrored requests, with answers under way at
\* the same time and removals in between, a removal ends the friendship whole and
\* nothing else ends it: a refusal takes effect on its own row only, so refusing
\* the mirror of an accepted request leaves the two friends.
FriendsAsAgreed ==
  \A a, b \in User : IsFriend(a, b) <=> {a, b} \in friends

\* An answer that took effect stands: of several answers under way to one
\* request the first decides, and afterwards only the removal of an accepted
\* request changes the row.
AnswerIsFinal ==
  [][\A i \in Id :
       \/ rows[i].status \in {"none", "pending"}
       \/ rows'[i] = rows[i]
       \/ rows[i].status = "accepted" /\ rows'[i] = NoRow]_vars

\* A conversation exists only between users who were friends at some time, even
\* if they parted between the check and the insert.
ConversationIsEarned == convs \subseteq met

\* What is left of the claim below: two relations of one pair are requests in
\* opposite directions, so there are never more than two.
RelationsAreMirrored ==
  \A i, j \in Live :
    i # j /\ {rows[i].from, rows[i].to} = {rows[j].from, rows[j].to}
      => /\ rows[i].from = rows[j].to /\ rows[i].to = rows[j].from
         /\ rows[i].from # rows[i].to

\* The service implements Friendship, read from the rows of the table: whoever is
\* told to be friends by IsFriend became so by an acceptance.
PairsWith(s) ==
  {{rows[i].from, rows[i].to} : i \in {j \in Id : rows[j].status = s}}
Bond == INSTANCE Friendship WITH
          asked    <- PairsWith("pending"),
          together <- PairsWith("accepted"),
          known    <- met,
          talks    <- convs
ImplementsFriendship == Bond!Spec

\* Claimed by friend_service.go:101-103 and 117: whatever direction a request was
\* sent in, a second one is not stored, and the unique index sees to it when two
\* are sent at once.
OneRelationPerPair ==
  \A i, j \in Live : {rows[i].from, rows[i].to} = {rows[j].from, rows[j].to} => i = j
=============================================================================
