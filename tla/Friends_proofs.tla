--------------------------- MODULE Friends_proofs ---------------------------
(***************************************************************************)
(* Proofs about Friends, for any set of users and tasks and any number of  *)
(* requests.                                                               *)
(***************************************************************************)
EXTENDS Friends, TLAPS

\* Ids from next on have not been used.
Fresh == \A i \in Id : i >= next => rows[i] = NoRow

\* A task that is to write works for two users, and the request it answers, if
\* it is still there, is one between them.
TaskSound ==
  \A t \in Task :
    /\ pc[t] # "idle" => me[t] \in User /\ peer[t] \in User
    /\ pc[t] = "update" =>
         /\ id[t] \in Id /\ id[t] < next
         /\ id[t] \in Live => {rows[id[t]].from, rows[id[t]].to} = {me[t], peer[t]}

TypeInv == TypeOK /\ Fresh /\ TaskSound

\* A conversation being opened is one of users who have met.
MetSound == /\ friends \subseteq met /\ convs \subseteq met
            /\ \A t \in Task : pc[t] = "open" => {me[t], peer[t]} \in met

Inv == TypeInv /\ FriendsAsAgreed /\ MetSound

-----------------------------------------------------------------------------
(* The table.                                                              *)

\* A request is stored under a fresh id, or nothing happens.
LEMMA InsertRowStep ==
  ASSUME TypeOK, Fresh, NEW a \in User, NEW b \in User, InsertRow(a, b)
  PROVE  /\ rows' \in [Id -> Row] /\ next' \in 1..(MaxRows + 1) /\ next' >= next
         /\ \A i \in Id : \/ rows'[i] = rows[i]
                          \/ /\ i = next /\ next' = next + 1 /\ rows[i] = NoRow
                             /\ rows'[i] = [from |-> a, to |-> b, status |-> "pending"]
         /\ Fresh'
<1> USE RowAssumption DEF Id
<1>1. CASE UNCHANGED <<rows, next>>
  BY <1>1 DEF TypeOK, Fresh
<1>2. CASE /\ next <= MaxRows /\ next' = next + 1
           /\ rows' = [rows EXCEPT ![next] = [from |-> a, to |-> b, status |-> "pending"]]
  <2>1. next \in Id /\ rows[next] = NoRow
    BY <1>2 DEF TypeOK, Fresh
  <2>2. [from |-> a, to |-> b, status |-> "pending"] \in Row
    BY DEF Row, Status
  <2>3. rows' \in [Id -> Row] /\ next' \in 1..(MaxRows + 1) /\ next' >= next
    BY <1>2, <2>1, <2>2 DEF TypeOK
  <2>4. /\ rows'[next] = [from |-> a, to |-> b, status |-> "pending"]
        /\ \A i \in Id \ {next} : rows'[i] = rows[i]
    BY <1>2, <2>1 DEF TypeOK
  <2>5. Fresh'
    BY <1>2, <2>4 DEF Fresh, TypeOK
  <2> QED
    BY <1>2, <2>1, <2>3, <2>4, <2>5
<1> QED
  BY <1>1, <1>2 DEF InsertRow

\* An answer changes one status, and only of a pending request.
LEMMA UpdateStatusStep ==
  ASSUME TypeOK, NEW i \in Id, NEW v \in {"accepted", "rejected"}, UpdateStatus(i, v)
  PROVE  /\ rows' \in [Id -> Row]
         /\ \A j \in Id \ {i} : rows'[j] = rows[j]
         /\ rows'[i].from = rows[i].from /\ rows'[i].to = rows[i].to
         /\ rows'[i].status = IF rows[i].status = "pending" THEN v ELSE rows[i].status
         /\ rows[i].status # "pending" => rows'[i] = rows[i]
<1>1. rows[i] \in Row
  BY DEF TypeOK
<1>2. CASE rows[i].status = "pending"
  <2>1. rows' = [rows EXCEPT ![i] = [rows[i] EXCEPT !.status = v]]
    BY <1>2 DEF UpdateStatus
  <2>2. [rows[i] EXCEPT !.status = v] \in Row
    BY <1>1 DEF Row, Status
  <2> QED
    BY <1>1, <1>2, <2>1, <2>2 DEF TypeOK, Row
<1>3. CASE rows[i].status # "pending"
  BY <1>3 DEF UpdateStatus, TypeOK
<1> QED
  BY <1>2, <1>3

\* A removal deletes the accepted rows of the pair and no other.
LEMMA DeleteStep ==
  ASSUME TypeOK, NEW a \in User, NEW b \in User, Delete(a, b)
  PROVE  /\ rows' \in [Id -> Row]
         /\ \A i \in Id : rows'[i] =
              IF rows[i].status = "accepted" /\ {rows[i].from, rows[i].to} = {a, b}
              THEN NoRow ELSE rows[i]
<1>1. NoRow \in Row
  BY DEF NoRow, Row, Status
<1> QED
  BY <1>1 DEF Delete, TypeOK

-----------------------------------------------------------------------------
(* The invariant.                                                          *)

\* An empty table, no conversations, and no task at work.
LEMMA InvInit == Init => Inv
<1> SUFFICES ASSUME Init PROVE Inv
  OBVIOUS
<1>1. NoRow \in Row /\ NoRow.status = "none"
  BY DEF NoRow, Row, Status
<1>2. Live = {}
  BY <1>1 DEF Init, Live
<1>3. TypeOK
  BY <1>1, <1>2, RowAssumption DEF Init, TypeOK
<1>4. Fresh /\ TaskSound
  BY DEF Init, Fresh, TaskSound
<1>5. FriendsAsAgreed /\ MetSound
  BY <1>2 DEF Init, FriendsAsAgreed, IsFriend, MetSound
<1> QED
  BY <1>3, <1>4, <1>5 DEF Inv, TypeInv

\* A task that starts changes neither the table nor what was agreed.
LEMMA StartStep ==
  ASSUME Inv, NEW t \in Task, NEW a \in User, NEW b \in User,
         NEW where \in {"create", "update", "open"}, Start(t, where, a, b),
         UNCHANGED <<rows, next, convs, friends, met>>,
         id' \in [Task -> Nat], verdict' \in [Task -> {"accepted", "rejected"}],
         \A s \in Task \ {t} : id'[s] = id[s],
         where = "open" => {a, b} \in met,
         where = "update" => /\ id'[t] \in Id /\ id'[t] < next
                             /\ {rows[id'[t]].from, rows[id'[t]].to} = {a, b}
  PROVE  Inv'
<1> USE DEF Inv, TypeInv
<1>1. /\ pc'[t] = where /\ me'[t] = a /\ peer'[t] = b
      /\ \A s \in Task \ {t} : pc'[s] = pc[s] /\ me'[s] = me[s] /\ peer'[s] = peer[s]
  BY DEF Start, TypeOK
<1>2. TypeOK'
  <2>1. /\ pc' \in [Task -> {"idle", "create", "update", "open"}]
        /\ me' \in [Task -> User \cup {Nobody}] /\ peer' \in [Task -> User \cup {Nobody}]
    BY DEF Start, TypeOK
  <2> QED
    BY <2>1 DEF TypeOK, Live
<1>3. Fresh' /\ FriendsAsAgreed'
  BY DEF Fresh, FriendsAsAgreed, IsFriend, Live
<1>4. TaskSound'
  BY <1>1 DEF TaskSound, Live
<1>5. MetSound'
  BY <1>1 DEF MetSound
<1> QED
  BY <1>2, <1>3, <1>4, <1>5

\* A task that returns leaves the other tasks as they were.
LEMMA ReturnStep ==
  ASSUME TypeOK, NEW t \in Task, Return(t)
  PROVE  /\ pc' \in [Task -> {"idle", "create", "update", "open"}]
         /\ me' \in [Task -> User \cup {Nobody}] /\ peer' \in [Task -> User \cup {Nobody}]
         /\ id' \in [Task -> Nat] /\ verdict' \in [Task -> {"accepted", "rejected"}]
         /\ pc'[t] = "idle"
         /\ \A s \in Task \ {t} : /\ pc'[s] = pc[s] /\ me'[s] = me[s]
                                  /\ peer'[s] = peer[s] /\ id'[s] = id[s]
BY DEF Return, TypeOK

\* A new request makes nobody friends.
LEMMA CreateStep == ASSUME Inv, NEW t \in Task, CreateRequest(t) PROVE Inv'
<1> USE DEF Inv, TypeInv
<1>1. me[t] \in User /\ peer[t] \in User
  BY DEF CreateRequest, TaskSound
<1>2. /\ rows' \in [Id -> Row] /\ next' \in 1..(MaxRows + 1) /\ next' >= next
      /\ \A i \in Id : \/ rows'[i] = rows[i]
                       \/ /\ i = next /\ next' = next + 1 /\ rows[i] = NoRow
                          /\ rows'[i] = [from |-> me[t], to |-> peer[t], status |-> "pending"]
      /\ Fresh'
  BY <1>1, InsertRowStep DEF CreateRequest
<1>3. /\ pc' \in [Task -> {"idle", "create", "update", "open"}]
      /\ me' \in [Task -> User \cup {Nobody}] /\ peer' \in [Task -> User \cup {Nobody}]
      /\ id' \in [Task -> Nat] /\ verdict' \in [Task -> {"accepted", "rejected"}]
      /\ pc'[t] = "idle"
      /\ \A s \in Task \ {t} : /\ pc'[s] = pc[s] /\ me'[s] = me[s]
                               /\ peer'[s] = peer[s] /\ id'[s] = id[s]
  BY ReturnStep DEF CreateRequest
<1>4. UNCHANGED <<convs, friends, met>>
  BY DEF CreateRequest
<1>5. NoRow.status = "none"
  BY DEF NoRow
<1>6. \A i \in Id : rows'[i] = rows[i] \/
        (/\ i = next /\ i \notin Live /\ rows'[i].status = "pending"
         /\ rows'[i].from = me[t] /\ rows'[i].to = peer[t])
  BY <1>2, <1>5 DEF Live
<1>7. TypeOK'
  <2>1. \A i \in Live' : rows'[i].from \in User /\ rows'[i].to \in User
    BY <1>1, <1>6 DEF TypeOK, Live
  <2> QED
    BY <1>2, <1>3, <1>4, <2>1 DEF TypeOK
<1>8. TaskSound'
  <2> SUFFICES ASSUME NEW s \in Task, pc'[s] # "idle"
               PROVE  /\ me'[s] \in User /\ peer'[s] \in User
                      /\ pc'[s] = "update" =>
                           /\ id'[s] \in Id /\ id'[s] < next'
                           /\ id'[s] \in Live'
                                => {rows'[id'[s]].from, rows'[id'[s]].to} = {me'[s], peer'[s]}
    BY DEF TaskSound
  <2>1. s # t /\ pc'[s] = pc[s] /\ me'[s] = me[s] /\ peer'[s] = peer[s] /\ id'[s] = id[s]
    BY <1>3
  <2>2. me[s] \in User /\ peer[s] \in User
    BY <2>1 DEF TaskSound
  <2>3. CASE pc[s] = "update"
    <3>1. /\ id[s] \in Id /\ id[s] < next
          /\ id[s] \in Live => {rows[id[s]].from, rows[id[s]].to} = {me[s], peer[s]}
      BY <2>3 DEF TaskSound
    <3>2. id[s] < next' /\ rows'[id[s]] = rows[id[s]]
      BY <1>2, <3>1 DEF Id, TypeOK
    <3> QED
      BY <2>1, <2>2, <3>1, <3>2 DEF Live
  <2> QED
    BY <2>1, <2>2, <2>3
<1>9. FriendsAsAgreed'
  <2>1. \A i \in Id : rows'[i].status = "accepted" <=> rows[i].status = "accepted"
    BY <1>6 DEF Live
  <2>2. \A i \in Id : rows[i].status = "accepted" => rows'[i] = rows[i]
    BY <1>6 DEF Live
  <2>3. ASSUME NEW a \in User, NEW b \in User PROVE IsFriend(a, b)' <=> IsFriend(a, b)
    BY <2>1, <2>2 DEF IsFriend, Live
  <2> QED
    BY <1>4, <2>3 DEF FriendsAsAgreed
<1>10. MetSound'
  BY <1>3, <1>4 DEF MetSound
<1> QED
  BY <1>2, <1>7, <1>8, <1>9, <1>10

\* An acceptance that takes effect makes friends of the two users; any other
\* answer changes no friendship.
LEMMA ResolveStep == ASSUME Inv, NEW t \in Task, Resolve(t) PROVE Inv'
<1> USE DEF Inv, TypeInv
<1> DEFINE p == {me[t], peer[t]}
<1>1. PICK i \in Id : i = id[t]
  BY DEF Resolve, TaskSound
<1>2. /\ i < next /\ me[t] \in User /\ peer[t] \in User
      /\ i \in Live => {rows[i].from, rows[i].to} = p
  BY <1>1 DEF Resolve, TaskSound
<1>3. PICK v \in {"accepted", "rejected"} : v = verdict[t]
  BY DEF TypeOK
<1>4. /\ rows' \in [Id -> Row]
      /\ \A j \in Id \ {i} : rows'[j] = rows[j]
      /\ rows'[i].from = rows[i].from /\ rows'[i].to = rows[i].to
      /\ rows'[i].status = IF rows[i].status = "pending" THEN v ELSE rows[i].status
      /\ rows[i].status # "pending" => rows'[i] = rows[i]
  BY <1>1, <1>3, UpdateStatusStep DEF Resolve
<1>5. /\ pc' \in [Task -> {"idle", "create", "update", "open"}]
      /\ me' \in [Task -> User \cup {Nobody}] /\ peer' \in [Task -> User \cup {Nobody}]
      /\ id' \in [Task -> Nat] /\ verdict' \in [Task -> {"accepted", "rejected"}]
      /\ pc'[t] = "idle"
      /\ \A s \in Task \ {t} : /\ pc'[s] = pc[s] /\ me'[s] = me[s]
                               /\ peer'[s] = peer[s] /\ id'[s] = id[s]
  BY ReturnStep DEF Resolve
<1>6. PICK made : /\ made = IF rows[i].status = "pending" /\ v = "accepted" THEN {p} ELSE {}
                  /\ friends' = friends \cup made /\ met' = met \cup made
  BY <1>1, <1>3 DEF Resolve
<1>7. UNCHANGED <<next, convs>>
  BY DEF Resolve
<1>8. Live' = Live
  BY <1>4 DEF Live
<1>9. TypeOK'
  <2>1. p \in Pairs
    BY <1>2 DEF Pairs
  <2>2. friends' \subseteq Pairs /\ met' \subseteq Pairs
    BY <1>6, <2>1 DEF TypeOK
  <2>3. \A j \in Live' : rows'[j].from \in User /\ rows'[j].to \in User
    BY <1>4, <1>8 DEF TypeOK, Live
  <2> QED
    BY <1>4, <1>5, <1>7, <2>2, <2>3 DEF TypeOK
<1>10. Fresh'
  BY <1>2, <1>4, <1>7 DEF Fresh, Id, TypeOK
<1>11. TaskSound'
  BY <1>4, <1>5, <1>7, <1>8 DEF TaskSound
<1>12. FriendsAsAgreed'
  <2> SUFFICES ASSUME NEW a \in User, NEW b \in User
               PROVE  IsFriend(a, b)' <=> {a, b} \in friends'
    BY DEF FriendsAsAgreed
  <2>1. IsFriend(a, b) <=> {a, b} \in friends
    BY DEF FriendsAsAgreed
  <2>2. CASE rows[i].status = "pending" /\ v = "accepted"
    <3>1. i \in Live /\ rows'[i].status = "accepted" /\ {rows'[i].from, rows'[i].to} = p
      BY <1>2, <1>4, <2>2 DEF Live
    <3> HIDE DEF p
    <3>2. ASSUME IsFriend(a, b) PROVE IsFriend(a, b)'
      <4>1. PICK j \in Live : rows[j].status = "accepted" /\ {rows[j].from, rows[j].to} = {a, b}
        BY <3>2 DEF IsFriend
      <4>2. j \in Id /\ j # i
        BY <2>2, <4>1 DEF Live
      <4> QED
        BY <1>4, <1>8, <4>1, <4>2 DEF IsFriend
    <3>3. ASSUME {a, b} = p PROVE IsFriend(a, b)'
      BY <1>8, <3>1, <3>3 DEF IsFriend
    <3>4. ASSUME IsFriend(a, b)', {a, b} # p PROVE IsFriend(a, b)
      <4>1. PICK j \in Live : rows'[j].status = "accepted" /\ {rows'[j].from, rows'[j].to} = {a, b}
        BY <1>8, <3>4 DEF IsFriend
      <4>2. j \in Id /\ j # i
        BY <3>1, <3>4, <4>1 DEF Live
      <4> QED
        BY <1>4, <4>1, <4>2 DEF IsFriend
    <3> QED
      BY <1>6, <2>1, <2>2, <3>2, <3>3, <3>4 DEF p
  <2>3. CASE ~(rows[i].status = "pending" /\ v = "accepted")
    <3>1. /\ rows'[i].status = "accepted" <=> rows[i].status = "accepted"
          /\ friends' = friends
      BY <1>4, <1>6, <2>3
    <3>2. \A j \in Id : /\ rows'[j].from = rows[j].from /\ rows'[j].to = rows[j].to
                        /\ rows'[j].status = "accepted" <=> rows[j].status = "accepted"
      BY <1>4, <3>1
    <3>3. Live \subseteq Id
      BY DEF Live
    <3>4. IsFriend(a, b)' <=> IsFriend(a, b)
      BY <1>8, <3>2, <3>3 DEF IsFriend
    <3> QED
      BY <2>1, <3>1, <3>4
  <2> QED
    BY <2>2, <2>3
<1>13. MetSound'
  BY <1>5, <1>6, <1>7 DEF MetSound
<1> QED
  BY <1>9, <1>10, <1>11, <1>12, <1>13

\* A removal ends the friendship of the pair, whoever asked for it once, and no
\* other.
LEMMA RemoveStep ==
  ASSUME Inv, NEW a \in User, NEW b \in User, RemoveFriend(a, b) PROVE Inv'
<1> USE DEF Inv, TypeInv
<1>1. /\ rows' \in [Id -> Row]
      /\ \A i \in Id : rows'[i] =
           IF rows[i].status = "accepted" /\ {rows[i].from, rows[i].to} = {a, b}
           THEN NoRow ELSE rows[i]
  BY DeleteStep DEF RemoveFriend
<1>2. /\ friends' = friends \ {{a, b}}
      /\ UNCHANGED <<next, convs, met, pc, me, peer, id, verdict>>
  BY DEF RemoveFriend, task
<1>3. NoRow.status = "none"
  BY DEF NoRow
<1>4. \A i \in Live' : i \in Live /\ rows'[i] = rows[i]
  BY <1>1, <1>3 DEF Live
<1>5. TypeOK'
  BY <1>1, <1>2, <1>4 DEF TypeOK
<1>6. Fresh'
  BY <1>1, <1>2 DEF Fresh
<1>7. TaskSound'
  BY <1>2, <1>4 DEF TaskSound
<1>8. FriendsAsAgreed'
  <2> SUFFICES ASSUME NEW c \in User, NEW d \in User
               PROVE  IsFriend(c, d)' <=> {c, d} \in friends'
    BY DEF FriendsAsAgreed
  <2>1. IsFriend(c, d) <=> {c, d} \in friends
    BY DEF FriendsAsAgreed
  <2>2. IsFriend(c, d)' <=> IsFriend(c, d) /\ {c, d} # {a, b}
    BY <1>1, <1>3, <1>4 DEF IsFriend, Live
  <2> QED
    BY <1>2, <2>1, <2>2
<1>9. MetSound'
  BY <1>2 DEF MetSound
<1> QED
  BY <1>5, <1>6, <1>7, <1>8, <1>9

\* Opening a conversation, or giving up, changes no friendship.
LEMMA EndStep ==
  ASSUME Inv, NEW t \in Task, GetOrCreate(t) \/ Abandon(t) PROVE Inv'
<1> USE DEF Inv, TypeInv
<1>1. UNCHANGED <<rows, next, friends, met>>
  BY DEF GetOrCreate, Abandon
<1>2. /\ pc' \in [Task -> {"idle", "create", "update", "open"}]
      /\ me' \in [Task -> User \cup {Nobody}] /\ peer' \in [Task -> User \cup {Nobody}]
      /\ id' \in [Task -> Nat] /\ verdict' \in [Task -> {"accepted", "rejected"}]
      /\ pc'[t] = "idle"
      /\ \A s \in Task \ {t} : /\ pc'[s] = pc[s] /\ me'[s] = me[s]
                               /\ peer'[s] = peer[s] /\ id'[s] = id[s]
  BY ReturnStep DEF GetOrCreate, Abandon
<1>3. convs' = convs \/ (convs' = convs \cup {{me[t], peer[t]}} /\ {me[t], peer[t]} \in met)
  BY DEF GetOrCreate, Abandon, MetSound
<1>4. convs' \subseteq Pairs /\ convs' \subseteq met
  BY <1>3 DEF TypeOK, MetSound
<1>5. TypeOK'
  BY <1>1, <1>2, <1>4 DEF TypeOK, Live
<1>6. TaskSound' /\ Fresh' /\ FriendsAsAgreed'
  <2>1. Live' = Live
    BY <1>1 DEF Live
  <2>2. TaskSound'
    BY <1>1, <1>2, <2>1 DEF TaskSound
  <2>3. Fresh' /\ FriendsAsAgreed'
    BY <1>1, <2>1 DEF Fresh, FriendsAsAgreed, IsFriend
  <2> QED
    BY <2>2, <2>3
<1>7. MetSound'
  BY <1>1, <1>2, <1>4 DEF MetSound
<1> QED
  BY <1>5, <1>6, <1>7

\* Every step keeps the invariant.
LEMMA InvStep == Inv /\ [Next]_vars => Inv'
<1> SUFFICES ASSUME Inv, [Next]_vars PROVE Inv'
  OBVIOUS
<1> USE DEF Inv, TypeInv
<1>1. ASSUME NEW t \in Task, NEW a \in User, NEW b \in User, SendRequest(t, a, b)
      PROVE  Inv'
  <2>1. /\ Start(t, "create", a, b)
        /\ UNCHANGED <<rows, next, convs, id, verdict, friends, met>>
    BY <1>1 DEF SendRequest
  <2> QED
    BY <2>1, StartStep DEF TypeOK
<1>2. ASSUME NEW t \in Task, NEW a \in User, NEW b \in User, SendDirectMessage(t, a, b)
      PROVE  Inv'
  <2>1. /\ Start(t, "open", a, b)
        /\ UNCHANGED <<rows, next, convs, id, verdict, friends, met>>
    BY <1>2 DEF SendDirectMessage
  <2>2. {a, b} \in met
    BY <1>2 DEF SendDirectMessage, FriendsAsAgreed, MetSound
  <2> QED
    BY <2>1, <2>2, StartStep DEF TypeOK
<1>3. ASSUME NEW t \in Task, NEW i \in Id, NEW v \in {"accepted", "rejected"},
             RespondRequest(t, i, v)
      PROVE  Inv'
  <2>1. /\ Start(t, "update", rows[i].to, rows[i].from)
        /\ UNCHANGED <<rows, next, convs, friends, met>> /\ rows[i].status = "pending"
        /\ id' = [id EXCEPT ![t] = i] /\ verdict' = [verdict EXCEPT ![t] = v]
    BY <1>3 DEF RespondRequest
  <2>2. rows[i].to \in User /\ rows[i].from \in User
    BY <2>1 DEF TypeOK, Live
  <2>3. i < next
    <3>1. NoRow.status = "none"
      BY DEF NoRow
    <3> QED
      BY <2>1, <3>1 DEF Fresh, TypeOK, Id
  <2>4. /\ id' \in [Task -> Nat] /\ verdict' \in [Task -> {"accepted", "rejected"}]
        /\ id'[t] = i /\ \A s \in Task \ {t} : id'[s] = id[s]
    BY <2>1 DEF TypeOK, Id
  <2>5. {rows[i].from, rows[i].to} = {rows[i].to, rows[i].from}
    OBVIOUS
  <2> QED
    BY <2>1, <2>2, <2>3, <2>4, <2>5, StartStep
<1>4. ASSUME NEW t \in Task, CreateRequest(t) \/ Resolve(t) \/ GetOrCreate(t) \/ Abandon(t)
      PROVE  Inv'
  BY <1>4, CreateStep, ResolveStep, EndStep
<1>5. ASSUME NEW a \in User, NEW b \in User, RemoveFriend(a, b) PROVE Inv'
  BY <1>5, RemoveStep
<1>6. CASE UNCHANGED vars
  BY <1>6 DEF vars, task, TypeOK, Live, Fresh, TaskSound, FriendsAsAgreed, IsFriend, MetSound
<1> QED
  BY <1>1, <1>2, <1>3, <1>4, <1>5, <1>6 DEF Next

\* The invariant holds in every reachable state.
LEMMA InvCorrect == Spec => []Inv
BY InvInit, InvStep, PTL DEF Spec

-----------------------------------------------------------------------------
(* The theorems.                                                           *)

\* The types hold in every reachable state.
THEOREM TypeCorrect == Spec => []TypeOK
<1>1. Inv => TypeOK
  BY DEF Inv, TypeInv
<1> QED
  BY <1>1, InvCorrect, PTL

\* Two users are friends exactly if a request between them was accepted and neither
\* removed the other since, with any number of commands under way and whatever is
\* refused of mirrored requests (friendship_repository.go: UpdateStatus,
\* Delete, IsFriend).
THEOREM AgreementCorrect == Spec => []FriendsAsAgreed
<1>1. Inv => FriendsAsAgreed
  BY DEF Inv
<1> QED
  BY <1>1, InvCorrect, PTL

\* A conversation is only opened for users who were friends at some time.
THEOREM ConversationCorrect == Spec => []ConversationIsEarned
<1>1. Inv => ConversationIsEarned
  BY DEF Inv, MetSound, ConversationIsEarned
<1> QED
  BY <1>1, InvCorrect, PTL

\* An answer that took effect stands until an accepted request is removed.
THEOREM AnswerCorrect == Spec => AnswerIsFinal
<1> DEFINE Final ==
      \A i \in Id :
        \/ rows[i].status \in {"none", "pending"}
        \/ rows'[i] = rows[i]
        \/ rows[i].status = "accepted" /\ rows'[i] = NoRow
<1>1. ASSUME Inv, [Next]_vars PROVE Final
  <2> USE DEF Inv, TypeInv
  <2>1. ASSUME NEW t \in Task, CreateRequest(t) PROVE Final
    <3>1. me[t] \in User /\ peer[t] \in User
      BY <1>1, <2>1 DEF CreateRequest, TaskSound
    <3>2. \A i \in Id : rows'[i] = rows[i] \/ rows[i] = NoRow
      BY <1>1, <2>1, <3>1, InsertRowStep DEF CreateRequest
    <3> QED
      BY <3>2 DEF NoRow
  <2>2. ASSUME NEW t \in Task, Resolve(t) PROVE Final
    <3>1. id[t] \in Id /\ verdict[t] \in {"accepted", "rejected"}
      BY <1>1, <2>2 DEF Resolve, TaskSound, TypeOK
    <3> QED
      BY <1>1, <2>2, <3>1, UpdateStatusStep DEF Resolve
  <2>3. ASSUME NEW a \in User, NEW b \in User, RemoveFriend(a, b) PROVE Final
    BY <1>1, <2>3, DeleteStep DEF RemoveFriend
  <2>4. CASE UNCHANGED rows
    BY <2>4
  <2> QED
    BY <1>1, <2>1, <2>2, <2>3, <2>4 DEF Next, vars, SendRequest, SendDirectMessage,
       RespondRequest, GetOrCreate, Abandon
<1>2. ASSUME Inv, [Next]_vars PROVE [Final]_vars
  BY <1>1, <1>2
<1> QED
  BY <1>2, InvCorrect, PTL DEF Spec, AnswerIsFinal

-----------------------------------------------------------------------------
(* How many relations a pair can have.                                     *)

\* Nobody asks himself, a command has two users, and the unique index holds.
PairInv ==
  /\ \A i \in Live : rows[i].from # rows[i].to
  /\ \A i, j \in Live : rows[i].from = rows[j].from /\ rows[i].to = rows[j].to => i = j
  /\ \A t \in Task : pc[t] # "idle" => me[t] # peer[t]

\* A step that stores no request and starts no command, but may delete or answer.
LEMMA PairsKept ==
  ASSUME PairInv,
         \A i \in Live' : i \in Live /\ rows'[i].from = rows[i].from
                                     /\ rows'[i].to = rows[i].to,
         \A t \in Task : pc'[t] = "idle"
                         \/ (pc'[t] = pc[t] /\ me'[t] = me[t] /\ peer'[t] = peer[t])
  PROVE  PairInv'
BY DEF PairInv

\* The check of a request and its insert are two statements; the index decides.
LEMMA PairStep == Inv /\ PairInv /\ [Next]_vars => PairInv'
<1> SUFFICES ASSUME Inv, PairInv, [Next]_vars PROVE PairInv'
  OBVIOUS
<1> USE DEF Inv, TypeInv
<1>1. ASSUME NEW t \in Task, NEW a \in User, NEW b \in User, a # b,
             NEW where, Start(t, where, a, b), UNCHANGED rows
      PROVE  PairInv'
  <2>1. /\ me'[t] = a /\ peer'[t] = b
        /\ \A s \in Task \ {t} : pc'[s] = pc[s] /\ me'[s] = me[s] /\ peer'[s] = peer[s]
    BY <1>1 DEF Start, TypeOK
  <2>2. Live' = Live
    BY <1>1 DEF Live
  <2> QED
    BY <1>1, <2>1, <2>2 DEF PairInv
<1>2. ASSUME NEW t \in Task, NEW a \in User, NEW b \in User,
             SendRequest(t, a, b) \/ SendDirectMessage(t, a, b)
      PROVE  PairInv'
  BY <1>1, <1>2 DEF SendRequest, SendDirectMessage
<1>3. ASSUME NEW t \in Task, NEW i \in Id, NEW v \in {"accepted", "rejected"},
             RespondRequest(t, i, v)
      PROVE  PairInv'
  <2>1. i \in Live /\ rows[i].to \in User /\ rows[i].from \in User
    BY <1>3 DEF RespondRequest, Live, TypeOK
  <2> QED
    BY <1>1, <1>3, <2>1 DEF RespondRequest, PairInv
<1>4. ASSUME NEW t \in Task, CreateRequest(t) PROVE PairInv'
  <2>1. /\ pc'[t] = "idle"
        /\ \A s \in Task \ {t} : pc'[s] = pc[s] /\ me'[s] = me[s] /\ peer'[s] = peer[s]
    BY <1>4, ReturnStep DEF CreateRequest
  <2>2. CASE UNCHANGED rows
    BY <2>1, <2>2, PairsKept DEF Live
  <2>3. CASE /\ ~\E i \in Live : rows[i].from = me[t] /\ rows[i].to = peer[t]
             /\ next <= MaxRows
             /\ rows' = [rows EXCEPT ![next] =
                           [from |-> me[t], to |-> peer[t], status |-> "pending"]]
    <3>1. next \in Id /\ me[t] # peer[t]
      BY <1>4, <2>3, RowAssumption DEF CreateRequest, PairInv, TypeOK, Id
    <3>2. /\ rows'[next].from = me[t] /\ rows'[next].to = peer[t]
          /\ \A i \in Live' : i # next => i \in Live /\ rows'[i] = rows[i]
      BY <2>3, <3>1 DEF TypeOK, Live
    <3>3. \A i \in Live' : rows'[i].from # rows'[i].to
      BY <3>1, <3>2 DEF PairInv
    <3>4. \A i, j \in Live' :
            rows'[i].from = rows'[j].from /\ rows'[i].to = rows'[j].to => i = j
      BY <2>3, <3>2 DEF PairInv
    <3> QED
      BY <2>1, <3>3, <3>4 DEF PairInv
  <2> QED
    BY <1>4, <2>2, <2>3 DEF CreateRequest, InsertRow
<1>5. ASSUME NEW t \in Task, Resolve(t) PROVE PairInv'
  <2>1. id[t] \in Id /\ verdict[t] \in {"accepted", "rejected"}
    BY <1>5 DEF Resolve, TaskSound, TypeOK
  <2>2. /\ \A j \in Id \ {id[t]} : rows'[j] = rows[j]
        /\ rows'[id[t]].from = rows[id[t]].from /\ rows'[id[t]].to = rows[id[t]].to
        /\ rows'[id[t]].status =
             IF rows[id[t]].status = "pending" THEN verdict[t] ELSE rows[id[t]].status
    BY <1>5, <2>1, UpdateStatusStep DEF Resolve
  <2>3. \A i \in Live' : i \in Live /\ rows'[i].from = rows[i].from
                                    /\ rows'[i].to = rows[i].to
    BY <2>2 DEF Live
  <2>4. /\ pc'[t] = "idle"
        /\ \A s \in Task \ {t} : pc'[s] = pc[s] /\ me'[s] = me[s] /\ peer'[s] = peer[s]
    BY <1>5, ReturnStep DEF Resolve
  <2> QED
    BY <2>3, <2>4, PairsKept
<1>6. ASSUME NEW a \in User, NEW b \in User, RemoveFriend(a, b) PROVE PairInv'
  <2>1. \A i \in Live' : i \in Live /\ rows'[i] = rows[i]
    BY <1>6, DeleteStep DEF RemoveFriend, Live, NoRow
  <2> QED
    BY <1>6, <2>1, PairsKept DEF RemoveFriend, task
<1>7. ASSUME NEW t \in Task, GetOrCreate(t) \/ Abandon(t) PROVE PairInv'
  <2>1. /\ pc'[t] = "idle"
        /\ \A s \in Task \ {t} : pc'[s] = pc[s] /\ me'[s] = me[s] /\ peer'[s] = peer[s]
    BY <1>7, ReturnStep DEF GetOrCreate, Abandon
  <2>2. UNCHANGED rows
    BY <1>7 DEF GetOrCreate, Abandon
  <2> QED
    BY <2>1, <2>2, PairsKept DEF Live
<1>8. CASE UNCHANGED vars
  BY <1>8 DEF vars, task, PairInv, Live
<1> QED
  BY <1>2, <1>3, <1>4, <1>5, <1>6, <1>7, <1>8 DEF Next

LEMMA PairCorrect == Spec => []PairInv
<1>1. Init => PairInv
  BY DEF Init, PairInv, Live, NoRow
<1> QED
  BY <1>1, PairStep, InvCorrect, PTL DEF Spec

\* What the unique index on the ordered pair guarantees of the claim that a pair
\* has one relation (friend_service.go:101-103): two of one pair are requests in
\* opposite directions.
THEOREM MirroredCorrect == Spec => []RelationsAreMirrored
<1>1. PairInv => RelationsAreMirrored
  <2> SUFFICES ASSUME PairInv, NEW i \in Live, NEW j \in Live, i # j,
                      {rows[i].from, rows[i].to} = {rows[j].from, rows[j].to}
               PROVE  /\ rows[i].from = rows[j].to /\ rows[i].to = rows[j].from
                      /\ rows[i].from # rows[i].to
    BY DEF RelationsAreMirrored
  <2>1. rows[i].from # rows[i].to
    BY DEF PairInv
  <2>2. ~(rows[i].from = rows[j].from /\ rows[i].to = rows[j].to)
    BY DEF PairInv
  <2> QED
    BY <2>1, <2>2
<1> QED
  BY <1>1, PairCorrect, PTL

-----------------------------------------------------------------------------
(* Friends implements Friendship.                                          *)

\* Two users of a command are a couple.
LEMMA CoupleOf ==
  ASSUME NEW a \in User, NEW b \in User, a # b
  PROVE  {a, b} \in Bond!Couple
<1>1. <<a, b>> \in {q \in User \X User : q[1] # q[2]}
  OBVIOUS
<1> QED
  BY <1>1 DEF Bond!Couple

\* A stored request is open between its users, and makes or parts no friends.
LEMMA CreateIsAsk ==
  ASSUME Inv, PairInv, NEW t \in Task, CreateRequest(t)
  PROVE  Bond!Next \/ UNCHANGED Bond!pairVars
<1> USE DEF Inv, TypeInv
<1>1. me[t] \in User /\ peer[t] \in User /\ me[t] # peer[t] /\ UNCHANGED <<met, convs>>
  BY DEF CreateRequest, TaskSound, PairInv
<1>2. CASE UNCHANGED rows
  BY <1>1, <1>2 DEF Bond!pairVars, PairsWith
<1>3. CASE /\ next <= MaxRows
           /\ rows' = [rows EXCEPT ![next] =
                         [from |-> me[t], to |-> peer[t], status |-> "pending"]]
  <2> DEFINE p == {me[t], peer[t]}
  <2>1. next \in Id /\ rows[next].status = "none"
    BY <1>3, RowAssumption DEF TypeOK, Id, Fresh, NoRow
  <2>2. /\ rows'[next].status = "pending" /\ {rows'[next].from, rows'[next].to} = p
        /\ \A i \in Id \ {next} : rows'[i] = rows[i]
    BY <1>3, <2>1 DEF TypeOK
  <2>3. PairsWith("accepted")' = PairsWith("accepted")
    <3>1. {j \in Id : rows'[j].status = "accepted"} = {j \in Id : rows[j].status = "accepted"}
      BY <2>1, <2>2
    <3>2. \A j \in {k \in Id : rows[k].status = "accepted"} : rows'[j] = rows[j]
      BY <2>1, <2>2
    <3> QED
      BY <3>1, <3>2 DEF PairsWith
  <2>4. PairsWith("pending")' = PairsWith("pending") \cup {p}
    <3>1. {j \in Id : rows'[j].status = "pending"}
            = {j \in Id : rows[j].status = "pending"} \cup {next}
      BY <2>1, <2>2
    <3>2. \A j \in {k \in Id : rows[k].status = "pending"} : rows'[j] = rows[j]
      BY <2>1, <2>2
    <3> QED
      BY <2>2, <3>1, <3>2 DEF PairsWith
  <2>5. p \in Bond!Couple
    BY <1>1, CoupleOf
  <2> HIDE DEF p
  <2>6. CASE p \in PairsWith("pending")
    BY <1>1, <2>3, <2>4, <2>6 DEF Bond!pairVars
  <2>7. CASE p \notin PairsWith("pending")
    <3>1. Bond!Ask(p)
      BY <1>1, <2>3, <2>4, <2>7 DEF Bond!Ask
    <3> QED
      BY <2>5, <3>1 DEF Bond!Next
  <2> QED
    BY <2>6, <2>7
<1> QED
  BY <1>2, <1>3 DEF CreateRequest, InsertRow

\* An answer that takes effect accepts or refuses; a late one is invisible.
LEMMA ResolveIsAnswer ==
  ASSUME Inv, PairInv, NEW t \in Task, Resolve(t)
  PROVE  Bond!Next \/ UNCHANGED Bond!pairVars
<1> USE DEF Inv, TypeInv
<1> DEFINE p == {me[t], peer[t]}
<1>1. PICK i \in Id : i = id[t]
  BY DEF Resolve, TaskSound
<1>2. /\ me[t] \in User /\ peer[t] \in User /\ me[t] # peer[t]
      /\ i \in Live => {rows[i].from, rows[i].to} = p
  BY <1>1 DEF Resolve, TaskSound, PairInv
<1>3. PICK v \in {"accepted", "rejected"} : v = verdict[t]
  BY DEF TypeOK
<1>4. /\ \A j \in Id \ {i} : rows'[j] = rows[j]
      /\ rows'[i].from = rows[i].from /\ rows'[i].to = rows[i].to
      /\ rows'[i].status = IF rows[i].status = "pending" THEN v ELSE rows[i].status
      /\ rows[i].status # "pending" => rows'[i] = rows[i]
      /\ rows' \in [Id -> Row]
  BY <1>1, <1>3, UpdateStatusStep DEF Resolve
<1>5. UNCHANGED convs
  BY DEF Resolve
<1>6. CASE rows[i].status # "pending"
  <2>1. rows' = rows
    BY <1>1, <1>6 DEF Resolve, UpdateStatus
  <2>2. met' = met
    BY <1>1, <1>6 DEF Resolve
  <2> QED
    BY <1>5, <2>1, <2>2 DEF Bond!pairVars, PairsWith
<1>7. CASE rows[i].status = "pending"
  <2>1. {rows[i].from, rows[i].to} = p /\ p \in Bond!Couple
    BY <1>2, <1>7, CoupleOf DEF Live
  <2> HIDE DEF p
  <2>2. p \in PairsWith("pending")
    BY <1>7, <2>1 DEF PairsWith
  <2>3. PairsWith("pending")' \in {PairsWith("pending"), PairsWith("pending") \ {p}}
    <3>1. {j \in Id : rows'[j].status = "pending"}
            = {j \in Id : rows[j].status = "pending"} \ {i}
      BY <1>4, <1>7
    <3>2. \A j \in {k \in Id : rows[k].status = "pending"} :
            rows'[j].from = rows[j].from /\ rows'[j].to = rows[j].to
      BY <1>4
    <3>3. PairsWith("pending")' \subseteq PairsWith("pending")
      BY <3>1, <3>2 DEF PairsWith
    <3>4. ASSUME NEW q \in PairsWith("pending"), q # p PROVE q \in PairsWith("pending")'
      <4>1. PICK j \in {k \in Id : rows[k].status = "pending"} :
              q = {rows[j].from, rows[j].to}
        BY <3>4 DEF PairsWith
      <4>2. j # i
        BY <2>1, <3>4, <4>1
      <4> QED
        BY <3>1, <3>2, <4>1, <4>2 DEF PairsWith
    <3> QED
      BY <3>3, <3>4
  <2>4. CASE v = "accepted"
    <3>1. PairsWith("accepted")' = PairsWith("accepted") \cup {p}
      <4>1. {j \in Id : rows'[j].status = "accepted"}
              = {j \in Id : rows[j].status = "accepted"} \cup {i}
        BY <1>4, <1>7, <2>4
      <4>2. \A j \in Id : rows'[j].from = rows[j].from /\ rows'[j].to = rows[j].to
        BY <1>4
      <4>3. ASSUME NEW q \in PairsWith("accepted")' PROVE q \in PairsWith("accepted") \cup {p}
        <5>1. PICK j \in Id : rows'[j].status = "accepted" /\ q = {rows'[j].from, rows'[j].to}
          BY <4>3 DEF PairsWith
        <5>2. q = {rows[j].from, rows[j].to}
          BY <4>2, <5>1
        <5>3. CASE j = i
          BY <2>1, <5>2, <5>3
        <5>4. CASE j # i
          <6>1. rows[j].status = "accepted"
            BY <4>1, <5>1, <5>4
          <6> QED
            BY <5>2, <6>1 DEF PairsWith
        <5> QED
          BY <5>3, <5>4
      <4>4. ASSUME NEW q \in PairsWith("accepted") PROVE q \in PairsWith("accepted")'
        <5>1. PICK j \in Id : rows[j].status = "accepted" /\ q = {rows[j].from, rows[j].to}
          BY <4>4 DEF PairsWith
        <5>2. rows'[j].status = "accepted" /\ q = {rows'[j].from, rows'[j].to}
          BY <4>1, <4>2, <5>1
        <5> QED
          BY <5>2 DEF PairsWith
      <4>5. p \in PairsWith("accepted")'
        <5>1. rows'[i].status = "accepted" /\ p = {rows'[i].from, rows'[i].to}
          BY <2>1, <4>1, <4>2
        <5> QED
          BY <5>1 DEF PairsWith
      <4> QED
        BY <4>3, <4>4, <4>5
    <3>2. met' = met \cup {p}
      BY <1>1, <1>3, <1>7, <2>4 DEF Resolve, p
    <3>3. Bond!Accept(p)
      BY <1>5, <2>2, <2>3, <3>1, <3>2 DEF Bond!Accept, Bond!Answered
    <3> QED
      BY <2>1, <3>3 DEF Bond!Next
  <2>5. CASE v = "rejected"
    <3>1. PairsWith("accepted")' = PairsWith("accepted")
      <4>1. {j \in Id : rows'[j].status = "accepted"}
              = {j \in Id : rows[j].status = "accepted"}
        BY <1>4, <1>7, <2>5
      <4>2. \A j \in Id : rows'[j].from = rows[j].from /\ rows'[j].to = rows[j].to
        BY <1>4
      <4> QED
        BY <4>1, <4>2 DEF PairsWith
    <3>2. met' = met
      BY <1>1, <1>3, <1>7, <2>5 DEF Resolve
    <3>3. Bond!Refuse(p)
      BY <1>5, <2>2, <2>3, <3>1, <3>2 DEF Bond!Refuse, Bond!Answered
    <3> QED
      BY <2>1, <3>3 DEF Bond!Next
  <2> QED
    BY <2>4, <2>5
<1> QED
  BY <1>6, <1>7

\* A removal ends the friendship in one step, mirrored rows included.
LEMMA RemoveIsPart ==
  ASSUME Inv, NEW a \in User, NEW b \in User, RemoveFriend(a, b)
  PROVE  Bond!Next
<1> USE DEF Inv, TypeInv
<1> DEFINE p == {a, b}
<1>1. \A i \in Id : rows'[i] =
        IF rows[i].status = "accepted" /\ {rows[i].from, rows[i].to} = p
        THEN NoRow ELSE rows[i]
  BY DeleteStep DEF RemoveFriend
<1>2. p \in Bond!Couple /\ UNCHANGED <<met, convs>>
  BY CoupleOf DEF RemoveFriend
<1>3. p \in PairsWith("accepted")
  BY DEF RemoveFriend, IsFriend, PairsWith, Live
<1> HIDE DEF p
<1>4. NoRow.status = "none"
  BY DEF NoRow
<1>5. PairsWith("accepted")' = PairsWith("accepted") \ {p}
  <2>1. {j \in Id : rows'[j].status = "accepted"}
          = {j \in Id : rows[j].status = "accepted" /\ {rows[j].from, rows[j].to} # p}
    BY <1>1, <1>4
  <2>2. \A j \in {k \in Id : rows'[k].status = "accepted"} : rows'[j] = rows[j]
    BY <1>1, <1>4
  <2> QED
    BY <2>1, <2>2 DEF PairsWith
<1>6. PairsWith("pending")' = PairsWith("pending")
  <2>1. {j \in Id : rows'[j].status = "pending"} = {j \in Id : rows[j].status = "pending"}
    BY <1>1, <1>4
  <2>2. \A j \in {k \in Id : rows[k].status = "pending"} : rows'[j] = rows[j]
    BY <1>1
  <2> QED
    BY <2>1, <2>2 DEF PairsWith
<1>7. Bond!Part(p)
  BY <1>2, <1>3, <1>5, <1>6 DEF Bond!Part
<1> QED
  BY <1>2, <1>7 DEF Bond!Next

\* Opening a conversation is Talk; starting and giving up are invisible.
LEMMA OtherIsTalk ==
  ASSUME Inv, PairInv, NEW t \in Task,
         \/ GetOrCreate(t) \/ Abandon(t)
         \/ \E a, b \in User : SendRequest(t, a, b) \/ SendDirectMessage(t, a, b)
         \/ \E i \in Id, v \in {"accepted", "rejected"} : RespondRequest(t, i, v)
  PROVE  Bond!Next \/ UNCHANGED Bond!pairVars
<1> USE DEF Inv, TypeInv
<1>1. UNCHANGED <<rows, met>>
  BY DEF GetOrCreate, Abandon, SendRequest, SendDirectMessage, RespondRequest
<1>2. UNCHANGED <<PairsWith("pending"), PairsWith("accepted")>>
  BY <1>1 DEF PairsWith
<1>3. CASE GetOrCreate(t)
  <2>1. /\ {me[t], peer[t]} \in met /\ {me[t], peer[t]} \in Bond!Couple
        /\ convs' = convs \cup {{me[t], peer[t]}}
    BY <1>3, CoupleOf DEF GetOrCreate, MetSound, TaskSound, PairInv
  <2>2. Bond!Talk({me[t], peer[t]})
    BY <1>1, <1>2, <2>1 DEF Bond!Talk
  <2> QED
    BY <2>1, <2>2 DEF Bond!Next
<1>4. CASE UNCHANGED convs
  BY <1>1, <1>2, <1>4 DEF Bond!pairVars
<1> QED
  BY <1>3, <1>4 DEF Abandon, SendRequest, SendDirectMessage, RespondRequest

\* The service implements Friendship (friend_service.go, conversation_service.go):
\* with any number of commands under way and mirrored requests, whoever the table
\* says are friends became so by an acceptance and did not part since.
THEOREM FriendshipImplemented == Spec => ImplementsFriendship
<1>1. Init => Bond!Init
  BY DEF Init, Bond!Init, PairsWith, NoRow
<1>2. Inv /\ PairInv /\ [Next]_vars => [Bond!Next]_(Bond!pairVars)
  <2>1. UNCHANGED vars => UNCHANGED Bond!pairVars
    BY DEF vars, task, Bond!pairVars, PairsWith
  <2> QED
    BY <2>1, CreateIsAsk, ResolveIsAnswer, RemoveIsPart, OtherIsTalk DEF Next
<1> QED
  BY <1>1, <1>2, InvCorrect, PairCorrect, PTL DEF Spec, ImplementsFriendship, Bond!Spec
=============================================================================
