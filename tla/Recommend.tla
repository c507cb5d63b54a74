------------------------------ MODULE Recommend ------------------------------
(***************************************************************************)
(* Watch topics and the recommendations made of them                       *)
(* (service/watch_topic_service.go, service/recommendation_service.go and  *)
(* their repositories and handlers).                                       *)
(*                                                                         *)
(* A generation reads all topics once and then goes through the pairs of   *)
(* their users, one SQL statement at a time, while topics, friendships and *)
(* other generations go on.  Scores, texts and the order of the pairs do   *)
(* not matter here.  Equal topics of a user count as one.                  *)
(***************************************************************************)
EXTENDS Idempotency

CONSTANTS
  User,        \* user ids
  Topic,       \* watch topics: records with user, word and room
  NoRoom,      \* the room of a topic that is for all rooms; SQL NULL
  MaxRows,     \* bound on the candidates ever stored
  MaxRuns      \* bound on the generations ever begun

ASSUME RowsAssumption == MaxRows \in Nat /\ MaxRuns \in Nat
ASSUME TopicAssumption == \A t \in Topic : t.user \in User

Rooms == {t.room : t \in Topic} \cup {NoRoom}
Pairs == {{a, b} : a, b \in User} \ {{a} : a \in User}
Id    == 1..MaxRows

VARIABLES
  topics,      \* table user_watch_topics: the topics that have not expired
  cands,       \* table match_candidates: a row per id
  next,        \* the id of the next row
  friends,     \* pairs with an accepted request, as of module Friends
  snap,        \* the topics a generation has read
  todo,        \* the pairs it has not looked at
  pair,        \* the pair it looks at
  runs,        \* history: the number of generations begun
  run          \* history: the number of a call's generation

rec == <<topics, cands, next, friends, snap, todo, pair, runs, run>>

Row   == [pair : Pairs, room : Rooms, run : Nat,
          status : {"pending_review", "confirmed", "dismissed"}]
NoRow == [pair |-> {}, room |-> NoRoom, run |-> 0, status |-> "dismissed"]
Used  == 1..(next - 1)

RecTypeOK ==
  /\ topics \subseteq Topic
  /\ cands \in [Id -> Row \cup {NoRow}]
  /\ next \in 1..(MaxRows + 1)
  /\ friends \subseteq Pairs
  /\ snap \in [Call -> SUBSET Topic]
  /\ todo \in [Call -> SUBSET Pairs]
  /\ pair \in [Call -> Pairs \cup {{}}]
  /\ runs \in Nat
  /\ run \in [Call -> Nat]
  /\ \A i \in Used : cands[i] \in Row

RecInit ==
  /\ topics \in SUBSET Topic
  /\ cands = [i \in Id |-> NoRow]
  /\ next = 1
  /\ friends = {}
  /\ snap = [c \in Call |-> {}]
  /\ todo = [c \in Call |-> {}]
  /\ pair = [c \in Call |-> {}]
  /\ runs = 0
  /\ run = [c \in Call |-> 0]

-----------------------------------------------------------------------------
(* Topics.  Their commands are single statements.                          *)

CreateTopic(t) ==
  /\ t \notin topics
  /\ topics' = topics \cup {t}
  /\ UNCHANGED <<cands, next, friends, snap, todo, pair, runs, run>>

\* Deleted by its owner, or expires_at has passed.
DeleteTopic(t) ==
  /\ t \in topics
  /\ topics' = topics \ {t}
  /\ UNCHANGED <<cands, next, friends, snap, todo, pair, runs, run>>

\* An accepted request or a removal (module Friends).
FriendshipChanges(p) ==
  /\ friends' = IF p \in friends THEN friends \ {p} ELSE friends \cup {p}
  /\ UNCHANGED <<topics, cands, next, snap, todo, pair, runs, run>>

-----------------------------------------------------------------------------
(* matchTopics over the topics a generation has read.                      *)

SharedWord(p, read) ==
  \E t, s \in read : {t.user, s.user} = p /\ t.word = s.word

\* The first room in which both have a topic; which one is first is left open.
SharedRooms(p, read) ==
  {t.room : t \in {x \in read : /\ x.room # NoRoom
                                /\ x.user \in p
                                /\ \E y \in read : /\ {x.user, y.user} = p
                                                   /\ y.room = x.room}}

MatchRooms(p, read) ==
  IF SharedRooms(p, read) # {} THEN SharedRooms(p, read)
  ELSE IF SharedWord(p, read) THEN {NoRoom} ELSE {}

\* The pairs of different users among the owners of the topics.
PairsOf(read) == {{t.user, s.user} : t, s \in read} \ {{t.user} : t \in read}

-----------------------------------------------------------------------------
(* GenerateCandidates.                                                     *)

\* The generation of a call is over: its variables are gone, its rows stay.
Discard(c) ==
  /\ snap' = [snap EXCEPT ![c] = {}]
  /\ todo' = [todo EXCEPT ![c] = {}]
  /\ pair' = [pair EXCEPT ![c] = {}]
  /\ run' = [run EXCEPT ![c] = 0]
  /\ UNCHANGED <<topics, cands, next, friends, runs>>

\* ListAll: one query; everything later works on what it returned.
ListAll(c) ==
  /\ runs < MaxRuns
  /\ snap' = [snap EXCEPT ![c] = topics]
  /\ todo' = [todo EXCEPT ![c] = PairsOf(topics)]
  /\ runs' = runs + 1
  /\ run' = [run EXCEPT ![c] = runs']
  /\ Continue(c, "pairs")
  /\ UNCHANGED <<topics, cands, next, friends, pair>>

\* IsFriend for the next pair; friends and pairs without a match are passed over.
CheckPair(c) ==
  /\ at[c] = "pairs"
  /\ \E p \in todo[c] :
       IF p \in friends \/ MatchRooms(p, snap[c]) = {}
       THEN /\ todo' = [todo EXCEPT ![c] = @ \ {p}]
            /\ UNCHANGED <<idem, pair>>
       ELSE /\ pair' = [pair EXCEPT ![c] = p]
            /\ Continue(c, "insert")
            /\ UNCHANGED todo
  /\ UNCHANGED <<topics, cands, next, friends, snap, runs, run>>

\* UNIQUE (user_a_id, user_b_id, room_id), where NULLs are never equal.
Conflicts(p, r) ==
  r # NoRoom /\ \E i \in Used : cands[i].pair = p /\ cands[i].room = r

\* Create: INSERT ... ON CONFLICT DO NOTHING.
Insert(c) ==
  /\ at[c] = "insert"
  /\ \E r \in MatchRooms(pair[c], snap[c]) :
       IF Conflicts(pair[c], r) THEN UNCHANGED <<cands, next>>
       ELSE /\ next <= MaxRows
            /\ cands' = [cands EXCEPT ![next] =
                 [pair |-> pair[c], room |-> r, run |-> run[c], status |-> "pending_review"]]
            /\ next' = next + 1
  /\ todo' = [todo EXCEPT ![c] = @ \ {pair[c]}]
  /\ pair' = [pair EXCEPT ![c] = {}]
  /\ Continue(c, "pairs")
  /\ UNCHANGED <<topics, friends, snap, runs, run>>

\* All pairs are done: 200 with the number of rows inserted.
Generated(c) ==
  /\ at[c] = "pairs"
  /\ todo[c] = {}
  /\ Handled(c, TRUE)
  /\ Discard(c)

-----------------------------------------------------------------------------
(* RespondCandidate.                                                       *)

\* FindByID: refused unless the row is there, the caller is one of the two, and
\* it is still pending.
FindCandidate(c, i, u) ==
  /\ IF i \in Used /\ u \in cands[i].pair /\ cands[i].status = "pending_review"
     THEN Continue(c, "update")
     ELSE Handled(c, FALSE)
  /\ UNCHANGED rec

\* Mutant of UpdateStatus: the status is not compared again.
UpdateStatusUnguarded(c, i, s) ==
  /\ at[c] = "update"
  /\ cands' = [cands EXCEPT ![i].status = s]
  /\ Handled(c, TRUE)
  /\ UNCHANGED <<topics, next, friends, snap, todo, pair, runs, run>>

\* UpdateStatus: only while the row is pending; otherwise 409.  A row that was
\* updated may be reported as failed, when the answer to the statement is lost.
UpdateStatus(c, i, s) ==
  /\ at[c] = "update"
  /\ IF cands[i].status = "pending_review"
     THEN /\ cands' = [cands EXCEPT ![i].status = s]
          /\ \E good \in BOOLEAN : Handled(c, good)
     ELSE UNCHANGED cands /\ Handled(c, FALSE)
  /\ UNCHANGED <<topics, next, friends, snap, todo, pair, runs, run>>

-----------------------------------------------------------------------------
\* Claimed by recommendation_service.go:60-62 and match_candidate_repository.go:24-26:
\* generations may be repeated without adding a recommendation twice.  They may
\* not when the two share words and no room: room_id is NULL then, and the unique
\* index does not apply.
NoRepeatedRecommendation ==
  \A i, j \in Used :
    cands[i].pair = cands[j].pair /\ cands[i].room = cands[j].room => i = j

\* What is left of that claim, whatever generations run at once or again, and
\* however topics change under them: two rows for the same two users differ in
\* the room, or name no room and come from different generations.
DuplicatesAreRoomless ==
  \A i, j \in Used :
    i # j /\ cands[i].pair = cands[j].pair /\ cands[i].room = cands[j].room =>
      cands[i].room = NoRoom /\ cands[i].run # cands[j].run
=============================================================================
