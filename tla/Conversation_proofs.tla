------------------------- MODULE Conversation_proofs -------------------------
(***************************************************************************)
(* What holds between live events, history, cursor and push, for any       *)
(* messages, threads, requests, endpoints and size of a page.              *)
(***************************************************************************)
EXTENDS Conversation, TLAPS

\* A message that was sent has a thread, and a conversation it is sent to exists.
SentSound ==
  \A m \in Message : phase[m] # "new" => to[m] \in Thread /\ (to[m] \notin Room => to[m] \in known)

\* A subscription the server has confirmed has its row, and a notice without an
\* excuse finds it.
PushSound ==
  /\ toggle = "leaving" => device = NoEndpoint
  /\ toggle = "saving" => acked = NoEndpoint
  /\ acked # NoEndpoint => acked \in rows
  /\ \A m \in Notice : m \in Underway /\ m \notin excused =>
       /\ acked # NoEndpoint
       /\ ~online
       /\ duty[m] = "send" => m \in pushed \/ device \in targets[m]

\* Between its two statements a request has an explanation for all it is to mark.
RequestSound ==
  \A q \in Request :
    /\ stage[q] \in {"idle", "convs", "read"} => data[q] = {}
    /\ stage[q] = "convs" => of[q] \notin Room
    /\ stage[q] = "mark" => /\ of[q] \notin Room
                            /\ In(of[q]) \subseteq data[q] \cup beyond \cup between

\* A message of the open page that is not there yet, and need not be.
Due(m) == phase[m] = "publish" \/ m \in wire \cup early \cup missed \cup beyond

\* The page's own request is for its thread, and has read what the page will lack.
PageSound ==
  /\ page = NoThread => request = NoRequest /\ ~loaded
  /\ request = NoRequest => ~loaded
  /\ request # NoRequest => /\ loaded => stage[request] = "idle"
                            /\ stage[request] # "idle" => of[request] = page
                            /\ stage[request] \in {"mark", "answer"} =>
                                 \A m \in In(page) : m \in data[request] \/ Due(m)
  /\ \A m \in Message : shown[m] \in {0, 1} /\ (shown[m] = 1 => m \in seen)
  /\ \A m \in seen : m \in early \/ (loaded /\ shown[m] = 1)

Inv == /\ TypeOK /\ SentSound /\ PushSound /\ AwayReaderIsTold
       /\ RequestSound /\ HiddenIsExplained /\ PageSound /\ PageIsComplete

-----------------------------------------------------------------------------
(* Types.                                                                  *)

LEMMA PageOfThread ==
  ASSUME NEW t
  PROVE  ListByRoom(t) \subseteq In(t) /\ ListByConversation(t) \subseteq In(t) /\ In(t) \subseteq Message
BY DEF ListByRoom, ListByConversation, In

\* A message is stored at the end of time.
LEMMA StoreTypes ==
  ASSUME TypeOK, NEW m \in Message, NEW t \in Thread, Store(m, t)
  PROVE  ThreadsTypeOK' /\ ViewTypeOK' /\ createdAt'[m] # 0
         /\ \A n \in Message \ {m} : createdAt'[n] = createdAt[n]
<1> USE ThreadAssumption DEF TypeOK
<1>1. clock' = clock + 1 /\ createdAt' = [createdAt EXCEPT ![m] = clock + 1]
      /\ UNCHANGED <<known, readAt>> /\ to' = [to EXCEPT ![m] = t]
  BY DEF Store, Create
<1>2. ThreadsTypeOK'
  BY <1>1 DEF ThreadsTypeOK
<1>3. ViewTypeOK'
  BY <1>1 DEF Store, ViewTypeOK, tab, asked, link
<1> QED
  BY <1>1, <1>2, <1>3 DEF ThreadsTypeOK

LEMMA MessageTypes ==
  ASSUME TypeOK, NEW m \in Message,
         \/ \E t \in Thread : SendMessage(m, t) \/ SendDirectMessage(m, t)
         \/ StoreMessage(m) /\ to[m] \in Thread
         \/ PublishMessage(m) \/ Crash(m)
  PROVE  TypeOK'
<1> USE ThreadAssumption, NoticeAssumption DEF TypeOK
<1>1. ASSUME NEW t \in Thread, SendMessage(m, t) PROVE TypeOK'
  <2>1. Store(m, t) /\ phase' = [phase EXCEPT ![m] = "publish"] /\ UNCHANGED <<push, online, moves>>
    BY <1>1 DEF SendMessage, Goto
  <2>2. ThreadsTypeOK' /\ ViewTypeOK' /\ createdAt'[m] # 0
        /\ \A n \in Message \ {m} : createdAt'[n] = createdAt[n]
    BY <2>1, StoreTypes
  <2>3. duty[m] = "none" \/ m \notin Notice
    BY <1>1 DEF SendMessage
  <2> QED
    BY <2>1, <2>2, <2>3 DEF PushTypeOK, push, sub
<1>2. ASSUME NEW t \in Thread, SendDirectMessage(m, t) PROVE TypeOK'
  <2>1. /\ phase[m] = "new" /\ t \notin Room
        /\ to' = [to EXCEPT ![m] = t] /\ known' = known \cup {t}
        /\ phase' = [phase EXCEPT ![m] = "store"]
        /\ UNCHANGED <<createdAt, clock, readAt, view, push, online, moves>>
    BY <1>2 DEF SendDirectMessage, GetOrCreate, Goto
  <2>2. ThreadsTypeOK'
    BY <2>1 DEF ThreadsTypeOK
  <2>3. ViewTypeOK'
    BY <2>1 DEF ViewTypeOK, view, tab, asked, link, ledger
  <2> QED
    BY <2>1, <2>2, <2>3 DEF PushTypeOK, push, sub
<1>3. ASSUME StoreMessage(m), to[m] \in Thread PROVE TypeOK'
  <2>1. CASE Store(m, to[m]) /\ phase' = [phase EXCEPT ![m] = "publish"]
    <3>1. ThreadsTypeOK' /\ ViewTypeOK' /\ createdAt'[m] # 0
          /\ \A n \in Message \ {m} : createdAt'[n] = createdAt[n]
      BY <1>3, <2>1, StoreTypes
    <3>2. m \in Notice => duty[m] = "none"
      BY <1>3 DEF StoreMessage
    <3> QED
      BY <1>3, <2>1, <3>1, <3>2 DEF StoreMessage, PushTypeOK, push, sub
  <2>2. CASE phase' = [phase EXCEPT ![m] = "over"] /\ UNCHANGED <<threads, view>>
    <3>1. ThreadsTypeOK'
      BY <2>2 DEF ThreadsTypeOK, threads
    <3>2. ViewTypeOK'
      BY <2>2 DEF ViewTypeOK, view, tab, asked, link, ledger
    <3> QED
      BY <1>3, <2>2, <3>1, <3>2 DEF StoreMessage, PushTypeOK, push, sub, threads
  <2> QED
    BY <1>3, <2>1, <2>2 DEF StoreMessage, Goto
<1>4. ASSUME PublishMessage(m) PROVE TypeOK'
  <2>1. phase[m] = "publish" /\ phase' = [phase EXCEPT ![m] = "over"] /\ Publish(m)
        /\ UNCHANGED <<online, moves, threads>>
    BY <1>4 DEF PublishMessage, Goto, Publish
  <2>2. ThreadsTypeOK'
    BY <2>1 DEF ThreadsTypeOK, threads
  <2>3. ViewTypeOK'
    BY <2>1 DEF ViewTypeOK, Publish, threads, tab, asked
  <2>4. PushTypeOK' /\ \A n \in Notice : duty'[n] # "none" => n = m \/ duty[n] # "none"
    <3>1. CASE m \in Notice /\ Begin(m, socket \/ online)
      BY <3>1 DEF Begin, PushTypeOK, sub
    <3>2. CASE UNCHANGED push
      BY <3>2 DEF PushTypeOK, push, sub
    <3> QED
      BY <1>4, <3>1, <3>2 DEF PublishMessage
  <2> QED
    BY <2>1, <2>2, <2>3, <2>4 DEF threads
<1>5. ASSUME Crash(m) PROVE TypeOK'
  <2>1. ThreadsTypeOK'
    BY <1>5 DEF Crash, ThreadsTypeOK, threads
  <2>2. ViewTypeOK'
    BY <1>5 DEF Crash, ViewTypeOK, tab, asked, link
  <2> QED
    BY <1>5, <2>1, <2>2 DEF Crash, Goto, PushTypeOK, push, sub, threads
<1> QED
  BY <1>1, <1>2, <1>3, <1>4, <1>5

\* What the tab and its requests do.
LEMMA ViewTypes ==
  ASSUME TypeOK, TabStep \/ Navigate \/ OpenSocket \/ CloseSocket
  PROVE  ThreadsTypeOK' /\ ViewTypeOK' /\ createdAt' = createdAt
<1> USE ThreadAssumption, ViewAssumption DEF TypeOK, ViewTypeOK
<1>1. ASSUME NEW t \in Thread, NEW s \in {"read", "convs"}, Mount(t, s)
      PROVE  ViewTypeOK' /\ UNCHANGED threads
  BY <1>1 DEF Mount
<1>2. ASSUME NEW q \in Request, ListRoomMessages(q) \/ ListMessages(q)
      PROVE  ViewTypeOK' /\ UNCHANGED threads
  BY <1>2, PageOfThread DEF ListRoomMessages, ListMessages, tab, link
<1>3. ASSUME NEW q \in Request, ListConversations(q)
      PROVE  ViewTypeOK' /\ UNCHANGED threads
  BY <1>3 DEF ListConversations, tab, link, ledger
<1>4. ASSUME NEW q \in Request, MarkPage(q)
      PROVE  ViewTypeOK' /\ ThreadsTypeOK' /\ createdAt' = createdAt
  <2>1. /\ readAt' = [readAt EXCEPT ![of[q]] = clock] /\ of[q] \in Thread
        /\ UNCHANGED <<to, createdAt, clock, known>>
    BY <1>4 DEF MarkPage, MarkRead
  <2>2. ThreadsTypeOK'
    BY <2>1 DEF ThreadsTypeOK
  <2> QED
    BY <1>4, <2>1, <2>2 DEF MarkPage, tab, link, ledger
<1>5. ASSUME NEW q \in Request, TakeAnswer(q) \/ FailRequest(q)
      PROVE  ViewTypeOK' /\ UNCHANGED threads
  <2>1. /\ EndRequest(q) /\ loaded' \in BOOLEAN /\ seen' \subseteq Message
        /\ shown' \in [Message -> Nat]
        /\ displayed' \subseteq Message /\ unused' \subseteq Message
        /\ UNCHANGED <<threads, page, request, link, beyond, between, early, missed>>
    <3>1. CASE TakeAnswer(q)
      <4>1. loaded' \in BOOLEAN
        <5>1. CASE request = q
          BY <3>1, <5>1 DEF TakeAnswer
        <5>2. CASE request # q
          BY <3>1, <5>2 DEF TakeAnswer
        <5> QED
          BY <5>1, <5>2
      <4>2. /\ seen' \subseteq Message /\ shown' \in [Message -> Nat]
            /\ displayed' \subseteq Message /\ unused' \subseteq Message
        BY <3>1 DEF TakeAnswer
      <4> QED
        BY <3>1, <4>1, <4>2 DEF TakeAnswer
    <3>2. CASE FailRequest(q)
      BY <3>2 DEF FailRequest, tab
    <3> QED
      BY <1>5, <3>1, <3>2
  <2>2. /\ stage' \in [Request -> {"idle", "convs", "read", "mark", "answer"}]
        /\ of' \in [Request -> Thread \cup {NoThread}]
        /\ data' \in [Request -> SUBSET Message]
        /\ \A r \in Request : stage'[r] # "idle" => of'[r] \in Thread
    BY <2>1 DEF EndRequest
  <2> QED
    BY <2>1, <2>2 DEF link
<1>6. ASSUME JoinRoom \/ OpenSocket \/ CloseSocket \/ ClosePage
      PROVE  ViewTypeOK' /\ UNCHANGED threads
  <2>1. CASE JoinRoom
    BY <2>1 DEF JoinRoom, tab, asked, ledger
  <2>2. CASE OpenSocket
    BY <2>2 DEF OpenSocket, tab, asked, ledger
  <2>3. CASE CloseSocket
    BY <2>3 DEF CloseSocket, tab, asked
  <2>4. CASE ClosePage
    BY <2>4 DEF ClosePage, asked
  <2> QED
    BY <1>6, <2>1, <2>2, <2>3, <2>4
<1>7. ASSUME NEW m \in Message, Arrive(m)
      PROVE  ViewTypeOK' /\ UNCHANGED threads
  BY <1>7 DEF Arrive, Append, asked
<1>8. UNCHANGED threads => ThreadsTypeOK' /\ createdAt' = createdAt
  BY DEF ThreadsTypeOK, threads
<1> QED
  BY <1>1, <1>2, <1>3, <1>4, <1>5, <1>6, <1>7, <1>8
     DEF TabStep, Navigate, OpenRoom, OpenConversation

\* What the browser and NotifyOfflineUser do.
LEMMA PushTypes ==
  ASSUME TypeOK, Choose \/ PushStep(online)
  PROVE  PushTypeOK' /\ \A m \in Notice : duty'[m] # "none" => duty[m] # "none"
<1> USE EndpointAssumption DEF TypeOK, PushTypeOK
<1>1. CASE Choose
  BY <1>1 DEF Choose, Subscribe, Unsubscribe, ShowToggle, Revoke, ExcuseAll, Underway
<1>2. CASE Save \/ DeleteByEndpoint \/ ToggleFails
  BY <1>2 DEF Save, DeleteByEndpoint, ToggleFails, Upsert, DeleteRow
<1>3. ASSUME NEW m \in Notice, CheckPresence(m, online) \/ ListByUser(m) \/ GiveUp(m)
      PROVE  PushTypeOK' /\ \A n \in Notice : duty'[n] # "none" => duty[n] # "none"
  BY <1>3 DEF CheckPresence, ListByUser, GiveUp, Underway, sub
<1>4. ASSUME NEW m \in Notice, NEW e \in Endpoint, SendWithRetry(m, e)
      PROVE  PushTypeOK' /\ \A n \in Notice : duty'[n] # "none" => duty[n] # "none"
  BY <1>4 DEF SendWithRetry, DeleteRow, sub
<1> QED
  BY <1>1, <1>2, <1>3, <1>4 DEF PushStep

LEMMA TypeStep ==
  ASSUME TypeOK, SentSound, [Next]_vars
  PROVE  TypeOK'
<1> USE NoticeAssumption DEF TypeOK
<1>1. ASSUME NEW m \in Message, \/ \E t \in Thread : SendMessage(m, t) \/ SendDirectMessage(m, t)
                                \/ StoreMessage(m) \/ PublishMessage(m) \/ Crash(m)
      PROVE  TypeOK'
  BY <1>1, MessageTypes DEF SentSound, StoreMessage
<1>2. CASE PresenceFollows
  <2>1. ThreadsTypeOK' /\ ViewTypeOK'
    BY <1>2 DEF PresenceFollows, ThreadsTypeOK, threads, ViewTypeOK, view, tab, asked, link, ledger
  <2>2. PushTypeOK'
    BY <1>2 DEF PresenceFollows, ExcuseAll, Underway, PushTypeOK, sub
  <2>3. online' \in BOOLEAN
    BY <1>2 DEF PresenceFollows, ViewTypeOK
  <2> QED
    BY <1>2, <2>1, <2>2, <2>3 DEF PresenceFollows, threads
<1>3. CASE Move
  <2>1. UNCHANGED <<phase, online>> /\ moves' \in 0..MaxMoves
    BY <1>3 DEF Move
  <2>2. CASE Navigate /\ UNCHANGED push
    <3>1. ThreadsTypeOK' /\ ViewTypeOK' /\ createdAt' = createdAt
      BY <2>2, ViewTypes
    <3>2. PushTypeOK'
      BY <2>2 DEF push, sub, PushTypeOK
    <3> QED
      BY <2>1, <2>2, <3>1, <3>2 DEF push
  <2>3. CASE (OpenSocket \/ CloseSocket) /\ ExcuseAll /\ UNCHANGED <<sub, rows, duty, targets, pushed>>
    <3>1. ThreadsTypeOK' /\ ViewTypeOK' /\ createdAt' = createdAt
      BY <2>3, ViewTypes
    <3>2. PushTypeOK'
      BY <2>3 DEF ExcuseAll, Underway, sub, PushTypeOK
    <3> QED
      BY <2>1, <2>3, <3>1, <3>2
  <2>4. CASE Choose /\ UNCHANGED <<threads, view>>
    <3>1. ThreadsTypeOK' /\ ViewTypeOK'
      BY <2>4 DEF ThreadsTypeOK, threads, ViewTypeOK, view, tab, asked, link, ledger
    <3>2. PushTypeOK' /\ \A m \in Notice : duty'[m] # "none" => duty[m] # "none"
      BY <2>4, PushTypes
    <3> QED
      BY <2>1, <2>4, <3>1, <3>2 DEF threads
  <2> QED
    BY <1>3, <2>2, <2>3, <2>4 DEF Move
<1>4. CASE TabStep /\ UNCHANGED <<push, phase, online, moves>>
  <2>1. ThreadsTypeOK' /\ ViewTypeOK' /\ createdAt' = createdAt
    BY <1>4, ViewTypes
  <2>2. PushTypeOK'
    BY <1>4 DEF push, sub, PushTypeOK
  <2> QED
    BY <1>4, <2>1, <2>2 DEF push
<1>5. CASE PushStep(online) /\ UNCHANGED <<threads, view, phase, online, moves>>
  <2>1. ThreadsTypeOK' /\ ViewTypeOK'
    BY <1>5 DEF ThreadsTypeOK, threads, ViewTypeOK, view, tab, asked, link, ledger
  <2>2. PushTypeOK' /\ \A m \in Notice : duty'[m] # "none" => duty[m] # "none"
    BY <1>5, PushTypes
  <2> QED
    BY <1>5, <2>1, <2>2 DEF threads
<1>6. CASE UNCHANGED vars
  <2>1. ThreadsTypeOK' /\ ViewTypeOK'
    BY <1>6 DEF vars, ThreadsTypeOK, threads, ViewTypeOK, view, tab, asked, link, ledger
  <2>2. PushTypeOK'
    BY <1>6 DEF vars, push, sub, PushTypeOK
  <2> QED
    BY <1>6, <2>1, <2>2 DEF vars, threads, push
<1> QED
  BY <1>1, <1>2, <1>3, <1>4, <1>5, <1>6 DEF Next

-----------------------------------------------------------------------------
(* Messages.                                                               *)

\* A step sends or stores a message, takes one further, or leaves them all.
LEMMA MessageStep ==
  ASSUME TypeOK, [Next]_vars
  PROVE  \/ UNCHANGED <<to, createdAt, clock, known, phase>>
         \/ \E m \in Message, t \in Thread :
              SendMessage(m, t) \/ SendDirectMessage(m, t)
         \/ \E m \in Message : StoreMessage(m) \/ PublishMessage(m) \/ Crash(m)
<1>1. CASE PresenceFollows \/ UNCHANGED vars
  BY <1>1 DEF PresenceFollows, vars, threads
<1>2. CASE Move
  BY <1>2 DEF Move, Navigate, ClosePage, OpenRoom, OpenConversation, Mount, OpenSocket,
       CloseSocket, threads
<1>3. CASE TabStep /\ UNCHANGED <<push, phase, online, moves>>
  BY <1>3 DEF TabStep, ListConversations, ListRoomMessages, ListMessages, MarkPage, MarkRead,
       TakeAnswer, FailRequest, JoinRoom, Arrive, threads
<1>4. CASE PushStep(online) /\ UNCHANGED <<threads, view, phase, online, moves>>
  BY <1>4 DEF threads
<1> QED
  BY <1>1, <1>2, <1>3, <1>4 DEF Next

LEMMA SentStep ==
  ASSUME TypeOK, SentSound, [Next]_vars
  PROVE  SentSound'
<1> USE DEF TypeOK, ThreadsTypeOK, SentSound
<1>1. CASE UNCHANGED <<to, createdAt, clock, known, phase>>
  BY <1>1
<1>2. ASSUME NEW m \in Message, NEW t \in Thread, SendMessage(m, t) PROVE SentSound'
  BY <1>2 DEF SendMessage, Store, Create, Goto
<1>3. ASSUME NEW m \in Message, NEW t \in Thread, SendDirectMessage(m, t) PROVE SentSound'
  BY <1>3 DEF SendDirectMessage, GetOrCreate, Goto
<1>4. ASSUME NEW m \in Message, StoreMessage(m) PROVE SentSound'
  BY <1>4 DEF StoreMessage, Store, Create, Goto, threads
<1>5. ASSUME NEW m \in Message, PublishMessage(m) \/ Crash(m) PROVE SentSound'
  BY <1>5 DEF PublishMessage, Publish, Crash, Goto, threads
<1> QED
  BY <1>1, <1>2, <1>3, <1>4, <1>5, MessageStep

-----------------------------------------------------------------------------
(* Push.                                                                   *)

\* What of a step the notifications see.
LEMMA PushView ==
  ASSUME TypeOK, [Next]_vars
  PROVE  \/ UNCHANGED <<push, online>>
         \/ ExcuseAll /\ UNCHANGED <<sub, rows, duty, targets, pushed>>
         \/ Choose /\ UNCHANGED online
         \/ PushStep(online) /\ UNCHANGED online
         \/ \E m \in Notice : Begin(m, socket \/ online) /\ UNCHANGED online
<1> USE DEF push
<1>1. ASSUME NEW m \in Message, PublishMessage(m)
      PROVE  \/ UNCHANGED <<push, online>>
             \/ m \in Notice /\ Begin(m, socket \/ online) /\ UNCHANGED online
  BY <1>1 DEF PublishMessage
<1>2. ASSUME NEW m \in Message, \/ \E t \in Thread : SendMessage(m, t) \/ SendDirectMessage(m, t)
                                \/ StoreMessage(m) \/ Crash(m)
      PROVE  UNCHANGED <<push, online>>
  BY <1>2 DEF SendMessage, SendDirectMessage, StoreMessage, Crash
<1>3. PresenceFollows => ExcuseAll /\ UNCHANGED <<sub, rows, duty, targets, pushed>>
  BY DEF PresenceFollows
<1>4. Move => \/ UNCHANGED <<push, online>>
              \/ ExcuseAll /\ UNCHANGED <<sub, rows, duty, targets, pushed>>
              \/ Choose /\ UNCHANGED online
  BY DEF Move
<1>5. UNCHANGED vars => UNCHANGED <<push, online>>
  BY DEF vars
<1> QED
  BY <1>1, <1>2, <1>3, <1>4, <1>5 DEF Next

\* Whoever is excused for all that is under way may change anything but the rows.
LEMMA ExcusedStep ==
  ASSUME TypeOK, PushSound, AwayReaderIsTold, ExcuseAll, UNCHANGED <<rows, duty, targets, pushed>>,
         toggle' = "leaving" => device' = NoEndpoint,
         toggle' = "saving" => acked' = NoEndpoint,
         acked' \in {acked, NoEndpoint}
  PROVE  PushSound' /\ AwayReaderIsTold'
BY DEF TypeOK, PushTypeOK, PushSound, AwayReaderIsTold, ExcuseAll, Underway

LEMMA PushSoundStep ==
  ASSUME TypeOK, PushSound, AwayReaderIsTold, [Next]_vars
  PROVE  PushSound' /\ AwayReaderIsTold'
<1> USE EndpointAssumption DEF TypeOK, PushTypeOK, PushSound, AwayReaderIsTold, Underway
<1>1. CASE UNCHANGED <<push, online>>
  BY <1>1 DEF push, sub
<1>2. CASE ExcuseAll /\ UNCHANGED <<sub, rows, duty, targets, pushed>>
  BY <1>2, ExcusedStep DEF sub
<1>3. CASE Choose /\ UNCHANGED online
  <2>1. CASE Subscribe
    BY <2>1, ExcusedStep DEF Subscribe
  <2>2. CASE Unsubscribe
    BY <2>2, ExcusedStep DEF Unsubscribe
  <2>3. CASE ShowToggle
    BY <1>3, <2>3 DEF ShowToggle
  <2>4. CASE Revoke
    BY <2>4, ExcusedStep DEF Revoke
  <2> QED
    BY <1>3, <2>1, <2>2, <2>3, <2>4 DEF Choose
<1>4. CASE PushStep(online) /\ UNCHANGED online
  <2>1. CASE Save
    BY <1>4, <2>1 DEF Save, Upsert
  <2>2. CASE DeleteByEndpoint
    BY <1>4, <2>2 DEF DeleteByEndpoint, DeleteRow
  <2>3. CASE ToggleFails
    BY <1>4, <2>3 DEF ToggleFails
  <2>4. ASSUME NEW m \in Notice, CheckPresence(m, online) PROVE PushSound' /\ AwayReaderIsTold'
    BY <1>4, <2>4 DEF CheckPresence, sub
  <2>5. ASSUME NEW m \in Notice, ListByUser(m) PROVE PushSound' /\ AwayReaderIsTold'
    BY <1>4, <2>5 DEF ListByUser, sub
  <2>6. ASSUME NEW m \in Notice, GiveUp(m) PROVE PushSound' /\ AwayReaderIsTold'
    BY <1>4, <2>6 DEF GiveUp, sub
  <2>7. ASSUME NEW m \in Notice, NEW e \in Endpoint, SendWithRetry(m, e)
        PROVE  PushSound' /\ AwayReaderIsTold'
    BY <1>4, <2>7 DEF SendWithRetry, DeleteRow, sub
  <2> QED
    BY <1>4, <2>1, <2>2, <2>3, <2>4, <2>5, <2>6, <2>7 DEF PushStep
<1>5. ASSUME NEW m \in Notice, Begin(m, socket \/ online), UNCHANGED online
      PROVE  PushSound' /\ AwayReaderIsTold'
  BY <1>5 DEF Begin, sub
<1> QED
  BY <1>1, <1>2, <1>3, <1>4, <1>5, PushView

-----------------------------------------------------------------------------
(* Requests and the cursor.                                                *)

\* What stands on the tables and the requests stays as long as they do.
LEMMA RequestKeeps ==
  ASSUME RequestSound, HiddenIsExplained,
         UNCHANGED <<to, createdAt, readAt, stage, of, data, displayed, unused, beyond, between>>
  PROVE  RequestSound' /\ HiddenIsExplained'
BY DEF RequestSound, HiddenIsExplained, In, Unread

\* A message is stored in a thread.
LEMMA RequestStore ==
  ASSUME TypeOK, RequestSound, HiddenIsExplained,
         NEW m \in Message, NEW t \in Thread, Store(m, t), createdAt[m] = 0
  PROVE  RequestSound' /\ HiddenIsExplained'
<1> USE ThreadAssumption DEF TypeOK, ThreadsTypeOK, ViewTypeOK
<1>1. /\ to' = [to EXCEPT ![m] = t] /\ createdAt' = [createdAt EXCEPT ![m] = clock + 1]
      /\ UNCHANGED <<readAt, stage, of, data, displayed, unused, beyond>>
      /\ between \subseteq between'
      /\ \A q \in Request : stage[q] = "mark" /\ of[q] = t => m \in between'
  BY DEF Store, Create, asked
<1>2. \A x \in Thread : In(x)' \ {m} = In(x) /\ (m \in In(x)' => x = t)
  BY <1>1 DEF In
<1>3. RequestSound'
  BY <1>1, <1>2 DEF RequestSound
<1>4. HiddenIsExplained'
  <2> SUFFICES ASSUME NEW x \in Thread \ Room, NEW n \in In(x)' \ Mine
               PROVE  \/ n \in Unread(x)'
                      \/ n \in displayed \cup unused \cup beyond \cup between'
                      \/ \E q \in Request : n \in data[q]
    BY <1>1 DEF HiddenIsExplained
  <2>1. CASE n = m
    BY <1>1, <1>2, <2>1 DEF Unread
  <2>2. CASE n # m
    <3>1. n \in In(x) \ Mine /\ n \in Message /\ createdAt'[n] = createdAt[n]
      BY <1>1, <1>2, <2>2 DEF In
    <3>2. n \in Unread(x) => n \in Unread(x)'
      BY <1>1, <3>1 DEF Unread
    <3> QED
      BY <1>1, <3>1, <3>2 DEF HiddenIsExplained
  <2> QED
    BY <2>1, <2>2
<1> QED
  BY <1>3, <1>4

\* The statements of a request, and its answer.
LEMMA RequestStep ==
  ASSUME TypeOK, RequestSound, HiddenIsExplained, NEW q \in Request,
         \/ ListConversations(q) \/ ListRoomMessages(q) \/ ListMessages(q)
         \/ MarkPage(q) \/ TakeAnswer(q) \/ FailRequest(q)
  PROVE  RequestSound' /\ HiddenIsExplained'
<1> USE ThreadAssumption DEF TypeOK, ThreadsTypeOK, ViewTypeOK
<1>1. CASE ListConversations(q)
  <2>1. /\ UNCHANGED <<to, createdAt, readAt, of, data, displayed, unused, beyond, between>>
        /\ stage[q] = "convs"
        /\ stage' \in {[stage EXCEPT ![q] = "read"], [stage EXCEPT ![q] = "answer"]}
    BY <1>1 DEF ListConversations, threads, ledger
  <2> QED
    BY <2>1 DEF RequestSound, HiddenIsExplained, In, Unread
<1>2. CASE ListRoomMessages(q) \/ ListMessages(q)
  <2>1. PICK d \in SUBSET Message : data' = [data EXCEPT ![q] = d] /\ beyond' = beyond \cup (In(of[q]) \ d)
    BY <1>2, PageOfThread DEF ListRoomMessages, ListMessages
  <2>2. /\ UNCHANGED <<to, createdAt, readAt, of, displayed, unused, between>>
        /\ stage[q] = "read"
        /\ \/ stage' = [stage EXCEPT ![q] = "answer"]
           \/ stage' = [stage EXCEPT ![q] = "mark"] /\ of[q] \notin Room
    BY <1>2 DEF ListRoomMessages, ListMessages, threads
  <2>3. In(of[q]) \subseteq d \cup beyond'
    BY <2>1
  <2>4. \A t : In(t)' = In(t) /\ Unread(t)' = Unread(t)
    BY <2>2 DEF In, Unread
  <2>5. \A r \in Request \ {q} : data'[r] = data[r]
    BY <2>1
  <2>6. data'[q] = d /\ data[q] = {}
    BY <2>1, <2>2 DEF RequestSound
  <2>7. RequestSound'
    BY <2>1, <2>2, <2>3, <2>4, <2>5, <2>6 DEF RequestSound
  <2>8. HiddenIsExplained'
    BY <2>1, <2>2, <2>4, <2>5, <2>6 DEF HiddenIsExplained
  <2> QED
    BY <2>7, <2>8
<1>3. CASE MarkPage(q)
  <2>1. /\ UNCHANGED <<to, createdAt, of, data, displayed, unused, beyond, between>>
        /\ readAt' = [readAt EXCEPT ![of[q]] = clock]
        /\ stage[q] = "mark" /\ stage' = [stage EXCEPT ![q] = "answer"]
    BY <1>3 DEF MarkPage, MarkRead, ledger
  <2>2. \A t : In(t)' = In(t)
    BY <2>1 DEF In
  <2>3. RequestSound'
    BY <2>1, <2>2 DEF RequestSound
  <2>4. In(of[q]) \subseteq data[q] \cup beyond \cup between
    BY <2>1 DEF RequestSound
  <2>5. \A t \in Thread : t # of[q] => Unread(t)' = Unread(t)
    BY <2>1, <2>2 DEF Unread
  <2>6. HiddenIsExplained'
    BY <2>1, <2>2, <2>4, <2>5 DEF HiddenIsExplained
  <2> QED
    BY <2>3, <2>6
<1>4. CASE TakeAnswer(q) \/ FailRequest(q)
  <2>1. /\ UNCHANGED <<to, createdAt, readAt, beyond, between>>
        /\ displayed \subseteq displayed' /\ unused \subseteq unused'
        /\ data[q] \subseteq displayed' \cup unused'
        /\ EndRequest(q)
    BY <1>4 DEF TakeAnswer, FailRequest, threads
  <2>2. \A t : In(t)' = In(t) /\ Unread(t)' = Unread(t)
    BY <2>1 DEF In, Unread
  <2>3. /\ stage'[q] = "idle" /\ data'[q] = {}
        /\ \A r \in Request \ {q} : stage'[r] = stage[r] /\ of'[r] = of[r] /\ data'[r] = data[r]
    BY <2>1 DEF EndRequest
  <2>4. RequestSound'
    BY <2>1, <2>2, <2>3 DEF RequestSound
  <2>5. HiddenIsExplained'
    BY <2>1, <2>2, <2>3 DEF HiddenIsExplained
  <2> QED
    BY <2>4, <2>5
<1> QED
  BY <1>1, <1>2, <1>3, <1>4

\* A page opens with a request of its own.
LEMMA RequestMount ==
  ASSUME TypeOK, RequestSound, HiddenIsExplained, NEW t \in Thread,
         OpenRoom(t) \/ OpenConversation(t)
  PROVE  RequestSound' /\ HiddenIsExplained'
<1> USE DEF TypeOK, ViewTypeOK
<1>1. PICK q \in Request, s \in {"read", "convs"} :
        /\ stage[q] = "idle" /\ stage' = [stage EXCEPT ![q] = s] /\ of' = [of EXCEPT ![q] = t]
        /\ s = "convs" => t \notin Room
        /\ UNCHANGED <<to, createdAt, readAt, data, displayed, unused, beyond, between>>
  BY DEF OpenRoom, OpenConversation, Mount, threads
<1>2. \A x : In(x)' = In(x) /\ Unread(x)' = Unread(x)
  BY <1>1 DEF In, Unread
<1>3. RequestSound'
  BY <1>1, <1>2 DEF RequestSound
<1>4. HiddenIsExplained'
  BY <1>1, <1>2 DEF HiddenIsExplained
<1> QED
  BY <1>3, <1>4

LEMMA RequestSoundStep ==
  ASSUME TypeOK, SentSound, RequestSound, HiddenIsExplained, [Next]_vars
  PROVE  RequestSound' /\ HiddenIsExplained'
<1> USE DEF TypeOK, ThreadsTypeOK, ViewTypeOK
<1>1. ASSUME NEW m \in Message, \/ \E t \in Thread : SendMessage(m, t) \/ SendDirectMessage(m, t)
                                \/ StoreMessage(m) \/ PublishMessage(m) \/ Crash(m)
      PROVE  RequestSound' /\ HiddenIsExplained'
  <2>1. ASSUME NEW t \in Thread, Store(m, t), createdAt[m] = 0
        PROVE  RequestSound' /\ HiddenIsExplained'
    BY <2>1, RequestStore
  <2>2. ASSUME NEW t \in Thread, SendMessage(m, t) PROVE RequestSound' /\ HiddenIsExplained'
    BY <2>1, <2>2 DEF SendMessage
  <2>3. ASSUME NEW t \in Thread, SendDirectMessage(m, t) PROVE RequestSound' /\ HiddenIsExplained'
    <3>1. /\ to' = [to EXCEPT ![m] = t] /\ createdAt[m] = 0
          /\ UNCHANGED <<createdAt, readAt, stage, of, data, displayed, unused, beyond, between>>
      BY <2>3 DEF SendDirectMessage, GetOrCreate, view, asked, ledger
    <3>2. \A x : In(x)' = In(x) /\ Unread(x)' = Unread(x)
      BY <3>1 DEF In, Unread
    <3> QED
      BY <3>1, <3>2 DEF RequestSound, HiddenIsExplained
  <2>4. ASSUME StoreMessage(m) PROVE RequestSound' /\ HiddenIsExplained'
    <3>1. createdAt[m] = 0 /\ to[m] \in Thread
      BY <2>4 DEF StoreMessage, SentSound
    <3>2. CASE Store(m, to[m])
      BY <2>1, <3>1, <3>2
    <3>3. CASE UNCHANGED <<threads, view>>
      BY <3>3, RequestKeeps DEF threads, view, asked, ledger
    <3> QED
      BY <2>4, <3>2, <3>3 DEF StoreMessage
  <2>5. ASSUME PublishMessage(m) \/ Crash(m) PROVE RequestSound' /\ HiddenIsExplained'
    BY <2>5, RequestKeeps DEF PublishMessage, Publish, Crash, threads, asked
  <2> QED
    BY <1>1, <2>2, <2>3, <2>4, <2>5
<1>2. CASE PresenceFollows \/ UNCHANGED vars \/ UNCHANGED <<threads, view>>
  BY <1>2, RequestKeeps DEF PresenceFollows, vars, threads, view, asked, ledger
<1>3. CASE OpenSocket \/ CloseSocket \/ ClosePage \/ JoinRoom
  BY <1>3, RequestKeeps DEF OpenSocket, CloseSocket, ClosePage, JoinRoom, threads, asked, ledger
<1>4. ASSUME NEW m \in Message, Arrive(m) PROVE RequestSound' /\ HiddenIsExplained'
  <2>1. /\ UNCHANGED <<to, createdAt, readAt, stage, of, data, unused, beyond, between>>
        /\ displayed \subseteq displayed'
    BY <1>4 DEF Arrive, Append, threads, asked
  <2>2. \A x : In(x)' = In(x) /\ Unread(x)' = Unread(x)
    BY <2>1 DEF In, Unread
  <2> QED
    BY <2>1, <2>2 DEF RequestSound, HiddenIsExplained
<1>5. CASE Navigate
  BY <1>3, <1>5, RequestMount DEF Navigate
<1>6. CASE TabStep
  BY <1>3, <1>4, <1>6, RequestStep DEF TabStep
<1> QED
  BY <1>1, <1>2, <1>3, <1>5, <1>6 DEF Next, Move

-----------------------------------------------------------------------------
(* The page.                                                               *)

\* The page stays what it is while no message of its thread becomes due to be there.
LEMMA PageKeeps ==
  ASSUME PageSound, PageIsComplete, UNCHANGED <<page, request, loaded, shown, seen, early>>,
         \A m \in In(page)' : Due(m)' \/ (m \in In(page) /\ ~Due(m)),
         request # NoRequest => /\ stage'[request] = stage[request]
                                /\ of'[request] = of[request]
                                /\ data'[request] = data[request]
  PROVE  PageSound' /\ PageIsComplete'
<1>1. PageSound'
  BY DEF PageSound
<1>2. PageIsComplete'
  BY DEF PageIsComplete, Due, In
<1> QED
  BY <1>1, <1>2

\* A message that is handled is due while it is on its way.
LEMMA PageMessage ==
  ASSUME TypeOK, PageSound, PageIsComplete, NEW m \in Message,
         \/ \E t \in Thread : SendMessage(m, t) \/ SendDirectMessage(m, t)
         \/ StoreMessage(m) \/ PublishMessage(m) \/ Crash(m)
  PROVE  PageSound' /\ PageIsComplete'
<1> USE DEF TypeOK, ThreadsTypeOK, ViewTypeOK
<1>1. UNCHANGED <<page, request, loaded, shown, seen, early, stage, of, data, beyond>>
  BY DEF SendMessage, SendDirectMessage, StoreMessage, PublishMessage, Crash, Store, Publish,
       view, tab, asked, ledger
<1>2. ASSUME NEW t \in Thread, Store(m, t), phase' = [phase EXCEPT ![m] = "publish"]
      PROVE  \A n \in In(page)' : Due(n)' \/ (n \in In(page) /\ ~Due(n))
  <2>1. /\ to' = [to EXCEPT ![m] = t] /\ createdAt' = [createdAt EXCEPT ![m] = clock + 1]
        /\ UNCHANGED <<page, wire, early, missed, beyond>>
    BY <1>2 DEF Store, Create, tab, link
  <2>2. \A n \in In(page)' : n = m \/ n \in In(page)
    BY <2>1 DEF In
  <2> QED
    BY <1>2, <2>1, <2>2 DEF Due, In
<1>3. ASSUME createdAt[m] = 0, createdAt' = createdAt, UNCHANGED <<page, wire, early, missed, beyond>>,
             \A n \in Message \ {m} : to'[n] = to[n] /\ phase'[n] = phase[n]
      PROVE  \A n \in In(page)' : Due(n)' \/ (n \in In(page) /\ ~Due(n))
  BY <1>3 DEF In, Due
<1>4. ASSUME phase[m] = "publish", phase' = [phase EXCEPT ![m] = "over"],
             UNCHANGED <<to, createdAt, page, early, beyond>>,
             wire \subseteq wire', missed \subseteq missed', m \in wire' \cup missed'
      PROVE  \A n \in In(page)' : Due(n)' \/ (n \in In(page) /\ ~Due(n))
  BY <1>4 DEF In, Due
<1>5. \A n \in In(page)' : Due(n)' \/ (n \in In(page) /\ ~Due(n))
  <2>1. ASSUME NEW t \in Thread, SendMessage(m, t)
        PROVE  \A n \in In(page)' : Due(n)' \/ (n \in In(page) /\ ~Due(n))
    BY <1>2, <2>1 DEF SendMessage, Goto
  <2>2. ASSUME NEW t \in Thread, SendDirectMessage(m, t)
        PROVE  \A n \in In(page)' : Due(n)' \/ (n \in In(page) /\ ~Due(n))
    BY <1>3, <2>2 DEF SendDirectMessage, GetOrCreate, Goto, view, tab, link, ledger
  <2>3. ASSUME StoreMessage(m)
        PROVE  \A n \in In(page)' : Due(n)' \/ (n \in In(page) /\ ~Due(n))
    <3>1. createdAt[m] = 0
      BY <2>3 DEF StoreMessage
    <3>2. CASE Store(m, to[m]) /\ phase' = [phase EXCEPT ![m] = "publish"]
      <4>1. /\ to' = [to EXCEPT ![m] = to[m]]
            /\ createdAt' = [createdAt EXCEPT ![m] = clock + 1]
            /\ UNCHANGED <<page, wire, early, missed, beyond>>
        BY <3>2 DEF Store, Create, tab, link
      <4>2. \A n \in In(page)' : n = m \/ n \in In(page)
        BY <4>1 DEF In
      <4> QED
        BY <3>2, <4>1, <4>2 DEF Due, In
    <3>3. CASE phase' = [phase EXCEPT ![m] = "over"] /\ UNCHANGED <<threads, view>>
      BY <1>3, <3>1, <3>3 DEF threads, view, tab, link, ledger
    <3> QED
      BY <2>3, <3>2, <3>3 DEF StoreMessage, Goto
  <2>4. ASSUME PublishMessage(m)
        PROVE  \A n \in In(page)' : Due(n)' \/ (n \in In(page) /\ ~Due(n))
    BY <1>4, <2>4 DEF PublishMessage, Publish, Goto, threads, tab
  <2>5. ASSUME Crash(m)
        PROVE  \A n \in In(page)' : Due(n)' \/ (n \in In(page) /\ ~Due(n))
    BY <1>4, <2>5 DEF Crash, Goto, threads, tab, link
  <2> QED
    BY <2>1, <2>2, <2>3, <2>4, <2>5
<1> QED
  BY <1>1, <1>5, PageKeeps

\* A page that opens or closes starts over.
LEMMA PageMoves ==
  ASSUME TypeOK, Navigate
  PROVE  PageSound' /\ PageIsComplete'
<1> USE ThreadAssumption, ViewAssumption DEF TypeOK, ViewTypeOK
<1>1. ASSUME ClosePage PROVE PageSound' /\ PageIsComplete'
  BY <1>1 DEF ClosePage, PageSound, PageIsComplete
<1>2. ASSUME NEW t \in Thread, NEW s \in {"read", "convs"}, Mount(t, s)
      PROVE  PageSound' /\ PageIsComplete'
  <2>1. PICK q \in Request : /\ request' = q /\ stage' = [stage EXCEPT ![q] = s]
                             /\ of' = [of EXCEPT ![q] = t]
    BY <1>2 DEF Mount
  <2>2. page' = t /\ loaded' = FALSE /\ shown' = [m \in Message |-> 0] /\ seen' = {}
    BY <1>2 DEF Mount
  <2>3. stage'[request'] = s /\ of'[request'] = page'
    BY <2>1, <2>2
  <2> QED
    BY <2>1, <2>2, <2>3 DEF PageSound, PageIsComplete
<1> QED
  BY <1>1, <1>2 DEF Navigate, OpenRoom, OpenConversation

\* The messages of a thread nobody has written to.
LEMMA UnknownIsEmpty ==
  ASSUME TypeOK, SentSound, NEW t \in Thread \ Room, t \notin known
  PROVE  In(t) = {}
BY DEF TypeOK, SentSound, In

\* The page's request reads, marks and is answered.
LEMMA PageRequest ==
  ASSUME TypeOK, SentSound, RequestSound, PageSound, PageIsComplete, NEW q \in Request,
         \/ ListConversations(q) \/ ListRoomMessages(q) \/ ListMessages(q)
         \/ MarkPage(q) \/ TakeAnswer(q) \/ FailRequest(q),
         UNCHANGED phase
  PROVE  PageSound' /\ PageIsComplete'
<1> USE ViewAssumption DEF TypeOK, ThreadsTypeOK, ViewTypeOK
<1>1. /\ UNCHANGED <<to, createdAt, phase, page, request, wire, early, missed>>
      /\ beyond \subseteq beyond'
      /\ \A r \in Request \ {q} : stage'[r] = stage[r] /\ of'[r] = of[r] /\ data'[r] = data[r]
  BY DEF ListConversations, ListRoomMessages, ListMessages, MarkPage, MarkRead, TakeAnswer,
       FailRequest, EndRequest, threads, tab, link, ledger
<1>2. \A x : In(x)' = In(x)
  BY <1>1 DEF In
<1>3. \A m : Due(m) => Due(m)'
  BY <1>1 DEF Due
<1>4. CASE request # q
  <2>1. UNCHANGED <<loaded, shown, seen>>
    BY <1>4 DEF ListConversations, ListRoomMessages, ListMessages, MarkPage, TakeAnswer,
         FailRequest, tab
  <2> QED
    BY <1>1, <1>2, <1>3, <1>4, <2>1, PageKeeps
<1>5. CASE request = q
  <2>1. stage[q] # "idle" /\ ~loaded /\ of[q] = page
    BY <1>5 DEF PageSound, ListConversations, ListRoomMessages, ListMessages, MarkPage,
         TakeAnswer, FailRequest
  <2>2. CASE TakeAnswer(q)
    <3>1. /\ stage[q] = "answer" /\ stage'[q] = "idle"
          /\ shown' = [m \in Message |-> IF m \in data[q] THEN 1 ELSE 0]
          /\ seen' = seen \cup data[q] /\ loaded' = TRUE
      BY <1>5, <2>2 DEF TakeAnswer, EndRequest
    <3>2. \A m \in Message : /\ shown'[m] \in {0, 1}
                             /\ shown'[m] = 1 <=> m \in data[q]
      BY <3>1
    <3>3. \A m \in seen' : m \in early' \/ shown'[m] = 1
      BY <1>1, <2>1, <3>1, <3>2 DEF PageSound
    <3>4. \A m \in In(page) : shown'[m] = 1 \/ Due(m)'
      BY <1>3, <1>5, <3>1, <3>2 DEF PageSound, In
    <3>5. PageSound'
      BY <1>1, <1>5, <3>1, <3>2, <3>3 DEF PageSound
    <3>6. PageIsComplete'
      BY <1>1, <1>2, <3>2, <3>4 DEF PageIsComplete, Due
    <3> QED
      BY <3>5, <3>6
  <2>3. CASE ~TakeAnswer(q)
    <3>1. UNCHANGED <<loaded, shown, seen>>
      BY <2>3 DEF ListConversations, ListRoomMessages, ListMessages, MarkPage, FailRequest, tab
    <3>2. /\ stage'[q] # "idle" => of'[q] = page
          /\ stage'[q] \in {"mark", "answer"} => \A m \in In(page) : m \in data'[q] \/ Due(m)'
      <4>1. CASE ListConversations(q)
        <5>1. of' = of /\ stage'[q] \in {"read", "answer"} /\ of[q] \notin Room
              /\ (stage'[q] = "answer" => of[q] \notin known)
          BY <4>1 DEF ListConversations, RequestSound
        <5>2. stage'[q] = "answer" => In(page) = {}
          BY <2>1, <5>1, UnknownIsEmpty
        <5> QED
          BY <2>1, <5>1, <5>2
      <4>2. CASE ListRoomMessages(q) \/ ListMessages(q)
        <5>1. of' = of /\ In(of[q]) \ data'[q] \subseteq beyond'
          BY <4>2 DEF ListRoomMessages, ListMessages
        <5> QED
          BY <2>1, <5>1 DEF Due
      <4>3. CASE MarkPage(q)
        <5>1. UNCHANGED <<of, data>> /\ stage[q] = "mark"
          BY <4>3 DEF MarkPage
        <5> QED
          BY <1>3, <1>5, <2>1, <5>1 DEF PageSound
      <4>4. CASE FailRequest(q)
        BY <4>4 DEF FailRequest, EndRequest
      <4> QED
        BY <2>3, <4>1, <4>2, <4>3, <4>4
    <3>3. PageSound'
      BY <1>1, <1>2, <1>5, <2>1, <3>1, <3>2 DEF PageSound
    <3>4. PageIsComplete'
      BY <1>1, <2>1, <3>1 DEF PageIsComplete
    <3> QED
      BY <3>3, <3>4
  <2> QED
    BY <2>2, <2>3
<1> QED
  BY <1>4, <1>5

\* An event arrives: the page takes it, or has it, or it is for another.
LEMMA PageArrive ==
  ASSUME TypeOK, PageSound, PageIsComplete, NEW m \in Message, Arrive(m), UNCHANGED phase
  PROVE  PageSound' /\ PageIsComplete'
<1> USE ViewAssumption DEF TypeOK, ThreadsTypeOK, ViewTypeOK
<1>1. /\ wire' = wire \ {m}
      /\ UNCHANGED <<to, createdAt, phase, page, request, loaded, stage, of, data, beyond, missed>>
  BY DEF Arrive, threads, asked
<1>2. \A x : In(x)' = In(x)
  BY <1>1 DEF In
<1>3. CASE page = to[m] /\ m \notin seen
  <2>1. /\ seen' = seen \cup {m} /\ shown' = [shown EXCEPT ![m] = @ + 1]
        /\ early' = IF loaded THEN early ELSE early \cup {m}
    BY <1>3 DEF Arrive, Append
  <2>2. shown[m] = 0
    BY <1>3 DEF PageSound
  <2>3. shown'[m] = 1 /\ \A n \in Message \ {m} : shown'[n] = shown[n]
    BY <2>1, <2>2
  <2>4. \A n \in Message : n # m /\ Due(n) => Due(n)'
    BY <1>1, <2>1 DEF Due
  <2>5. ~loaded => Due(m)'
    BY <2>1 DEF Due
  <2>6. PageSound'
    BY <1>1, <1>2, <2>1, <2>2, <2>3, <2>4, <2>5 DEF PageSound, In
  <2>7. PageIsComplete'
    BY <1>1, <1>2, <2>3, <2>4 DEF PageIsComplete, Due, In
  <2> QED
    BY <2>6, <2>7
<1>4. CASE page # to[m] \/ m \in seen
  <2>1. UNCHANGED <<seen, shown, early>>
    BY <1>4 DEF Arrive
  <2>2. \A n \in Message : n # m /\ Due(n) => Due(n)'
    BY <1>1, <2>1 DEF Due
  <2>3. m \in In(page) => Due(m)' \/ (loaded /\ shown[m] = 1)
    BY <1>4, <2>1 DEF PageSound, Due, In
  <2>4. PageSound'
    BY <1>1, <1>2, <2>1, <2>2, <2>3 DEF PageSound, In
  <2>5. PageIsComplete'
    BY <1>1, <1>2, <2>1, <2>2, <2>3 DEF PageIsComplete, Due, In
  <2> QED
    BY <2>4, <2>5
<1> QED
  BY <1>3, <1>4

LEMMA PageSoundStep ==
  ASSUME TypeOK, SentSound, RequestSound, PageSound, PageIsComplete, [Next]_vars
  PROVE  PageSound' /\ PageIsComplete'
<1>1. ASSUME UNCHANGED <<page, request, loaded, shown, seen, early, to, createdAt, phase,
                         stage, of, data, beyond>>,
             wire \cup missed \subseteq wire' \cup missed'
      PROVE  PageSound' /\ PageIsComplete'
  <2>1. \A m \in In(page)' : Due(m)' \/ (m \in In(page) /\ ~Due(m))
    BY <1>1 DEF Due, In
  <2> QED
    BY <1>1, <2>1, PageKeeps
<1>2. CASE PresenceFollows \/ UNCHANGED vars \/ (UNCHANGED <<threads, view>> /\ UNCHANGED phase)
  BY <1>1, <1>2 DEF PresenceFollows, vars, threads, view, tab, asked, link, ledger
<1>3. CASE (OpenSocket \/ CloseSocket \/ JoinRoom) /\ UNCHANGED phase
  BY <1>1, <1>3 DEF OpenSocket, CloseSocket, JoinRoom, threads, tab, asked, ledger
<1>4. CASE TabStep /\ UNCHANGED <<push, phase, online, moves>>
  BY <1>3, <1>4, PageRequest, PageArrive DEF TabStep
<1>5. CASE Move
  BY <1>2, <1>3, <1>5, PageMoves DEF Move
<1> QED
  BY <1>2, <1>4, <1>5, PageMessage DEF Next

-----------------------------------------------------------------------------
(* The whole.                                                              *)

LEMMA InvInit == Init => Inv
<1> SUFFICES ASSUME Init PROVE Inv
  OBVIOUS
<1> USE ThreadAssumption, ViewAssumption, EndpointAssumption, NoticeAssumption
    DEF Init, ThreadsInit, ViewInit, PushInit
<1>1. ThreadsTypeOK
  BY DEF ThreadsTypeOK
<1>2. ViewTypeOK
  BY DEF ViewTypeOK
<1>3. PushTypeOK
  BY DEF PushTypeOK
<1>4. TypeOK
  <2>1. phase \in [Message -> {"new", "store", "publish", "over"}]
    OBVIOUS
  <2>2. online = FALSE /\ moves = 0 /\ MaxMoves \in Nat
    BY NoticeAssumption
  <2>3. moves \in 0..MaxMoves /\ online \in BOOLEAN
    <3>1. moves \in 0..MaxMoves
      BY ONLY <2>2
    <3>2. online \in BOOLEAN
      BY ONLY <2>2
    <3> QED
      BY <3>1, <3>2
  <2>4. /\ \A m \in Message : phase[m] = "new" /\ createdAt[m] = 0
        /\ \A m \in Notice : duty[m] = "none"
    OBVIOUS
  <2> QED
    BY ONLY <1>1, <1>2, <1>3, <2>1, <2>3, <2>4 DEF TypeOK
<1>5. SentSound /\ PushSound /\ AwayReaderIsTold
  BY DEF SentSound, PushSound, AwayReaderIsTold, Underway
<1>6. RequestSound /\ HiddenIsExplained
  BY DEF RequestSound, HiddenIsExplained, In
<1>7. PageSound /\ PageIsComplete
  BY DEF PageSound, PageIsComplete
<1> QED
  BY <1>4, <1>5, <1>6, <1>7 DEF Inv

LEMMA InvStep == Inv /\ [Next]_vars => Inv'
BY TypeStep, SentStep, PushSoundStep, RequestSoundStep, PageSoundStep DEF Inv

LEMMA InvCorrect == Spec => []Inv
BY InvInit, InvStep, PTL DEF Spec

\* Every variable keeps its type; a message is stored before it is published and
\* published before its target is notified.
THEOREM TypeCorrect == Spec => []TypeOK
<1>1. Inv => TypeOK
  BY DEF Inv
<1> QED
  BY <1>1, InvCorrect, PTL

\* Nothing hides a message from unread_count without an explanation
\* (conversation_service.go ListMessages, conversation_repository.go MarkRead).
THEOREM HiddenCorrect == Spec => []HiddenIsExplained
<1>1. Inv => HiddenIsExplained
  BY DEF Inv
<1> QED
  BY <1>1, InvCorrect, PTL

\* A page with its history lacks and doubles nothing (RoomChatPage.tsx,
\* DirectChatPage.tsx).
THEOREM PageCorrect == Spec => []PageIsComplete
<1>1. Inv => PageIsComplete
  BY DEF Inv
<1> QED
  BY <1>1, InvCorrect, PTL

\* A reader who is away with a confirmed subscription is shown the notification
\* (push_service.go NotifyOfflineUser, push.ts).
THEOREM AwayCorrect == Spec => []AwayReaderIsTold
<1>1. Inv => AwayReaderIsTold
  BY DEF Inv
<1> QED
  BY <1>1, InvCorrect, PTL
=============================================================================
