------------------------------ MODULE ChatView ------------------------------
(***************************************************************************)
(* One tab of the reader: the open chat page (RoomChatPage.tsx,            *)
(* DirectChatPage.tsx), the requests for its history, each with its        *)
(* statements on the server (api/room.go, api/conversation.go and their    *)
(* services), and the events that come over the socket.                    *)
(*                                                                         *)
(* A request goes on after its page is closed: closing only sets the       *)
(* effect's cancelled flag.  request = q stands for "q is not cancelled".  *)
(***************************************************************************)
EXTENDS Threads

CONSTANTS
  Request,     \* requests that may be under way at a time
  NoRequest    \* "no request"

ASSUME ViewAssumption == NoRequest \notin Request

VARIABLES
  page,        \* the thread whose page is open
  request,     \* the request of the page's effect
  loaded,      \* whether its answer has been taken
  shown,       \* how often the page shows a message
  seen,        \* seenMsgIds
  stage,       \* where a request is
  of,          \* its thread
  data,        \* the page of messages it has read
  socket,      \* whether the tab's socket is open
  joined,      \* whether the socket is in the room of the page
  wire,        \* messages sent to the socket and not arrived
  displayed,   \* history: messages the tab has shown at some time
  unused,      \* history: messages in an answer that was never shown
  beyond,      \* history: messages older than a page that was read
  between,     \* history: messages stored between a page's read and its mark
  early,       \* history: arrived at the open page before its history did
  missed       \* history: published since the page is open, and lost on the way

tab    == <<page, request, loaded, shown, seen>>
asked  == <<stage, of, data>>
link   == <<socket, joined, wire>>
ledger == <<displayed, unused, beyond, between, early, missed>>
view   == <<tab, asked, link, ledger>>

ViewTypeOK ==
  /\ page \in Thread \cup {NoThread}
  /\ request \in Request \cup {NoRequest}
  /\ loaded \in BOOLEAN
  /\ shown \in [Message -> Nat]
  /\ seen \subseteq Message
  /\ stage \in [Request -> {"idle", "convs", "read", "mark", "answer"}]
  /\ of \in [Request -> Thread \cup {NoThread}]
  /\ data \in [Request -> SUBSET Message]
  /\ socket \in BOOLEAN /\ joined \in BOOLEAN
  /\ wire \subseteq Message
  /\ displayed \cup unused \cup beyond \cup between \cup early \cup missed \subseteq Message
  /\ joined => socket /\ page \in Room
  /\ \A q \in Request : stage[q] # "idle" => of[q] \in Thread

ViewInit ==
  /\ page = NoThread /\ request = NoRequest /\ loaded = FALSE
  /\ shown = [m \in Message |-> 0]
  /\ seen = {}
  /\ stage = [q \in Request |-> "idle"]
  /\ of = [q \in Request |-> NoThread]
  /\ data = [q \in Request |-> {}]
  /\ socket = FALSE /\ joined = FALSE
  /\ wire = {}
  /\ displayed = {} /\ unused = {} /\ beyond = {} /\ between = {} /\ early = {}
  /\ missed = {}

-----------------------------------------------------------------------------
(* The page.                                                               *)

\* Both pages start over when their thread changes: an empty list, a new
\* request, and the old one cancelled.  A room is left.
Mount(t, first) ==
  /\ page # t
  /\ page' = t
  /\ \E q \in Request :
       /\ stage[q] = "idle"
       /\ request' = q
       /\ stage' = [stage EXCEPT ![q] = first]
       /\ of' = [of EXCEPT ![q] = t]
  /\ loaded' = FALSE
  /\ shown' = [m \in Message |-> 0]
  /\ seen' = {}
  /\ joined' = FALSE
  /\ early' = {} /\ missed' = {}
  /\ UNCHANGED <<threads, data, socket, wire, displayed, unused, beyond, between>>

\* A room's history is one request.
OpenRoom(t) == t \in Room /\ Mount(t, "read")

\* A conversation is looked for in the list of conversations first.
OpenConversation(t) == t \in Thread \ Room /\ Mount(t, "convs")

ClosePage ==
  /\ page # NoThread
  /\ page' = NoThread
  /\ request' = NoRequest
  /\ loaded' = FALSE
  /\ shown' = [m \in Message |-> 0]
  /\ seen' = {}
  /\ joined' = FALSE
  /\ early' = {} /\ missed' = {}
  /\ UNCHANGED <<threads, asked, socket, wire, displayed, unused, beyond, between>>

-----------------------------------------------------------------------------
(* The requests.                                                           *)

EndRequest(q) ==
  /\ stage' = [stage EXCEPT ![q] = "idle"]
  /\ of' = [of EXCEPT ![q] = NoThread]
  /\ data' = [data EXCEPT ![q] = {}]

\* GET /api/conversations.  A conversation that is found is asked for its
\* messages, whether the page is still open or not.
ListConversations(q) ==
  /\ stage[q] = "convs"
  /\ stage' = [stage EXCEPT ![q] = IF of[q] \in known THEN "read" ELSE "answer"]
  /\ UNCHANGED <<threads, tab, of, data, link, ledger>>

\* ListRoomMessages: everybody may read a room.
ListRoomMessages(q) ==
  /\ stage[q] = "read"
  /\ of[q] \in Room
  /\ data' = [data EXCEPT ![q] = ListByRoom(of[q])]
  /\ stage' = [stage EXCEPT ![q] = "answer"]
  /\ beyond' = beyond \cup (In(of[q]) \ data'[q])
  /\ UNCHANGED <<threads, tab, of, link, displayed, unused, between, early, missed>>

\* Mutant of ListMessages: a failed query marks the conversation read as well.
ListMessagesOrNot(q) ==
  /\ stage[q] = "read"
  /\ of[q] \notin Room
  /\ stage' = [stage EXCEPT ![q] = "mark"]
  /\ \/ /\ data' = [data EXCEPT ![q] = ListByConversation(of[q])]
        /\ beyond' = beyond \cup (In(of[q]) \ data'[q])
     \/ UNCHANGED <<data, beyond>>
  /\ UNCHANGED <<threads, tab, of, link, displayed, unused, between, early, missed>>

\* ListMessages: the query of the page, the reader being one of the two.
ListMessages(q) ==
  /\ stage[q] = "read"
  /\ of[q] \notin Room
  /\ data' = [data EXCEPT ![q] = ListByConversation(of[q])]
  /\ stage' = [stage EXCEPT ![q] = "mark"]
  /\ beyond' = beyond \cup (In(of[q]) \ data'[q])
  /\ UNCHANGED <<threads, tab, of, link, displayed, unused, between, early, missed>>

\* ListMessages: all of the conversation is marked read, whichever page it was.
MarkPage(q) ==
  /\ stage[q] = "mark"
  /\ MarkRead(of[q])
  /\ stage' = [stage EXCEPT ![q] = "answer"]
  /\ UNCHANGED <<tab, of, data, link, ledger>>

\* Mutant of TakeAnswer: the ids of the history are not remembered.
TakeAnswerOnly(q) ==
  /\ stage[q] = "answer"
  /\ IF request = q
     THEN /\ shown' = [m \in Message |-> IF m \in data[q] THEN 1 ELSE 0]
          /\ loaded' = TRUE
          /\ displayed' = displayed \cup data[q]
          /\ UNCHANGED unused
     ELSE /\ unused' = unused \cup data[q]
          /\ UNCHANGED <<shown, loaded, displayed>>
  /\ EndRequest(q)
  /\ UNCHANGED <<threads, page, request, seen, link, beyond, between, early, missed>>

\* The answer replaces the list, and its ids join those that arrived meanwhile;
\* a cancelled request's answer is dropped.
TakeAnswer(q) ==
  /\ stage[q] = "answer"
  /\ IF request = q
     THEN /\ shown' = [m \in Message |-> IF m \in data[q] THEN 1 ELSE 0]
          /\ seen' = seen \cup data[q]
          /\ loaded' = TRUE
          /\ displayed' = displayed \cup data[q]
          /\ UNCHANGED unused
     ELSE /\ unused' = unused \cup data[q]
          /\ UNCHANGED <<shown, seen, loaded, displayed>>
  /\ EndRequest(q)
  /\ UNCHANGED <<threads, page, request, link, beyond, between, early, missed>>

\* A statement fails, or the network loses the request or its answer.
FailRequest(q) ==
  /\ stage[q] # "idle"
  /\ unused' = unused \cup data[q]
  /\ EndRequest(q)
  /\ UNCHANGED <<threads, tab, link, displayed, beyond, between, early, missed>>

-----------------------------------------------------------------------------
(* The socket.                                                             *)

OpenSocket ==
  /\ ~socket
  /\ socket' = TRUE
  /\ UNCHANGED <<threads, tab, asked, joined, wire, ledger>>

\* Mutant of CloseSocket: the room is not left.
CloseSocketJoined ==
  /\ socket
  /\ socket' = FALSE
  /\ wire' = {}
  /\ missed' = missed \cup wire
  /\ UNCHANGED <<threads, tab, asked, joined, displayed, unused, beyond, between, early>>

\* What was on its way is gone; no page asks for its history again.
CloseSocket ==
  /\ socket
  /\ socket' = FALSE
  /\ joined' = FALSE
  /\ wire' = {}
  /\ missed' = missed \cup wire
  /\ UNCHANGED <<threads, tab, asked, displayed, unused, beyond, between, early>>

\* The page's join_room, sent on every new socket, takes effect.
JoinRoom ==
  /\ socket /\ page \in Room /\ ~joined
  /\ joined' = TRUE
  /\ UNCHANGED <<threads, tab, asked, socket, wire, ledger>>

\* An event for the open page, and a message it has not seen.
Append(m) ==
  /\ seen' = seen \cup {m}
  /\ shown' = [shown EXCEPT ![m] = @ + 1]
  /\ displayed' = displayed \cup {m}
  /\ early' = IF loaded THEN early ELSE early \cup {m}

\* message_received or direct_message_received arrives.
Arrive(m) ==
  /\ m \in wire
  /\ wire' = wire \ {m}
  /\ IF page = to[m] /\ m \notin seen THEN Append(m)
     ELSE UNCHANGED <<seen, shown, displayed, early>>
  /\ UNCHANGED <<threads, page, request, loaded, asked, socket, joined,
                 unused, beyond, between, missed>>

-----------------------------------------------------------------------------
\* The message is stored in its thread.
Store(m, t) ==
  /\ to' = [to EXCEPT ![m] = t]
  /\ Create(m)
  /\ between' = IF \E q \in Request : stage[q] = "mark" /\ of[q] = t
                THEN between \cup {m} ELSE between
  /\ UNCHANGED <<tab, asked, link, displayed, unused, beyond, early, missed>>

Reached(m) == socket /\ (to[m] \in Room => joined /\ page = to[m])

\* The event is published: it goes on the socket if one is there to take it, and
\* may be lost all the same (a failed PUBLISH, a full channel).
Publish(m) ==
  /\ \/ Reached(m) /\ wire' = wire \cup {m} /\ UNCHANGED missed
     \/ missed' = missed \cup {m} /\ UNCHANGED wire
  /\ UNCHANGED <<threads, tab, asked, socket, joined, displayed, unused, beyond,
                 between, early>>

Navigate == ClosePage \/ \E t \in Thread : OpenRoom(t) \/ OpenConversation(t)

TabStep ==
  \/ \E q \in Request : \/ ListConversations(q) \/ ListRoomMessages(q) \/ ListMessages(q)
                        \/ MarkPage(q) \/ TakeAnswer(q) \/ FailRequest(q)
  \/ JoinRoom
  \/ \E m \in Message : Arrive(m)

-----------------------------------------------------------------------------
\* A peer's message that no longer counts as unread was shown, is in an answer
\* that comes or came to nothing, is older than a page that was read, or was
\* stored while a request stood between its two statements: nothing else hides
\* a message from unread_count, in whatever order requests overlap.
HiddenIsExplained ==
  \A t \in Thread \ Room : \A m \in In(t) \ Mine :
    \/ m \in Unread(t)
    \/ m \in displayed \cup unused \cup beyond \cup between
    \/ \E q \in Request : m \in data[q]
=============================================================================
