---------------------------- MODULE Conversation ----------------------------
(***************************************************************************)
(* A reader between live events, history, cursor and push: the handlers of *)
(* room and direct messages (ws/hub.go) run against the reader's tab, its  *)
(* socket and its subscription.  A message is handled once here; repeats   *)
(* are module Delivery's.                                                  *)
(***************************************************************************)
EXTENDS ChatView, Push

CONSTANT MaxMoves    \* bound on what the reader does: pages, sockets, toggles

ASSUME NoticeAssumption == Notice = Message \ Mine /\ MaxMoves \in Nat

VARIABLES
  phase,       \* where the handler of a message is
  online,      \* the reader's presence in Redis, as of module HubSession
  moves        \* what the reader has done so far

vars == <<threads, view, push, phase, online, moves>>

TypeOK ==
  /\ ThreadsTypeOK
  /\ ViewTypeOK
  /\ PushTypeOK
  /\ phase \in [Message -> {"new", "store", "publish", "over"}]
  /\ online \in BOOLEAN
  /\ moves \in 0..MaxMoves
  /\ \A m \in Message : phase[m] = "publish" => createdAt[m] # 0
  /\ \A m \in Message : createdAt[m] # 0 => phase[m] \in {"publish", "over"}
  /\ \A m \in Notice : duty[m] # "none" => phase[m] = "over"

Init ==
  /\ ThreadsInit
  /\ ViewInit
  /\ PushInit
  /\ phase = [m \in Message |-> "new"]
  /\ online = FALSE
  /\ moves = 0

Goto(m, p) == phase' = [phase EXCEPT ![m] = p]

-----------------------------------------------------------------------------
(* The handlers of a message.  One that fails the checks of content, rate,  *)
(* words or friendship changes nothing.                                    *)

\* handleSendMessage: one insert.
SendMessage(m, t) ==
  /\ phase[m] = "new" /\ t \in Room
  /\ Store(m, t)
  /\ Goto(m, "publish")
  /\ UNCHANGED <<push, online, moves>>

\* handleSendDirectMessage: the conversation first.
SendDirectMessage(m, t) ==
  /\ phase[m] = "new" /\ t \in Thread \ Room
  /\ GetOrCreate(m, t)
  /\ Goto(m, "store")
  /\ UNCHANGED <<view, push, online, moves>>

\* SendDirectMessage: then the message, or the insert fails.
StoreMessage(m) ==
  /\ phase[m] = "store"
  /\ \/ Store(m, to[m]) /\ Goto(m, "publish")
     \/ Goto(m, "over") /\ UNCHANGED <<threads, view>>
  /\ UNCHANGED <<push, online, moves>>

\* The event goes out, and the target of a direct message is notified.
PublishMessage(m) ==
  /\ phase[m] = "publish"
  /\ Publish(m)
  /\ Goto(m, "over")
  /\ IF m \in Notice /\ to[m] \notin Room THEN Begin(m, socket \/ online) ELSE UNCHANGED push
  /\ UNCHANGED <<online, moves>>

\* The process ends between the insert and the publish.
Crash(m) ==
  /\ phase[m] = "publish"
  /\ missed' = missed \cup {m}
  /\ Goto(m, "over")
  /\ UNCHANGED <<threads, tab, asked, link, displayed, unused, beyond, between, early,
                 push, online, moves>>

-----------------------------------------------------------------------------
\* MarkOnline or MarkOffline, some time after the socket.
PresenceFollows ==
  /\ online # socket
  /\ online' = socket
  /\ ExcuseAll
  /\ UNCHANGED <<threads, view, sub, rows, duty, targets, pushed, phase, moves>>

\* What the reader, or the network, does.
Move ==
  /\ moves < MaxMoves
  /\ moves' = moves + 1
  /\ \/ Navigate /\ UNCHANGED push
     \/ (OpenSocket \/ CloseSocket) /\ ExcuseAll /\ UNCHANGED <<sub, rows, duty, targets, pushed>>
     \/ Choose /\ UNCHANGED <<threads, view>>
  /\ UNCHANGED <<phase, online>>

Next ==
  \/ \E m \in Message : \/ \E t \in Thread : SendMessage(m, t) \/ SendDirectMessage(m, t)
                        \/ StoreMessage(m) \/ PublishMessage(m) \/ Crash(m)
  \/ PresenceFollows
  \/ Move
  \/ TabStep /\ UNCHANGED <<push, phase, online, moves>>
  \/ PushStep(online) /\ UNCHANGED <<threads, view, phase, online, moves>>

Spec == Init /\ [][Next]_vars

-----------------------------------------------------------------------------
\* A page that has its history shows every message of its thread, and none
\* twice, except one that has still to be published or to arrive, that was
\* lost on the way or arrived before the history since the page is open, or
\* that is older than the page of history: what two sources tell of the same
\* messages is neither doubled nor dropped in any other order.
PageIsComplete ==
  page # NoThread /\ loaded =>
    /\ \A m \in Message : shown[m] <= 1
    /\ \A m \in In(page) : shown[m] = 1
         \/ phase[m] = "publish" \/ m \in wire \cup early \cup missed \cup beyond
=============================================================================
