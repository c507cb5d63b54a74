------------------------------ MODULE Delivery ------------------------------
(***************************************************************************)
(* Sending a chat message from a browser tab until it is confirmed or      *)
(* given up: the pending queue, retries and reconnection of the tab        *)
(* (client/src/context/SocketContext.tsx), the readPump that stores and    *)
(* publishes a message (server/internal/ws/hub.go) with the unique index   *)
(* on msg_id (repository/message_repository.go), and the way back over     *)
(* Redis and subscribeLoop.  One user writes in one tab, to one room and   *)
(* to friends.                                                             *)
(*                                                                         *)
(* Every socket of the tab is a link, served by a process of its own; the  *)
(* tab has one open link at most, but the server may still be working off  *)
(* an older one.  A JavaScript task is one action.  Time is left out: a    *)
(* timer that is set may expire at any moment.                             *)
(***************************************************************************)
EXTENDS Naturals, FiniteSets, Sequences, SequencesExt

CONSTANTS
  Msg,         \* messages the user writes, each with its own msg_id
  Direct,      \* those sent to a friend; the others go to the room
  NoMsg,       \* "no message in hand"
  MaxAttempts, \* DELIVERY_MAX_ATTEMPTS
  MaxLink,     \* bound on sockets the tab opens
  MaxUp        \* bound on frames under way when the page joins or leaves

ASSUME MsgAssumption == /\ IsFiniteSet(Msg) /\ Direct \subseteq Msg
                        /\ NoMsg \notin Msg /\ "join" \notin Msg /\ "leave" \notin Msg
ASSUME BoundAssumption == MaxAttempts \in Nat \ {0} /\ MaxLink \in Nat /\ MaxUp \in Nat

Link  == 1..MaxLink
Frame == Msg \cup {"join", "leave"}

VARIABLES
  phase,       \* "pending": in pendingRef and in sessionStorage
  attempts,    \* attempts of the pending record
  timer,       \* timer[m]: a retry timer of m is set
  link,        \* the socket opened last
  open,        \* that socket is OPEN
  page,        \* the room page has sent join_room on it, and no leave_room since
  up,          \* up[k]: frames of the tab that readPump k has still to read
  served,      \* links whose readPump runs
  joined,      \* links in the room's map of their hub
  doing,       \* where readPump k is
  inHand,      \* the message it is at
  stored,      \* stored[m]: rows with the msg_id of m
  posted,      \* posted[m]: times m was published to its readers
  bus,         \* bus[k]: echoes published and not yet taken by k's subscribeLoop
  down,        \* down[k]: echoes on their way to the tab
  frames,      \* history: frames of m the tab has put on a socket
  lost,        \* history: stored messages whose publishing failed, was cut off, or
               \* never began because the insert was reported as failed
  stranded     \* history: messages whose attempts were used up at a reload

tab    == <<phase, attempts, timer, link, open, page, frames, stranded>>
server == <<served, joined, doing, inHand, stored, posted, lost>>
vars   == <<tab, up, server, bus, down>>

Pending == {m \in Msg : phase[m] = "pending"}

TypeOK ==
  /\ phase \in [Msg -> {"new", "pending", "confirmed", "unconfirmed"}]
  /\ attempts \in [Msg -> 0..MaxAttempts]
  /\ timer \in [Msg -> BOOLEAN]
  /\ link \in 0..MaxLink
  /\ open \in BOOLEAN
  /\ page \in BOOLEAN
  /\ up \in [Link -> Seq(Frame)]
  /\ served \subseteq 1..link
  /\ joined \subseteq served
  /\ doing \in [Link -> {"idle", "publish", "push"}]
  /\ inHand \in [Link -> Msg \cup {NoMsg}]
  /\ stored \in [Msg -> Nat]
  /\ posted \in [Msg -> Nat]
  /\ bus \in [Link -> SUBSET Msg]
  /\ down \in [Link -> SUBSET Msg]
  /\ frames \in [Msg -> Nat]
  /\ lost \subseteq Msg
  /\ stranded \subseteq Msg

Init ==
  /\ phase = [m \in Msg |-> "new"]
  /\ attempts = [m \in Msg |-> 0]
  /\ timer = [m \in Msg |-> FALSE]
  /\ link = 0
  /\ open = FALSE
  /\ page = FALSE
  /\ up = [k \in Link |-> <<>>]
  /\ served = {}
  /\ joined = {}
  /\ doing = [k \in Link |-> "idle"]
  /\ inHand = [k \in Link |-> NoMsg]
  /\ stored = [m \in Msg |-> 0]
  /\ posted = [m \in Msg |-> 0]
  /\ bus = [k \in Link |-> {}]
  /\ down = [k \in Link |-> {}]
  /\ frames = [m \in Msg |-> 0]
  /\ lost = {}
  /\ stranded = {}

-----------------------------------------------------------------------------
(* The tab.                                                                *)

\* ws.send of the pending event of m, which counts an attempt.
Transmit(m) ==
  /\ attempts' = [attempts EXCEPT ![m] = @ + 1]
  /\ frames' = [frames EXCEPT ![m] = @ + 1]
  /\ up' = [up EXCEPT ![link] = Append(@, m)]

\* sendReliable: queued, sent if the socket is open, and a timer set.
SendReliable(m) ==
  /\ phase[m] = "new"
  /\ phase' = [phase EXCEPT ![m] = "pending"]
  /\ timer' = [timer EXCEPT ![m] = TRUE]
  /\ IF open THEN Transmit(m) ELSE UNCHANGED <<attempts, frames, up>>
  /\ UNCHANGED <<link, open, page, stranded, server, bus, down>>

\* Mutant of RetryTimer: the timer is not set again after a retry.
RetryTimerOnce(m) ==
  /\ timer[m] /\ phase[m] = "pending"
  /\ timer' = [timer EXCEPT ![m] = FALSE]
  /\ \/ /\ attempts[m] >= MaxAttempts
        /\ phase' = [phase EXCEPT ![m] = "unconfirmed"]
        /\ UNCHANGED <<attempts, frames, up>>
     \/ /\ attempts[m] < MaxAttempts /\ open
        /\ Transmit(m)
        /\ UNCHANGED phase
  /\ UNCHANGED <<link, open, page, stranded, server, bus, down>>

\* The retry timer of m expires: give up after the last attempt, otherwise send
\* again if the socket is open; the timer is set again.
RetryTimer(m) ==
  /\ timer[m] /\ phase[m] = "pending"
  /\ \/ /\ attempts[m] >= MaxAttempts
        /\ phase' = [phase EXCEPT ![m] = "unconfirmed"]
        /\ timer' = [timer EXCEPT ![m] = FALSE]
        /\ UNCHANGED <<attempts, frames, up>>
     \/ /\ attempts[m] < MaxAttempts /\ open
        /\ Transmit(m)
        /\ UNCHANGED <<phase, timer>>
  /\ UNCHANGED <<link, open, page, stranded, server, bus, down>>

\* Mutant of OnOpen: the replayed messages get no timer.
OnOpenWithoutTimers ==
  /\ ~open /\ link < MaxLink
  /\ link' = link + 1
  /\ open' = TRUE
  /\ page' = FALSE
  /\ served' = served \cup {link + 1}
  /\ LET replayed == {m \in Pending : attempts[m] < MaxAttempts}
         Bump(f)  == [m \in Msg |-> IF m \in replayed THEN f[m] + 1 ELSE f[m]]
     IN /\ attempts' = Bump(attempts)
        /\ frames' = Bump(frames)
        /\ \E s \in SetToSeqs(replayed) : up' = [up EXCEPT ![link + 1] = s]
  /\ UNCHANGED <<phase, timer, stranded, joined, doing, inHand, stored, posted, lost,
                 bus, down>>

\* ws.onopen of a new socket: what is pending and has attempts left is sent, in
\* the order of the map, and gets a timer.  The handshake ended with register.
OnOpen ==
  /\ ~open /\ link < MaxLink
  /\ link' = link + 1
  /\ open' = TRUE
  /\ page' = FALSE
  /\ served' = served \cup {link + 1}
  /\ LET replayed == {m \in Pending : attempts[m] < MaxAttempts}
         Bump(f)  == [m \in Msg |-> IF m \in replayed THEN f[m] + 1 ELSE f[m]]
     IN /\ attempts' = Bump(attempts)
        /\ frames' = Bump(frames)
        /\ timer' = [m \in Msg |-> timer[m] \/ m \in replayed]
        /\ \E s \in SetToSeqs(replayed) : up' = [up EXCEPT ![link + 1] = s]
  /\ UNCHANGED <<phase, stranded, joined, doing, inHand, stored, posted, lost, bus,
                 down>>

\* The room page's effect on status and roomId: join_room, or leave_room on its
\* cleanup.  It runs after onopen, hence after the replayed frames.
PageEffect ==
  /\ open /\ Len(up[link]) < MaxUp
  /\ page' = ~page
  /\ up' = [up EXCEPT ![link] = Append(@, IF page THEN "leave" ELSE "join")]
  /\ UNCHANGED <<phase, attempts, timer, link, open, frames, stranded, server, bus,
                 down>>

\* ws.onmessage with the echo of m: acknowledge drops m from the queue.
OnMessage(m) ==
  /\ open /\ m \in down[link]
  /\ down' = [down EXCEPT ![link] = @ \ {m}]
  /\ IF phase[m] = "pending"
     THEN /\ phase' = [phase EXCEPT ![m] = "confirmed"]
          /\ timer' = [timer EXCEPT ![m] = FALSE]
     ELSE UNCHANGED <<phase, timer>>
  /\ UNCHANGED <<attempts, link, open, page, frames, stranded, up, server, bus>>

\* The current socket is gone for the tab; some of its frames have reached the
\* server and will still be read, the rest is lost.
CutLink ==
  /\ open' = FALSE
  /\ page' = FALSE
  /\ \E n \in 0..Len(up[link]) : up' = [up EXCEPT ![link] = SubSeq(@, 1, n)]
  /\ down' = [down EXCEPT ![link] = {}]

\* ws.onclose that the tab did not ask for.
OnClose ==
  /\ open /\ CutLink
  /\ UNCHANGED <<phase, attempts, timer, link, frames, stranded, server, bus>>

\* Mutant of Reload: the attempts made so far were not persisted.
ReloadResettingAttempts ==
  /\ timer' = [m \in Msg |-> FALSE]
  /\ attempts' = [m \in Msg |-> 0]
  /\ IF open THEN CutLink ELSE UNCHANGED <<open, page, up, down>>
  /\ UNCHANGED <<phase, link, frames, stranded, server, bus>>

\* The page is reloaded: the queue comes back from sessionStorage, timers do not.
Reload ==
  /\ timer' = [m \in Msg |-> FALSE]
  /\ stranded' = stranded \cup {m \in Pending : attempts[m] = MaxAttempts}
  /\ IF open THEN CutLink ELSE UNCHANGED <<open, page, up, down>>
  /\ UNCHANGED <<phase, attempts, link, frames, server, bus>>

-----------------------------------------------------------------------------
(* The server side of a link.                                              *)

Goto(k, where, m) ==
  /\ doing' = [doing EXCEPT ![k] = where]
  /\ inHand' = [inHand EXCEPT ![k] = m]

\* readPump k is about to read the frame f.
Reads(k, f) ==
  /\ k \in served /\ doing[k] = "idle" /\ up[k] # <<>> /\ Head(up[k]) = f
  /\ up' = [up EXCEPT ![k] = Tail(@)]

\* handleJoinRoom and handleLeaveRoom, as far as the echoes are concerned.
JoinOrLeave(k) ==
  /\ \/ Reads(k, "join") /\ joined' = joined \cup {k}
     \/ Reads(k, "leave") /\ joined' = joined \ {k}
  /\ UNCHANGED <<tab, served, doing, inHand, stored, posted, lost, bus, down>>

\* Mutant of Create: a message that is stored already is published again.
CreateRepublishing(k, m) ==
  /\ Reads(k, m)
  /\ \/ UNCHANGED <<doing, inHand, stored>>
     \/ /\ stored' = [stored EXCEPT ![m] = 1]
        /\ Goto(k, "publish", m)
  /\ UNCHANGED <<tab, served, joined, posted, lost, bus, down>>

\* Mutant of Create: the command is cancelled when the socket is gone.
CreateCancelled(k, m) ==
  /\ Reads(k, m)
  /\ \/ UNCHANGED <<doing, inHand, stored>>
     \/ /\ stored[m] = 0
        /\ stored' = [stored EXCEPT ![m] = 1]
        /\ IF k = link /\ open THEN Goto(k, "publish", m)
                              ELSE UNCHANGED <<doing, inHand>>
  /\ UNCHANGED <<tab, served, joined, posted, lost, bus, down>>

\* handleSendMessage and handleSendDirectMessage up to Create.  The command may
\* be refused (length, rate limit, word list, no friend, database error): the
\* error frame has no msg_id and the tab's queue ignores it.  Otherwise the
\* unique index decides; a message it already has is not published again, even
\* if the insert that stored it was reported as failed and never published.
Create(k, m) ==
  /\ Reads(k, m)
  /\ \/ UNCHANGED <<doing, inHand, stored, lost>>
     \/ /\ stored[m] = 0
        /\ stored' = [stored EXCEPT ![m] = 1]
        /\ \/ Goto(k, "publish", m) /\ UNCHANGED lost
           \/ lost' = lost \cup {m} /\ UNCHANGED <<doing, inHand>>
  /\ UNCHANGED <<tab, served, joined, posted, bus, down>>

\* Redis hands a message to the subscribeLoops of all processes.
Echo(m) == bus' = [k \in Link |-> bus[k] \cup {m}]

\* publish to the room; or, of a direct message, publishToUser to the sender,
\* with the target's still to come.  A failure is logged and nothing more.
Publish(k) ==
  /\ doing[k] = "publish"
  /\ LET m == inHand[k]
     IN \/ /\ m \notin Direct
           /\ \/ /\ Echo(m)
                 /\ posted' = [posted EXCEPT ![m] = @ + 1]
                 /\ UNCHANGED lost
              \/ /\ lost' = lost \cup {m}
                 /\ UNCHANGED <<bus, posted>>
           /\ Goto(k, "idle", NoMsg)
        \/ /\ m \in Direct
           /\ Echo(m) \/ UNCHANGED bus
           /\ Goto(k, "push", m)
           /\ UNCHANGED <<posted, lost>>
  /\ UNCHANGED <<tab, up, served, joined, stored, down>>

\* publishToUser to the target of a direct message.
PublishToTarget(k) ==
  /\ doing[k] = "push"
  /\ LET m == inHand[k]
     IN \/ posted' = [posted EXCEPT ![m] = @ + 1] /\ UNCHANGED lost
        \/ lost' = lost \cup {m} /\ UNCHANGED posted
  /\ Goto(k, "idle", NoMsg)
  /\ UNCHANGED <<tab, up, served, joined, stored, bus, down>>

\* subscribeLoop of the process of k: the echo goes to the sender's connection
\* if it is in the room (any connection, for a direct message) and its channel
\* is not full.
Dispatch(k, m) ==
  /\ m \in bus[k]
  /\ bus' = [bus EXCEPT ![k] = @ \ {m}]
  /\ \/ /\ k \in served /\ (m \in Direct \/ k \in joined)
        /\ k = link /\ open
        /\ down' = [down EXCEPT ![k] = @ \cup {m}]
     \/ UNCHANGED down
  /\ UNCHANGED <<tab, up, server>>

\* Mutant of ReadPumpExit: the room's map keeps the connection.
ReadPumpExitKeepingRoom(k) ==
  /\ k \in served /\ doing[k] = "idle" /\ up[k] = <<>>
  /\ k # link \/ ~open
  /\ served' = served \ {k}
  /\ UNCHANGED <<tab, up, joined, doing, inHand, stored, posted, lost, bus, down>>

\* readPump k finds the socket closed and unregisters.
ReadPumpExit(k) ==
  /\ k \in served /\ doing[k] = "idle" /\ up[k] = <<>>
  /\ k # link \/ ~open
  /\ served' = served \ {k}
  /\ joined' = joined \ {k}
  /\ UNCHANGED <<tab, up, doing, inHand, stored, posted, lost, bus, down>>

\* The process that serves k ends, wherever its goroutines are.
Crash(k) ==
  /\ k \in served
  /\ served' = served \ {k}
  /\ joined' = joined \ {k}
  /\ Goto(k, "idle", NoMsg)
  /\ lost' = IF doing[k] = "idle" THEN lost ELSE lost \cup {inHand[k]}
  /\ bus' = [bus EXCEPT ![k] = {}]
  /\ up' = [up EXCEPT ![k] = <<>>]
  /\ down' = [down EXCEPT ![k] = {}]
  /\ IF k = link THEN open' = FALSE /\ page' = FALSE ELSE UNCHANGED <<open, page>>
  /\ UNCHANGED <<phase, attempts, timer, link, frames, stranded, stored, posted>>

-----------------------------------------------------------------------------
TabStep == \/ \E m \in Msg : SendReliable(m) \/ RetryTimer(m) \/ OnMessage(m)
           \/ OnOpen \/ PageEffect \/ OnClose \/ Reload

ServerStep(k) == \/ JoinOrLeave(k) \/ Publish(k) \/ PublishToTarget(k)
                 \/ ReadPumpExit(k) \/ Crash(k)
                 \/ \E m \in Msg : Create(k, m) \/ Dispatch(k, m)

Next == TabStep \/ \E k \in Link : ServerStep(k)

\* A timer that is set expires.
Fairness == \A m \in Msg : WF_vars(RetryTimer(m))

Spec == Init /\ [][Next]_vars /\ Fairness

-----------------------------------------------------------------------------
(* Properties.                                                             *)

\* The tab and the servers together keep the promises of MessageLog: whatever
\* is retried, replayed, lost or cut off, and even when two readPumps work on
\* the same message, it is stored once and posted once, and a confirmed message
\* is stored and, in a room, posted.
Log == INSTANCE MessageLog WITH phase <- phase, stored <- stored, posted <- posted
ImplementsLog == Log!Spec

\* The hubs that serve the tab's sockets, one after the other, implement Registry
\* with the tab's room: however long the server works off an old socket, that one
\* is in the room only while its readPump runs.
Life(k) == IF k > link THEN "new" ELSE IF k \in served THEN "open" ELSE "closed"
Hub == INSTANCE Registry WITH
         Conn    <- Link,
         Room    <- {"room"},
         life    <- [k \in Link |-> Life(k)],
         members <- [r \in {"room"} |-> joined]
ImplementsRegistry == Hub!Spec

\* DELIVERY_MAX_ATTEMPTS bounds the frames of a message over all the paths that
\* send one (first send, timer, replay), reconnections and reloads included.
FramesBounded == \A m \in Msg : frames[m] <= MaxAttempts

\* While the socket is open, a pending message has a timer that will send it
\* again or report it, whatever closed or reloaded before.  The exception is a
\* message whose attempts were used up before a reload.
PendingIsWatched ==
  open => \A m \in Pending : timer[m] \/ m \in stranded

\* A stored message that its readers were not told of is in some readPump's
\* hand, or its insert or its publishing was reported as failed, or a crash cut
\* it off: neither a closed socket nor a duplicate on another link keeps it from
\* them.
StoredIsPosted ==
  \A m \in Msg : stored[m] > 0 /\ posted[m] = 0 =>
    m \in lost \/ \E k \in Link : doing[k] # "idle" /\ inHand[k] = m

\* Once the socket stays open, the user learns the fate of every message sent,
\* unless a reload left it with its attempts used up and no timer.
FateIsReported ==
  <>[]open => \A m \in Msg :
    phase[m] = "pending" ~> (phase[m] # "pending" \/ m \in stranded)
=============================================================================
