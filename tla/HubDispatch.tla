----------------------------- MODULE HubDispatch -----------------------------
(***************************************************************************)
(* The goroutines of one server process that share the send channel of a   *)
(* connection (server/internal/ws/hub.go, client.go, handler.go): its      *)
(* readPump, which answers commands and closes the channel, its writePump, *)
(* which empties the channel into the socket, and the hub's subscribeLoop, *)
(* which copies the targets of a broadcast under the lock and sends to     *)
(* them after releasing it.                                                *)
(*                                                                         *)
(* Frames are counted, not told apart.  Messages of Redis can arrive at    *)
(* any time (other instances publish too), so subscribeLoop may take one   *)
(* whenever it is idle.                                                    *)
(***************************************************************************)
EXTENDS Naturals, FiniteSets

CONSTANTS
  Conn,        \* connections of this process
  SendCap,     \* capacity of a send channel (32 in newClient)
  MaxUnread    \* bound on commands a peer has sent and readPump has not read

ASSUME CapAssumption == SendCap \in Nat \ {0} /\ MaxUnread \in Nat \ {0}

VARIABLES
  alive,       \* the process runs
  reader,      \* where ServeWS and then readPump are
  writer,      \* where writePump is
  sock,        \* "up", "broken" by the peer or network, "closed" by a pump
  unread,      \* commands that arrived and were not read
  queue,       \* number of frames in the send channel
  users,       \* connections in the users map
  room,        \* connections in the map of the one room considered
  targets      \* connections subscribeLoop has still to send the current message to

vars == <<alive, reader, writer, sock, unread, queue, users, room, targets>>

\* The channel is closed: no step sends to it without a panic.
Closed(c) == reader[c] = "gone"

\* A blocking send that nobody will ever make room for.
Stuck(c) == /\ reader[c] \in {"greet", "reply"}
            /\ queue[c] = SendCap
            /\ writer[c] \in {"none", "exited"}

TypeOK ==
  /\ alive \in BOOLEAN
  /\ reader \in [Conn -> {"none", "greet", "read", "reply", "exit", "close", "gone"}]
  /\ writer \in [Conn -> {"none", "wait", "write", "exited"}]
  /\ sock \in [Conn -> {"up", "broken", "closed"}]
  /\ unread \in [Conn -> 0..MaxUnread]
  /\ queue \in [Conn -> 0..SendCap]
  /\ users \subseteq Conn
  /\ room \subseteq users
  /\ targets \subseteq Conn

Init ==
  /\ alive = TRUE
  /\ reader = [c \in Conn |-> "none"]
  /\ writer = [c \in Conn |-> "none"]
  /\ sock = [c \in Conn |-> "up"]
  /\ unread = [c \in Conn |-> 0]
  /\ queue = [c \in Conn |-> 0]
  /\ users = {}
  /\ room = {}
  /\ targets = {}

ReaderGoto(c, where) == reader' = [reader EXCEPT ![c] = where]
WriterGoto(c, where) == writer' = [writer EXCEPT ![c] = where]

\* A send on c.send by the connection's own goroutine: it waits for room.
BlockingSend(c) == queue[c] < SendCap /\ queue' = [queue EXCEPT ![c] = @ + 1]

-----------------------------------------------------------------------------
(* ServeWS and readPump.                                                   *)

\* register: into the users map, under the lock; writePump does not run yet.
Register(c) ==
  /\ alive /\ reader[c] = "none"
  /\ users' = users \cup {c}
  /\ ReaderGoto(c, "greet")
  /\ UNCHANGED <<alive, writer, sock, unread, queue, room, targets>>

\* register's "connected" frame; then ServeWS starts both pumps.
Greet(c) ==
  /\ alive /\ reader[c] = "greet"
  /\ BlockingSend(c)
  /\ ReaderGoto(c, "read")
  /\ WriterGoto(c, "wait")
  /\ UNCHANGED <<alive, sock, unread, users, room, targets>>

\* readPump reads a command: it joins the room, leaves it, is refused (all three
\* are answered) or is accepted without an answer.
ReadCommand(c) ==
  /\ alive /\ reader[c] = "read" /\ unread[c] > 0 /\ sock[c] # "closed"
  /\ unread' = [unread EXCEPT ![c] = @ - 1]
  /\ \/ room' = room \cup {c} /\ ReaderGoto(c, "reply")
     \/ room' = room \ {c} /\ ReaderGoto(c, "reply")
     \/ UNCHANGED room /\ ReaderGoto(c, "reply")
     \/ UNCHANGED <<room, reader>>
  /\ UNCHANGED <<alive, writer, sock, queue, users, targets>>

\* The answer of a command.
Reply(c) ==
  /\ alive /\ reader[c] = "reply"
  /\ BlockingSend(c)
  /\ ReaderGoto(c, "read")
  /\ UNCHANGED <<alive, writer, sock, unread, users, room, targets>>

\* ReadMessage fails (closed socket, broken socket with nothing buffered, pong
\* deadline): readPump returns and its deferred conn.Close runs.
ReadError(c) ==
  /\ alive /\ reader[c] = "read"
  /\ sock[c] = "closed" \/ (sock[c] = "broken" /\ unread[c] = 0)
  /\ sock' = [sock EXCEPT ![c] = "closed"]
  /\ ReaderGoto(c, "exit")
  /\ UNCHANGED <<alive, writer, unread, queue, users, room, targets>>

\* Mutant of Unregister: the connection stays in the room's map.
UnregisterKeepingRoom(c) ==
  /\ alive /\ reader[c] = "exit"
  /\ users' = users \ {c}
  /\ ReaderGoto(c, "close")
  /\ UNCHANGED <<alive, writer, sock, unread, queue, room, targets>>

\* readPump's deferred unregister: out of both maps, under the lock ...
Unregister(c) ==
  /\ alive /\ reader[c] = "exit"
  /\ users' = users \ {c}
  /\ room' = room \ {c}
  /\ ReaderGoto(c, "close")
  /\ UNCHANGED <<alive, writer, sock, unread, queue, targets>>

\* ... and close(c.send) after releasing it.
CloseSend(c) ==
  /\ alive /\ reader[c] = "close"
  /\ ReaderGoto(c, "gone")
  /\ UNCHANGED <<alive, writer, sock, unread, queue, users, room, targets>>

-----------------------------------------------------------------------------
(* writePump.                                                              *)

\* Takes a frame; a closed channel is reported once it is empty, and then
\* writePump returns through its deferred conn.Close.
Take(c) ==
  /\ alive /\ writer[c] = "wait"
  /\ \/ /\ queue[c] > 0
        /\ queue' = [queue EXCEPT ![c] = @ - 1]
        /\ WriterGoto(c, "write")
        /\ UNCHANGED sock
     \/ /\ queue[c] = 0 /\ Closed(c)
        /\ WriterGoto(c, "exited")
        /\ sock' = [sock EXCEPT ![c] = "closed"]
        /\ UNCHANGED queue
  /\ UNCHANGED <<alive, reader, unread, users, room, targets>>

\* Mutant of WriteFails: the deferred conn.Close is missing.
WriteFailsSilently(c) ==
  /\ alive /\ writer[c] \in {"wait", "write"}
  /\ sock[c] # "up" \/ writer[c] = "write"
  /\ WriterGoto(c, "exited")
  /\ UNCHANGED <<alive, reader, sock, unread, queue, users, room, targets>>

\* Writing a frame or a ping fails, on a dead socket at once, on a peer that
\* does not read after writeWait; what is still queued is never written.
WriteFails(c) ==
  /\ alive /\ writer[c] \in {"wait", "write"}
  /\ sock[c] # "up" \/ writer[c] = "write"
  /\ WriterGoto(c, "exited")
  /\ sock' = [sock EXCEPT ![c] = "closed"]
  /\ UNCHANGED <<alive, reader, unread, queue, users, room, targets>>

\* Writing a frame succeeds.
WriteOk(c) ==
  /\ alive /\ writer[c] = "write" /\ sock[c] = "up"
  /\ WriterGoto(c, "wait")
  /\ UNCHANGED <<alive, reader, sock, unread, queue, users, room, targets>>

-----------------------------------------------------------------------------
(* subscribeLoop.                                                          *)

\* dispatchToLocalClients or dispatchToLocalUser: copies the targets under the
\* read lock.
Snapshot ==
  /\ alive /\ targets = {}
  /\ \/ targets' = room
     \/ \E c \in users : targets' = {c}
  /\ UNCHANGED <<alive, reader, writer, sock, unread, queue, users, room>>

\* Mutant of DispatchSend: the send waits for room (no default case).
DispatchSendBlocking(c) ==
  /\ alive /\ c \in targets
  /\ IF Closed(c)
     THEN alive' = FALSE /\ UNCHANGED <<queue, targets>>
     ELSE BlockingSend(c) /\ targets' = targets \ {c} /\ UNCHANGED alive
  /\ UNCHANGED <<reader, writer, sock, unread, users, room>>

\* The non-blocking send to one target: dropped when the channel is full; on a
\* closed channel it panics, and nothing recovers in subscribeLoop's goroutine,
\* so the process ends.
DispatchSend(c) ==
  /\ alive /\ c \in targets
  /\ \/ /\ Closed(c)
        /\ alive' = FALSE
        /\ UNCHANGED <<queue, targets>>
     \/ /\ ~Closed(c)
        /\ targets' = targets \ {c}
        /\ queue' = [queue EXCEPT ![c] = IF @ < SendCap THEN @ + 1 ELSE @]
        /\ UNCHANGED alive
  /\ UNCHANGED <<reader, writer, sock, unread, users, room>>

-----------------------------------------------------------------------------
(* The peer and the network.                                               *)

\* The peer sends a command.
PeerSends(c) ==
  /\ alive /\ reader[c] # "none" /\ sock[c] = "up" /\ unread[c] < MaxUnread
  /\ unread' = [unread EXCEPT ![c] = @ + 1]
  /\ UNCHANGED <<alive, reader, writer, sock, queue, users, room, targets>>

\* The connection breaks, or the peer closes it (answering the close frame of
\* Shutdown, too) or stops answering pings.
Disconnect(c) ==
  /\ alive /\ reader[c] # "none" /\ sock[c] = "up"
  /\ sock' = [sock EXCEPT ![c] = "broken"]
  /\ UNCHANGED <<alive, reader, writer, unread, queue, users, room, targets>>

-----------------------------------------------------------------------------
ReaderStep(c) == \/ Greet(c) \/ ReadCommand(c) \/ Reply(c) \/ ReadError(c)
                 \/ Unregister(c) \/ CloseSend(c)
WriterStep(c) == Take(c) \/ WriteOk(c) \/ WriteFails(c)

Next ==
  \/ \E c \in Conn : ReaderStep(c) \/ WriterStep(c) \/ DispatchSend(c)
  \/ \E c \in Conn : Register(c) \/ PeerSends(c) \/ Disconnect(c)
  \/ Snapshot

\* The Go scheduler runs every goroutine that can run; peers owe nothing.
Fairness ==
  /\ \A c \in Conn : WF_vars(ReaderStep(c)) /\ WF_vars(WriterStep(c))
  /\ WF_vars(\E c \in Conn : DispatchSend(c))

Spec == Init /\ [][Next]_vars /\ Fairness

-----------------------------------------------------------------------------
(* Properties.                                                             *)

\* hub.go:237-238: one slow client never holds up the hub.  A broadcast that
\* was begun is handed to all its targets, however full their channels are and
\* whether or not their pumps still run; only a panic prevents it.
SlowClientNeverBlocksHub == targets # {} ~> (targets = {} \/ ~alive)

\* Whenever subscribeLoop copies its targets, each of them has an open channel:
\* the maps are cleaned before the channel is closed.  What can be closed by the
\* time of the send is only a connection that ended after the copy was taken.
SnapshotIsOpen ==
  [][targets = {} => \A c \in targets' : ~Closed(c)]_vars

\* A connection whose socket is gone, or whose writePump gave up on a peer that is
\* still there, ends: it leaves the maps, its channel is closed, and both pumps
\* return, the writePump after it drained the channel.  Only
\* a process that ended, or an answer waiting on a full channel that has no writer,
\* keeps it.
BrokenConnectionEnds ==
  \A c \in Conn :
    (reader[c] # "none" /\ (sock[c] # "up" \/ writer[c] = "exited"))
      ~> \/ reader[c] = "gone" /\ writer[c] = "exited"
         \/ Stuck(c)
         \/ ~alive

\* Each pump closes the socket when it returns, and nothing else does: a pump that
\* ended is always noticed by the other one, which never serves a closed socket
\* unawares.
PumpsShareSocket ==
  \A c \in Conn :
    sock[c] = "closed" <=> writer[c] = "exited" \/ reader[c] \in {"exit", "close", "gone"}

\* A connection that got stuck stays stuck, whatever the pumps, subscribeLoop and
\* the peer do; it stays in the users map, and in the room if it was there.
StuckIsForever ==
  [][\A c \in Conn : Stuck(c) =>
       /\ Stuck(c)'
       /\ c \in users'
       /\ c \in room <=> c \in room']_vars

\* The process implements Registry, with the one room it has: Close is unregister's
\* critical section, and a panic ends all its connections.
Life(c) ==
  IF reader[c] = "none" THEN "new"
  ELSE IF ~alive \/ reader[c] \in {"close", "gone"} THEN "closed"
  ELSE IF Stuck(c) THEN "stuck" ELSE "open"
Hub == INSTANCE Registry WITH
         Room    <- {"room"},
         life    <- [c \in Conn |-> Life(c)],
         members <- [r \in {"room"} |-> IF alive THEN room ELSE {}]
ImplementsRegistry == Hub!Spec

\* Claimed by hub.go:327-328 and hub_integration_test.go:271-272: a connection
\* that is disconnected leaves its rooms and the users map.  Said of a process
\* that keeps running.
DisconnectedClientIsRemoved ==
  \A c \in Conn :
    (reader[c] # "none" /\ sock[c] # "up") ~> (c \notin users \/ ~alive)

\* Claimed by hub.go:237-238: the hub is not brought down by a single client.
\* A connection that ends between the copy of the targets and the send to it
\* does: the send to its closed channel panics in subscribeLoop.
HubSurvivesClients == alive
=============================================================================
