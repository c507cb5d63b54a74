-------------------------- MODULE HubDispatch_proofs --------------------------
(***************************************************************************)
(* Proofs about HubDispatch, for any set of connections and any capacity   *)
(* of their channels: types, SnapshotIsOpen, the socket the pumps share,   *)
(* connections that got stuck, and that HubDispatch implements Registry.   *)
(*                                                                         *)
(* SnapshotIsOpen is about one step.  It needs to know which connections   *)
(* the users map can name when that step is taken: exactly those between   *)
(* register and unregister, which is what Registered adds to the types.    *)
(* The other inclusion is needed as well: a command may put only a         *)
(* registered connection into the room, and one that got stuck is in the   *)
(* users map.                                                              *)
(***************************************************************************)
EXTENDS HubDispatch, TLAPS

Registered == users = {c \in Conn : reader[c] \in {"greet", "read", "reply", "exit"}}

Inv == TypeOK /\ Registered

USE CapAssumption

\* The invariant holds before any connection registered.
LEMMA InitInv == Init => Inv
  BY DEF Init, Inv, TypeOK, Registered

\* The goroutine that registers a connection, answers it and unregisters it.
LEMMA ReaderInv ==
  ASSUME Inv, NEW c \in Conn, ReaderStep(c) \/ Register(c)
  PROVE  Inv'
<1> USE DEF Inv, TypeOK, Registered, ReaderGoto, WriterGoto, BlockingSend
<1>1. CASE Register(c)
  BY <1>1 DEF Register
<1>2. CASE Greet(c)
  BY <1>2 DEF Greet
<1>3. CASE ReadCommand(c)
  <2>1. c \in users
    BY <1>3 DEF ReadCommand
  <2>2. unread' \in [Conn -> 0..MaxUnread]
    BY <1>3 DEF ReadCommand
  <2>3. /\ reader' = reader \/ reader' = [reader EXCEPT ![c] = "reply"]
        /\ room' \in {room, room \cup {c}, room \ {c}}
        /\ UNCHANGED <<alive, writer, sock, queue, users, targets>>
    BY <1>3 DEF ReadCommand
  <2>4. reader[c] = "read"
    BY <1>3 DEF ReadCommand
  <2>5. TypeOK'
    BY <2>1, <2>2, <2>3
  <2>6. Registered'
    BY <2>3, <2>4
  <2> QED BY <2>5, <2>6
<1>4. CASE Reply(c)
  BY <1>4 DEF Reply
<1>5. CASE ReadError(c)
  BY <1>5 DEF ReadError
<1>6. CASE Unregister(c)
  BY <1>6 DEF Unregister
<1>7. CASE CloseSend(c)
  BY <1>7 DEF CloseSend
<1> QED
  BY <1>1, <1>2, <1>3, <1>4, <1>5, <1>6, <1>7 DEF ReaderStep

\* The writePump touches neither the maps nor the readPump.
LEMMA WriterInv ==
  ASSUME Inv, NEW c \in Conn, WriterStep(c)
  PROVE  Inv'
<1> USE DEF Inv, TypeOK, Registered, WriterGoto
<1>1. CASE Take(c)
  BY <1>1 DEF Take
<1>2. CASE WriteOk(c)
  BY <1>2 DEF WriteOk
<1>3. CASE WriteFails(c)
  BY <1>3 DEF WriteFails
<1> QED
  BY <1>1, <1>2, <1>3 DEF WriterStep

\* Neither do subscribeLoop, the peer and the network.
LEMMA OtherInv ==
  ASSUME Inv, Snapshot \/ \E c \in Conn : DispatchSend(c) \/ PeerSends(c) \/ Disconnect(c)
  PROVE  Inv'
<1> USE DEF Inv, TypeOK, Registered
<1>1. CASE Snapshot
  BY <1>1 DEF Snapshot
<1>2. ASSUME NEW c \in Conn, DispatchSend(c)
      PROVE  Inv'
  <2>1. UNCHANGED <<reader, writer, sock, unread, users, room>>
    BY <1>2 DEF DispatchSend
  <2>2. alive' \in BOOLEAN /\ targets' \subseteq Conn
    BY <1>2 DEF DispatchSend
  <2>3. queue' \in [Conn -> 0..SendCap]
    <3>1. CASE UNCHANGED queue
      BY <3>1
    <3>2. CASE queue' = [queue EXCEPT ![c] = IF @ < SendCap THEN @ + 1 ELSE @]
      <4>1. (IF queue[c] < SendCap THEN queue[c] + 1 ELSE queue[c]) \in 0..SendCap
        OBVIOUS
      <4> QED BY <3>2, <4>1
    <3> QED BY <1>2, <3>1, <3>2 DEF DispatchSend
  <2> QED
    BY <2>1, <2>2, <2>3
<1>3. ASSUME NEW c \in Conn, PeerSends(c)
      PROVE  Inv'
  BY <1>3 DEF PeerSends
<1>4. ASSUME NEW c \in Conn, Disconnect(c)
      PROVE  Inv'
  BY <1>4 DEF Disconnect
<1> QED
  BY <1>1, <1>2, <1>3, <1>4

LEMMA StepInv == Inv /\ [Next]_vars => Inv'
<1> SUFFICES ASSUME Inv, [Next]_vars
             PROVE  Inv'
  OBVIOUS
<1>1. CASE UNCHANGED vars
  BY <1>1 DEF vars, Inv, TypeOK, Registered
<1>2. CASE Next
  BY <1>2, ReaderInv, WriterInv, OtherInv DEF Next
<1> QED
  BY <1>1, <1>2

\* The copy is taken from a map of registered connections, and a registered
\* connection has not closed its channel.  Every other step only shrinks the copy.
LEMMA StepSnapshot ==
  Inv /\ [Next]_vars => (targets = {} => \A c \in targets' : ~Closed(c))
<1> SUFFICES ASSUME Inv, [Next]_vars, targets = {}, NEW c \in targets'
             PROVE  ~Closed(c)
  OBVIOUS
<1>1. Snapshot
  <2>1. ~UNCHANGED targets
    OBVIOUS
  <2>2. ASSUME NEW d \in Conn
        PROVE  ~ReaderStep(d) /\ ~Register(d)
    BY <2>1 DEF ReaderStep, Register, Greet, ReadCommand, Reply, ReadError, Unregister, CloseSend
  <2>3. ASSUME NEW d \in Conn
        PROVE  ~WriterStep(d)
    BY <2>1 DEF WriterStep, Take, WriteOk, WriteFails
  <2>4. ASSUME NEW d \in Conn
        PROVE  ~DispatchSend(d) /\ ~PeerSends(d) /\ ~Disconnect(d)
    BY <2>1 DEF DispatchSend, PeerSends, Disconnect
  <2> QED
    BY <2>1, <2>2, <2>3, <2>4 DEF Next, vars
<1>2. targets' \subseteq users
  BY <1>1 DEF Snapshot, Inv, TypeOK
<1> QED
  BY <1>2 DEF Inv, Registered, Closed

LEMMA InvAlways == Spec => []Inv
  BY InitInv, StepInv, PTL DEF Spec

\* Maps, channels and goroutines have their types in every reachable state; in
\* particular the room's map (hub.go: rooms) never names a connection that the
\* users map does not, and no channel holds more than its capacity.
THEOREM TypeCorrect == Spec => []TypeOK
<1>1. Inv => TypeOK
  BY DEF Inv
<1> QED
  BY <1>1, InvAlways, PTL

\* Whenever subscribeLoop copies its targets, none of them has closed its
\* channel (hub.go: unregister cleans the maps before close(c.send)).
THEOREM SnapshotCorrect == Spec => SnapshotIsOpen
  BY InvAlways, StepSnapshot, PTL DEF Spec, SnapshotIsOpen

-----------------------------------------------------------------------------
(* The two pumps and their socket.                                         *)

\* ServeWS starts the writePump when register returns.
WriterStarted == \A c \in Conn : reader[c] \in {"none", "greet"} <=> writer[c] = "none"

PumpInv == WriterStarted /\ PumpsShareSocket

\* Every step keeps it: a pump that returns closes the socket in the same step.
LEMMA PumpStep == Inv /\ PumpInv /\ [Next]_vars => PumpInv'
<1> SUFFICES ASSUME Inv, PumpInv, [Next]_vars PROVE PumpInv'
  OBVIOUS
<1> USE DEF Inv, TypeOK, PumpInv, WriterStarted, PumpsShareSocket, ReaderGoto, WriterGoto
<1>1. ASSUME NEW c \in Conn, Register(c) \/ Greet(c) PROVE PumpInv'
  BY <1>1 DEF Register, Greet
<1>2. ASSUME NEW c \in Conn, ReadCommand(c) PROVE PumpInv'
  <2>1. /\ reader[c] = "read"
        /\ reader' = reader \/ reader' = [reader EXCEPT ![c] = "reply"]
        /\ UNCHANGED <<writer, sock>>
    BY <1>2 DEF ReadCommand
  <2> QED
    BY <2>1
<1>3. ASSUME NEW c \in Conn, Reply(c) \/ ReadError(c) PROVE PumpInv'
  BY <1>3 DEF Reply, ReadError
<1>4. ASSUME NEW c \in Conn, Unregister(c) \/ CloseSend(c) PROVE PumpInv'
  BY <1>4 DEF Unregister, CloseSend
<1>5. ASSUME NEW c \in Conn, Take(c) PROVE PumpInv'
  BY <1>5 DEF Take
<1>6. ASSUME NEW c \in Conn, WriteOk(c) \/ WriteFails(c) PROVE PumpInv'
  BY <1>6 DEF WriteOk, WriteFails
<1>7. ASSUME NEW c \in Conn, Disconnect(c) PROVE PumpInv'
  BY <1>7 DEF Disconnect
<1>8. ASSUME UNCHANGED <<reader, writer, sock>> PROVE PumpInv'
  BY <1>8
<1>9. ASSUME NEW c \in Conn, DispatchSend(c) \/ PeerSends(c) PROVE PumpInv'
  BY <1>8, <1>9 DEF DispatchSend, PeerSends
<1>10. ASSUME Snapshot \/ UNCHANGED vars PROVE PumpInv'
  BY <1>8, <1>10 DEF Snapshot, vars
<1> QED
  BY <1>1, <1>2, <1>3, <1>4, <1>5, <1>6, <1>7, <1>9, <1>10 DEF Next, ReaderStep, WriterStep

LEMMA PumpAlways == Spec => []PumpInv
<1>1. Init => PumpInv
  BY DEF Init, PumpInv, WriterStarted, PumpsShareSocket
<1> QED
  BY <1>1, PumpStep, InvAlways, PTL DEF Spec

\* The socket is closed exactly when one of its pumps has returned (client.go: the
\* deferred conn.Close of readPump and writePump), so the other one notices.
THEOREM PumpsCorrect == Spec => []PumpsShareSocket
<1>1. PumpInv => PumpsShareSocket
  BY DEF PumpInv
<1> QED
  BY <1>1, PumpAlways, PTL

-----------------------------------------------------------------------------
(* A connection that got stuck.                                            *)

\* Its own goroutine waits for room in the channel, the writePump that would make
\* room has returned, and nobody else takes from the channel.
LEMMA StuckStep ==
  ASSUME Inv, [Next]_vars, NEW c \in Conn, Stuck(c)
  PROVE  Stuck(c)' /\ c \in users' /\ (c \in room <=> c \in room')
<1> USE DEF Inv, TypeOK, Stuck, ReaderGoto, WriterGoto, BlockingSend
<1>1. c \in users
  BY DEF Registered
<1> DEFINE Stays == Stuck(c)' /\ c \in users' /\ (c \in room <=> c \in room')
<1>2. ASSUME UNCHANGED <<reader, writer, queue, users, room>> PROVE Stays
  BY <1>1, <1>2
<1>3. ASSUME NEW d \in Conn, Register(d) \/ Greet(d) \/ Reply(d) PROVE Stays
  BY <1>1, <1>3 DEF Register, Greet, Reply
<1>4. ASSUME NEW d \in Conn, ReadCommand(d) PROVE Stays
  <2>1. /\ d # c
        /\ reader' = reader \/ reader' = [reader EXCEPT ![d] = "reply"]
        /\ room' \in {room, room \cup {d}, room \ {d}}
        /\ UNCHANGED <<writer, queue, users>>
    BY <1>4 DEF ReadCommand
  <2> QED
    BY <1>1, <2>1
<1>5. ASSUME NEW d \in Conn, ReadError(d) \/ Unregister(d) \/ CloseSend(d) PROVE Stays
  BY <1>1, <1>5 DEF ReadError, Unregister, CloseSend
<1>6. ASSUME NEW d \in Conn, WriterStep(d) PROVE Stays
  BY <1>1, <1>6 DEF WriterStep, Take, WriteOk, WriteFails
<1>7. ASSUME NEW d \in Conn, DispatchSend(d) PROVE Stays
  <2>1. /\ UNCHANGED <<reader, writer, users, room>>
        /\ \/ UNCHANGED queue
           \/ queue' = [queue EXCEPT ![d] = IF @ < SendCap THEN @ + 1 ELSE @]
    BY <1>7 DEF DispatchSend
  <2>2. queue'[c] = SendCap
    BY <2>1
  <2> QED
    BY <1>1, <2>1, <2>2
<1>8. ASSUME NEW d \in Conn, PeerSends(d) \/ Disconnect(d) PROVE Stays
  BY <1>2, <1>8 DEF PeerSends, Disconnect
<1>9. ASSUME Snapshot \/ UNCHANGED vars PROVE Stays
  BY <1>2, <1>9 DEF Snapshot, vars
<1> QED
  BY <1>3, <1>4, <1>5, <1>6, <1>7, <1>8, <1>9 DEF Next, ReaderStep

\* No step of any goroutine or peer frees a connection whose readPump waits on its
\* own full channel without a writePump: it stays in the hub's maps.
THEOREM StuckCorrect == Spec => StuckIsForever
<1>1. Inv /\ [Next]_vars =>
        \A c \in Conn : Stuck(c) =>
          /\ Stuck(c)'
          /\ c \in users'
          /\ c \in room <=> c \in room'
  BY StuckStep
<1> QED
  BY <1>1, InvAlways, PTL DEF Spec, StuckIsForever

\* What refutes DisconnectedClientIsRemoved: from the moment a connection is stuck,
\* it is registered in every state to come.
THEOREM StuckIsNeverRemoved ==
  ASSUME NEW c \in Conn
  PROVE  Spec => [](Stuck(c) => [](c \in users))
<1>1. Inv /\ Stuck(c) /\ [Next]_vars => Stuck(c)'
  BY StuckStep
<1>2. Inv /\ Stuck(c) => c \in users
  BY DEF Inv, Registered, Stuck
<1> QED
  BY <1>1, <1>2, InvAlways, PTL DEF Spec

-----------------------------------------------------------------------------
(* The interface of the hub.                                               *)

\* Nothing is sent to a connection before it registered.
UnopenedIsQuiet ==
  /\ \A c \in Conn : reader[c] = "none" => queue[c] = 0
  /\ \A c \in targets : reader[c] # "none"

LEMMA QuietStep == Inv /\ UnopenedIsQuiet /\ [Next]_vars => UnopenedIsQuiet'
<1> SUFFICES ASSUME Inv, UnopenedIsQuiet, [Next]_vars PROVE UnopenedIsQuiet'
  OBVIOUS
<1> USE DEF Inv, TypeOK, UnopenedIsQuiet, ReaderGoto, WriterGoto, BlockingSend
<1>1. ASSUME NEW c \in Conn, Register(c) \/ Greet(c) \/ Reply(c) \/ ReadError(c)
                             \/ Unregister(c) \/ CloseSend(c)
      PROVE  UnopenedIsQuiet'
  BY <1>1 DEF Register, Greet, Reply, ReadError, Unregister, CloseSend
<1>2. ASSUME NEW c \in Conn, ReadCommand(c) PROVE UnopenedIsQuiet'
  <2>1. /\ reader' = reader \/ reader' = [reader EXCEPT ![c] = "reply"]
        /\ UNCHANGED <<queue, targets>>
    BY <1>2 DEF ReadCommand
  <2> QED
    BY <2>1
<1>3. ASSUME NEW c \in Conn, WriterStep(c) PROVE UnopenedIsQuiet'
  BY <1>3 DEF WriterStep, Take, WriteOk, WriteFails
<1>4. ASSUME NEW c \in Conn, DispatchSend(c) PROVE UnopenedIsQuiet'
  BY <1>4 DEF DispatchSend
<1>5. ASSUME NEW c \in Conn, PeerSends(c) \/ Disconnect(c) PROVE UnopenedIsQuiet'
  BY <1>5 DEF PeerSends, Disconnect
<1>6. CASE Snapshot
  <2>1. targets' \subseteq users /\ UNCHANGED <<reader, queue>>
    BY <1>6 DEF Snapshot
  <2> QED
    BY <2>1 DEF Registered
<1>7. CASE UNCHANGED vars
  BY <1>7 DEF vars
<1> QED
  BY <1>1, <1>2, <1>3, <1>4, <1>5, <1>6, <1>7 DEF Next, ReaderStep

\* A step of connection c that leaves the map of the room alone and lets c go on,
\* or get stuck, is a command of Registry or changes nothing of its interface.
LEMMA CommandOrStutter ==
  ASSUME NEW c \in Conn, alive, alive' = alive, room' = room,
         \A d \in Conn \ {c} : Life(d)' = Life(d),
         Life(c)' = Life(c) \/ (Life(c) = "open" /\ Life(c)' = "stuck")
  PROVE  Hub!Next \/ UNCHANGED Hub!registryVars
<1>1. CASE Life(c)' = Life(c)
  <2>1. \A d \in Conn : Life(d)' = Life(d)
    BY <1>1
  <2> QED
    BY <2>1 DEF Hub!registryVars
<1>2. CASE Life(c) = "open" /\ Life(c)' = "stuck"
  <2>1. Hub!Command(c)
    BY <1>2 DEF Hub!Command
  <2> QED
    BY <2>1 DEF Hub!Next
<1> QED
  BY <1>1, <1>2

\* Every step of the process is a step of Registry.
LEMMA HubStep ==
  Inv /\ PumpInv /\ UnopenedIsQuiet /\ [Next]_vars => [Hub!Next]_(Hub!registryVars)
<1> SUFFICES ASSUME Inv, PumpInv, UnopenedIsQuiet, [Next]_vars
             PROVE  Hub!Next \/ UNCHANGED Hub!registryVars
  OBVIOUS
<1> USE DEF Inv, TypeOK, ReaderGoto, WriterGoto, BlockingSend
<1>1. ASSUME NEW c \in Conn, Register(c) PROVE Hub!Open(c)
  <2>1. queue[c] = 0
    BY <1>1 DEF Register, UnopenedIsQuiet
  <2>2. /\ Life(c) = "new" /\ Life(c)' = "open"
        /\ \A d \in Conn \ {c} : Life(d)' = Life(d)
    BY <1>1, <2>1 DEF Register, Life, Stuck
  <2> QED
    BY <1>1, <2>2 DEF Register, Hub!Open
<1>2. ASSUME NEW c \in Conn, ReadCommand(c) PROVE Hub!Command(c)
  <2>1. /\ alive /\ reader[c] = "read"
        /\ reader' = reader \/ reader' = [reader EXCEPT ![c] = "reply"]
        /\ room' \in {room, room \cup {c}, room \ {c}}
        /\ UNCHANGED <<alive, writer, queue>>
    BY <1>2 DEF ReadCommand
  <2>2. /\ Life(c) = "open" /\ Life(c)' \in {"open", "stuck"}
        /\ \A d \in Conn \ {c} : Life(d)' = Life(d)
    BY <2>1 DEF Life, Stuck
  <2> DEFINE life == [d \in Conn |-> Life(d)]
             members == [r \in {"room"} |-> IF alive THEN room ELSE {}]
  <2>3. life' \in {life, [life EXCEPT ![c] = "stuck"]}
    <3>1. CASE Life(c)' = "open"
      <4>1. \A d \in Conn : Life(d)' = Life(d)
        BY <2>2, <3>1
      <4> QED
        BY <4>1
    <3>2. CASE Life(c)' = "stuck"
      <4>1. life' = [life EXCEPT ![c] = "stuck"]
        BY <2>2, <3>2
      <4> QED
        BY <4>1
    <3> QED
      BY <2>2, <3>1, <3>2
  <2>4. \/ UNCHANGED members
        \/ members' = [members EXCEPT !["room"] = @ \cup {c}]
        \/ members' = [members EXCEPT !["room"] = @ \ {c}]
    BY <2>1
  <2>5. life[c] = "open"
    BY <2>2
  <2> HIDE DEF life, members
  <2>6. \/ UNCHANGED members
        \/ \E r \in {"room"} : \/ members' = [members EXCEPT ![r] = @ \cup {c}]
                              \/ members' = [members EXCEPT ![r] = @ \ {c}]
    BY <2>4
  <2> QED
    BY <2>3, <2>5, <2>6 DEF Hub!Command, life, members
<1>3. ASSUME NEW c \in Conn, Unregister(c) PROVE Hub!Close(c)
  <2>1. /\ Life(c) = "open" /\ Life(c)' = "closed"
        /\ \A d \in Conn \ {c} : Life(d)' = Life(d)
    BY <1>3 DEF Unregister, Life, Stuck
  <2> QED
    BY <1>3, <2>1 DEF Unregister, Hub!Close, Hub!Gone
<1>4. ASSUME NEW c \in Conn, Greet(c) \/ Reply(c) \/ ReadError(c) \/ CloseSend(c)
      PROVE  Hub!Next \/ UNCHANGED Hub!registryVars
  <2>1. Life(c)' = Life(c) /\ \A d \in Conn \ {c} : Life(d)' = Life(d)
    BY <1>4 DEF Greet, Reply, ReadError, CloseSend, Life, Stuck
  <2> QED
    BY <1>4, <2>1, CommandOrStutter DEF Greet, Reply, ReadError, CloseSend
<1>5. ASSUME NEW c \in Conn, WriterStep(c)
      PROVE  Hub!Next \/ UNCHANGED Hub!registryVars
  <2>1. \A d \in Conn \ {c} : Life(d)' = Life(d)
    BY <1>5 DEF WriterStep, Take, WriteOk, WriteFails, Life, Stuck
  <2>2. Life(c)' = Life(c) \/ (Life(c) = "open" /\ Life(c)' = "stuck")
    BY <1>5 DEF WriterStep, Take, WriteOk, WriteFails, Life, Stuck, Closed
  <2> QED
    BY <1>5, <2>1, <2>2, CommandOrStutter DEF WriterStep, Take, WriteOk, WriteFails
<1>6. ASSUME NEW c \in Conn, DispatchSend(c)
      PROVE  Hub!Next \/ UNCHANGED Hub!registryVars
  <2>1. CASE Closed(c) /\ alive' = FALSE
    <3> DEFINE S == {d \in Conn : Life(d) \in {"open", "stuck"}}
    <3>1. alive /\ UNCHANGED <<reader, room, users>>
      BY <1>6 DEF DispatchSend
    <3>2. room \subseteq S
      BY <3>1 DEF Registered, Life
    <3>3. \A d \in S : Life(d)' = "closed"
      BY <2>1, <3>1 DEF Life
    <3>4. \A d \in Conn \ S : Life(d)' = Life(d)
      BY <2>1, <3>1 DEF Life
    <3>5. Hub!End(S)
      <4> HIDE DEF S
      <4>1. \A d \in S : d \in Conn /\ Life(d) \in {"open", "stuck"}
        BY DEF S
      <4> QED
        BY <2>1, <3>1, <3>2, <3>3, <3>4, <4>1 DEF Hub!End, Hub!Gone
    <3> QED
      BY <3>5 DEF Hub!Next
  <2>2. CASE ~Closed(c) /\ alive' = alive
    <3>1. /\ alive /\ UNCHANGED <<reader, writer, room>>
          /\ queue' = [queue EXCEPT ![c] = IF @ < SendCap THEN @ + 1 ELSE @]
      BY <1>6, <2>2 DEF DispatchSend
    <3>2. \A d \in Conn \ {c} : Life(d)' = Life(d)
      BY <2>2, <3>1 DEF Life, Stuck
    <3>3. Life(c)' = Life(c) \/ (Life(c) = "open" /\ Life(c)' = "stuck")
      BY <2>2, <3>1 DEF Life, Stuck
    <3> QED
      BY <2>2, <3>1, <3>2, <3>3, CommandOrStutter
  <2> QED
    BY <1>6, <2>1, <2>2 DEF DispatchSend
<1>7. ASSUME UNCHANGED <<alive, reader, writer, queue, room>>
      PROVE  UNCHANGED Hub!registryVars
  BY <1>7 DEF Life, Stuck, Hub!registryVars
<1>8. ASSUME NEW c \in Conn, PeerSends(c) \/ Disconnect(c)
      PROVE  UNCHANGED Hub!registryVars
  BY <1>7, <1>8 DEF PeerSends, Disconnect
<1>9. ASSUME Snapshot \/ UNCHANGED vars PROVE UNCHANGED Hub!registryVars
  BY <1>7, <1>9 DEF Snapshot, vars
<1> QED
  BY <1>1, <1>2, <1>3, <1>4, <1>5, <1>6, <1>8, <1>9 DEF Next, ReaderStep, Hub!Next

\* The process implements Registry (hub.go: register, unregister; client.go: the
\* pumps), with any number of connections and any capacity of their channels.
THEOREM RegistryImplemented == Spec => ImplementsRegistry
<1>1. Init => UnopenedIsQuiet /\ Hub!Init
  BY DEF Init, UnopenedIsQuiet, Hub!Init, Life
<1> QED
  BY <1>1, QuietStep, HubStep, InvAlways, PumpAlways, PTL
  DEF Spec, ImplementsRegistry, Hub!Spec
===============================================================================
