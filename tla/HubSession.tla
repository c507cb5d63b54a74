----------------------------- MODULE HubSession -----------------------------
(***************************************************************************)
(* The life of WebSocket connections in the hubs of several server         *)
(* instances (server/internal/ws/hub.go, client.go, handler.go) and what   *)
(* they leave in Redis: the reference count of a user's connections        *)
(* (repository/user_presence.go) and the set of users online in a room.    *)
(*                                                                         *)
(* One action is one critical section of a hub's mutex or one Redis        *)
(* command, because other goroutines, of this instance and of the others,  *)
(* run between any two of them.  The commands of a connection are run by   *)
(* its readPump one after the other, so each connection has a pc.          *)
(***************************************************************************)
EXTENDS Integers, FiniteSets

CONSTANTS
  Conn,        \* connections; each is opened once, a reconnection is another one
  User,        \* user ids
  Instance,    \* server processes sharing one Redis
  Room,        \* room ids
  NoRoom,      \* "no command in progress"
  Owner,       \* Owner[c] is the authenticated user of connection c
  Host,        \* Host[c] is the instance that accepted connection c
  MaxFaults    \* bound on failed Redis commands and instance crashes

ASSUME ConnAssumption == IsFiniteSet(Conn) /\ IsFiniteSet(User)
ASSUME RoomAssumption == NoRoom \notin Room
ASSUME PlacementAssumption == Owner \in [Conn -> User] /\ Host \in [Conn -> Instance]
ASSUME FaultAssumption == MaxFaults \in Nat

VARIABLES
  pc,          \* where the goroutine of each connection is
  users,       \* connections registered in their hub's users map
  rooms,       \* rooms[r]: connections in some hub's rooms[r] map
  joined,      \* joined[c]: the rooms field of Client c
  cur,         \* cur[c]: the room of the command c is executing
  todo,        \* todo[c]: rooms unregister(c) has still to leave
  seen,        \* seen[c]: the SCARD result c is about to publish
  presence,    \* Redis hash presence:online_user_counts (0: no field)
  onlineUsers, \* Redis set room:{id}:online_users
  shown,       \* online_count of the last room_user_count_update of a room
  faults,      \* failed Redis commands and crashes so far
  counted,     \* history: connections whose HINCRBY +1 was never taken back
  orphans      \* history: <<c, r>> whose removal from onlineUsers[r] was lost

local  == <<pc, users, rooms, joined, cur, todo, seen>>
vars   == <<local, presence, onlineUsers, shown, faults, counted, orphans>>

ConnsOf(u) == {c \in Conn : Owner[c] = u}

\* pc values at which a handler sends to the connection's own channel and so
\* waits when that channel is full.
Replying == {"greet", "joinReply", "rejoinReply", "leaveReply"}
\* pc values between register's and unregister's critical sections.
Registered == Replying \cup
              {"idle", "sadd", "resadd", "srem", "publish", "wedged"}
\* pc values inside unregister, after its critical section.
CleaningUp == {"cleanup", "cleanupCount", "cleanupPublish", "hdel"}
PC == Registered \cup CleaningUp \cup {"new", "gone", "dead"}

Online(u) == presence[u] > 0                       \* IsOnline

\* c has left room r in its hub and its SREM is still to come.
RemovalPending(c, r) == \/ pc[c] = "srem" /\ cur[c] = r
                        \/ r \in todo[c]

Init ==
  /\ pc = [c \in Conn |-> "new"]
  /\ users = {}
  /\ rooms = [r \in Room |-> {}]
  /\ joined = [c \in Conn |-> {}]
  /\ cur = [c \in Conn |-> NoRoom]
  /\ todo = [c \in Conn |-> {}]
  /\ seen = [c \in Conn |-> 0]
  /\ presence = [u \in User |-> 0]
  /\ onlineUsers = [r \in Room |-> {}]
  /\ shown = [r \in Room |-> 0]
  /\ faults = 0
  /\ counted = {}
  /\ orphans = {}

Goto(c, where) == pc' = [pc EXCEPT ![c] = where]
Fault          == faults < MaxFaults /\ faults' = faults + 1

-----------------------------------------------------------------------------
(* Opening a connection: ServeWS calls register.                           *)

\* register: the users map, under the lock.
Register(c) ==
  /\ pc[c] = "new"
  /\ users' = users \cup {c}
  /\ Goto(c, "greet")
  /\ UNCHANGED <<rooms, joined, cur, todo, seen, presence, onlineUsers, shown,
                 faults, counted, orphans>>

\* register, continued: the "connected" frame, then MarkOnline's HINCRBY +1.
\* An error of Redis is logged and the connection goes on.
MarkOnline(c) ==
  /\ pc[c] = "greet"
  /\ Goto(c, "idle")
  /\ \/ /\ presence' = [presence EXCEPT ![Owner[c]] = @ + 1]
        /\ counted' = counted \cup {c}
        /\ UNCHANGED faults
     \/ Fault /\ UNCHANGED <<presence, counted>>
  /\ UNCHANGED <<users, rooms, joined, cur, todo, seen, onlineUsers, shown, orphans>>

-----------------------------------------------------------------------------
(* join_room and leave_room.                                               *)

\* Mutant of JoinLocal: SADD only for the first connection of the user in the room.
JoinLocalOncePerUser(c, r) ==
  /\ pc[c] = "idle"
  /\ rooms' = [rooms EXCEPT ![r] = @ \cup {c}]
  /\ joined' = [joined EXCEPT ![c] = @ \cup {r}]
  /\ cur' = [cur EXCEPT ![c] = r]
  /\ Goto(c, IF c \in rooms[r] THEN "resadd"
             ELSE IF rooms[r] \cap ConnsOf(Owner[c]) # {} THEN "joinReply" ELSE "sadd")
  /\ UNCHANGED <<users, todo, seen, presence, onlineUsers, shown, faults,
                 counted, orphans>>

\* handleJoinRoom: both maps, under the lock; a repeated join is told apart.
JoinLocal(c, r) ==
  /\ pc[c] = "idle"
  /\ rooms' = [rooms EXCEPT ![r] = @ \cup {c}]
  /\ joined' = [joined EXCEPT ![c] = @ \cup {r}]
  /\ cur' = [cur EXCEPT ![c] = r]
  /\ Goto(c, IF c \in rooms[r] THEN "resadd" ELSE "sadd")
  /\ UNCHANGED <<users, todo, seen, presence, onlineUsers, shown, faults,
                 counted, orphans>>

\* Mutant of SAdd: the connection is added where the user id belongs.
SAddOfConnection(c) ==
  /\ pc[c] \in {"sadd", "resadd"}
  /\ Goto(c, IF pc[c] = "sadd" THEN "joinReply" ELSE "rejoinReply")
  /\ onlineUsers' = [onlineUsers EXCEPT ![cur[c]] = @ \cup {c}]
  /\ UNCHANGED <<users, rooms, joined, cur, todo, seen, presence, shown, faults,
                 counted, orphans>>

\* handleJoinRoom, continued: SADD of the user id, also on a repeated join.
SAdd(c) ==
  /\ pc[c] \in {"sadd", "resadd"}
  /\ Goto(c, IF pc[c] = "sadd" THEN "joinReply" ELSE "rejoinReply")
  /\ \/ /\ onlineUsers' = [onlineUsers EXCEPT ![cur[c]] = @ \cup {Owner[c]}]
        /\ UNCHANGED faults
     \/ Fault /\ UNCHANGED onlineUsers
  /\ UNCHANGED <<users, rooms, joined, cur, todo, seen, presence, shown, counted,
                 orphans>>

\* Mutant of RejoinReply: a repeated join counts the connection once more.
RejoinReplyCounting(c) ==
  /\ pc[c] = "rejoinReply"
  /\ cur' = [cur EXCEPT ![c] = NoRoom]
  /\ Goto(c, "idle")
  /\ presence' = [presence EXCEPT ![Owner[c]] = @ + 1]
  /\ UNCHANGED <<users, rooms, joined, todo, seen, onlineUsers, shown, faults,
                 counted, orphans>>

\* handleJoinRoom, repeated join: "joined" is sent and no count is broadcast.
RejoinReply(c) ==
  /\ pc[c] = "rejoinReply"
  /\ cur' = [cur EXCEPT ![c] = NoRoom]
  /\ Goto(c, "idle")
  /\ UNCHANGED <<users, rooms, joined, todo, seen, presence, onlineUsers, shown,
                 faults, counted, orphans>>

\* Mutant of LeaveLocal: the call of leaveRoomOnlineSet is missing.
LeaveLocalOnly(c, r) ==
  /\ pc[c] = "idle"
  /\ rooms' = [rooms EXCEPT ![r] = @ \ {c}]
  /\ joined' = [joined EXCEPT ![c] = @ \ {r}]
  /\ cur' = [cur EXCEPT ![c] = r]
  /\ Goto(c, "leaveReply")
  /\ UNCHANGED <<users, todo, seen, presence, onlineUsers, shown, faults,
                 counted, orphans>>

\* handleLeaveRoom: both maps, under the lock; c need not have joined r.
LeaveLocal(c, r) ==
  /\ pc[c] = "idle"
  /\ rooms' = [rooms EXCEPT ![r] = @ \ {c}]
  /\ joined' = [joined EXCEPT ![c] = @ \ {r}]
  /\ cur' = [cur EXCEPT ![c] = r]
  /\ Goto(c, "srem")
  /\ UNCHANGED <<users, todo, seen, presence, onlineUsers, shown, faults,
                 counted, orphans>>

\* The effect of leaveRoomOnlineSet(r) run for connection c: the user id goes,
\* whichever connection put it there; an error is logged and the entry stays.
LeaveRoomOnlineSet(c, r) ==
  \/ /\ onlineUsers' = [onlineUsers EXCEPT ![r] = @ \ {Owner[c]}]
     /\ orphans' = orphans \ (ConnsOf(Owner[c]) \X {r})
     /\ UNCHANGED faults
  \/ /\ Fault
     /\ orphans' = orphans \cup {<<c, r>>}
     /\ UNCHANGED onlineUsers

\* handleLeaveRoom, continued: SREM of the user id.
SRem(c) ==
  /\ pc[c] = "srem"
  /\ LeaveRoomOnlineSet(c, cur[c])
  /\ Goto(c, "leaveReply")
  /\ UNCHANGED <<users, rooms, joined, cur, todo, seen, presence, shown, counted>>

\* The blocking send of "joined"/"left", then broadcastRoomUserCount: SCARD.
\* An error ends the command without a broadcast.
ReadCount(c) ==
  /\ pc[c] \in {"joinReply", "leaveReply", "cleanupCount"}
  /\ \/ /\ seen' = [seen EXCEPT ![c] = Cardinality(onlineUsers[cur[c]])]
        /\ Goto(c, IF pc[c] = "cleanupCount" THEN "cleanupPublish" ELSE "publish")
        /\ UNCHANGED <<faults, cur>>
     \/ /\ Fault
        /\ Goto(c, IF pc[c] = "cleanupCount" THEN "cleanup" ELSE "idle")
        /\ cur' = [cur EXCEPT ![c] = NoRoom]
        /\ UNCHANGED seen
  /\ UNCHANGED <<users, rooms, joined, todo, presence, onlineUsers, shown,
                 counted, orphans>>

\* broadcastRoomUserCount, continued: PUBLISH of the count read before.
PublishCount(c) ==
  /\ pc[c] \in {"publish", "cleanupPublish"}
  /\ Goto(c, IF pc[c] = "cleanupPublish" THEN "cleanup" ELSE "idle")
  /\ cur' = [cur EXCEPT ![c] = NoRoom]
  /\ seen' = [seen EXCEPT ![c] = 0]
  /\ \/ shown' = [shown EXCEPT ![cur[c]] = seen[c]] /\ UNCHANGED faults
     \/ Fault /\ UNCHANGED shown
  /\ UNCHANGED <<users, rooms, joined, todo, presence, onlineUsers, counted,
                 orphans>>

-----------------------------------------------------------------------------
(* Closing a connection: readPump's deferred unregister.                   *)

\* Mutant of Unregister: only the users map is cleaned.
UnregisterKeepingRooms(c) ==
  /\ pc[c] = "idle"
  /\ users' = users \ {c}
  /\ todo' = [todo EXCEPT ![c] = joined[c]]
  /\ Goto(c, "cleanup")
  /\ UNCHANGED <<rooms, joined, cur, seen, presence, onlineUsers, shown, faults,
                 counted, orphans>>

\* Mutant of Unregister: the rooms are not collected for the Redis cleanup.
UnregisterForgettingRooms(c) ==
  /\ pc[c] = "idle"
  /\ users' = users \ {c}
  /\ rooms' = [r \in Room |-> rooms[r] \ {c}]
  /\ Goto(c, "cleanup")
  /\ UNCHANGED <<joined, cur, todo, seen, presence, onlineUsers, shown, faults,
                 counted, orphans>>

\* unregister: both maps, under the lock; c.rooms itself is not cleared.
Unregister(c) ==
  /\ pc[c] = "idle"
  /\ users' = users \ {c}
  /\ rooms' = [r \in Room |-> rooms[r] \ {c}]
  /\ todo' = [todo EXCEPT ![c] = joined[c]]
  /\ Goto(c, "cleanup")
  /\ UNCHANGED <<joined, cur, seen, presence, onlineUsers, shown, faults, counted,
                 orphans>>

\* unregister, continued: SREM for one of the rooms, in the map's order.
CleanupSRem(c, r) ==
  /\ pc[c] = "cleanup"
  /\ r \in todo[c]
  /\ LeaveRoomOnlineSet(c, r)
  /\ todo' = [todo EXCEPT ![c] = @ \ {r}]
  /\ cur' = [cur EXCEPT ![c] = r]
  /\ Goto(c, "cleanupCount")
  /\ UNCHANGED <<users, rooms, joined, seen, presence, shown, counted>>

\* Mutant of MarkOffline: skipped while the user has another connection.
MarkOfflineIfLast(c) ==
  /\ pc[c] = "cleanup"
  /\ todo[c] = {}
  /\ IF users \cap ConnsOf(Owner[c]) = {}
     THEN /\ presence' = [presence EXCEPT ![Owner[c]] = @ - 1]
          /\ Goto(c, IF presence[Owner[c]] - 1 <= 0 THEN "hdel" ELSE "gone")
     ELSE Goto(c, "gone") /\ UNCHANGED presence
  /\ counted' = counted \ {c}
  /\ UNCHANGED <<users, rooms, joined, cur, todo, seen, onlineUsers, shown, faults,
                 orphans>>

\* unregister, continued: MarkOffline's HINCRBY -1, whose result decides
\* whether HDEL follows; without a result, because Redis did not get the command
\* or its answer was lost, nothing follows.
MarkOffline(c) ==
  /\ pc[c] = "cleanup"
  /\ todo[c] = {}
  /\ \/ /\ presence' = [presence EXCEPT ![Owner[c]] = @ - 1]
        /\ counted' = counted \ {c}
        /\ \/ /\ Goto(c, IF presence[Owner[c]] - 1 <= 0 THEN "hdel" ELSE "gone")
              /\ UNCHANGED faults
           \/ Fault /\ Goto(c, "gone")
     \/ Fault /\ Goto(c, "gone") /\ UNCHANGED <<presence, counted>>
  /\ UNCHANGED <<users, rooms, joined, cur, todo, seen, onlineUsers, shown, orphans>>

\* MarkOffline, continued: HDEL, whatever the field holds by now.
HDel(c) ==
  /\ pc[c] = "hdel"
  /\ Goto(c, "gone")
  /\ \/ presence' = [presence EXCEPT ![Owner[c]] = 0] /\ UNCHANGED faults
     \/ Fault /\ UNCHANGED presence
  /\ UNCHANGED <<users, rooms, joined, cur, todo, seen, onlineUsers, shown, counted,
                 orphans>>

-----------------------------------------------------------------------------
(* What can go wrong.                                                      *)

\* A send to the connection's own full channel after its writePump returned:
\* the readPump waits for ever and unregister is never reached.
Wedge(c) ==
  /\ pc[c] \in Replying
  /\ Goto(c, "wedged")
  /\ UNCHANGED <<users, rooms, joined, cur, todo, seen, presence, onlineUsers, shown,
                 faults, counted, orphans>>

\* The process of instance i ends (killed, or main returning after Shutdown
\* sent its Close frames: it does not wait for the readPumps) and is started
\* again with empty maps.  What Redis holds stays.
Crash(i) ==
  LET lost == {c \in Conn : Host[c] = i /\ pc[c] \in Registered \cup CleaningUp}
  IN /\ lost # {}
     /\ Fault
     /\ pc' = [c \in Conn |-> IF c \in lost THEN "dead" ELSE pc[c]]
     /\ users' = users \ lost
     /\ rooms' = [r \in Room |-> rooms[r] \ lost]
     /\ joined' = [c \in Conn |-> IF c \in lost THEN {} ELSE joined[c]]
     /\ cur' = [c \in Conn |-> IF c \in lost THEN NoRoom ELSE cur[c]]
     /\ todo' = [c \in Conn |-> IF c \in lost THEN {} ELSE todo[c]]
     /\ seen' = [c \in Conn |-> IF c \in lost THEN 0 ELSE seen[c]]
     /\ orphans' = orphans \cup
          {p \in lost \X Room : p[1] \in rooms[p[2]] \/ RemovalPending(p[1], p[2])}
     /\ UNCHANGED <<presence, onlineUsers, shown, counted>>

-----------------------------------------------------------------------------
\* What the goroutines of c do by themselves.
Progress(c) ==
  \/ MarkOnline(c) \/ SAdd(c) \/ RejoinReply(c) \/ SRem(c)
  \/ ReadCount(c) \/ PublishCount(c)
  \/ \E r \in Room : CleanupSRem(c, r)
  \/ MarkOffline(c) \/ HDel(c)

\* What the peer or the network makes c do.
Environment(c) ==
  \/ Register(c) \/ Unregister(c) \/ Wedge(c)
  \/ \E r \in Room : JoinLocal(c, r) \/ LeaveLocal(c, r)

Next == (\E c \in Conn : Progress(c) \/ Environment(c)) \/ (\E i \in Instance : Crash(i))

\* A goroutine that can run is run; a peer owes nothing.
Fairness == \A c \in Conn : WF_vars(Progress(c))

Spec == Init /\ [][Next]_vars /\ Fairness

-----------------------------------------------------------------------------
(* Properties.                                                             *)

\* The variables have the types their declarations announce.
TypeOK ==
  /\ pc \in [Conn -> PC]
  /\ users \subseteq Conn
  /\ rooms \in [Room -> SUBSET Conn]
  /\ joined \in [Conn -> SUBSET Room]
  /\ cur \in [Conn -> Room \cup {NoRoom}]
  /\ todo \in [Conn -> SUBSET Room]
  /\ seen \in [Conn -> Nat]
  /\ presence \in [User -> Int]
  /\ onlineUsers \in [Room -> SUBSET User]
  /\ shown \in [Room -> Nat]
  /\ faults \in 0..MaxFaults
  /\ counted \subseteq Conn
  /\ orphans \subseteq Conn \X Room

\* The two indexes of a hub agree: a connection is a target of the broadcasts
\* of exactly the rooms its own record names while it is registered, and of no
\* room from unregister's critical section on, when its channel gets closed.
RegistryMatchesConnections ==
  \A c \in Conn :
    /\ c \in users <=> pc[c] \in Registered
    /\ \A r \in Room : c \in rooms[r] <=> c \in users /\ r \in joined[c]

\* The count of a user never exceeds the connections of the user that were
\* counted and not taken back, even though MarkOffline's two commands
\* interleave with other connections: nobody is kept online by a race, only
\* by a connection that is there or whose end was lost in a crash.
PresenceNeverOverstates ==
  \A u \in User : presence[u] <= Cardinality(counted \cap ConnsOf(u))

\* Whoever is listed online in a room has a connection in the room, one whose
\* removal is under way, or one whose removal was lost (crash, Redis error):
\* the interleavings of joins and leaves alone leave no ghost in the room.
OnlineSetHasWitness ==
  \A r \in Room : \A u \in onlineUsers[r] : \E c \in ConnsOf(u) :
    c \in rooms[r] \/ RemovalPending(c, r) \/ <<c, r>> \in orphans

\* A user's only connection so far, between two commands and without any
\* fault, is accounted exactly: counted once, and listed in the rooms it
\* joined and in no other, whatever other users do.
SoleConnectionIsExact ==
  \A c \in Conn :
    (/\ pc[c] = "idle" /\ faults = 0
     /\ \A d \in ConnsOf(Owner[c]) \ {c} : pc[d] = "new")
    => /\ presence[Owner[c]] = 1
       /\ \A r \in Room : Owner[c] \in onlineUsers[r] <=> r \in joined[c]

\* A user who is in a room with a connection past its SADD, and is missing from
\* the room's online set all the same, has another connection that left the room,
\* ended, or is about to add the user again: joins and leaves of several tabs may
\* interleave as they like, a user whose tabs are all in the room is listed.
UnlistedHasLeaver ==
  faults = 0 => \A r \in Room : \A c \in rooms[r] :
    Owner[c] \notin onlineUsers[r] /\ ~(pc[c] \in {"sadd", "resadd"} /\ cur[c] = r)
      => \E d \in ConnsOf(Owner[c]) \ {c} :
           pc[d] # "new" /\ (d \notin rooms[r] \/ (pc[d] = "sadd" /\ cur[d] = r))

\* Until the first connection of a user has ended, the count of the user is the
\* number of connections that were counted and not taken back, in whatever order
\* the commands of several connections interleave: what makes a connected user
\* look offline (ConnectedUserIsOnline below) is the HDEL of an earlier end.
CountIsExactUntilGone ==
  faults = 0 => \A u \in User :
    (\A c \in ConnsOf(u) : pc[c] # "gone")
      => presence[u] = Cardinality(counted \cap ConnsOf(u))

\* A user whose connections have all ended, without any fault, has left nothing in
\* Redis: no count, neither positive nor negative, and no entry of a room.  What
\* DepartedUserDisappears promises for some time is so at once.
DepartedLeftNothing ==
  faults = 0 => \A u \in User :
    (\A c \in ConnsOf(u) : pc[c] \in {"new", "gone"})
      => presence[u] = 0 /\ \A r \in Room : u \notin onlineUsers[r]

\* The hubs implement Registry, all instances together: Close is unregister's
\* critical section, End the end of an instance.
Life(c) ==
  CASE pc[c] = "new"                     -> "new"
    [] pc[c] = "wedged"                  -> "stuck"
    [] pc[c] \in Registered \ {"wedged"} -> "open"
    [] OTHER                             -> "closed"
Hub == INSTANCE Registry WITH life <- [c \in Conn |-> Life(c)], members <- rooms
ImplementsRegistry == Hub!Spec

\* A user that is left without connections for good goes offline for good and
\* disappears from every room, in whatever order the unregisters of the user's
\* connections interleave, unless a fault lost a command.
DepartedUserDisappears ==
  \A u \in User :
    ([](faults = 0) /\ <>[](\A c \in ConnsOf(u) : pc[c] \in CleaningUp \cup {"new", "gone"}))
    => <>[](~Online(u) /\ \A r \in Room : u \notin onlineUsers[r])

\* Claimed by user_presence.go:12: with several connections a user is not taken
\* for offline when one of them ends.  Said of the connections that are counted,
\* without any fault.
ConnectedUserIsOnline ==
  faults = 0 => \A c \in counted : pc[c] = "idle" => Online(Owner[c])

\* Claimed by docs/29-final-delivery-document.md:22-23 (the online count of a
\* room is updated in real time): when no command is in progress and no fault
\* happened, the count last broadcast to a room is the number of users in it.
LastCountIsCurrent ==
  (faults = 0 /\ \A c \in Conn : pc[c] \in {"new", "idle", "gone"})
  => \A r \in Room : shown[r] = Cardinality(onlineUsers[r])
=============================================================================
