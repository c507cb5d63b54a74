-------------------------- MODULE HubSession_proofs --------------------------
(***************************************************************************)
(* Proofs of the safety properties of HubSession, for any number of        *)
(* connections, users, instances, rooms and faults.                        *)
(***************************************************************************)
EXTENDS HubSession, FiniteSetTheorems, TLAPS

\* pc values at which a command or a cleanup works on the room cur[c].
OnRoom == {"sadd", "resadd", "joinReply", "rejoinReply", "srem", "leaveReply",
           "publish", "cleanupCount", "cleanupPublish"}

\* A command that works on a room has one.
CommandHasRoom == \A c \in Conn : pc[c] \in OnRoom => cur[c] \in Room

\* Typing, strengthened to be inductive: SCARD is applied to a set that exists.
TypeInv == TypeOK /\ CommandHasRoom

USE DEF PC, Registered, Replying, CleaningUp, OnRoom

\* The initial state is well typed.
LEMMA TypeInit == Init => TypeInv
BY RoomAssumption, FaultAssumption DEF Init, TypeInv, TypeOK, CommandHasRoom

\* A fault keeps the counter of faults in its range.
LEMMA FaultType == TypeOK /\ Fault => faults' \in 0..MaxFaults
BY FaultAssumption DEF TypeOK, Fault

\* Every step keeps the variables well typed.
LEMMA TypeStep == TypeInv /\ [Next]_vars => TypeInv'
<1> SUFFICES ASSUME TypeInv, [Next]_vars PROVE TypeInv'
  OBVIOUS
<1> USE ConnAssumption, RoomAssumption, PlacementAssumption, FaultAssumption
        DEF TypeInv, TypeOK, CommandHasRoom, Goto
<1>1. ASSUME NEW c \in Conn, Register(c) PROVE TypeInv'
  BY <1>1 DEF Register
<1>2. ASSUME NEW c \in Conn, MarkOnline(c) PROVE TypeInv'
  BY <1>2, FaultType DEF MarkOnline
<1>3. ASSUME NEW c \in Conn, NEW r \in Room, JoinLocal(c, r) PROVE TypeInv'
  BY <1>3 DEF JoinLocal
<1>4. ASSUME NEW c \in Conn, SAdd(c) PROVE TypeInv'
  BY <1>4, FaultType DEF SAdd
<1>5. ASSUME NEW c \in Conn, RejoinReply(c) PROVE TypeInv'
  BY <1>5 DEF RejoinReply
<1>6. ASSUME NEW c \in Conn, NEW r \in Room, LeaveLocal(c, r) PROVE TypeInv'
  BY <1>6 DEF LeaveLocal
<1>7. ASSUME NEW c \in Conn, NEW r \in Room, LeaveRoomOnlineSet(c, r)
      PROVE  /\ onlineUsers' \in [Room -> SUBSET User]
             /\ orphans' \subseteq Conn \X Room
             /\ faults' \in 0..MaxFaults
  BY <1>7, FaultType DEF LeaveRoomOnlineSet
<1>8. ASSUME NEW c \in Conn, SRem(c) PROVE TypeInv'
  BY <1>7, <1>8 DEF SRem
<1>9. ASSUME NEW c \in Conn, ReadCount(c) PROVE TypeInv'
  <2>1. cur[c] \in Room
    BY <1>9 DEF ReadCount
  <2>2. Cardinality(onlineUsers[cur[c]]) \in Nat
    BY <2>1, FS_Subset, FS_CardinalityType
  <2> QED
    BY <1>9, <2>2, FaultType DEF ReadCount
<1>10. ASSUME NEW c \in Conn, PublishCount(c) PROVE TypeInv'
  BY <1>10, FaultType DEF PublishCount
<1>11. ASSUME NEW c \in Conn, Unregister(c) PROVE TypeInv'
  BY <1>11 DEF Unregister
<1>12. ASSUME NEW c \in Conn, NEW r \in Room, CleanupSRem(c, r) PROVE TypeInv'
  BY <1>7, <1>12 DEF CleanupSRem
<1>13. ASSUME NEW c \in Conn, MarkOffline(c) PROVE TypeInv'
  BY <1>13, FaultType DEF MarkOffline
<1>14. ASSUME NEW c \in Conn, HDel(c) PROVE TypeInv'
  BY <1>14, FaultType DEF HDel
<1>15. ASSUME NEW c \in Conn, Wedge(c) PROVE TypeInv'
  BY <1>15 DEF Wedge
<1>16. ASSUME NEW i \in Instance, Crash(i) PROVE TypeInv'
  BY <1>16, FaultType DEF Crash
<1>17. CASE UNCHANGED vars
  BY <1>17 DEF vars, local
<1> QED
  BY <1>1, <1>2, <1>3, <1>4, <1>5, <1>6, <1>8, <1>9, <1>10, <1>11, <1>12, <1>13,
     <1>14, <1>15, <1>16, <1>17 DEF Next, Progress, Environment

\* The types hold in every reachable state.
THEOREM TypeCorrect == Spec => []TypeOK
<1>1. TypeInv => TypeOK
  BY DEF TypeInv
<1> QED
  BY TypeInit, TypeStep, <1>1, PTL DEF Spec

\* The same, for the strengthened typing.
LEMMA TypeInvCorrect == Spec => []TypeInv
BY TypeInit, TypeStep, PTL DEF Spec

-----------------------------------------------------------------------------
(* The indexes of the hubs.                                                *)

\* A connection that is not open yet has joined nothing.
NewJoinedNothing == \A c \in Conn : pc[c] = "new" => joined[c] = {}

\* Only unregister has rooms left to clean up.
NothingToDo == \A c \in Conn : pc[c] \in Registered \cup {"new"} => todo[c] = {}

RegistryInv == NewJoinedNothing /\ NothingToDo /\ RegistryMatchesConnections

\* Every step keeps the users map, the rooms map and Client.rooms in agreement.
LEMMA RegistryStep ==
  TypeInv /\ RegistryInv /\ [Next]_vars => RegistryInv'
<1> SUFFICES ASSUME TypeInv, RegistryInv, [Next]_vars
             PROVE  RegistryInv'
  OBVIOUS
<1> USE DEF TypeInv, TypeOK, RegistryInv, NewJoinedNothing, NothingToDo, RegistryMatchesConnections, Goto
<1>1. ASSUME NEW c \in Conn, Register(c) PROVE RegistryInv'
  BY <1>1 DEF Register
<1>2. ASSUME NEW c \in Conn, MarkOnline(c) PROVE RegistryInv'
  BY <1>2 DEF MarkOnline
<1>3. ASSUME NEW c \in Conn, NEW r \in Room, JoinLocal(c, r)
      PROVE  RegistryInv'
  BY <1>3 DEF JoinLocal
<1>4. ASSUME NEW c \in Conn, NEW r \in Room, LeaveLocal(c, r)
      PROVE  RegistryInv'
  BY <1>4 DEF LeaveLocal
<1>5. ASSUME NEW c \in Conn,
             SAdd(c) \/ RejoinReply(c) \/ SRem(c) \/ ReadCount(c) \/ PublishCount(c)
             \/ Wedge(c)
      PROVE  RegistryInv'
  BY <1>5 DEF SAdd, RejoinReply, SRem, ReadCount, PublishCount, Wedge
<1>6. ASSUME NEW c \in Conn, Unregister(c) PROVE RegistryInv'
  BY <1>6 DEF Unregister
<1>7. ASSUME NEW c \in Conn,
             (\E r \in Room : CleanupSRem(c, r)) \/ MarkOffline(c) \/ HDel(c)
      PROVE  RegistryInv'
  BY <1>7 DEF CleanupSRem, MarkOffline, HDel
<1>8. ASSUME NEW i \in Instance, Crash(i) PROVE RegistryInv'
  BY <1>8 DEF Crash
<1>9. CASE UNCHANGED vars
  BY <1>9 DEF vars, local
<1> QED
  BY <1>1, <1>2, <1>3, <1>4, <1>5, <1>6, <1>7, <1>8, <1>9 DEF Next, Progress, Environment

\* A broadcast reaches exactly the registered connections that joined its room.
THEOREM RegistryCorrect == Spec => []RegistryMatchesConnections
<1>1. Init => RegistryInv
  BY DEF Init, RegistryInv, NewJoinedNothing, NothingToDo, RegistryMatchesConnections
<1>2. RegistryInv => RegistryMatchesConnections
  BY DEF RegistryInv
<1> QED
  BY <1>1, <1>2, RegistryStep, TypeInvCorrect, PTL DEF Spec

-----------------------------------------------------------------------------
(* The reference count of presence.                                        *)

\* A connection is not counted before MarkOnline.
CountedOnce == \A c \in Conn : pc[c] \in {"new", "greet"} => c \notin counted

PresenceInv == CountedOnce /\ PresenceNeverOverstates

\* How the number of counted connections of a user changes with the history set.
LEMMA CountedCardinality ==
  ASSUME counted \subseteq Conn, NEW u \in User
  PROVE  /\ Cardinality(counted \cap ConnsOf(u)) \in Nat
         /\ \A c \in ConnsOf(u) : c \notin counted =>
              Cardinality((counted \cup {c}) \cap ConnsOf(u))
                = Cardinality(counted \cap ConnsOf(u)) + 1
         /\ \A c \in ConnsOf(u) :
              Cardinality((counted \ {c}) \cap ConnsOf(u))
                >= Cardinality(counted \cap ConnsOf(u)) - 1
         /\ \A c \in Conn \ ConnsOf(u) :
              /\ (counted \cup {c}) \cap ConnsOf(u) = counted \cap ConnsOf(u)
              /\ (counted \ {c}) \cap ConnsOf(u) = counted \cap ConnsOf(u)
<1> DEFINE S == counted \cap ConnsOf(u)
<1>1. IsFiniteSet(S) /\ Cardinality(S) \in Nat
  BY ConnAssumption, FS_Subset, FS_CardinalityType DEF ConnsOf
<1>2. ASSUME NEW c \in ConnsOf(u), c \notin counted
      PROVE  Cardinality((counted \cup {c}) \cap ConnsOf(u)) = Cardinality(S) + 1
  <2>1. (counted \cup {c}) \cap ConnsOf(u) = S \cup {c}
    OBVIOUS
  <2> QED
    BY <1>1, <1>2, <2>1, FS_AddElement
<1>3. ASSUME NEW c \in ConnsOf(u)
      PROVE  Cardinality((counted \ {c}) \cap ConnsOf(u)) >= Cardinality(S) - 1
  <2>1. (counted \ {c}) \cap ConnsOf(u) = S \ {c}
    OBVIOUS
  <2> QED
    BY <1>1, <2>1, FS_RemoveElement
<1>4. ASSUME NEW c \in Conn \ ConnsOf(u)
      PROVE  (counted \cup {c}) \cap ConnsOf(u) = S /\ (counted \ {c}) \cap ConnsOf(u) = S
  OBVIOUS
<1> QED
  BY <1>1, <1>2, <1>3, <1>4

\* Every step keeps the count of every user within its counted connections.
LEMMA PresenceStep == TypeInv /\ PresenceInv /\ [Next]_vars => PresenceInv'
<1> SUFFICES ASSUME TypeInv, PresenceInv, [Next]_vars PROVE PresenceInv'
  OBVIOUS
<1> USE DEF TypeInv, TypeOK, PresenceInv, CountedOnce, Goto
<1>0. ASSUME UNCHANGED <<presence, counted>>, CountedOnce' PROVE PresenceInv'
  BY <1>0 DEF PresenceNeverOverstates, ConnsOf
<1>1. ASSUME NEW c \in Conn, MarkOnline(c) PROVE PresenceInv'
  <2>1. CountedOnce'
    BY <1>1 DEF MarkOnline
  <2>2. CASE UNCHANGED <<presence, counted>>
    BY <2>1, <2>2, <1>0
  <2>3. CASE /\ presence' = [presence EXCEPT ![Owner[c]] = @ + 1]
             /\ counted' = counted \cup {c}
    <3>1. c \notin counted
      BY <1>1 DEF MarkOnline
    <3>2. ASSUME NEW u \in User
          PROVE  presence'[u] <= Cardinality(counted' \cap ConnsOf(u))
      <4> DEFINE n == Cardinality(counted \cap ConnsOf(u))
                 m == Cardinality((counted \cup {c}) \cap ConnsOf(u))
      <4>0. n \in Nat /\ presence[u] \in Int /\ presence[u] <= n
        BY CountedCardinality DEF PresenceNeverOverstates
      <4>1. CASE u = Owner[c]
        <5>1. m = n + 1
          BY <3>1, <4>1, CountedCardinality DEF ConnsOf
        <5>2. presence'[u] = presence[u] + 1
          BY <2>3, <4>1
        <5> QED
          BY <2>3, <4>0, <5>1, <5>2
      <4>2. CASE u # Owner[c]
        BY <2>3, <4>0, <4>2, CountedCardinality, PlacementAssumption DEF ConnsOf
      <4> QED
        BY <4>1, <4>2
    <3> QED
      BY <2>1, <3>2 DEF PresenceNeverOverstates, ConnsOf
  <2> QED
    BY <1>1, <2>2, <2>3 DEF MarkOnline
<1>2. ASSUME NEW c \in Conn, MarkOffline(c) PROVE PresenceInv'
  <2>1. CountedOnce'
    BY <1>2 DEF MarkOffline
  <2>2. CASE UNCHANGED <<presence, counted>>
    BY <2>1, <2>2, <1>0
  <2>3. CASE /\ presence' = [presence EXCEPT ![Owner[c]] = @ - 1]
             /\ counted' = counted \ {c}
    <3>1. ASSUME NEW u \in User
          PROVE  presence'[u] <= Cardinality(counted' \cap ConnsOf(u))
      <4> DEFINE n == Cardinality(counted \cap ConnsOf(u))
                 m == Cardinality((counted \ {c}) \cap ConnsOf(u))
      <4>0. n \in Nat /\ presence[u] \in Int /\ presence[u] <= n
        BY CountedCardinality DEF PresenceNeverOverstates
      <4>1. CASE u = Owner[c]
        <5>1. m >= n - 1 /\ m \in Nat
          BY <4>1, CountedCardinality, ConnAssumption, FS_Subset, FS_CardinalityType
             DEF ConnsOf
        <5>2. presence'[u] = presence[u] - 1
          BY <2>3, <4>1
        <5> QED
          BY <2>3, <4>0, <5>1, <5>2
      <4>2. CASE u # Owner[c]
        BY <2>3, <4>0, <4>2, CountedCardinality, PlacementAssumption DEF ConnsOf
      <4> QED
        BY <4>1, <4>2
    <3> QED
      BY <2>1, <3>1 DEF PresenceNeverOverstates, ConnsOf
  <2> QED
    BY <1>2, <2>2, <2>3 DEF MarkOffline
<1>3. ASSUME NEW c \in Conn, HDel(c) PROVE PresenceInv'
  <2>1. \A u \in User : Cardinality(counted \cap ConnsOf(u)) >= 0
    BY CountedCardinality
  <2> QED
    BY <1>3, <2>1 DEF HDel, PresenceNeverOverstates, ConnsOf
<1>4. ASSUME NEW c \in Conn,
             \/ SAdd(c) \/ RejoinReply(c) \/ SRem(c) \/ ReadCount(c) \/ PublishCount(c)
             \/ \E r \in Room : CleanupSRem(c, r) \/ JoinLocal(c, r) \/ LeaveLocal(c, r)
             \/ Register(c) \/ Unregister(c) \/ Wedge(c)
      PROVE  PresenceInv'
  BY <1>4, <1>0 DEF SAdd, RejoinReply, SRem, ReadCount, PublishCount, CleanupSRem,
     JoinLocal, LeaveLocal, Register, Unregister, Wedge
<1>5. ASSUME NEW i \in Instance, Crash(i) PROVE PresenceInv'
  BY <1>5, <1>0 DEF Crash
<1>6. CASE UNCHANGED vars
  BY <1>6, <1>0 DEF vars, local
<1> QED
  BY <1>1, <1>2, <1>3, <1>4, <1>5, <1>6 DEF Next, Progress, Environment

\* No interleaving keeps a user online: the count is at most the number of
\* connections that were counted and not taken back.
THEOREM PresenceCorrect == Spec => []PresenceNeverOverstates
<1>1. Init => PresenceInv
  <2>1. ASSUME Init PROVE \A u \in User : Cardinality(counted \cap ConnsOf(u)) >= 0
    BY <2>1, CountedCardinality DEF Init
  <2> QED
    BY <2>1 DEF Init, PresenceInv, CountedOnce, PresenceNeverOverstates
<1>2. PresenceInv => PresenceNeverOverstates
  BY DEF PresenceInv
<1> QED
  BY <1>1, <1>2, PresenceStep, TypeInvCorrect, PTL DEF Spec

-----------------------------------------------------------------------------
(* The sets of users online in the rooms.                                  *)

\* SADD is reached by connections that are in the room's map.
JoinIsLocal == \A c \in Conn : pc[c] \in {"sadd", "resadd"} => c \in rooms[cur[c]]

\* c accounts for its user being listed in r.
Witness(c, r) == c \in rooms[r] \/ RemovalPending(c, r) \/ <<c, r>> \in orphans

OnlineSetInv == JoinIsLocal /\ OnlineSetHasWitness

\* OnlineSetHasWitness, one user at a time.
LEMMA WitnessForm ==
  OnlineSetHasWitness <=>
    \A r \in Room : \A u \in onlineUsers[r] : \E c \in ConnsOf(u) : Witness(c, r)
BY DEF OnlineSetHasWitness, Witness

\* A step that lists nobody new and keeps every witness preserves the property.
LEMMA WitnessesKept ==
  ASSUME OnlineSetHasWitness,
         \A r \in Room : onlineUsers'[r] \subseteq onlineUsers[r],
         \A c \in Conn, r \in Room : Witness(c, r) => Witness(c, r)'
  PROVE  OnlineSetHasWitness'
BY DEF OnlineSetHasWitness, Witness, ConnsOf

\* leaveRoomOnlineSet run by c may end c's own claim on r, and no other claim
\* of another user or room.
LEMMA LeaveKeepsWitnesses ==
  ASSUME TypeInv, OnlineSetHasWitness, NEW c \in Conn, NEW r \in Room,
         LeaveRoomOnlineSet(c, r), UNCHANGED rooms,
         \A d \in Conn, q \in Room :
           (d # c \/ q # r) /\ RemovalPending(d, q) => RemovalPending(d, q)'
  PROVE  OnlineSetHasWitness'
<1> USE DEF TypeInv, TypeOK, LeaveRoomOnlineSet, OnlineSetHasWitness, ConnsOf
<1>1. CASE /\ onlineUsers' = [onlineUsers EXCEPT ![r] = @ \ {Owner[c]}]
           /\ orphans' = orphans \ (ConnsOf(Owner[c]) \X {r})
  <2> SUFFICES ASSUME NEW q \in Room, NEW u \in onlineUsers'[q]
               PROVE  \E d \in ConnsOf(u) :
                        d \in rooms'[q] \/ RemovalPending(d, q)' \/ <<d, q>> \in orphans'
    OBVIOUS
  <2>1. u \in onlineUsers[q] /\ (q = r => u # Owner[c])
    BY <1>1
  <2>2. PICK d \in ConnsOf(u) :
          d \in rooms[q] \/ RemovalPending(d, q) \/ <<d, q>> \in orphans
    BY <2>1
  <2>3. d # c \/ q # r
    BY <2>1, <2>2
  <2>4. <<d, q>> \in orphans => <<d, q>> \in orphans'
    BY <1>1, <2>1, <2>2
  <2> QED
    BY <2>2, <2>3, <2>4
<1>2. CASE orphans' = orphans \cup {<<c, r>>} /\ UNCHANGED onlineUsers
  <2> SUFFICES ASSUME NEW q \in Room, NEW u \in onlineUsers[q]
               PROVE  \E d \in ConnsOf(u) :
                        d \in rooms'[q] \/ RemovalPending(d, q)' \/ <<d, q>> \in orphans'
    BY <1>2
  <2>1. PICK d \in ConnsOf(u) :
          d \in rooms[q] \/ RemovalPending(d, q) \/ <<d, q>> \in orphans
    OBVIOUS
  <2> QED
    BY <1>2, <2>1
<1> QED
  BY <1>1, <1>2

\* Every step keeps a witness for everybody who is listed.
LEMMA OnlineSetStep ==
  TypeInv /\ RegistryInv /\ OnlineSetInv /\ [Next]_vars => OnlineSetInv'
<1> SUFFICES ASSUME TypeInv, RegistryInv, OnlineSetInv, [Next]_vars PROVE OnlineSetInv'
  OBVIOUS
<1> USE DEF TypeInv, TypeOK, CommandHasRoom, OnlineSetInv, JoinIsLocal, Goto
<1>1. ASSUME NEW c \in Conn, NEW r \in Room, JoinLocal(c, r) PROVE OnlineSetInv'
  <2>1. JoinIsLocal'
    BY <1>1 DEF JoinLocal
  <2>2. \A d \in Conn, q \in Room : Witness(d, q) => Witness(d, q)'
    BY <1>1 DEF JoinLocal, Witness, RemovalPending
  <2> QED
    BY <1>1, <2>1, <2>2, WitnessesKept DEF JoinLocal
<1>2. ASSUME NEW c \in Conn, SAdd(c) PROVE OnlineSetInv'
  <2>1. JoinIsLocal'
    BY <1>2 DEF SAdd
  <2>2. cur[c] \in Room /\ c \in rooms[cur[c]] /\ c \in ConnsOf(Owner[c])
    BY <1>2 DEF SAdd, ConnsOf
  <2>3. \A d \in Conn, q \in Room : Witness(d, q) => Witness(d, q)'
    BY <1>2 DEF SAdd, Witness, RemovalPending
  <2>4. CASE UNCHANGED onlineUsers
    BY <2>1, <2>3, <2>4, WitnessesKept
  <2>5. CASE onlineUsers' = [onlineUsers EXCEPT ![cur[c]] = @ \cup {Owner[c]}]
    <3>1. ASSUME NEW r \in Room, NEW u \in onlineUsers'[r]
          PROVE  \E d \in ConnsOf(u) : Witness(d, r)'
      <4>1. CASE u \in onlineUsers[r]
        BY <2>3, <4>1, WitnessForm DEF ConnsOf
      <4>2. CASE u \notin onlineUsers[r]
        <5>1. r = cur[c] /\ u = Owner[c]
          BY <2>5, <4>2
        <5> QED
          BY <1>2, <2>2, <5>1 DEF SAdd, Witness
      <4> QED
        BY <4>1, <4>2
    <3> QED
      BY <2>1, <3>1 DEF OnlineSetHasWitness, Witness, ConnsOf
  <2> QED
    BY <1>2, <2>4, <2>5 DEF SAdd
<1>3. ASSUME NEW c \in Conn, NEW r \in Room, LeaveLocal(c, r) PROVE OnlineSetInv'
  <2>1. JoinIsLocal'
    BY <1>3 DEF LeaveLocal
  <2>2. \A d \in Conn, q \in Room : Witness(d, q) => Witness(d, q)'
    BY <1>3 DEF LeaveLocal, Witness, RemovalPending
  <2> QED
    BY <1>3, <2>1, <2>2, WitnessesKept DEF LeaveLocal
<1>4. ASSUME NEW c \in Conn, SRem(c) PROVE OnlineSetInv'
  <2>1. JoinIsLocal'
    BY <1>4 DEF SRem
  <2>2. \A d \in Conn, q \in Room :
          (d # c \/ q # cur[c]) /\ RemovalPending(d, q) => RemovalPending(d, q)'
    BY <1>4 DEF SRem, RemovalPending
  <2>3. cur[c] \in Room
    BY <1>4 DEF SRem
  <2> QED
    BY <1>4, <2>1, <2>2, <2>3, LeaveKeepsWitnesses DEF SRem
<1>5. ASSUME NEW c \in Conn, Unregister(c) PROVE OnlineSetInv'
  <2>1. JoinIsLocal'
    BY <1>5 DEF Unregister
  <2>2. \A q \in Room : c \in rooms[q] => q \in joined[c]
    BY DEF RegistryInv, RegistryMatchesConnections
  <2>4. todo[c] = {}
    BY <1>5 DEF Unregister, RegistryInv, NothingToDo
  <2>3. \A d \in Conn, q \in Room : Witness(d, q) => Witness(d, q)'
    BY <1>5, <2>2, <2>4 DEF Unregister, Witness, RemovalPending
  <2> QED
    BY <1>5, <2>1, <2>3, WitnessesKept DEF Unregister
<1>6. ASSUME NEW c \in Conn, NEW r \in Room, CleanupSRem(c, r) PROVE OnlineSetInv'
  <2>1. JoinIsLocal'
    BY <1>6 DEF CleanupSRem
  <2>2. \A d \in Conn, q \in Room :
          (d # c \/ q # r) /\ RemovalPending(d, q) => RemovalPending(d, q)'
    BY <1>6 DEF CleanupSRem, RemovalPending
  <2> QED
    BY <1>6, <2>1, <2>2, LeaveKeepsWitnesses DEF CleanupSRem
<1>7. ASSUME NEW c \in Conn,
             \/ Register(c) \/ MarkOnline(c) \/ RejoinReply(c) \/ ReadCount(c)
             \/ PublishCount(c) \/ MarkOffline(c) \/ HDel(c) \/ Wedge(c)
      PROVE  OnlineSetInv'
  <2> USE DEF Register, MarkOnline, RejoinReply, ReadCount, PublishCount, MarkOffline,
              HDel, Wedge
  <2>1. JoinIsLocal'
    BY <1>7
  <2>2. \A d \in Conn, q \in Room : Witness(d, q) => Witness(d, q)'
    BY <1>7 DEF Witness, RemovalPending
  <2>3. UNCHANGED onlineUsers
    BY <1>7
  <2> QED
    BY <2>1, <2>2, <2>3, WitnessesKept
<1>8. ASSUME NEW i \in Instance, Crash(i) PROVE OnlineSetInv'
  <2>1. JoinIsLocal'
    BY <1>8 DEF Crash, RegistryInv, RegistryMatchesConnections
  <2>2. \A d \in Conn, q \in Room : Witness(d, q) => Witness(d, q)'
    BY <1>8 DEF Crash, Witness, RemovalPending
  <2> QED
    BY <1>8, <2>1, <2>2, WitnessesKept DEF Crash
<1>9. CASE UNCHANGED vars
  BY <1>9 DEF vars, local, OnlineSetHasWitness, RemovalPending, ConnsOf
<1> QED
  BY <1>1, <1>2, <1>3, <1>4, <1>5, <1>6, <1>7, <1>8, <1>9 DEF Next, Progress, Environment

\* Whoever is listed in a room has a connection there, one that is leaving, or
\* one whose removal was lost in a fault.
THEOREM OnlineSetCorrect == Spec => []OnlineSetHasWitness
<1>1. Init => OnlineSetInv /\ RegistryInv
  BY DEF Init, OnlineSetInv, JoinIsLocal, OnlineSetHasWitness, RegistryInv,
         NewJoinedNothing, NothingToDo, RegistryMatchesConnections
<1>2. OnlineSetInv => OnlineSetHasWitness
  BY DEF OnlineSetInv
<1> QED
  BY <1>1, <1>2, OnlineSetStep, RegistryStep, TypeInvCorrect, PTL DEF Spec

-----------------------------------------------------------------------------
(* A user with one connection.                                             *)

Alone(c) == \A d \in ConnsOf(Owner[c]) \ {c} : pc[d] = "new"

\* What a user's only connection c has in Redis: between the critical section of
\* a command and its SADD or SREM the entry of that room may be behind.
Exact(c) ==
  /\ presence[Owner[c]] = (IF pc[c] = "greet" THEN 0 ELSE 1)
  /\ pc[c] \in {"sadd", "resadd"} => cur[c] \in joined[c]
  /\ pc[c] = "srem" => cur[c] \notin joined[c]
  /\ \A r \in Room :
       \/ pc[c] \in {"sadd", "resadd", "srem"} /\ cur[c] = r
       \/ Owner[c] \in onlineUsers[r] <=> r \in joined[c]

\* A user without any connection so far has left nothing in Redis.
Absent(u) == presence[u] = 0 /\ \A r \in Room : u \notin onlineUsers[r]

Serving == Registered \ {"wedged"}

SoleInv ==
  faults = 0 =>
    /\ \A u \in User : (\A c \in ConnsOf(u) : pc[c] = "new") => Absent(u)
    /\ \A c \in Conn : pc[c] \in Serving /\ Alone(c) => Exact(c)

\* What a step of connection c leaves alone: the other connections, and what
\* Redis holds of the other users.
OthersUntouched(c) ==
  /\ \A d \in Conn \ {c} :
       pc'[d] = pc[d] /\ joined'[d] = joined[d] /\ cur'[d] = cur[d]
  /\ \A u \in User \ {Owner[c]} :
       /\ presence'[u] = presence[u]
       /\ \A r \in Room : u \in onlineUsers'[r] <=> u \in onlineUsers[r]

\* A step of one connection concerns its own user only, so it is enough that the
\* connection is exact after it when it is the user's only one.
LEMMA SoleFrame ==
  ASSUME TypeInv, SoleInv, NEW c \in Conn, OthersUntouched(c),
         faults' = 0 => faults = 0, pc'[c] # "new",
         faults' = 0 /\ pc'[c] \in Serving /\ Alone(c) => Exact(c)'
  PROVE  SoleInv'
<1> SUFFICES ASSUME faults' = 0
             PROVE  /\ \A u \in User : (\A d \in ConnsOf(u) : pc'[d] = "new") => Absent(u)'
                    /\ \A d \in Conn : pc'[d] \in Serving /\ Alone(d)' => Exact(d)'
  BY DEF SoleInv, ConnsOf, Serving
<1> USE PlacementAssumption
<1>1. ASSUME NEW u \in User, \A d \in ConnsOf(u) : pc'[d] = "new"
      PROVE  Absent(u)'
  <2>1. u # Owner[c]
    BY <1>1 DEF ConnsOf
  <2>2. \A d \in ConnsOf(u) : pc[d] = "new"
    BY <1>1, <2>1 DEF ConnsOf, OthersUntouched
  <2> QED
    BY <2>1, <2>2 DEF SoleInv, Absent, OthersUntouched
<1>2. ASSUME NEW d \in Conn, pc'[d] \in Serving, Alone(d)'
      PROVE  Exact(d)'
  <2>1. CASE d = c
    BY <1>2, <2>1 DEF Alone, ConnsOf, OthersUntouched
  <2>2. CASE d # c
    <3>1. Owner[d] # Owner[c]
      BY <1>2, <2>2 DEF Alone, ConnsOf
    <3>2. pc[d] \in Serving /\ Alone(d)
      BY <1>2, <2>2, <3>1 DEF Alone, ConnsOf, OthersUntouched
    <3>3. Exact(d)
      BY <3>2 DEF SoleInv
    <3> QED
      BY <2>2, <3>1, <3>3 DEF Exact, OthersUntouched
  <2> QED
    BY <2>1, <2>2
<1> QED
  BY <1>1, <1>2

\* Every step keeps a sole connection exact.
LEMMA SoleStep == TypeInv /\ RegistryInv /\ SoleInv /\ [Next]_vars => SoleInv'
<1> SUFFICES ASSUME TypeInv, RegistryInv, SoleInv, [Next]_vars
             PROVE  SoleInv'
  OBVIOUS
<1> USE PlacementAssumption
<1>a. ASSUME NEW c \in Conn, pc[c] \in Serving, Alone(c), faults = 0
      PROVE  Exact(c)
  BY <1>a DEF SoleInv
<1>b. faults' = 0 /\ Fault => FALSE
  BY DEF Fault, TypeInv, TypeOK
<1> DEFINE Goal(c) == /\ OthersUntouched(c)
                      /\ faults' = 0 => faults = 0
                      /\ pc'[c] # "new"
                      /\ faults' = 0 /\ pc'[c] \in Serving /\ Alone(c) => Exact(c)'
<1>1. ASSUME NEW c \in Conn, Register(c) PROVE Goal(c)
  <2>1. joined[c] = {}
    BY <1>1 DEF Register, RegistryInv, NewJoinedNothing
  <2>2. Alone(c) /\ faults = 0 => Absent(Owner[c])
    BY <1>1 DEF Register, Alone, ConnsOf, SoleInv
  <2> QED
    BY <1>1, <2>1, <2>2 DEF Register, Goto, OthersUntouched, Exact, Absent, TypeInv, TypeOK
<1> USE DEF Goto, OthersUntouched, Exact, Serving, TypeInv, TypeOK
<1>2. ASSUME NEW c \in Conn, MarkOnline(c) PROVE Goal(c)
  BY <1>2, <1>a, <1>b DEF MarkOnline
<1>3. ASSUME NEW c \in Conn, NEW r \in Room, JoinLocal(c, r) PROVE Goal(c)
  BY <1>3, <1>a DEF JoinLocal
<1>4. ASSUME NEW c \in Conn, SAdd(c) PROVE Goal(c)
  BY <1>4, <1>a, <1>b DEF SAdd, CommandHasRoom
<1>5. ASSUME NEW c \in Conn, RejoinReply(c) PROVE Goal(c)
  BY <1>5, <1>a DEF RejoinReply
<1>6. ASSUME NEW c \in Conn, NEW r \in Room, LeaveLocal(c, r) PROVE Goal(c)
  BY <1>6, <1>a DEF LeaveLocal
<1>7. ASSUME NEW c \in Conn, SRem(c) PROVE Goal(c)
  BY <1>7, <1>a, <1>b DEF SRem, LeaveRoomOnlineSet, CommandHasRoom
<1>8. ASSUME NEW c \in Conn, ReadCount(c) PROVE Goal(c)
  BY <1>8, <1>a, <1>b DEF ReadCount
<1>9. ASSUME NEW c \in Conn, PublishCount(c) PROVE Goal(c)
  BY <1>9, <1>a, <1>b DEF PublishCount
<1>10. ASSUME NEW c \in Conn, Unregister(c) PROVE Goal(c)
  BY <1>10 DEF Unregister
<1>11. ASSUME NEW c \in Conn, NEW r \in Room, CleanupSRem(c, r) PROVE Goal(c)
  BY <1>11, <1>b DEF CleanupSRem, LeaveRoomOnlineSet
<1>12. ASSUME NEW c \in Conn, MarkOffline(c) PROVE Goal(c)
  BY <1>12, <1>b DEF MarkOffline
<1>13. ASSUME NEW c \in Conn, HDel(c) PROVE Goal(c)
  BY <1>13, <1>b DEF HDel
<1>14. ASSUME NEW c \in Conn, Wedge(c) PROVE Goal(c)
  BY <1>14 DEF Wedge
<1>15. ASSUME NEW i \in Instance, Crash(i) PROVE SoleInv'
  BY <1>15, <1>b DEF Crash, SoleInv
<1>16. CASE UNCHANGED vars
  BY <1>16 DEF vars, local, SoleInv, Alone, Absent, ConnsOf
<1>17. ASSUME NEW c \in Conn, Goal(c) PROVE SoleInv'
  BY <1>17, SoleFrame
<1> QED
  <2> HIDE DEF Goal
  <2> QED
    BY <1>1, <1>2, <1>3, <1>4, <1>5, <1>6, <1>7, <1>8, <1>9, <1>10, <1>11, <1>12, <1>13,
       <1>14, <1>15, <1>16, <1>17 DEF Next, Progress, Environment

\* A user's only connection, between two commands and without a fault, is counted
\* once and listed in exactly the rooms it joined (user_presence.go: MarkOnline;
\* hub.go: handleJoinRoom, handleLeaveRoom), whatever other users do.
THEOREM SoleConnectionCorrect == Spec => []SoleConnectionIsExact
<1>1. Init => SoleInv /\ RegistryInv
  BY PlacementAssumption
  DEF Init, SoleInv, Absent, Serving, ConnsOf, RegistryInv, NewJoinedNothing, NothingToDo,
      RegistryMatchesConnections
<1>2. TypeInv /\ SoleInv => SoleConnectionIsExact
  BY DEF SoleInv, SoleConnectionIsExact, Serving, Alone, Exact
<1> QED
  BY <1>1, <1>2, SoleStep, RegistryStep, TypeInvCorrect, PTL DEF Spec

-----------------------------------------------------------------------------
(* The count of a user with several connections, and what is left at the end. *)

\* No command was lost: no removal is owed, no goroutine disappeared.
NothingLost == orphans = {} /\ \A c \in Conn : pc[c] # "dead"

\* Where a connection has been counted and not taken back.  One that got stuck may
\* have done so before or after it was counted.
Counting == (Registered \ {"greet", "wedged"})
            \cup {"cleanup", "cleanupCount", "cleanupPublish"}
CountedKnown ==
  \A c \in Conn : /\ pc[c] \in Counting => c \in counted
                  /\ pc[c] \in {"new", "greet", "hdel", "gone"} => c \notin counted

\* The cleanup of the rooms comes before MarkOffline.
CleanedUp == \A c \in Conn : pc[c] \in {"hdel", "gone"} => todo[c] = {}

\* A negative count is about to be deleted.
NegativeIsPassing ==
  \A u \in User : presence[u] < 0 => \E c \in ConnsOf(u) : pc[c] = "hdel"

AccountInv ==
  faults = 0 => NothingLost /\ CountedKnown /\ CleanedUp /\ NegativeIsPassing
                /\ CountIsExactUntilGone

\* The parts that a step keeps which touches neither the counts nor the history,
\* and moves one connection among places that say the same of its being counted.
LEMMA AccountFrame ==
  ASSUME TypeInv, AccountInv, NEW c \in Conn,
         faults' = 0 => faults = 0 /\ orphans' = orphans,
         UNCHANGED <<presence, counted>>,
         \A d \in Conn \ {c} : pc'[d] = pc[d] /\ todo'[d] = todo[d],
         \/ pc[c] \in Counting /\ pc'[c] \in Counting \cup {"wedged"}
         \/ pc[c] = "new" /\ pc'[c] = "greet"
         \/ pc[c] = "greet" /\ pc'[c] = "wedged"
  PROVE  AccountInv'
<1> SUFFICES ASSUME faults' = 0
             PROVE  (NothingLost /\ CountedKnown /\ CleanedUp /\ NegativeIsPassing
                     /\ CountIsExactUntilGone)'
  BY DEF AccountInv
<1>1. /\ faults = 0 /\ orphans' = orphans
      /\ NothingLost /\ CountedKnown /\ CleanedUp /\ NegativeIsPassing
      /\ CountIsExactUntilGone
  BY DEF AccountInv
<1>2. pc[c] \notin {"gone", "hdel", "dead"} /\ pc'[c] \notin {"gone", "hdel", "dead"}
  BY DEF Counting
<1>3. NothingLost' /\ CleanedUp'
  BY <1>1, <1>2 DEF NothingLost, CleanedUp
<1>4. CountedKnown'
  BY <1>1 DEF CountedKnown, Counting
<1>5. NegativeIsPassing'
  BY <1>1, <1>2 DEF NegativeIsPassing, ConnsOf
<1>6. CountIsExactUntilGone'
  BY <1>1, <1>2 DEF CountIsExactUntilGone, ConnsOf
<1> QED
  BY <1>3, <1>4, <1>5, <1>6

\* MarkOnline adds one to the count and one connection to those counted.
LEMMA MarkOnlineAccount ==
  ASSUME TypeInv, AccountInv, NEW c \in Conn, MarkOnline(c), faults' = 0
  PROVE  (NothingLost /\ CountedKnown /\ CleanedUp /\ NegativeIsPassing
          /\ CountIsExactUntilGone)'
<1> USE DEF TypeInv, TypeOK
<1>1. /\ pc[c] = "greet" /\ pc' = [pc EXCEPT ![c] = "idle"]
      /\ presence' = [presence EXCEPT ![Owner[c]] = @ + 1]
      /\ counted' = counted \cup {c} /\ faults = 0
      /\ UNCHANGED <<todo, orphans>>
  BY DEF MarkOnline, Fault, Goto
<1>2. /\ NothingLost /\ CountedKnown /\ CleanedUp /\ NegativeIsPassing
      /\ CountIsExactUntilGone
  BY <1>1 DEF AccountInv
<1>3. c \notin counted
  BY <1>1, <1>2 DEF CountedKnown
<1>4. NothingLost' /\ CountedKnown' /\ CleanedUp'
  BY <1>1, <1>2 DEF NothingLost, CountedKnown, CleanedUp, Counting
<1>5. NegativeIsPassing'
  <2> SUFFICES ASSUME NEW u \in User, presence'[u] < 0
               PROVE  \E d \in ConnsOf(u)' : pc'[d] = "hdel"
    BY DEF NegativeIsPassing
  <2>1. presence[u] < 0
    BY <1>1, PlacementAssumption
  <2>2. PICK d \in ConnsOf(u) : pc[d] = "hdel"
    BY <1>2, <2>1 DEF NegativeIsPassing
  <2> QED
    BY <1>1, <2>2 DEF ConnsOf
<1>6. CountIsExactUntilGone'
  <2> SUFFICES ASSUME NEW u \in User, \A d \in ConnsOf(u) : pc'[d] # "gone"
               PROVE  presence'[u] = Cardinality(counted' \cap ConnsOf(u))
    BY DEF CountIsExactUntilGone, ConnsOf
  <2>1. \A d \in ConnsOf(u) : pc[d] # "gone"
    BY <1>1 DEF ConnsOf
  <2>2. presence[u] = Cardinality(counted \cap ConnsOf(u)) /\ presence[u] \in Int
    BY <1>1, <1>2, <2>1 DEF CountIsExactUntilGone
  <2>3. CASE u = Owner[c]
    <3>1. Cardinality((counted \cup {c}) \cap ConnsOf(u))
            = Cardinality(counted \cap ConnsOf(u)) + 1
      BY <1>3, <2>3, CountedCardinality DEF ConnsOf
    <3>2. presence'[u] = presence[u] + 1
      BY <1>1, <2>3
    <3> QED
      BY <1>1, <2>2, <3>1, <3>2
  <2>4. CASE u # Owner[c]
    <3>1. c \in Conn \ ConnsOf(u)
      BY <2>4 DEF ConnsOf
    <3> QED
      BY <1>1, <2>2, <2>4, <3>1, CountedCardinality, PlacementAssumption
  <2> QED
    BY <2>3, <2>4
<1> QED
  BY <1>4, <1>5, <1>6

\* MarkOffline takes back what MarkOnline added, and goes on to delete a count
\* that is not positive.
LEMMA MarkOfflineAccount ==
  ASSUME TypeInv, AccountInv, NEW c \in Conn, MarkOffline(c), faults' = 0
  PROVE  (NothingLost /\ CountedKnown /\ CleanedUp /\ NegativeIsPassing
          /\ CountIsExactUntilGone)'
<1> USE DEF TypeInv, TypeOK
<1>1. /\ pc[c] = "cleanup" /\ todo[c] = {} /\ faults = 0
      /\ presence' = [presence EXCEPT ![Owner[c]] = @ - 1]
      /\ counted' = counted \ {c}
      /\ pc' = [pc EXCEPT ![c] = IF presence[Owner[c]] - 1 <= 0 THEN "hdel" ELSE "gone"]
      /\ UNCHANGED <<todo, orphans>>
  BY DEF MarkOffline, Fault, Goto
<1>2. /\ NothingLost /\ CountedKnown /\ CleanedUp /\ NegativeIsPassing
      /\ CountIsExactUntilGone
  BY <1>1 DEF AccountInv
<1>3. c \in counted
  BY <1>1, <1>2 DEF CountedKnown, Counting
<1>4. NothingLost' /\ CountedKnown' /\ CleanedUp'
  BY <1>1, <1>2 DEF NothingLost, CountedKnown, CleanedUp, Counting
<1>5. NegativeIsPassing'
  <2> SUFFICES ASSUME NEW u \in User, presence'[u] < 0
               PROVE  \E d \in ConnsOf(u)' : pc'[d] = "hdel"
    BY DEF NegativeIsPassing
  <2>1. CASE u = Owner[c]
    <3>1. c \in ConnsOf(u) /\ pc'[c] = "hdel"
      BY <1>1, <2>1, PlacementAssumption DEF ConnsOf
    <3> QED
      BY <3>1 DEF ConnsOf
  <2>2. CASE u # Owner[c]
    <3>1. presence[u] < 0
      BY <1>1, <2>2
    <3>2. PICK d \in ConnsOf(u) : pc[d] = "hdel"
      BY <1>2, <3>1 DEF NegativeIsPassing
    <3> QED
      BY <1>1, <3>2 DEF ConnsOf
  <2> QED
    BY <2>1, <2>2
<1>6. CountIsExactUntilGone'
  <2> SUFFICES ASSUME NEW u \in User, \A d \in ConnsOf(u) : pc'[d] # "gone"
               PROVE  presence'[u] = Cardinality(counted' \cap ConnsOf(u))
    BY DEF CountIsExactUntilGone, ConnsOf
  <2>1. \A d \in ConnsOf(u) : pc[d] # "gone"
    BY <1>1 DEF ConnsOf
  <2>2. presence[u] = Cardinality(counted \cap ConnsOf(u)) /\ presence[u] \in Int
    BY <1>1, <1>2, <2>1 DEF CountIsExactUntilGone
  <2>3. CASE u = Owner[c]
    <3>1. (counted \ {c}) \cap ConnsOf(u) = (counted \cap ConnsOf(u)) \ {c}
      OBVIOUS
    <3>2. c \in counted \cap ConnsOf(u) /\ IsFiniteSet(counted \cap ConnsOf(u))
      BY <1>3, <2>3, ConnAssumption, FS_Subset DEF ConnsOf
    <3>3. Cardinality((counted \ {c}) \cap ConnsOf(u))
            = Cardinality(counted \cap ConnsOf(u)) - 1
      <4>1. \A S : IsFiniteSet(S) /\ c \in S => Cardinality(S \ {c}) = Cardinality(S) - 1
        BY FS_RemoveElement
      <4> QED
        BY <3>1, <3>2, <4>1
    <3>4. presence'[u] = presence[u] - 1
      BY <1>1, <2>3
    <3> QED
      BY <1>1, <2>2, <3>3, <3>4
  <2>4. CASE u # Owner[c]
    <3>1. c \in Conn \ ConnsOf(u)
      BY <2>4 DEF ConnsOf
    <3> QED
      BY <1>1, <2>2, <2>4, <3>1, CountedCardinality, PlacementAssumption
  <2> QED
    BY <2>3, <2>4
<1> QED
  BY <1>4, <1>5, <1>6

\* HDEL may erase the count of connections that are there, but then one of the
\* user's connections has ended.
LEMMA HDelAccount ==
  ASSUME TypeInv, AccountInv, NEW c \in Conn, HDel(c), faults' = 0
  PROVE  (NothingLost /\ CountedKnown /\ CleanedUp /\ NegativeIsPassing
          /\ CountIsExactUntilGone)'
<1> USE DEF TypeInv, TypeOK
<1>1. /\ pc[c] = "hdel" /\ pc' = [pc EXCEPT ![c] = "gone"] /\ faults = 0
      /\ presence' = [presence EXCEPT ![Owner[c]] = 0]
      /\ UNCHANGED <<todo, orphans, counted>>
  BY DEF HDel, Fault, Goto
<1>2. /\ NothingLost /\ CountedKnown /\ CleanedUp /\ NegativeIsPassing
      /\ CountIsExactUntilGone
  BY <1>1 DEF AccountInv
<1>3. NothingLost' /\ CountedKnown' /\ CleanedUp'
  BY <1>1, <1>2 DEF NothingLost, CountedKnown, CleanedUp, Counting
<1>4. NegativeIsPassing'
  <2> SUFFICES ASSUME NEW u \in User, presence'[u] < 0
               PROVE  \E d \in ConnsOf(u)' : pc'[d] = "hdel"
    BY DEF NegativeIsPassing
  <2>1. u # Owner[c] /\ presence[u] < 0
    BY <1>1
  <2>2. PICK d \in ConnsOf(u) : pc[d] = "hdel"
    BY <1>2, <2>1 DEF NegativeIsPassing
  <2> QED
    BY <1>1, <2>1, <2>2 DEF ConnsOf
<1>5. CountIsExactUntilGone'
  <2> SUFFICES ASSUME NEW u \in User, \A d \in ConnsOf(u) : pc'[d] # "gone"
               PROVE  presence'[u] = Cardinality(counted \cap ConnsOf(u))
    BY <1>1 DEF CountIsExactUntilGone, ConnsOf
  <2>1. u # Owner[c] /\ \A d \in ConnsOf(u) : pc[d] # "gone"
    BY <1>1 DEF ConnsOf
  <2>2. presence[u] = Cardinality(counted \cap ConnsOf(u))
    BY <1>1, <1>2, <2>1 DEF CountIsExactUntilGone
  <2> QED
    BY <1>1, <2>1, <2>2
<1> QED
  BY <1>3, <1>4, <1>5

\* Every step without a fault keeps the accounts.
LEMMA AccountStep == TypeInv /\ AccountInv /\ [Next]_vars => AccountInv'
<1> SUFFICES ASSUME TypeInv, AccountInv, [Next]_vars PROVE AccountInv'
  OBVIOUS
<1> USE DEF Goto
<1>a. faults' = 0 /\ Fault => FALSE
  BY DEF Fault, TypeInv, TypeOK
<1>b. faults = 0 => orphans = {}
  BY DEF AccountInv, NothingLost
<1>c. ASSUME NEW c \in Conn, NEW r, LeaveRoomOnlineSet(c, r), faults' = 0
      PROVE  faults = 0 /\ orphans' = orphans
  BY <1>a, <1>b, <1>c DEF LeaveRoomOnlineSet
<1>1. ASSUME NEW c \in Conn, MarkOnline(c) \/ MarkOffline(c) \/ HDel(c)
      PROVE  AccountInv'
  BY <1>1, MarkOnlineAccount, MarkOfflineAccount, HDelAccount DEF AccountInv
<1> DEFINE Moves(c) ==
      /\ faults' = 0 => faults = 0 /\ orphans' = orphans
      /\ UNCHANGED <<presence, counted>>
      /\ \A d \in Conn \ {c} : pc'[d] = pc[d] /\ todo'[d] = todo[d]
      /\ \/ pc[c] \in Counting /\ pc'[c] \in Counting \cup {"wedged"}
         \/ pc[c] = "new" /\ pc'[c] = "greet"
         \/ pc[c] = "greet" /\ pc'[c] = "wedged"
<1> USE DEF TypeInv, TypeOK, Counting
<1>2. ASSUME NEW c \in Conn, Register(c) \/ Unregister(c) \/ Wedge(c) \/ RejoinReply(c)
      PROVE  Moves(c)
  BY <1>2 DEF Register, Unregister, Wedge, RejoinReply
<1>3. ASSUME NEW c \in Conn, NEW r \in Room, JoinLocal(c, r) \/ LeaveLocal(c, r)
      PROVE  Moves(c)
  BY <1>3 DEF JoinLocal, LeaveLocal
<1>4. ASSUME NEW c \in Conn, SAdd(c) \/ ReadCount(c) \/ PublishCount(c)
      PROVE  Moves(c)
  BY <1>4, <1>a DEF SAdd, ReadCount, PublishCount
<1>5. ASSUME NEW c \in Conn, SRem(c) PROVE Moves(c)
  BY <1>5, <1>c DEF SRem
<1>6. ASSUME NEW c \in Conn, NEW r \in Room, CleanupSRem(c, r) PROVE Moves(c)
  BY <1>6, <1>c DEF CleanupSRem
<1>7. ASSUME NEW c \in Conn, Moves(c) PROVE AccountInv'
  BY <1>7, AccountFrame
<1>8. ASSUME NEW i \in Instance, Crash(i) PROVE AccountInv'
  BY <1>8, <1>a DEF Crash, AccountInv
<1>9. CASE UNCHANGED vars
  BY <1>9 DEF vars, local, AccountInv, NothingLost, CountedKnown, CleanedUp,
     NegativeIsPassing, CountIsExactUntilGone, ConnsOf
<1> QED
  <2> HIDE DEF Moves
  <2> QED
    BY <1>1, <1>2, <1>3, <1>4, <1>5, <1>6, <1>7, <1>8, <1>9 DEF Next, Progress, Environment

\* The accounts are in order in every reachable state.
LEMMA AccountCorrect == Spec => []AccountInv
<1>1. Init => AccountInv
  <2> SUFFICES ASSUME Init PROVE AccountInv
    OBVIOUS
  <2>1. \A u \in User : counted \cap ConnsOf(u) = {}
    BY DEF Init
  <2>2. CountIsExactUntilGone
    BY <2>1, FS_EmptySet DEF Init, CountIsExactUntilGone
  <2> QED
    BY <2>2 DEF Init, AccountInv, NothingLost, CountedKnown, CleanedUp,
       NegativeIsPassing, Counting
<1> QED
  BY <1>1, AccountStep, TypeInvCorrect, PTL DEF Spec

\* Until the first of a user's connections has ended, MarkOnline and MarkOffline of
\* any number of connections leave the exact count (user_presence.go).
THEOREM CountCorrect == Spec => []CountIsExactUntilGone
<1>1. AccountInv => CountIsExactUntilGone
  BY DEF AccountInv, CountIsExactUntilGone
<1> QED
  BY <1>1, AccountCorrect, PTL

\* A user whose connections have all ended has left no count and no entry of a room
\* in Redis (hub.go: unregister), in whatever order their ends interleaved.
THEOREM DepartureCorrect == Spec => []DepartedLeftNothing
<1>1. TypeInv /\ RegistryInv /\ OnlineSetInv /\ PresenceInv /\ AccountInv
        => DepartedLeftNothing
  <2> SUFFICES ASSUME TypeInv, RegistryInv, OnlineSetInv, PresenceInv, AccountInv,
                      faults = 0, NEW u \in User,
                      \A c \in ConnsOf(u) : pc[c] \in {"new", "gone"}
               PROVE  presence[u] = 0 /\ \A r \in Room : u \notin onlineUsers[r]
    BY DEF DepartedLeftNothing
  <2> USE DEF AccountInv
  <2>1. counted \cap ConnsOf(u) = {}
    BY DEF CountedKnown, ConnsOf
  <2>2. presence[u] <= 0
    BY <2>1, FS_EmptySet DEF PresenceInv, PresenceNeverOverstates
  <2>3. ~(presence[u] < 0)
    BY DEF NegativeIsPassing
  <2>4. presence[u] = 0
    BY <2>2, <2>3 DEF TypeInv, TypeOK
  <2>5. ASSUME NEW r \in Room, u \in onlineUsers[r] PROVE FALSE
    <3>1. PICK c \in ConnsOf(u) :
            c \in rooms[r] \/ RemovalPending(c, r) \/ <<c, r>> \in orphans
      BY <2>5 DEF OnlineSetInv, OnlineSetHasWitness
    <3>2. c \in Conn /\ pc[c] \in {"new", "gone"}
      BY DEF ConnsOf
    <3>3. c \notin rooms[r]
      BY <3>2 DEF RegistryInv, RegistryMatchesConnections
    <3>4. todo[c] = {}
      BY <3>2 DEF RegistryInv, NothingToDo, CleanedUp
    <3> QED
      BY <3>1, <3>2, <3>3, <3>4 DEF RemovalPending, NothingLost
  <2> QED
    BY <2>4, <2>5
<1>2. Init => RegistryInv /\ OnlineSetInv /\ PresenceInv
  <2>1. ASSUME Init PROVE \A u \in User : Cardinality(counted \cap ConnsOf(u)) >= 0
    BY <2>1, CountedCardinality DEF Init
  <2> QED
    BY <2>1 DEF Init, PresenceInv, CountedOnce, PresenceNeverOverstates, OnlineSetInv,
       JoinIsLocal, OnlineSetHasWitness, RegistryInv, NewJoinedNothing, NothingToDo,
       RegistryMatchesConnections
<1> QED
  BY <1>1, <1>2, RegistryStep, OnlineSetStep, PresenceStep, AccountCorrect,
     TypeInvCorrect, PTL DEF Spec

-----------------------------------------------------------------------------
(* Several tabs of a user in one room.                                     *)

\* c's SADD for r is still to come.
Adding(c, r) == pc[c] \in {"sadd", "resadd"} /\ cur[c] = r

\* c explains why its user is missing from the online set of r.
Left(c, r) == pc[c] # "new" /\ (c \notin rooms[r] \/ (pc[c] = "sadd" /\ cur[c] = r))

\* SREM is reached by connections that are not in the room's map any more.
LeaveIsLocal == \A c \in Conn : pc[c] = "srem" => c \notin rooms[cur[c]]

UnlistedInv == LeaveIsLocal /\ UnlistedHasLeaver

\* What it takes to preserve UnlistedHasLeaver: an entry that goes, and a leaver
\* that comes back, are explained; who enters a room adds its user.
LEMMA UnlistedFrame ==
  ASSUME UnlistedHasLeaver, rooms' \in [Room -> SUBSET Conn], faults' = 0 => faults = 0,
         faults' = 0 => \A r \in Room : \A u \in onlineUsers[r] :
           u \in onlineUsers'[r] \/ \E d \in ConnsOf(u) : Left(d, r)',
         faults' = 0 => \A c \in Conn, r \in Room :
           /\ c \in rooms'[r] => c \in rooms[r] \/ Adding(c, r)'
           /\ Adding(c, r) => Adding(c, r)' \/ Owner[c] \in onlineUsers'[r]
           /\ Left(c, r) => Left(c, r)' \/ Owner[c] \in onlineUsers'[r]
  PROVE  UnlistedHasLeaver'
<1> SUFFICES ASSUME faults' = 0, NEW r \in Room, NEW c \in Conn, c \in rooms'[r],
                    Owner[c] \notin onlineUsers'[r], ~Adding(c, r)'
             PROVE  \E d \in ConnsOf(Owner[c]) \ {c} : Left(d, r)'
  BY DEF UnlistedHasLeaver, Adding, Left, ConnsOf
<1>1. ~Left(c, r)'
  BY DEF Left, Adding
<1>2. c \in rooms[r] /\ ~Adding(c, r) /\ faults = 0
  OBVIOUS
<1>3. CASE Owner[c] \in onlineUsers[r]
  BY <1>1, <1>3
<1>4. CASE Owner[c] \notin onlineUsers[r]
  <2>1. PICK d \in ConnsOf(Owner[c]) \ {c} : Left(d, r)
    BY <1>2, <1>4 DEF UnlistedHasLeaver, Adding, Left
  <2>2. d \in Conn /\ Owner[d] = Owner[c]
    BY DEF ConnsOf
  <2> QED
    BY <2>1, <2>2
<1> QED
  BY <1>3, <1>4

\* Every step without a fault keeps an explanation for everybody who is missing.
LEMMA UnlistedStep ==
  TypeInv /\ RegistryInv /\ JoinIsLocal /\ UnlistedInv /\ [Next]_vars => UnlistedInv'
<1> SUFFICES ASSUME TypeInv, RegistryInv, JoinIsLocal, UnlistedInv, [Next]_vars
             PROVE  UnlistedInv'
  OBVIOUS
<1>a. faults' = 0 /\ Fault => FALSE
  BY DEF Fault, TypeInv, TypeOK
<1>b. TypeOK'
  BY TypeStep DEF TypeInv
<1> DEFINE Kept ==
      /\ faults' = 0 => faults = 0
      /\ faults' = 0 => \A r \in Room : \A u \in onlineUsers[r] :
           u \in onlineUsers'[r] \/ \E d \in ConnsOf(u) : Left(d, r)'
      /\ faults' = 0 => \A c \in Conn, r \in Room :
           /\ c \in rooms'[r] => c \in rooms[r] \/ Adding(c, r)'
           /\ Adding(c, r) => Adding(c, r)' \/ Owner[c] \in onlineUsers'[r]
           /\ Left(c, r) => Left(c, r)' \/ Owner[c] \in onlineUsers'[r]
<1>0. ASSUME LeaveIsLocal', Kept PROVE UnlistedInv'
  BY <1>0, <1>b, UnlistedFrame DEF UnlistedInv, TypeOK
<1> USE DEF TypeInv, TypeOK, UnlistedInv, LeaveIsLocal, Goto, Adding, Left
<1>1. ASSUME NEW c \in Conn, Register(c) PROVE LeaveIsLocal' /\ Kept
  BY <1>1 DEF Register
<1>2. ASSUME NEW c \in Conn, NEW q \in Room, JoinLocal(c, q)
      PROVE  LeaveIsLocal' /\ Kept
  BY <1>2 DEF JoinLocal
<1>3. ASSUME NEW c \in Conn, NEW q \in Room, LeaveLocal(c, q)
      PROVE  LeaveIsLocal' /\ Kept
  BY <1>3 DEF LeaveLocal
<1>4. ASSUME NEW c \in Conn, SAdd(c) PROVE LeaveIsLocal' /\ Kept
  <2>1. faults' = 0 =>
          faults = 0 /\ onlineUsers' = [onlineUsers EXCEPT ![cur[c]] = @ \cup {Owner[c]}]
    BY <1>4, <1>a DEF SAdd
  <2>2. cur[c] \in Room
    BY <1>4 DEF SAdd, CommandHasRoom
  <2> QED
    BY <1>4, <2>1, <2>2 DEF SAdd
<1>5. ASSUME NEW c \in Conn, MarkOnline(c) \/ RejoinReply(c) \/ Wedge(c)
      PROVE  LeaveIsLocal' /\ Kept
  BY <1>5, <1>a DEF MarkOnline, RejoinReply, Wedge
<1>6. ASSUME NEW c \in Conn, ReadCount(c) \/ PublishCount(c)
      PROVE  LeaveIsLocal' /\ Kept
  BY <1>6, <1>a DEF ReadCount, PublishCount
<1>7. ASSUME NEW c \in Conn, Unregister(c) PROVE LeaveIsLocal' /\ Kept
  <2>1. /\ pc[c] = "idle" /\ pc' = [pc EXCEPT ![c] = "cleanup"]
        /\ rooms' = [r \in Room |-> rooms[r] \ {c}]
        /\ UNCHANGED <<cur, onlineUsers, faults>>
    BY <1>7 DEF Unregister
  <2>2. LeaveIsLocal'
    BY <2>1 DEF CommandHasRoom
  <2>3. ASSUME NEW d \in Conn, NEW r \in Room
        PROVE  /\ d \in rooms'[r] => d \in rooms[r]
               /\ Adding(d, r) => Adding(d, r)'
               /\ Left(d, r) => Left(d, r)'
    BY <2>1
  <2> QED
    BY <2>1, <2>2, <2>3
<1>8. ASSUME NEW c \in Conn, MarkOffline(c) \/ HDel(c) PROVE LeaveIsLocal' /\ Kept
  BY <1>8, <1>a DEF MarkOffline, HDel
<1>9. ASSUME NEW c \in Conn, NEW q \in Room, LeaveRoomOnlineSet(c, q), UNCHANGED rooms,
             c \notin rooms[q], pc[c] \in {"srem", "cleanup"},
             pc'[c] \in {"leaveReply", "cleanupCount"},
             \A d \in Conn \ {c} : pc'[d] = pc[d] /\ cur'[d] = cur[d]
      PROVE  LeaveIsLocal' /\ Kept
  <2>1. faults' = 0 =>
          faults = 0 /\ onlineUsers' = [onlineUsers EXCEPT ![q] = @ \ {Owner[c]}]
    BY <1>9, <1>a DEF LeaveRoomOnlineSet
  <2>2. c \in ConnsOf(Owner[c]) /\ Left(c, q)'
    BY <1>9 DEF ConnsOf
  <2>3. LeaveIsLocal'
    BY <1>9
  <2>4. ASSUME faults' = 0, NEW r \in Room, NEW u \in onlineUsers[r]
        PROVE  u \in onlineUsers'[r] \/ \E d \in ConnsOf(u) : Left(d, r)'
    BY <2>1, <2>2, <2>4
  <2>5. ASSUME NEW d \in Conn, NEW r \in Room
        PROVE  /\ d \in rooms'[r] => d \in rooms[r]
               /\ Adding(d, r) => Adding(d, r)'
               /\ Left(d, r) => Left(d, r)'
    BY <1>9
  <2> QED
    BY <2>1, <2>3, <2>4, <2>5
<1>10. ASSUME NEW c \in Conn, SRem(c) PROVE LeaveIsLocal' /\ Kept
  <2>1. cur[c] \in Room /\ c \notin rooms[cur[c]]
    BY <1>10 DEF SRem, CommandHasRoom
  <2> QED
    BY <1>9, <1>10, <2>1 DEF SRem
<1>11. ASSUME NEW c \in Conn, NEW q \in Room, CleanupSRem(c, q)
       PROVE  LeaveIsLocal' /\ Kept
  <2>1. c \notin rooms[q]
    BY <1>11 DEF CleanupSRem, RegistryInv, RegistryMatchesConnections
  <2> QED
    BY <1>9, <1>11, <2>1 DEF CleanupSRem
<1>12. ASSUME NEW i \in Instance, Crash(i) PROVE LeaveIsLocal' /\ Kept
  <2>1. faults' # 0
    BY <1>12, <1>a DEF Crash
  <2>2. ASSUME NEW c \in Conn, pc'[c] = "srem" PROVE c \notin rooms'[cur'[c]]
    <3>1. pc[c] = "srem" /\ cur'[c] = cur[c] /\ cur[c] \in Room
      BY <1>12, <2>2 DEF Crash, CommandHasRoom
    <3>2. rooms'[cur[c]] \subseteq rooms[cur[c]]
      BY <1>12, <3>1 DEF Crash
    <3> QED
      BY <3>1, <3>2
  <2> QED
    BY <2>1, <2>2
<1>13. CASE UNCHANGED vars
  <2>1. UNCHANGED <<pc, cur, rooms, onlineUsers, faults>>
    BY <1>13 DEF vars, local
  <2>2. LeaveIsLocal'
    BY <2>1
  <2>3. Kept
    BY <2>1
  <2> QED
    BY <1>0, <2>2, <2>3
<1> QED
  <2> HIDE DEF Kept
  <2> QED
    BY <1>0, <1>1, <1>2, <1>3, <1>4, <1>5, <1>6, <1>7, <1>8, <1>10, <1>11, <1>12, <1>13
    DEF Next, Progress, Environment

\* A user whose tabs are all in a room, with their SADD behind them, is listed
\* there, however the joins, leaves and ends of the tabs interleave
\* (hub.go: handleJoinRoom, handleLeaveRoom, leaveRoomOnlineSet, unregister).
THEOREM UnlistedCorrect == Spec => []UnlistedHasLeaver
<1>1. Init => RegistryInv /\ OnlineSetInv /\ UnlistedInv
  BY DEF Init, OnlineSetInv, JoinIsLocal, OnlineSetHasWitness, RegistryInv,
     NewJoinedNothing, NothingToDo, RegistryMatchesConnections, UnlistedInv,
     LeaveIsLocal, UnlistedHasLeaver
<1>2. OnlineSetInv => JoinIsLocal
  BY DEF OnlineSetInv
<1>3. UnlistedInv => UnlistedHasLeaver
  BY DEF UnlistedInv
<1> QED
  BY <1>1, <1>2, <1>3, RegistryStep, OnlineSetStep, UnlistedStep, TypeInvCorrect, PTL
     DEF Spec

-----------------------------------------------------------------------------
(* The interface of the hubs.                                              *)

\* The goroutines that only talk to Redis change nothing of the interface.
RedisStep(c) ==
  \/ MarkOnline(c) \/ SAdd(c) \/ RejoinReply(c) \/ SRem(c) \/ ReadCount(c)
  \/ PublishCount(c) \/ (\E r \in Room : CleanupSRem(c, r)) \/ MarkOffline(c) \/ HDel(c)

LEMMA RedisStepStutters ==
  ASSUME TypeInv, NEW c \in Conn, RedisStep(c)
  PROVE  UNCHANGED Hub!registryVars
<1> USE DEF TypeInv, TypeOK, Goto
<1>1. UNCHANGED rooms
  BY DEF RedisStep, MarkOnline, SAdd, RejoinReply, SRem, ReadCount, PublishCount,
     CleanupSRem, MarkOffline, HDel
<1>2. \A d \in Conn \ {c} : pc'[d] = pc[d]
  BY DEF RedisStep, MarkOnline, SAdd, RejoinReply, SRem, ReadCount, PublishCount,
     CleanupSRem, MarkOffline, HDel
<1>3. Life(c)' = Life(c)
  <2>1. CASE MarkOnline(c) \/ SAdd(c) \/ RejoinReply(c) \/ SRem(c) \/ ReadCount(c)
    BY <2>1 DEF MarkOnline, SAdd, RejoinReply, SRem, ReadCount, Life
  <2>2. CASE PublishCount(c) \/ (\E r \in Room : CleanupSRem(c, r))
    BY <2>2 DEF PublishCount, CleanupSRem, Life
  <2>3. CASE MarkOffline(c) \/ HDel(c)
    BY <2>3 DEF MarkOffline, HDel, Life
  <2> QED
    BY <2>1, <2>2, <2>3 DEF RedisStep
<1>4. \A d \in Conn : Life(d)' = Life(d)
  BY <1>2, <1>3 DEF Life
<1> QED
  BY <1>1, <1>4 DEF Hub!registryVars

\* Every critical section of a hub is a step of Registry.
LEMMA RegistryRefinementStep ==
  TypeInv /\ RegistryInv /\ [Next]_vars => [Hub!Next]_(Hub!registryVars)
<1> SUFFICES ASSUME TypeInv, RegistryInv, [Next]_vars
             PROVE  Hub!Next \/ UNCHANGED Hub!registryVars
  OBVIOUS
<1> USE DEF TypeInv, TypeOK, Goto
<1>1. ASSUME NEW c \in Conn, Register(c) PROVE Hub!Open(c)
  <2>1. Life(c) = "new" /\ Life(c)' = "open" /\ \A d \in Conn \ {c} : Life(d)' = Life(d)
    BY <1>1 DEF Register, Life
  <2> QED
    BY <1>1, <2>1 DEF Register, Hub!Open
<1>2. ASSUME NEW c \in Conn, NEW r \in Room, JoinLocal(c, r) \/ LeaveLocal(c, r)
      PROVE  Hub!Command(c)
  <2>1. Life(c) = "open" /\ \A d \in Conn : Life(d)' = Life(d)
    BY <1>2 DEF JoinLocal, LeaveLocal, Life
  <2>2. \/ rooms' = [rooms EXCEPT ![r] = @ \cup {c}]
        \/ rooms' = [rooms EXCEPT ![r] = @ \ {c}]
    BY <1>2 DEF JoinLocal, LeaveLocal
  <2> QED
    BY <2>1, <2>2 DEF Hub!Command
<1>3. ASSUME NEW c \in Conn, Wedge(c) PROVE Hub!Command(c)
  <2>1. Life(c) = "open" /\ Life(c)' = "stuck" /\ \A d \in Conn \ {c} : Life(d)' = Life(d)
    BY <1>3 DEF Wedge, Life
  <2> QED
    BY <1>3, <2>1 DEF Wedge, Hub!Command
<1>4. ASSUME NEW c \in Conn, Unregister(c) PROVE Hub!Close(c)
  <2>1. Life(c) = "open" /\ Life(c)' = "closed" /\ \A d \in Conn \ {c} : Life(d)' = Life(d)
    BY <1>4 DEF Unregister, Life
  <2> QED
    BY <1>4, <2>1 DEF Unregister, Hub!Close, Hub!Gone
<1>5. ASSUME NEW i \in Instance, Crash(i) PROVE \E S \in SUBSET Conn : Hub!End(S)
  <2> DEFINE lost == {c \in Conn : Host[c] = i /\ pc[c] \in Registered \cup CleaningUp}
             S == {c \in lost : pc[c] \in Registered}
  <2>1. /\ pc' = [c \in Conn |-> IF c \in lost THEN "dead" ELSE pc[c]]
        /\ rooms' = [r \in Room |-> rooms[r] \ lost]
    BY <1>5 DEF Crash
  <2>2. \A r \in Room : rooms[r] \ lost = rooms[r] \ S
    BY DEF RegistryInv, RegistryMatchesConnections
  <2>3. \A c \in S : Life(c) \in {"open", "stuck"} /\ Life(c)' = "closed"
    BY <2>1 DEF Life
  <2>4. \A c \in Conn \ S : Life(c)' = Life(c)
    BY <2>1 DEF Life
  <2> HIDE DEF lost, S
  <2>5. S \in SUBSET Conn
    BY DEF S, lost
  <2>6. Hub!End(S)
    BY <2>1, <2>2, <2>3, <2>4, <2>5 DEF Hub!End, Hub!Gone
  <2> QED
    BY <2>5, <2>6
<1>6. CASE UNCHANGED vars
  BY <1>6 DEF vars, local, Life, Hub!registryVars
<1>7. ASSUME NEW c \in Conn, RedisStep(c) PROVE UNCHANGED Hub!registryVars
  BY <1>7, RedisStepStutters
<1> QED
  BY <1>1, <1>2, <1>3, <1>4, <1>5, <1>6, <1>7
  DEF Next, Progress, Environment, RedisStep, Hub!Next

\* The hubs of all instances together implement Registry (hub.go: register,
\* handleJoinRoom, handleLeaveRoom, unregister).
THEOREM RegistryImplemented == Spec => ImplementsRegistry
<1>1. Init => RegistryInv /\ Hub!Init
  BY DEF Init, RegistryInv, NewJoinedNothing, NothingToDo, RegistryMatchesConnections,
     Hub!Init, Life
<1> QED
  BY <1>1, RegistryStep, RegistryRefinementStep, TypeInvCorrect, PTL
  DEF Spec, ImplementsRegistry, Hub!Spec
=============================================================================
