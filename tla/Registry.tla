------------------------------ MODULE Registry ------------------------------
(***************************************************************************)
(* What the hub (server/internal/ws/hub.go) promises of its connections    *)
(* and rooms (abstract specification), and what HubSession, HubDispatch    *)
(* and Delivery, which look at the hub from three sides, each implement.   *)
(* A connection is opened once.  While it is open its commands change its  *)
(* own membership of one room at a time.  A connection may get stuck; then *)
(* only the end of its process takes it out.  A connection that is closed  *)
(* leaves all rooms in the same step and never comes back to one.          *)
(***************************************************************************)
CONSTANTS
  Conn,        \* connections
  Room         \* room ids

VARIABLES
  life,        \* what has become of each connection
  members      \* members[r]: connections in room r

registryVars == <<life, members>>

Init ==
  /\ life = [c \in Conn |-> "new"]
  /\ members = [r \in Room |-> {}]

Open(c) ==
  /\ life[c] = "new"
  /\ life' = [life EXCEPT ![c] = "open"]
  /\ UNCHANGED members

\* A command is executed, or a frame delivered; waiting to answer, c may get stuck.
Command(c) ==
  /\ life[c] = "open"
  /\ \/ UNCHANGED members
     \/ \E r \in Room : \/ members' = [members EXCEPT ![r] = @ \cup {c}]
                        \/ members' = [members EXCEPT ![r] = @ \ {c}]
  /\ life' \in {life, [life EXCEPT ![c] = "stuck"]}

\* The connections of S are closed and have left every room.
Gone(S) ==
  /\ life' = [c \in Conn |-> IF c \in S THEN "closed" ELSE life[c]]
  /\ members' = [r \in Room |-> members[r] \ S]

Close(c) == life[c] = "open" /\ Gone({c})

\* A process ends with the connections it serves.
End(S) == (\A c \in S : life[c] \in {"open", "stuck"}) /\ Gone(S)

Next == \/ \E c \in Conn : Open(c) \/ Command(c) \/ Close(c)
        \/ \E S \in SUBSET Conn : End(S)

Spec == Init /\ [][Next]_registryVars
=============================================================================
