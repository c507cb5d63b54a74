----------------------------- MODULE Friendship -----------------------------
(***************************************************************************)
(* What the friendship service promises of a pair of users (abstract       *)
(* specification; service/friend_service.go, conversation_service.go).     *)
(* Two users become friends only by the acceptance of a request that is    *)
(* open between them, and stay so until one of them parts; a refusal ends  *)
(* no friendship.  Only users who have been friends talk, and what they    *)
(* opened stays.  Both may have asked, so an answer leaves the pair with a *)
(* request or without.                                                     *)
(***************************************************************************)
CONSTANT User

VARIABLES
  asked,       \* pairs with a request that nobody answered
  together,    \* pairs that are friends
  known,       \* pairs that were friends at some time
  talks        \* pairs with a conversation

pairVars == <<asked, together, known, talks>>

Couple == {{p[1], p[2]} : p \in {q \in User \X User : q[1] # q[2]}}

Init == asked = {} /\ together = {} /\ known = {} /\ talks = {}

Ask(p) ==
  /\ p \notin asked
  /\ asked' = asked \cup {p}
  /\ UNCHANGED <<together, known, talks>>

Answered(p) == p \in asked /\ asked' \in {asked, asked \ {p}}

Accept(p) ==
  /\ Answered(p)
  /\ together' = together \cup {p}
  /\ known' = known \cup {p}
  /\ UNCHANGED talks

Refuse(p) == Answered(p) /\ UNCHANGED <<together, known, talks>>

Part(p) ==
  /\ p \in together
  /\ together' = together \ {p}
  /\ UNCHANGED <<asked, known, talks>>

Talk(p) ==
  /\ p \in known
  /\ talks' = talks \cup {p}
  /\ UNCHANGED <<asked, together, known>>

Next == \E p \in Couple : Ask(p) \/ Accept(p) \/ Refuse(p) \/ Part(p) \/ Talk(p)

Spec == Init /\ [][Next]_pairVars
=============================================================================
