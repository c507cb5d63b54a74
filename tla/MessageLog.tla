----------------------------- MODULE MessageLog -----------------------------
(***************************************************************************)
(* What the delivery of chat messages promises (abstract specification).   *)
(* The sender of a message sees it pending and in the end confirmed or     *)
(* unconfirmed, and that is final.  The server stores a message at most    *)
(* once and posts it to the readers at most once, and only if it stored    *)
(* it.  A confirmation means the message is stored and, in a room, posted. *)
(* An unconfirmed message may be stored or not.                            *)
(***************************************************************************)
EXTENDS Naturals

CONSTANTS
  Msg,         \* messages, each with its own msg_id
  Direct       \* those sent to a friend; the others go to a room

VARIABLES
  phase,       \* what the sender sees of each message
  stored,      \* stored[m]: rows of m
  posted       \* posted[m]: times m was posted to its readers

logVars == <<phase, stored, posted>>

Init ==
  /\ phase = [m \in Msg |-> "new"]
  /\ stored = [m \in Msg |-> 0]
  /\ posted = [m \in Msg |-> 0]

Submit(m) ==
  /\ phase[m] = "new"
  /\ phase' = [phase EXCEPT ![m] = "pending"]
  /\ UNCHANGED <<stored, posted>>

Store(m) ==
  /\ phase[m] # "new" /\ stored[m] = 0
  /\ stored' = [stored EXCEPT ![m] = 1]
  /\ UNCHANGED <<phase, posted>>

Post(m) ==
  /\ stored[m] = 1 /\ posted[m] = 0
  /\ posted' = [posted EXCEPT ![m] = 1]
  /\ UNCHANGED <<phase, stored>>

Confirm(m) ==
  /\ phase[m] = "pending" /\ stored[m] = 1
  /\ m \in Direct \/ posted[m] = 1
  /\ phase' = [phase EXCEPT ![m] = "confirmed"]
  /\ UNCHANGED <<stored, posted>>

GiveUp(m) ==
  /\ phase[m] = "pending"
  /\ phase' = [phase EXCEPT ![m] = "unconfirmed"]
  /\ UNCHANGED <<stored, posted>>

Next == \E m \in Msg : Submit(m) \/ Store(m) \/ Post(m) \/ Confirm(m) \/ GiveUp(m)

Spec == Init /\ [][Next]_logVars
=============================================================================
