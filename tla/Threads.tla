------------------------------- MODULE Threads -------------------------------
(***************************************************************************)
(* What the database knows of a reader's threads: the rooms and the        *)
(* conversations with peers, their messages by time of creation, and the   *)
(* reader's cursor in each conversation (repository/message_repository.go, *)
(* direct_message_repository.go, conversation_repository.go).              *)
(*                                                                         *)
(* An INSERT's now() and its visibility are one step.                      *)
(***************************************************************************)
EXTENDS Naturals, FiniteSets

CONSTANTS
  Message,     \* messages that may be sent
  Thread,      \* rooms and conversations
  Room,        \* the threads that are rooms
  NoThread,    \* "no thread"
  Mine,        \* the messages the reader sends
  PageSize     \* messages in a page of history

ASSUME ThreadAssumption ==
  /\ Room \subseteq Thread
  /\ NoThread \notin Thread
  /\ Mine \subseteq Message
  /\ PageSize \in Nat \ {0}

VARIABLES
  to,          \* the thread a message is sent to
  createdAt,   \* created_at of a message, 0 before it is stored
  clock,       \* the time: it moves when a message is stored
  known,       \* table conversations: those that exist
  readAt       \* table conversation_read_cursors, 0 without a row

threads == <<to, createdAt, clock, known, readAt>>

ThreadsTypeOK ==
  /\ to \in [Message -> Thread \cup {NoThread}]
  /\ createdAt \in [Message -> Nat]
  /\ clock \in Nat
  /\ known \subseteq Thread \ Room
  /\ readAt \in [Thread -> Nat]
  /\ \A m \in Message : createdAt[m] <= clock
  /\ \A t \in Thread : readAt[t] <= clock

ThreadsInit ==
  /\ to = [m \in Message |-> NoThread]
  /\ createdAt = [m \in Message |-> 0]
  /\ clock = 0
  /\ known = {}
  /\ readAt = [t \in Thread |-> 0]

-----------------------------------------------------------------------------
In(t) == {m \in Message : createdAt[m] # 0 /\ to[m] = t}

\* The first page, newest first: all but those with PageSize newer ones.
ListByConversation(t) ==
  {m \in In(t) :
     Cardinality({n \in In(t) : createdAt[n] > createdAt[m]}) < PageSize}

\* The same query on the other table.
ListByRoom(t) ==
  {m \in In(t) :
     Cardinality({n \in In(t) : createdAt[n] > createdAt[m]}) < PageSize}

\* unread_count of ListByUser counts these.
Unread(t) == {m \in In(t) \ Mine : createdAt[m] > readAt[t]}

-----------------------------------------------------------------------------
\* GetOrCreate: the conversation is made by its first message.
GetOrCreate(m, t) ==
  /\ to' = [to EXCEPT ![m] = t]
  /\ known' = known \cup {t}
  /\ UNCHANGED <<createdAt, clock, readAt>>

\* created_at is the time of the insert.
Create(m) ==
  /\ clock' = clock + 1
  /\ createdAt' = [createdAt EXCEPT ![m] = clock']
  /\ UNCHANGED <<known, readAt>>

\* now(); the clock never falls back, and GREATEST would not let the cursor.
MarkRead(t) ==
  /\ readAt' = [readAt EXCEPT ![t] = clock]
  /\ UNCHANGED <<to, createdAt, clock, known>>
=============================================================================
