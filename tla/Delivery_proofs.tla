-------------------------- MODULE Delivery_proofs --------------------------
(***************************************************************************)
(* Proofs about Delivery, for every set of messages and every bound.  The  *)
(* inductive invariant Inv says what the tab and the server sides of the   *)
(* links know of each other; from it follow the invariants of the run and  *)
(* that Delivery implements MessageLog.                                    *)
(***************************************************************************)
EXTENDS Delivery, FiniteSetTheorems, SequenceTheorems, TLAPS

\* Every message of the frames s was submitted, with phases ph.
Sent(s, ph) == \A i \in 1..Len(s) : s[i] \in Msg => ph[s[i]] # "new"

-----------------------------------------------------------------------------
(* Frames on a link.                                                       *)

\* Replaying a set of messages puts a sequence of its members on the socket.
LEMMA Replayed ==
  ASSUME NEW S \in SUBSET Msg, NEW s \in SetToSeqs(S)
  PROVE  s \in Seq(Frame) /\ \A i \in 1..Len(s) : s[i] \in S
<1>1. IsFiniteSet(S)
  BY MsgAssumption, FS_Subset
<1>2. Cardinality(S) \in Nat
  BY <1>1, FS_CardinalityType
<1>3. s \in [1..Cardinality(S) -> S]
  BY DEF SetToSeqs
<1>4. s \in Seq(S)
  BY <1>2, <1>3, SeqDef
<1>5. S \subseteq Frame
  BY DEF Frame
<1> QED
  BY <1>4, <1>5, ElementOfSeq, SeqMonotonic

\* Appending a submitted message or a page command.
LEMMA SentAppend ==
  ASSUME NEW s \in Seq(Frame), NEW f \in Frame, NEW ph, Sent(s, ph),
         f \in Msg => ph[f] # "new"
  PROVE  Append(s, f) \in Seq(Frame) /\ Sent(Append(s, f), ph)
BY AppendProperties DEF Sent

\* Reading the first frame.
LEMMA SentTail ==
  ASSUME NEW s \in Seq(Frame), s # <<>>, NEW ph, Sent(s, ph)
  PROVE  /\ Tail(s) \in Seq(Frame) /\ Sent(Tail(s), ph)
         /\ Head(s) \in Frame /\ (Head(s) \in Msg => ph[Head(s)] # "new")
<1>1. /\ Head(s) \in Frame /\ Tail(s) \in Seq(Frame) /\ Len(Tail(s)) = Len(s) - 1
      /\ \A i \in 1..Len(Tail(s)) : Tail(s)[i] = s[i + 1]
  BY HeadTailProperties
<1>2. Len(s) \in Nat /\ Len(s) # 0 /\ Head(s) = s[1]
  BY EmptySeq
<1> QED
  BY <1>1, <1>2 DEF Sent

\* Losing all but the first n frames.
LEMMA SentPrefix ==
  ASSUME NEW s \in Seq(Frame), NEW n \in 0..Len(s), NEW ph, Sent(s, ph)
  PROVE  SubSeq(s, 1, n) \in Seq(Frame) /\ Sent(SubSeq(s, 1, n), ph)
<1>1. Len(s) \in Nat /\ \A i \in 1..n : s[i] \in Frame
  BY ElementOfSeq, LenProperties
<1>2. /\ SubSeq(s, 1, n) \in Seq(Frame)
      /\ Len(SubSeq(s, 1, n)) = n
      /\ \A i \in 1..n : SubSeq(s, 1, n)[i] = s[i]
  BY <1>1, SubSeqProperties
<1> QED
  BY <1>1, <1>2 DEF Sent

\* What was submitted stays submitted.
LEMMA SentLater ==
  ASSUME NEW s \in Seq(Frame), NEW ph, NEW later, Sent(s, ph),
         \A m \in Msg : ph[m] # "new" => later[m] # "new"
  PROVE  Sent(s, later)
BY DEF Sent

-----------------------------------------------------------------------------
(* Types, counters and frames.                                             *)

\* Each transmission is an attempt, and a message not submitted has none.
Counted ==
  \A m \in Msg : frames[m] = attempts[m] /\ (phase[m] = "new" => attempts[m] = 0)

\* Only submitted messages are on a link.
UpSent == \A k \in Link : Sent(up[k], phase)

TabInv == TypeOK /\ Counted /\ UpSent

\* The initial state has the types, no attempts and empty links.
LEMMA TabInit == Init => TabInv
<1> SUFFICES ASSUME Init PROVE TabInv
  OBVIOUS
<1>1. <<>> \in Seq(Frame) /\ Len(<<>>) = 0
  BY EmptySeq
<1>2. up \in [Link -> Seq(Frame)]
  BY <1>1 DEF Init
<1>3. TypeOK
  <2>1. /\ 0 \in 0..MaxAttempts /\ 0 \in 0..MaxLink
        /\ served \subseteq 1..link /\ joined \subseteq served
    BY BoundAssumption DEF Init
  <2>2. /\ attempts \in [Msg -> 0..MaxAttempts] /\ link \in 0..MaxLink
        /\ bus \in [Link -> SUBSET Msg] /\ down \in [Link -> SUBSET Msg]
    BY <2>1 DEF Init
  <2> QED
    BY <1>2, <2>1, <2>2 DEF Init, TypeOK
<1>4. Counted /\ UpSent
  BY <1>1 DEF Init, Counted, UpSent, Sent
<1> QED
  BY <1>3, <1>4 DEF TabInv

\* A transmission on the open socket keeps counters and frames.
LEMMA TransmitStep ==
  ASSUME TabInv, NEW m \in Msg, link \in Link, attempts[m] < MaxAttempts, Transmit(m),
         phase'[m] # "new", \A n \in Msg \ {m} : phase'[n] = phase[n]
  PROVE  /\ attempts' \in [Msg -> 0..MaxAttempts] /\ frames' \in [Msg -> Nat]
         /\ up' \in [Link -> Seq(Frame)]
         /\ Counted' /\ UpSent'
<1>1. up \in [Link -> Seq(Frame)] /\ m \in Frame
  BY DEF Frame, TabInv, TypeOK
<1>2. \A n \in Msg : phase[n] # "new" => phase'[n] # "new"
  OBVIOUS
<1>3. ASSUME NEW k \in Link PROVE Sent(up[k], phase')
  <2>1. up[k] \in Seq(Frame) /\ Sent(up[k], phase)
    BY <1>1 DEF UpSent, TabInv
  <2> QED
    BY <2>1, <1>2 DEF Sent
<1>4. Append(up[link], m) \in Seq(Frame) /\ Sent(Append(up[link], m), phase')
  BY <1>1, <1>3, SentAppend
<1>5. up' \in [Link -> Seq(Frame)] /\ UpSent'
  BY <1>1, <1>3, <1>4 DEF UpSent, Transmit
<1>6. attempts' \in [Msg -> 0..MaxAttempts] /\ frames' \in [Msg -> Nat] /\ Counted'
  BY BoundAssumption DEF Counted, TabInv, TypeOK, Transmit
<1> QED
  BY <1>5, <1>6

\* Cutting the open socket keeps the types and the frames.
LEMMA CutStep ==
  ASSUME TabInv, link \in Link, CutLink, UNCHANGED phase
  PROVE  /\ open' \in BOOLEAN /\ page' \in BOOLEAN
         /\ up' \in [Link -> Seq(Frame)] /\ down' \in [Link -> SUBSET Msg]
         /\ UpSent'
<1> USE DEF TabInv, TypeOK
<1>1. up \in [Link -> Seq(Frame)]
  OBVIOUS
<1>2. PICK n \in 0..Len(up[link]) : up' = [up EXCEPT ![link] = SubSeq(up[link], 1, n)]
  BY DEF CutLink
<1>3. SubSeq(up[link], 1, n) \in Seq(Frame) /\ Sent(SubSeq(up[link], 1, n), phase)
  BY <1>1, SentPrefix DEF UpSent
<1> QED
  BY <1>1, <1>2, <1>3 DEF CutLink, UpSent

\* Reading a frame keeps the other frames; the frame read was submitted.
LEMMA ReadStep ==
  ASSUME TabInv, NEW k \in Link, NEW f, Reads(k, f), UNCHANGED phase
  PROVE  /\ up' \in [Link -> Seq(Frame)] /\ UpSent'
         /\ f \in Msg => phase[f] # "new"
<1> USE DEF TabInv, TypeOK
<1>1. up \in [Link -> Seq(Frame)]
  OBVIOUS
<1>2. /\ Tail(up[k]) \in Seq(Frame) /\ Sent(Tail(up[k]), phase)
      /\ Head(up[k]) \in Msg => phase[Head(up[k])] # "new"
  BY <1>1, SentTail DEF UpSent, Reads
<1> QED
  BY <1>1, <1>2 DEF Reads, UpSent

\* Replaying on a new socket keeps types, counters and frames.
LEMMA OnOpenStep == TabInv /\ OnOpen => TabInv'
<1> SUFFICES ASSUME TabInv, OnOpen PROVE TabInv'
  OBVIOUS
<1> USE DEF TabInv, TypeOK
<1> DEFINE replayed == {m \in Pending : attempts[m] < MaxAttempts}
           Bump(f)  == [m \in Msg |-> IF m \in replayed THEN f[m] + 1 ELSE f[m]]
<1>1. PICK s \in SetToSeqs(replayed) : up' = [up EXCEPT ![link + 1] = s]
  BY DEF OnOpen
<1>2. replayed \in SUBSET Msg
  BY DEF Pending
<1>3. s \in Seq(Frame) /\ \A i \in 1..Len(s) : s[i] \in replayed
  BY <1>1, <1>2, Replayed
<1>4. \A m \in replayed : phase[m] # "new" /\ attempts[m] < MaxAttempts
  BY DEF Pending
<1>5. up' \in [Link -> Seq(Frame)]
  BY <1>1, <1>3
<1>6. Sent(s, phase)
  BY <1>3, <1>4 DEF Sent
<1>7. UpSent'
  BY <1>1, <1>6 DEF OnOpen, UpSent
<1>8. attempts' = Bump(attempts) /\ frames' = Bump(frames) /\ UNCHANGED phase
  BY DEF OnOpen
<1> HIDE DEF replayed
<1>9. attempts' \in [Msg -> 0..MaxAttempts] /\ frames' \in [Msg -> Nat] /\ Counted'
  BY <1>4, <1>8, BoundAssumption DEF Counted
<1>10. /\ link' \in 0..MaxLink /\ open' \in BOOLEAN /\ page' \in BOOLEAN
       /\ served' \subseteq 1..link' /\ joined' \subseteq served'
  <2>1. /\ link' = link + 1 /\ link < MaxLink /\ open' = TRUE /\ page' = FALSE
        /\ served' = served \cup {link + 1} /\ joined' = joined
    BY DEF OnOpen
  <2>2. link \in Nat /\ MaxLink \in Nat
    BY BoundAssumption
  <2>3. 1..link \subseteq 1..link' /\ link + 1 \in 1..link' /\ link' \in 0..MaxLink
    BY <2>1, <2>2
  <2> QED
    BY <2>1, <2>3
<1>11. timer' \in [Msg -> BOOLEAN]
  BY DEF OnOpen
<1> QED
  BY <1>5, <1>7, <1>9, <1>10, <1>11 DEF OnOpen

\* Every step of the tab keeps types, counters and frames.
LEMMA TabTabStep == TabInv /\ TabStep /\ (open => link \in Link) => TabInv'
<1> SUFFICES ASSUME TabInv, TabStep, open => link \in Link PROVE TabInv'
  OBVIOUS
<1>1. ASSUME NEW m \in Msg, SendReliable(m) PROVE TabInv'
  <2>1. /\ phase' \in [Msg -> {"new", "pending", "confirmed", "unconfirmed"}]
        /\ timer' \in [Msg -> BOOLEAN] /\ phase'[m] = "pending" /\ phase[m] = "new"
        /\ \A n \in Msg \ {m} : phase'[n] = phase[n]
    BY <1>1 DEF SendReliable, TabInv, TypeOK
  <2>2. CASE open
    <3>1. attempts[m] < MaxAttempts
      BY <2>1, BoundAssumption DEF TabInv, Counted
    <3>2. Transmit(m)
      BY <1>1, <2>2 DEF SendReliable
    <3>3. /\ attempts' \in [Msg -> 0..MaxAttempts] /\ frames' \in [Msg -> Nat]
          /\ up' \in [Link -> Seq(Frame)]
          /\ Counted' /\ UpSent'
      BY <2>1, <2>2, <3>1, <3>2, TransmitStep
    <3> QED
      BY <1>1, <2>1, <3>3 DEF SendReliable, TabInv, TypeOK, server
  <2>3. CASE ~open
    <3>1. Counted'
      BY <1>1, <2>1, <2>3 DEF SendReliable, TabInv, Counted
    <3>2. UpSent'
      BY <1>1, <2>1, <2>3 DEF SendReliable, TabInv, UpSent, Sent
    <3> QED
      BY <1>1, <2>1, <2>3, <3>1, <3>2 DEF SendReliable, TabInv, TypeOK, server
  <2> QED
    BY <2>2, <2>3
<1>2. ASSUME NEW m \in Msg, RetryTimer(m) PROVE TabInv'
  <2>1. CASE attempts[m] < MaxAttempts
    <3>1. open /\ Transmit(m) /\ phase' = phase /\ phase[m] = "pending"
      BY <1>2, <2>1, BoundAssumption DEF RetryTimer, TabInv, TypeOK
    <3>2. /\ attempts' \in [Msg -> 0..MaxAttempts] /\ frames' \in [Msg -> Nat]
          /\ up' \in [Link -> Seq(Frame)]
          /\ Counted' /\ UpSent'
      BY <2>1, <3>1, TransmitStep
    <3> QED
      BY <1>2, <2>1, <3>1, <3>2, BoundAssumption DEF RetryTimer, TabInv, TypeOK, server
  <2>2. CASE ~(attempts[m] < MaxAttempts)
    <3>1. /\ phase' = [phase EXCEPT ![m] = "unconfirmed"] /\ phase[m] = "pending"
          /\ UNCHANGED <<attempts, frames, up>>
      BY <1>2, <2>2 DEF RetryTimer
    <3>2. Counted' /\ UpSent'
      BY <3>1 DEF TabInv, TypeOK, Counted, UpSent, Sent
    <3> QED
      BY <1>2, <2>2, <3>1, <3>2 DEF RetryTimer, TabInv, TypeOK, server
  <2> QED
    BY <2>1, <2>2
<1>3. ASSUME NEW m \in Msg, OnMessage(m) PROVE TabInv'
  <2>1. Counted' /\ UpSent'
    BY <1>3 DEF OnMessage, TabInv, TypeOK, Counted, UpSent, Sent
  <2> QED
    BY <1>3, <2>1 DEF OnMessage, TabInv, TypeOK, server
<1>4. CASE OnOpen
  BY <1>4, OnOpenStep
<1>5. CASE PageEffect
  <2> DEFINE f == IF page THEN "leave" ELSE "join"
  <2>1. /\ f \in Frame /\ f \notin Msg
    BY MsgAssumption DEF Frame
  <2>2. open /\ up' = [up EXCEPT ![link] = Append(up[link], f)] /\ UNCHANGED phase
    BY <1>5 DEF PageEffect
  <2> HIDE DEF f
  <2>3. up[link] \in Seq(Frame) /\ Sent(up[link], phase)
    BY <2>2 DEF TabInv, TypeOK, UpSent
  <2>4. Append(up[link], f) \in Seq(Frame) /\ Sent(Append(up[link], f), phase)
    BY <2>1, <2>3, SentAppend
  <2>5. up' \in [Link -> Seq(Frame)] /\ UpSent' /\ Counted'
    BY <1>5, <2>2, <2>4 DEF PageEffect, TabInv, TypeOK, UpSent, Counted
  <2> QED
    BY <1>5, <2>5 DEF PageEffect, TabInv, TypeOK, server
<1>6. CASE OnClose
  <2>1. /\ open' \in BOOLEAN /\ page' \in BOOLEAN
        /\ up' \in [Link -> Seq(Frame)] /\ down' \in [Link -> SUBSET Msg]
        /\ UpSent'
    BY <1>6, CutStep DEF OnClose
  <2> QED
    BY <1>6, <2>1 DEF OnClose, TabInv, TypeOK, Counted, server
<1>7. CASE Reload
  <2>1. /\ open' \in BOOLEAN /\ page' \in BOOLEAN
        /\ up' \in [Link -> Seq(Frame)] /\ down' \in [Link -> SUBSET Msg]
        /\ UpSent'
    <3>1. CASE open
      BY <1>7, <3>1, CutStep DEF Reload
    <3>2. CASE ~open
      BY <1>7, <3>2 DEF Reload, TabInv, TypeOK, UpSent, Sent
    <3> QED
      BY <3>1, <3>2
  <2> QED
    BY <1>7, <2>1 DEF Reload, TabInv, TypeOK, Counted, Pending, server
<1> QED
  BY <1>1, <1>2, <1>3, <1>4, <1>5, <1>6, <1>7 DEF TabStep

\* An open socket is one of the links.
OpenLink == open => link \in Link

\* Sockets are opened within the bound, and only the last one is open.
LEMMA LinkStep == TypeOK /\ OpenLink /\ [Next]_vars => OpenLink'
<1> SUFFICES ASSUME TypeOK, OpenLink, [Next]_vars PROVE OpenLink'
  OBVIOUS
<1>1. CASE OnOpen
  <2>1. link' = link + 1 /\ link \in Nat /\ link < MaxLink /\ MaxLink \in Nat
    BY <1>1, BoundAssumption DEF OnOpen, TypeOK
  <2> QED
    BY <2>1 DEF OpenLink, Link
<1>2. ASSUME NEW m \in Msg, SendReliable(m) \/ RetryTimer(m) \/ OnMessage(m)
      PROVE OpenLink'
  BY <1>2 DEF SendReliable, RetryTimer, OnMessage, OpenLink
<1>3. CASE PageEffect \/ OnClose \/ Reload
  BY <1>3 DEF PageEffect, OnClose, Reload, CutLink, OpenLink
<1>4. ASSUME NEW k \in Link, ServerStep(k) PROVE OpenLink'
  BY <1>4 DEF ServerStep, JoinOrLeave, Publish, PublishToTarget, ReadPumpExit, Crash,
              Create, Dispatch, OpenLink, tab
<1>5. CASE UNCHANGED vars
  BY <1>5 DEF vars, tab, OpenLink
<1> QED
  BY <1>1, <1>2, <1>3, <1>4, <1>5 DEF Next, TabStep

-----------------------------------------------------------------------------
(* Rows, posts and echoes.                                                 *)

\* A message is stored at most once, and posted at most once and only if stored.
Rows == \A m \in Msg : /\ stored[m] \in 0..1 /\ posted[m] \in 0..1
                       /\ posted[m] = 1 => stored[m] = 1

\* The message a readPump is publishing is stored and not posted.
InHand ==
  \A k \in Link : doing[k] # "idle" =>
    /\ inHand[k] \in Msg /\ stored[inHand[k]] = 1 /\ posted[inHand[k]] = 0
    /\ doing[k] = "push" => inHand[k] \in Direct

\* No two readPumps publish the same message.
InHandUnique ==
  \A j, k \in Link : doing[j] # "idle" /\ doing[k] # "idle" /\ inHand[j] = inHand[k]
                      => j = k

\* An echo is of a stored message, and in a room of a posted one.
Earned(m) == stored[m] = 1 /\ (m \in Direct \/ posted[m] = 1)
EchoSound == \A k \in Link : \A m \in bus[k] \cup down[k] : Earned(m)

LogInv == Rows /\ InHand /\ InHandUnique /\ EchoSound /\ StoredIsPosted

\* Every step of the server keeps types, counters and frames.
LEMMA TabServerStep ==
  ASSUME TabInv, InHand, OpenLink, NEW k \in Link, ServerStep(k) PROVE TabInv'
<1> USE DEF TabInv, tab
<1>1. Counted'
  BY DEF ServerStep, JoinOrLeave, Publish, PublishToTarget, ReadPumpExit, Crash,
         Create, Dispatch, Counted
<1>2. UNCHANGED phase
  BY DEF ServerStep, JoinOrLeave, Publish, PublishToTarget, ReadPumpExit, Crash,
         Create, Dispatch
<1>3. CASE JoinOrLeave(k)
  <2>1. PICK f \in {"join", "leave"} : Reads(k, f)
    BY <1>3 DEF JoinOrLeave
  <2>2. up' \in [Link -> Seq(Frame)] /\ UpSent'
    BY <1>2, <2>1, ReadStep
  <2> QED
    BY <1>1, <1>3, <2>2 DEF JoinOrLeave, Reads, TypeOK
<1>4. ASSUME NEW m \in Msg, Create(k, m) PROVE TabInv'
  <2>1. up' \in [Link -> Seq(Frame)] /\ UpSent'
    BY <1>2, <1>4, ReadStep DEF Create
  <2>2. stored' \in [Msg -> Nat]
    BY <1>4 DEF Create, TypeOK
  <2>3. /\ doing' \in [Link -> {"idle", "publish", "push"}]
        /\ inHand' \in [Link -> Msg \cup {NoMsg}]
    <3>1. CASE UNCHANGED <<doing, inHand>>
      BY <3>1 DEF TypeOK
    <3>2. CASE Goto(k, "publish", m)
      BY <3>2 DEF Goto, TypeOK
    <3> QED
      BY <1>4, <3>1, <3>2 DEF Create
  <2> QED
    BY <1>1, <1>4, <2>1, <2>2, <2>3 DEF Create, TypeOK
<1>5. CASE Publish(k)
  <2>1. UpSent'
    BY <1>2, <1>5 DEF Publish, UpSent, Sent
  <2>2. inHand[k] \in Msg
    BY <1>5 DEF Publish, InHand
  <2>3. bus' \in [Link -> SUBSET Msg]
    BY <1>5, <2>2 DEF Publish, Echo, TypeOK
  <2>4. posted[inHand[k]] + 1 \in Nat
    BY <2>2 DEF TypeOK
  <2>5. posted' \in [Msg -> Nat] /\ lost' \subseteq Msg
    BY <1>5, <2>2, <2>4 DEF Publish, TypeOK
  <2>6. /\ doing' \in [Link -> {"idle", "publish", "push"}]
        /\ inHand' \in [Link -> Msg \cup {NoMsg}]
    BY <1>5, <2>2 DEF Publish, Goto, TypeOK
  <2> QED
    BY <1>1, <1>5, <2>1, <2>3, <2>5, <2>6 DEF Publish, TypeOK
<1>6. CASE PublishToTarget(k)
  <2>1. UpSent'
    BY <1>2, <1>6 DEF PublishToTarget, UpSent, Sent
  <2>2. inHand[k] \in Msg
    BY <1>6 DEF PublishToTarget, InHand
  <2>3. posted[inHand[k]] + 1 \in Nat
    BY <2>2 DEF TypeOK
  <2>4. posted' \in [Msg -> Nat] /\ lost' \subseteq Msg
    BY <1>6, <2>2, <2>3 DEF PublishToTarget, TypeOK
  <2>5. /\ doing' \in [Link -> {"idle", "publish", "push"}]
        /\ inHand' \in [Link -> Msg \cup {NoMsg}]
    BY <1>6 DEF PublishToTarget, Goto, TypeOK
  <2> QED
    BY <1>1, <1>6, <2>1, <2>4, <2>5 DEF PublishToTarget, TypeOK
<1>7. ASSUME NEW m \in Msg, Dispatch(k, m) PROVE TabInv'
  <2>1. UpSent'
    BY <1>2, <1>7 DEF Dispatch, UpSent, Sent
  <2>2. bus[k] \ {m} \in SUBSET Msg /\ down[k] \cup {m} \in SUBSET Msg
    BY DEF TypeOK
  <2>3. bus' \in [Link -> SUBSET Msg]
    BY <1>7, <2>2 DEF Dispatch, TypeOK
  <2>4. down' \in [Link -> SUBSET Msg]
    BY <1>7, <2>2 DEF Dispatch, TypeOK
  <2> QED
    BY <1>1, <1>7, <2>1, <2>3, <2>4 DEF Dispatch, TypeOK, server
<1>8. CASE ReadPumpExit(k)
  <2>1. UpSent'
    BY <1>2, <1>8 DEF ReadPumpExit, UpSent, Sent
  <2>2. served' \subseteq 1..link' /\ joined' \subseteq served'
    BY <1>8 DEF ReadPumpExit, TypeOK
  <2> QED
    BY <1>1, <1>8, <2>1, <2>2 DEF ReadPumpExit, TypeOK
<1>9. CASE Crash(k)
  <2>1. <<>> \in Seq(Frame) /\ Len(<<>>) = 0
    BY EmptySeq
  <2>2. up' = [up EXCEPT ![k] = <<>>]
    BY <1>9 DEF Crash
  <2>3. up' \in [Link -> Seq(Frame)] /\ UpSent'
    BY <1>2, <2>1, <2>2 DEF UpSent, Sent, TypeOK
  <2>4. lost' \subseteq Msg
    BY <1>9 DEF Crash, InHand, TypeOK
  <2>5. /\ doing' \in [Link -> {"idle", "publish", "push"}]
        /\ inHand' \in [Link -> Msg \cup {NoMsg}]
        /\ bus' \in [Link -> SUBSET Msg] /\ down' \in [Link -> SUBSET Msg]
        /\ open' \in BOOLEAN /\ page' \in BOOLEAN
    BY <1>9 DEF Crash, Goto, TypeOK
  <2> QED
    BY <1>1, <1>9, <2>3, <2>4, <2>5 DEF Crash, TypeOK
<1> QED
  BY <1>3, <1>4, <1>5, <1>6, <1>7, <1>8, <1>9 DEF ServerStep

\* Initially nothing is stored, in hand or on its way.
LEMMA LogInit == Init => LogInv
BY DEF Init, LogInv, Rows, InHand, InHandUnique, EchoSound, StoredIsPosted

\* A step that leaves the server alone and adds no echo keeps its invariant.
LEMMA LogKept ==
  ASSUME LogInv, UNCHANGED <<doing, inHand, stored, posted, lost>>,
         \A k \in Link : bus'[k] \cup down'[k] \subseteq bus[k] \cup down[k]
  PROVE  LogInv'
BY DEF LogInv, Rows, InHand, InHandUnique, EchoSound, Earned, StoredIsPosted

\* The tab only consumes echoes.
LEMMA LogTabStep == TabInv /\ LogInv /\ TabStep => LogInv'
<1> SUFFICES ASSUME TabInv, LogInv, TabStep PROVE LogInv'
  OBVIOUS
<1>1. UNCHANGED <<doing, inHand, stored, posted, lost, bus>>
  BY DEF TabStep, SendReliable, RetryTimer, OnMessage, OnOpen, PageEffect, OnClose,
         Reload, server
<1>2. \A k \in Link : down'[k] \subseteq down[k]
  <2>1. UNCHANGED down \/ down' = [down EXCEPT ![link] = {}]
        \/ \E m \in Msg : down' = [down EXCEPT ![link] = down[link] \ {m}]
    BY DEF TabStep, SendReliable, RetryTimer, OnMessage, OnOpen, PageEffect, OnClose,
           Reload, CutLink
  <2> QED
    BY <2>1 DEF TabInv, TypeOK
<1> QED
  BY <1>1, <1>2, LogKept

\* Storing a message: it was in nobody's hand, not posted and not echoed.
LEMMA LogCreate ==
  ASSUME TabInv, LogInv, NEW k \in Link, NEW m \in Msg, Create(k, m) PROVE LogInv'
<1> USE DEF LogInv
<1>1. UNCHANGED <<posted, bus, down>> /\ doing[k] = "idle"
  BY DEF Create, Reads
<1>2. CASE UNCHANGED <<doing, inHand, stored, lost>>
  BY <1>1, <1>2, LogKept
<1>3. CASE /\ stored[m] = 0 /\ stored' = [stored EXCEPT ![m] = 1]
           /\ Goto(k, "publish", m) /\ UNCHANGED lost
  <2>1. /\ doing'[k] = "publish" /\ inHand'[k] = m
        /\ \A j \in Link \ {k} : doing'[j] = doing[j] /\ inHand'[j] = inHand[j]
    BY <1>3 DEF Goto, TabInv, TypeOK
  <2>2. stored'[m] = 1 /\ \A n \in Msg \ {m} : stored'[n] = stored[n]
    BY <1>3 DEF TabInv, TypeOK
  <2>3. posted[m] = 0
    BY <1>3 DEF Rows
  <2>4. \A j \in Link : doing[j] # "idle" => inHand[j] # m
    BY <1>3 DEF InHand
  <2>5. Rows'
    BY <1>1, <2>2 DEF Rows
  <2>6. InHand'
    BY <1>1, <2>1, <2>2, <2>3 DEF InHand
  <2>7. InHandUnique'
    BY <2>1, <2>4 DEF InHandUnique
  <2>8. EchoSound'
    BY <1>1, <1>3, <2>2 DEF EchoSound, Earned, TabInv, TypeOK
  <2>9. StoredIsPosted'
    BY <1>1, <1>3, <2>1, <2>2 DEF StoredIsPosted
  <2> QED
    BY <2>5, <2>6, <2>7, <2>8, <2>9
<1>4. CASE /\ stored[m] = 0 /\ stored' = [stored EXCEPT ![m] = 1]
           /\ lost' = lost \cup {m} /\ UNCHANGED <<doing, inHand>>
  <2>1. stored'[m] = 1 /\ \A n \in Msg \ {m} : stored'[n] = stored[n]
    BY <1>4 DEF TabInv, TypeOK
  <2>2. \A j \in Link : doing[j] # "idle" => inHand[j] # m
    BY <1>4 DEF InHand
  <2>3. Rows' /\ InHand' /\ InHandUnique'
    BY <1>1, <1>4, <2>1, <2>2 DEF Rows, InHand, InHandUnique
  <2>4. EchoSound'
    BY <1>1, <1>4, <2>1 DEF EchoSound, Earned, TabInv, TypeOK
  <2>5. StoredIsPosted'
    BY <1>1, <1>4, <2>1 DEF StoredIsPosted
  <2> QED
    BY <2>3, <2>4, <2>5
<1> QED
  BY <1>2, <1>3, <1>4 DEF Create

\* A readPump lets go of its message, which it has posted or lost.
LEMMA LogRelease ==
  ASSUME TabInv, LogInv, NEW k \in Link, doing[k] # "idle", Goto(k, "idle", NoMsg),
         UNCHANGED stored, lost \subseteq lost',
         \/ posted' = [posted EXCEPT ![inHand[k]] = @ + 1]
         \/ inHand[k] \in lost' /\ UNCHANGED posted
  PROVE  /\ Rows' /\ InHand' /\ InHandUnique' /\ StoredIsPosted'
         /\ \A m \in Msg : Earned(m) => Earned(m)'
<1> USE DEF LogInv
<1> DEFINE m == inHand[k]
<1>1. m \in Msg /\ stored[m] = 1 /\ posted[m] = 0
  BY DEF InHand
<1>2. /\ doing'[k] = "idle"
      /\ \A j \in Link \ {k} : doing'[j] = doing[j] /\ inHand'[j] = inHand[j]
  BY DEF Goto, TabInv, TypeOK
<1>3. /\ posted'[m] = 1 \/ (m \in lost' /\ posted'[m] = 0)
      /\ \A n \in Msg \ {m} : posted'[n] = posted[n]
  BY <1>1 DEF TabInv, TypeOK
<1>4. \A j \in Link \ {k} : doing[j] # "idle" => inHand[j] # m
  BY DEF InHandUnique
<1> HIDE DEF m
<1>5. Rows'
  BY <1>1, <1>3 DEF Rows
<1>6. InHand'
  BY <1>2, <1>3, <1>4 DEF InHand
<1>7. InHandUnique'
  BY <1>2 DEF InHandUnique
<1>8. StoredIsPosted'
  <2> SUFFICES ASSUME NEW n \in Msg, stored[n] > 0, posted'[n] = 0, n \notin lost'
               PROVE  \E j \in Link : doing'[j] # "idle" /\ inHand'[j] = n
    BY DEF StoredIsPosted
  <2>1. n # m
    BY <1>3
  <2>2. posted[n] = 0
    BY <1>3, <2>1
  <2>3. PICK j \in Link : doing[j] # "idle" /\ inHand[j] = n
    BY <2>2 DEF StoredIsPosted
  <2>4. j # k
    BY <2>1, <2>3 DEF m
  <2> QED
    BY <1>2, <2>3, <2>4
<1>9. \A n \in Msg : Earned(n) => Earned(n)'
  BY <1>1, <1>3 DEF Earned
<1> QED
  BY <1>5, <1>6, <1>7, <1>8, <1>9

\* Publishing to the room, or a direct message's echo to its sender.
LEMMA LogPublish ==
  ASSUME TabInv, LogInv, NEW k \in Link, Publish(k) PROVE LogInv'
<1> USE DEF LogInv
<1>1. PICK m \in Msg : /\ m = inHand[k] /\ stored[m] = 1 /\ posted[m] = 0
                      /\ doing[k] = "publish"
  BY DEF InHand, Publish
<1>2. UNCHANGED <<stored, down>>
  BY DEF Publish
<1>3. ASSUME Earned(m)', \A n \in Msg : Earned(n) => Earned(n)', Echo(m) \/ UNCHANGED bus
      PROVE  EchoSound'
  BY <1>2, <1>3 DEF EchoSound, Echo, TabInv, TypeOK
<1>4. CASE m \notin Direct
  <2>1. /\ Goto(k, "idle", NoMsg)
        /\ \/ Echo(m) /\ posted' = [posted EXCEPT ![m] = @ + 1] /\ UNCHANGED lost
           \/ lost' = lost \cup {m} /\ UNCHANGED <<bus, posted>>
    BY <1>1, <1>4 DEF Publish
  <2>2. /\ Rows' /\ InHand' /\ InHandUnique' /\ StoredIsPosted'
        /\ \A n \in Msg : Earned(n) => Earned(n)'
    BY <1>1, <1>2, <2>1, LogRelease
  <2>3. CASE Echo(m) /\ posted' = [posted EXCEPT ![m] = @ + 1]
    <3>1. Earned(m)'
      BY <1>1, <1>2, <2>3 DEF Earned, TabInv, TypeOK
    <3> QED
      BY <1>3, <2>2, <2>3, <3>1
  <2>4. CASE UNCHANGED <<bus, posted>>
    BY <1>2, <2>2, <2>4 DEF EchoSound, Earned
  <2> QED
    BY <2>1, <2>3, <2>4
<1>5. CASE m \in Direct
  <2>1. Goto(k, "push", m) /\ UNCHANGED <<posted, lost>> /\ (Echo(m) \/ UNCHANGED bus)
    BY <1>1, <1>5 DEF Publish
  <2>2. /\ doing'[k] = "push" /\ inHand'[k] = m
        /\ \A j \in Link \ {k} : doing'[j] = doing[j] /\ inHand'[j] = inHand[j]
    BY <2>1 DEF Goto, TabInv, TypeOK
  <2>3. inHand' = inHand
    BY <1>1, <2>1 DEF Goto, TabInv, TypeOK
  <2>4. Rows' /\ (\A n \in Msg : Earned(n) => Earned(n)') /\ Earned(m)'
    BY <1>1, <1>2, <1>5, <2>1 DEF Rows, Earned
  <2>5. \A j \in Link : doing'[j] # "idle" <=> doing[j] # "idle"
    BY <1>1, <2>2
  <2>6. InHand'
    BY <1>2, <1>5, <2>1, <2>2, <2>3, <2>5 DEF InHand
  <2>7. InHandUnique' /\ StoredIsPosted'
    BY <1>2, <2>1, <2>3, <2>5 DEF InHandUnique, StoredIsPosted
  <2> QED
    BY <1>3, <2>1, <2>4, <2>6, <2>7
<1> QED
  BY <1>4, <1>5

\* Every step of the server keeps rows, posts and echoes consistent.
LEMMA LogServerStep ==
  ASSUME TabInv, LogInv, NEW k \in Link, ServerStep(k) PROVE LogInv'
<1>1. CASE JoinOrLeave(k)
  BY <1>1, LogKept DEF JoinOrLeave
<1>2. ASSUME NEW m \in Msg, Create(k, m) PROVE LogInv'
  BY <1>2, LogCreate
<1>3. CASE Publish(k)
  BY <1>3, LogPublish
<1>4. CASE PublishToTarget(k)
  <2>1. /\ Rows' /\ InHand' /\ InHandUnique' /\ StoredIsPosted'
        /\ \A n \in Msg : Earned(n) => Earned(n)'
    BY <1>4, LogRelease DEF PublishToTarget
  <2>2. EchoSound'
    BY <1>4, <2>1 DEF PublishToTarget, LogInv, EchoSound, TabInv, TypeOK
  <2> QED
    BY <2>1, <2>2 DEF LogInv
<1>5. ASSUME NEW m \in Msg, Dispatch(k, m) PROVE LogInv'
  <2>1. \A j \in Link : bus'[j] \cup down'[j] \subseteq bus[j] \cup down[j]
    BY <1>5 DEF Dispatch, TabInv, TypeOK
  <2> QED
    BY <1>5, <2>1, LogKept DEF Dispatch, server
<1>6. CASE ReadPumpExit(k)
  BY <1>6, LogKept DEF ReadPumpExit
<1>7. CASE Crash(k)
  <2>1. \A j \in Link : bus'[j] \cup down'[j] \subseteq bus[j] \cup down[j]
    BY <1>7 DEF Crash, TabInv, TypeOK
  <2>2. CASE doing[k] = "idle"
    <3>1. /\ UNCHANGED <<doing, stored, posted, lost>>
          /\ \A j \in Link : doing[j] # "idle" => inHand'[j] = inHand[j]
      BY <1>7, <2>2 DEF Crash, Goto, TabInv, TypeOK
    <3> QED
      BY <2>1, <3>1 DEF LogInv, Rows, InHand, InHandUnique, EchoSound, Earned,
                        StoredIsPosted
  <2>3. CASE doing[k] # "idle"
    <3>1. /\ Goto(k, "idle", NoMsg) /\ UNCHANGED <<stored, posted>>
          /\ lost' = lost \cup {inHand[k]}
      BY <1>7, <2>3 DEF Crash
    <3>2. /\ Rows' /\ InHand' /\ InHandUnique' /\ StoredIsPosted'
          /\ \A n \in Msg : Earned(n) => Earned(n)'
      BY <2>3, <3>1, LogRelease
    <3>3. EchoSound'
      BY <2>1, <3>2 DEF LogInv, EchoSound, TabInv, TypeOK
    <3> QED
      BY <3>2, <3>3 DEF LogInv
  <2> QED
    BY <2>2, <2>3
<1> QED
  BY <1>1, <1>2, <1>3, <1>4, <1>5, <1>6, <1>7 DEF ServerStep

-----------------------------------------------------------------------------
(* Timers of pending messages.                                             *)

\* A pending message has a timer, or is stranded, or will be replayed.
Watched ==
  \A m \in Pending :
    timer[m] \/ m \in stranded \/ (~open /\ attempts[m] < MaxAttempts)

\* Every step of the tab keeps pending messages watched.
LEMMA WatchedTabStep == TabInv /\ Watched /\ TabStep => Watched'
<1> SUFFICES ASSUME TabInv, Watched, TabStep PROVE Watched'
  OBVIOUS
<1> SUFFICES ASSUME NEW n \in Pending'
             PROVE  timer'[n] \/ n \in stranded' \/ (~open' /\ attempts'[n] < MaxAttempts)
  BY DEF Watched
<1>0. n \in Msg /\ phase'[n] = "pending"
  BY DEF Pending
<1> USE <1>0
<1> DEFINE W == timer[n] \/ n \in stranded \/ (~open /\ attempts[n] < MaxAttempts)
           Same == /\ phase'[n] = phase[n] /\ timer'[n] = timer[n]
                   /\ attempts'[n] = attempts[n] /\ UNCHANGED <<open, stranded>>
<1>1. phase[n] = "pending" => W
  BY DEF Watched, Pending
<1>2. Same => W'
  BY <1>1
<1>3. ASSUME NEW m \in Msg, SendReliable(m) PROVE W'
  <2>1. CASE n = m
    BY <1>3, <2>1 DEF SendReliable, TabInv, TypeOK
  <2>2. CASE n # m
    BY <1>2, <1>3, <2>2 DEF SendReliable, Transmit, TabInv, TypeOK
  <2> QED
    BY <2>1, <2>2
<1>4. ASSUME NEW m \in Msg, RetryTimer(m) PROVE W'
  <2>1. CASE n = m
    <3>1. timer[m] /\ (UNCHANGED timer \/ phase' = [phase EXCEPT ![m] = "unconfirmed"])
      BY <1>4 DEF RetryTimer
    <3>2. UNCHANGED timer
      BY <2>1, <3>1 DEF TabInv, TypeOK
    <3> QED
      BY <2>1, <3>1, <3>2
  <2>2. CASE n # m
    BY <1>2, <1>4, <2>2 DEF RetryTimer, Transmit, TabInv, TypeOK
  <2> QED
    BY <2>1, <2>2
<1>5. ASSUME NEW m \in Msg, OnMessage(m) PROVE W'
  <2>1. CASE n = m
    <3>1. phase[m] # "pending" => UNCHANGED phase
      BY <1>5 DEF OnMessage
    <3>2. phase[m] = "pending" => phase' = [phase EXCEPT ![m] = "confirmed"]
      BY <1>5 DEF OnMessage
    <3> QED
      BY <2>1, <3>1, <3>2 DEF TabInv, TypeOK
  <2>2. CASE n # m
    BY <1>2, <1>5, <2>2 DEF OnMessage, TabInv, TypeOK
  <2> QED
    BY <2>1, <2>2
<1>6. CASE OnOpen
  <2>1. /\ timer'[n] = (timer[n] \/ (n \in Pending /\ attempts[n] < MaxAttempts))
        /\ UNCHANGED <<phase, stranded>>
    BY <1>6 DEF OnOpen
  <2>2. n \in Pending
    BY <2>1 DEF Pending
  <2> QED
    BY <1>1, <2>1, <2>2
<1>7. CASE PageEffect
  BY <1>2, <1>7 DEF PageEffect
<1>8. CASE OnClose
  BY <1>1, <1>8 DEF OnClose, CutLink
<1>9. CASE Reload
  <2>1. /\ stranded' = stranded \cup {m \in Pending : attempts[m] = MaxAttempts}
        /\ ~open' /\ UNCHANGED <<phase, attempts>>
    BY <1>9 DEF Reload, CutLink
  <2>2. attempts[n] < MaxAttempts \/ attempts[n] = MaxAttempts
    BY BoundAssumption DEF TabInv, TypeOK
  <2>3. n \in Pending
    BY <2>1 DEF Pending
  <2> QED
    BY <2>1, <2>2, <2>3
<1> QED
  BY <1>3, <1>4, <1>5, <1>6, <1>7, <1>8, <1>9 DEF TabStep

\* The server never sets or clears a timer; a crash only closes the socket.
LEMMA WatchedServerStep ==
  ASSUME Watched, NEW k \in Link, ServerStep(k) PROVE Watched'
<1>1. UNCHANGED <<phase, attempts, timer, stranded>> /\ (open' => open)
  BY DEF ServerStep, JoinOrLeave, Publish, PublishToTarget, ReadPumpExit, Crash, Create,
         Dispatch, tab
<1> QED
  BY <1>1 DEF Watched, Pending

-----------------------------------------------------------------------------
(* The theorems.                                                           *)

Inv == TabInv /\ OpenLink /\ LogInv /\ Watched

\* The invariant holds at the start.
LEMMA InvInit == Init => Inv
<1>1. Init => OpenLink /\ Watched
  BY DEF Init, OpenLink, Watched, Pending
<1> QED
  BY <1>1, TabInit, LogInit DEF Inv

\* Every step keeps the invariant.
LEMMA InvStep == Inv /\ [Next]_vars => Inv'
<1> SUFFICES ASSUME Inv, [Next]_vars PROVE Inv'
  OBVIOUS
<1> USE DEF Inv
<1>1. OpenLink'
  BY LinkStep DEF TabInv
<1>2. CASE TabStep
  BY <1>1, <1>2, TabTabStep, LogTabStep, WatchedTabStep DEF OpenLink
<1>3. ASSUME NEW k \in Link, ServerStep(k) PROVE Inv'
  BY <1>1, <1>3, TabServerStep, LogServerStep, WatchedServerStep DEF LogInv
<1>4. CASE UNCHANGED vars
  <2>1. UNCHANGED <<phase, attempts, timer, link, open, page, frames, stranded, up, served,
                    joined, doing, inHand, stored, posted, lost, bus, down>>
    BY <1>4 DEF vars, tab, server
  <2>2. TabInv'
    BY <2>1 DEF TabInv, TypeOK, Counted, UpSent, Sent
  <2>3. LogInv'
    BY <2>1 DEF LogInv, Rows, InHand, InHandUnique, EchoSound, Earned, StoredIsPosted
  <2>4. Watched'
    BY <2>1 DEF Watched, Pending
  <2> QED
    BY <1>1, <2>2, <2>3, <2>4
<1> QED
  BY <1>2, <1>3, <1>4 DEF Next

\* The invariant holds in every reachable state.
LEMMA InvCorrect == Spec => []Inv
BY InvInit, InvStep, PTL DEF Spec

\* The types hold in every reachable state.
THEOREM TypeCorrect == Spec => []TypeOK
<1>1. Inv => TypeOK
  BY DEF Inv, TabInv
<1> QED
  BY <1>1, InvCorrect, PTL

\* DELIVERY_MAX_ATTEMPTS bounds the frames of a message over first sends, timers
\* and replays, for any number of reconnections and reloads.
THEOREM FramesCorrect == Spec => []FramesBounded
<1>1. Inv => FramesBounded
  BY BoundAssumption DEF Inv, TabInv, TypeOK, Counted, FramesBounded
<1> QED
  BY <1>1, InvCorrect, PTL

\* While the socket is open no pending message is left without a timer, except
\* those a reload stranded.
THEOREM WatchedCorrect == Spec => []PendingIsWatched
<1>1. Inv => PendingIsWatched
  BY DEF Inv, Watched, PendingIsWatched
<1> QED
  BY <1>1, InvCorrect, PTL

\* A stored message is posted, in the hand of a readPump, or recorded as lost.
THEOREM PostedCorrect == Spec => []StoredIsPosted
<1>1. Inv => StoredIsPosted
  BY DEF Inv, LogInv
<1> QED
  BY <1>1, InvCorrect, PTL

-----------------------------------------------------------------------------
(* Delivery implements MessageLog: SendReliable submits, Create stores,    *)
(* Publish and PublishToTarget post, OnMessage confirms and RetryTimer     *)
(* gives up; everything else is invisible.                                 *)

USE DEF Log!logVars

\* Delivery's steps of the tab are steps of the log.
LEMMA LogSeesTab == Inv /\ TabStep => [Log!Next]_Log!logVars
<1> SUFFICES ASSUME Inv, TabStep PROVE [Log!Next]_Log!logVars
  OBVIOUS
<1>1. UNCHANGED <<stored, posted>>
  BY DEF TabStep, SendReliable, RetryTimer, OnMessage, OnOpen, PageEffect, OnClose,
         Reload, server
<1>2. ASSUME NEW m \in Msg, SendReliable(m) PROVE Log!Next
  BY <1>1, <1>2 DEF SendReliable, Log!Submit, Log!Next
<1>3. ASSUME NEW m \in Msg, RetryTimer(m) PROVE Log!Next \/ UNCHANGED phase
  BY <1>1, <1>3 DEF RetryTimer, Log!GiveUp, Log!Next
<1>4. ASSUME NEW m \in Msg, OnMessage(m) PROVE Log!Next \/ UNCHANGED phase
  <2>1. m \in down[link] /\ link \in Link
    BY <1>4 DEF OnMessage, Inv, OpenLink
  <2>2. stored[m] = 1 /\ (m \in Direct \/ posted[m] = 1)
    BY <2>1 DEF Inv, LogInv, EchoSound, Earned
  <2> QED
    BY <1>1, <1>4, <2>2 DEF OnMessage, Log!Confirm, Log!Next
<1>5. OnOpen \/ PageEffect \/ OnClose \/ Reload => UNCHANGED phase
  BY DEF OnOpen, PageEffect, OnClose, Reload
<1>6. Log!Next \/ UNCHANGED phase
  BY <1>2, <1>3, <1>4, <1>5 DEF TabStep
<1> QED
  BY <1>1, <1>6

\* Delivery's steps of the server are steps of the log.
LEMMA LogSeesServer ==
  ASSUME Inv, NEW k \in Link, ServerStep(k) PROVE [Log!Next]_Log!logVars
<1>1. UNCHANGED phase
  BY DEF ServerStep, JoinOrLeave, Publish, PublishToTarget, ReadPumpExit, Crash, Create,
         Dispatch, tab
<1>2. ASSUME NEW m \in Msg, Create(k, m) PROVE [Log!Next]_Log!logVars
  <2>1. phase[m] # "new"
    BY <1>1, <1>2, ReadStep DEF Create, Inv
  <2> QED
    BY <1>1, <1>2, <2>1 DEF Create, Log!Store, Log!Next
<1>3. CASE Publish(k) \/ PublishToTarget(k)
  <2>1. PICK m \in Msg : m = inHand[k] /\ stored[m] = 1 /\ posted[m] = 0
    BY <1>3 DEF Publish, PublishToTarget, Inv, LogInv, InHand
  <2>2. \/ UNCHANGED <<stored, posted>>
        \/ posted' = [posted EXCEPT ![m] = @ + 1] /\ UNCHANGED stored
    BY <1>3, <2>1 DEF Publish, PublishToTarget
  <2>3. CASE posted' = [posted EXCEPT ![m] = @ + 1] /\ UNCHANGED stored
    <3>1. posted' = [posted EXCEPT ![m] = 1]
      BY <2>1, <2>3
    <3> QED
      BY <1>1, <2>1, <2>3, <3>1 DEF Log!Post, Log!Next
  <2> QED
    BY <1>1, <2>2, <2>3
<1>4. CASE JoinOrLeave(k) \/ ReadPumpExit(k) \/ Crash(k)
  BY <1>1, <1>4 DEF JoinOrLeave, ReadPumpExit, Crash
<1>5. ASSUME NEW m \in Msg, Dispatch(k, m) PROVE UNCHANGED <<stored, posted>>
  BY <1>5 DEF Dispatch, server
<1> QED
  BY <1>1, <1>2, <1>3, <1>4, <1>5 DEF ServerStep

\* Over any number of links, reloads, crashes, duplicates and lost frames a
\* message is stored once and posted once, its outcome is final, and it is
\* confirmed only if it was stored and, in a room, posted.
THEOREM DeliveryImplementsLog == Spec => ImplementsLog
<1>1. Init => Log!Init
  BY DEF Init, Log!Init
<1>2. Inv /\ [Next]_vars => [Log!Next]_Log!logVars
  BY LogSeesTab, LogSeesServer DEF Next, vars, tab, server
<1> QED
  BY <1>1, <1>2, InvCorrect, PTL DEF Spec, ImplementsLog, Log!Spec

-----------------------------------------------------------------------------
(* Delivery implements Registry: OnOpen opens a connection, JoinOrLeave is *)
(* a command, ReadPumpExit closes the connection and Crash ends a process. *)

\* What the interface of the hub does not see.
HubQuiet == UNCHANGED <<link, served, joined>>

LEMMA HubQuietStutters == HubQuiet => UNCHANGED Hub!registryVars
BY DEF HubQuiet, Hub!registryVars, Life

\* A step of the tab is invisible, or opens the next socket.
LEMMA HubSeesTab == Inv /\ TabStep => Hub!Next \/ HubQuiet
<1> SUFFICES ASSUME Inv, TabStep PROVE Hub!Next \/ HubQuiet
  OBVIOUS
<1>1. CASE OnOpen
  <2>1. /\ link \in Nat /\ link < MaxLink /\ link + 1 \in Link /\ served \subseteq 1..link
    BY <1>1, BoundAssumption DEF OnOpen, Inv, TabInv, TypeOK, Link
  <2>2. PICK n \in Link : n = link + 1
    BY <2>1
  <2>3. link' = n /\ served' = served \cup {n} /\ UNCHANGED joined
    BY <1>1, <2>2 DEF OnOpen
  <2>4. Life(n) = "new" /\ Life(n)' = "open"
    <3>1. n > link /\ ~(n > link') /\ n \in served'
      BY <2>1, <2>2, <2>3
    <3> QED
      BY <3>1 DEF Life
  <2>5. ASSUME NEW k \in Link \ {n} PROVE Life(k)' = Life(k)
    <3>1. k \in Nat /\ (k > link' <=> k > link) /\ (k \in served' <=> k \in served)
      BY <2>1, <2>2, <2>3 DEF Link
    <3> QED
      BY <3>1 DEF Life
  <2>6. Hub!Open(n)
    BY <2>3, <2>4, <2>5 DEF Hub!Open
  <2> QED
    BY <2>6 DEF Hub!Next
<1>2. ASSUME NEW m \in Msg, SendReliable(m) \/ RetryTimer(m) \/ OnMessage(m) PROVE HubQuiet
  BY <1>2 DEF SendReliable, RetryTimer, OnMessage, server, HubQuiet
<1>3. CASE PageEffect \/ OnClose \/ Reload
  BY <1>3 DEF PageEffect, OnClose, Reload, server, HubQuiet
<1> QED
  BY <1>1, <1>2, <1>3 DEF TabStep

\* A step of the server works on a link that its readPump serves.
LEMMA HubSeesServer ==
  ASSUME Inv, NEW k \in Link, ServerStep(k) PROVE Hub!Next \/ HubQuiet
<1>0. link \in Nat /\ served \subseteq 1..link /\ joined \subseteq served
  BY BoundAssumption DEF Inv, TabInv, TypeOK
<1>1. CASE JoinOrLeave(k)
  <2>1. /\ k \in served /\ UNCHANGED <<link, served>>
        /\ joined' = joined \cup {k} \/ joined' = joined \ {k}
    BY <1>1 DEF JoinOrLeave, Reads, tab
  <2>2. Life(k) = "open" /\ \A j \in Link : Life(j)' = Life(j)
    BY <1>0, <2>1 DEF Life
  <2>3. Hub!Command(k)
    BY <2>1, <2>2 DEF Hub!Command
  <2> QED
    BY <2>3 DEF Hub!Next
<1>2. CASE ReadPumpExit(k) \/ Crash(k)
  <2>1. /\ k \in served /\ served' = served \ {k} /\ joined' = joined \ {k}
        /\ UNCHANGED link
    BY <1>2 DEF ReadPumpExit, Crash, tab
  <2>2. /\ Life(k) = "open" /\ Life(k)' = "closed"
        /\ \A j \in Link \ {k} : Life(j)' = Life(j)
    BY <1>0, <2>1 DEF Life
  <2>3. Hub!Close(k)
    BY <2>1, <2>2 DEF Hub!Close, Hub!Gone
  <2> QED
    BY <2>3 DEF Hub!Next
<1>3. CASE Publish(k) \/ PublishToTarget(k)
  BY <1>3 DEF Publish, PublishToTarget, tab, HubQuiet
<1>4. ASSUME NEW m \in Msg, Create(k, m) \/ Dispatch(k, m) PROVE HubQuiet
  BY <1>4 DEF Create, Dispatch, tab, server, HubQuiet
<1> QED
  BY <1>1, <1>2, <1>3, <1>4 DEF ServerStep

\* The hubs that serve the tab's sockets one after the other implement Registry
\* (hub.go: register, handleJoinRoom, handleLeaveRoom, unregister): an old socket
\* that is still being worked off leaves the room for good when its readPump ends.
THEOREM RegistryImplemented == Spec => ImplementsRegistry
<1>1. Init => Hub!Init
  <2> SUFFICES ASSUME Init PROVE Hub!Init
    OBVIOUS
  <2>1. \A k \in Link : Life(k) = "new"
    BY BoundAssumption DEF Init, Life, Link
  <2> QED
    BY <2>1 DEF Init, Hub!Init
<1>2. Inv /\ [Next]_vars => [Hub!Next]_(Hub!registryVars)
  <2>1. UNCHANGED vars => HubQuiet
    BY DEF vars, tab, server, HubQuiet
  <2> QED
    BY <2>1, HubSeesTab, HubSeesServer, HubQuietStutters DEF Next
<1> QED
  BY <1>1, <1>2, InvCorrect, PTL DEF Spec, ImplementsRegistry, Hub!Spec
=============================================================================
