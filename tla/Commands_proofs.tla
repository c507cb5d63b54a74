-------------------------- MODULE Commands_proofs --------------------------
(***************************************************************************)
(* What holds of recommendations and reports behind the replay protection, *)
(* for any users, topics, commands, calls and keys.                        *)
(***************************************************************************)
EXTENDS Commands, Idempotency_proofs

\* A key is known from its first call on, and its command stands while a call
\* works on it.
CommandKnown == \A k \in Key : command[k] = NoCommand => store[k] = "none"

\* A call executes statements of its command.
AtCommand ==
  \A c \in Call :
    /\ at[c] \in {"pairs", "insert"} => command[key[c]] \in Generate
    /\ at[c] = "update" => command[key[c]] \in Respond /\ command[key[c]].id \in Used
    /\ at[c] \in {"find", "create"} => /\ command[key[c]] \in Report
                                     /\ case[c] = command[key[c]].case

\* A generation has a number of its own and inserts at most one row for a pair.
GenerationSound ==
  /\ \A i \in Used : cands[i].run <= runs
  /\ \A c \in Call : run[c] <= runs
  /\ \A c, d \in Call : run[c] = run[d] /\ run[c] # 0 => c = d
  /\ \A c \in Call : at[c] \in {"pairs", "insert"} =>
       run[c] # 0 /\ \A i \in Used : cands[i].run = run[c] => cands[i].pair \notin todo[c]
  /\ \A c \in Call : at[c] = "insert" => pair[c] \in todo[c]

\* A success of an answer is in the table.
VerdictSound ==
  \A k \in Key : wins[k] = 1 /\ command[k] \in Respond =>
    command[k].id \in Used /\ cands[command[k].id].status = command[k].to

\* What was inserted under a key is in the table, where the next lookup finds it.
RowsSound ==
  /\ \A k \in Key : rows[k] > 0 =>
       command[k] \in Command \cap Report /\ reports[command[k].case] > 0
  /\ \A c \in Call : at[c] = "create" /\ key[c] \notin blind => rows[key[c]] = 0

Base == TypeOK /\ IdemInv
Inv == /\ Base /\ CommandKnown /\ AtCommand
       /\ GenerationSound /\ DuplicatesAreRoomless
       /\ VerdictSound
       /\ RowsSound /\ RetryStoresOneReport

-----------------------------------------------------------------------------
\* The commands of the three handlers are different.
LEMMA KindsDiffer ==
  ASSUME NEW x
  PROVE  /\ ~(x \in Generate /\ x \in Respond)
         /\ ~(x \in Generate /\ x \in Report)
         /\ ~(x \in Respond /\ x \in Report)
BY DEF Generate, Respond, Report

\* The middleware sees statements of handlers, and its own.
LEMMA MiddlewareStep ==
  ASSUME TypeOK, [Next]_vars
  PROVE  IdemNext \/ UNCHANGED idem
<1> USE DEF TypeOK, IdemNext, HandlerStep
<1>1. ASSUME NEW c \in Call, Start(c) PROVE IdemNext
  BY <1>1 DEF Start, HandleGenerate, HandleRespond, HandleReport, Begins, ListAll,
       FindCandidate, CheckTarget, Continue
<1>2. ASSUME NEW c \in Call, Proceed(c) PROVE IdemNext
  <2>1. stage[c] = "run"
    BY <1>2 DEF Proceed, CheckPair, Insert, Generated, UpdateStatus, FindExisting,
         CreateReport
  <2>2. HandlerStep(c)
    BY <1>2, <2>1 DEF Proceed, CheckPair, Insert, Generated, UpdateStatus, FindExisting,
         CreateReport, Continue, idem
  <2> QED
    BY <2>2
<1>3. ASSUME NEW c \in Call, StatementFails(c) PROVE IdemNext
  BY <1>3 DEF StatementFails
<1>4. ASSUME NEW c \in Call, Leave(c) PROVE IdemNext
  BY <1>4 DEF Leave
<1>5. ASSUME NEW c \in Call, NEW k \in Key, Send(c, k) PROVE IdemNext
  BY <1>5 DEF Send
<1>6. ASSUME NEW k \in Key, KeyIsForgotten(k) PROVE IdemNext
  BY <1>6 DEF KeyIsForgotten
<1>7. Outside => UNCHANGED idem
  BY DEF Outside
<1>8. UNCHANGED vars => UNCHANGED idem
  BY DEF vars
<1> QED
  BY <1>1, <1>2, <1>3, <1>4, <1>5, <1>6, <1>7, <1>8 DEF Next, CallStep

\* A running call has a key, and its key a command.
LEMMA RunningCall ==
  ASSUME Base, CommandKnown, NEW c \in Call, stage[c] = "run"
  PROVE  /\ key[c] \in Key
         /\ command[key[c]] \in Command
         /\ wins[key[c]] = 0
<1>1. key[c] \in Key /\ Runs(c)
  BY CallHasKey DEF Base, TypeOK, Runs
<1>2. store[key[c]] = "pending" /\ wins[key[c]] = 0
  BY <1>1 DEF Base, IdemInv, KeysSound
<1> QED
  BY <1>1, <1>2 DEF Base, TypeOK, CommandKnown

\* A call that reports has a key and a case.
LEMMA ReportsCase ==
  ASSUME Base, AtCommand, NEW c \in Call, at[c] \in {"find", "create"}
  PROVE  key[c] \in Key /\ case[c] \in Case
<1>1. stage[c] = "run"
  BY DEF Base, TypeOK
<1>2. case[c] = command[key[c]].case /\ command[key[c]] \in Report
  BY DEF AtCommand
<1> QED
  BY <1>1, <1>2, CallHasKey DEF Base, TypeOK, Report

-----------------------------------------------------------------------------
(* Types.                                                                  *)

\* The room of a match is one of the topics' rooms, or none.
LEMMA MatchHasRoom ==
  ASSUME NEW p, NEW read \in SUBSET Topic
  PROVE  MatchRooms(p, read) \subseteq Rooms
BY DEF MatchRooms, SharedRooms, Rooms

LEMMA PairsArePairs ==
  ASSUME NEW read \in SUBSET Topic
  PROVE  PairsOf(read) \subseteq Pairs
<1> SUFFICES ASSUME NEW p \in PairsOf(read) PROVE p \in Pairs
  OBVIOUS
<1>1. PICK t \in read, s \in read : p = {t.user, s.user}
  BY DEF PairsOf
<1>2. t.user \in User /\ s.user \in User
  BY TopicAssumption
<1>3. \A x \in User : p # {x}
  <2> SUFFICES ASSUME NEW x \in User, p = {x} PROVE FALSE
    OBVIOUS
  <2>1. t.user = x
    BY <1>1
  <2> QED
    BY <2>1 DEF PairsOf
<1> QED
  BY <1>1, <1>2, <1>3 DEF Pairs

\* The statements on recommendations keep their types.
LEMMA InsertTypes ==
  ASSUME RecTypeOK, NEW c \in Call, Insert(c), pair[c] \in Pairs
  PROVE  RecTypeOK'
<1> USE RowsAssumption DEF RecTypeOK, Id
<1>1. /\ UNCHANGED <<topics, friends, snap, runs, run>>
      /\ todo' = [todo EXCEPT ![c] = @ \ {pair[c]}]
      /\ pair' = [pair EXCEPT ![c] = {}]
  BY DEF Insert
<1>2. CASE UNCHANGED <<cands, next>>
  BY <1>1, <1>2 DEF Used
<1>3. ASSUME NEW r \in MatchRooms(pair[c], snap[c]), next <= MaxRows, next' = next + 1,
             cands' = [cands EXCEPT ![next] = [pair |-> pair[c], room |-> r,
                         run |-> run[c], status |-> "pending_review"]]
      PROVE  RecTypeOK'
  <2>1. [pair |-> pair[c], room |-> r, run |-> run[c], status |-> "pending_review"] \in Row
    BY MatchHasRoom DEF Row
  <2>2. cands' \in [Id -> Row \cup {NoRow}] /\ next' \in 1..(MaxRows + 1)
    BY <1>3, <2>1
  <2>3. \A i \in Used' : cands'[i] \in Row
    BY <1>3, <2>1 DEF Used
  <2> QED
    BY <1>1, <2>2, <2>3
<1> QED
  BY <1>2, <1>3 DEF Insert

LEMMA RecTypeStep ==
  ASSUME Base, CommandKnown, AtCommand, GenerationSound, [Next]_vars
  PROVE  RecTypeOK'
<1> USE RowsAssumption DEF Base, TypeOK, RecTypeOK
<1>1. CASE UNCHANGED rec
  BY <1>1 DEF rec, Used
<1>2. ASSUME NEW c \in Call, ListAll(c) PROVE RecTypeOK'
  BY <1>2, PairsArePairs DEF ListAll, Used
<1>3. ASSUME NEW c \in Call, CheckPair(c) PROVE RecTypeOK'
  BY <1>3 DEF CheckPair, Used
<1>4. ASSUME NEW c \in Call, Insert(c) PROVE RecTypeOK'
  BY <1>4, InsertTypes DEF Insert, GenerationSound
<1>5. ASSUME NEW c \in Call, Discard(c) PROVE RecTypeOK'
  BY <1>5 DEF Discard, Used
<1>6. ASSUME NEW c \in Call, at[c] = "update",
             UpdateStatus(c, command[key[c]].id, command[key[c]].to)
      PROVE  RecTypeOK'
  <2> DEFINE i == command[key[c]].id
             s == command[key[c]].to
  <2>1. i \in Used /\ s \in {"confirmed", "dismissed"}
    BY <1>6 DEF AtCommand, Respond
  <2>2. Used' = Used /\ Used \subseteq Id
    BY <1>6 DEF UpdateStatus, Used, Id
  <2>3. \/ cands' = cands
        \/ cands' = [cands EXCEPT ![i] = [cands[i] EXCEPT !.status = s]]
    BY <1>6 DEF UpdateStatus
  <2>4. [cands[i] EXCEPT !.status = s] \in Row
    BY <2>1 DEF Row
  <2> HIDE DEF i, s
  <2>5. cands' \in [Id -> Row \cup {NoRow}] /\ \A j \in Used' : cands'[j] \in Row
    BY <2>1, <2>2, <2>3, <2>4
  <2> QED
    BY <1>6, <2>5 DEF UpdateStatus
<1>7. CASE Outside
  <2>1. UNCHANGED <<cands, next, snap, todo, pair, runs, run>>
    BY <1>7 DEF Outside, CreateTopic, DeleteTopic, FriendshipChanges
  <2>2. topics' \subseteq Topic /\ friends' \subseteq Pairs
    BY <1>7, ContactAssumption DEF Outside, CreateTopic, DeleteTopic, FriendshipChanges
  <2> QED
    BY <2>1, <2>2 DEF Used
<1>8. ASSUME NEW c \in Call, CallStep(c)
      PROVE  UNCHANGED rec \/ ListAll(c) \/ CheckPair(c) \/ Insert(c) \/ Discard(c)
             \/ (at[c] = "update" /\ UpdateStatus(c, command[key[c]].id, command[key[c]].to))
  BY <1>8 DEF CallStep, Start, HandleGenerate, HandleRespond, HandleReport, FindCandidate,
       Proceed, Generated, StatementFails, Leave
<1> QED
  BY <1>1, <1>2, <1>3, <1>4, <1>5, <1>6, <1>7, <1>8 DEF Next, Send, KeyIsForgotten, vars

\* The statements on reports keep their types.
LEMMA RepTypeStep ==
  ASSUME Base, AtCommand, [Next]_vars
  PROVE  RepTypeOK'
<1> USE CaseAssumption DEF Base, TypeOK, RepTypeOK
<1>0. \A c \in Call : at[c] \in {"find", "create"} => key[c] \in Key /\ case[c] \in Case
  BY ReportsCase
<1>1. CASE UNCHANGED rep
  BY <1>1 DEF rep
<1>2. ASSUME NEW c \in Call, NEW x \in Command \cap Report, CheckTarget(c, x.case)
      PROVE  RepTypeOK'
  <2>1. x.case \in Case
    BY DEF Report
  <2> HIDE DEF Report
  <2> QED
    BY <1>2, <2>1 DEF CheckTarget
<1>3. ASSUME NEW c \in Call, FindExisting(c) PROVE RepTypeOK'
  <2>1. CASE Close(c)
    BY <1>0, <1>3, <2>1 DEF FindExisting, Close
  <2>2. CASE UNCHANGED case
    BY <1>0, <1>3, <2>2 DEF FindExisting
  <2> QED
    BY <1>3, <2>1, <2>2 DEF FindExisting
<1>4. ASSUME NEW c \in Call, CreateReport(c) PROVE RepTypeOK'
  BY <1>0, <1>4 DEF CreateReport, Close
<1>5. ASSUME NEW c \in Call, Close(c), UNCHANGED <<reports, rows, blind>> PROVE RepTypeOK'
  BY <1>5 DEF Close
<1>6. ASSUME NEW c \in Call, CallStep(c)
      PROVE  \/ UNCHANGED rep \/ FindExisting(c) \/ CreateReport(c)
             \/ (Close(c) /\ UNCHANGED <<reports, rows, blind>>)
             \/ \E x \in Command \cap Report : CheckTarget(c, x.case)
  BY <1>6 DEF CallStep, Start, HandleGenerate, HandleRespond, HandleReport,
       Proceed, StatementFails, Leave
<1>7. ASSUME NEW k \in Key, Forget(k) PROVE RepTypeOK'
  BY <1>7 DEF Forget
<1> QED
  BY <1>1, <1>2, <1>3, <1>4, <1>5, <1>6, <1>7 DEF Next, Send, KeyIsForgotten, Outside, vars

\* What a call executes next: a statement of a handler that runs.
LEMMA AtStep ==
  ASSUME Base, [Next]_vars
  PROVE  /\ at' \in [Call -> {"start", "pairs", "insert", "update", "find", "create"}]
         /\ \A c \in Call : at'[c] # "start" => stage'[c] = "run"
<1> USE DEF Base, TypeOK, IdemTypeOK
<1>1. ASSUME NEW c \in Call, Start(c)
      PROVE  \/ Handled(c, FALSE)
             \/ stage[c] = "run" /\ \E s \in {"pairs", "update", "find"} : Continue(c, s)
  BY <1>1 DEF Start, HandleGenerate, HandleRespond, HandleReport, Begins, ListAll,
       FindCandidate, CheckTarget
<1>2. ASSUME NEW c \in Call, Proceed(c)
      PROVE  \/ UNCHANGED idem
             \/ \E good \in BOOLEAN : Handled(c, good)
             \/ stage[c] = "run" /\ \E s \in {"pairs", "insert", "create"} : Continue(c, s)
  BY <1>2 DEF Proceed, CheckPair, Insert, Generated, UpdateStatus, FindExisting, CreateReport
<1>3. ASSUME NEW c \in Call, NEW good, Handled(c, good)
      PROVE  at' = [at EXCEPT ![c] = "start"] /\ stage' = [stage EXCEPT ![c] = "finish"]
  BY <1>3 DEF Handled
<1>4. ASSUME NEW c \in Call, NEW s, Continue(c, s)
      PROVE  at' = [at EXCEPT ![c] = s] /\ stage' = stage
  BY <1>4 DEF Continue
<1>5. ASSUME NEW c \in Call, Leave(c)
      PROVE  at' = [at EXCEPT ![c] = "start"] /\ stage' = [stage EXCEPT ![c] = "idle"]
  BY <1>5 DEF Leave, Lookup, Finish, Die, End
<1>6. ASSUME NEW c \in Call, NEW k \in Key, Send(c, k)
      PROVE  at' = at /\ at[c] = "start" /\ \A d \in Call \ {c} : stage'[d] = stage[d]
  BY <1>6 DEF Send, Claim
<1>7. (\E k \in Key : KeyIsForgotten(k)) \/ Outside \/ UNCHANGED vars => at' = at /\ stage' = stage
  BY DEF KeyIsForgotten, Expire, Outside, vars, idem
<1>8. ASSUME NEW c \in Call, StatementFails(c) PROVE Handled(c, FALSE)
  BY <1>8 DEF StatementFails
<1> DEFINE Answered(c) == /\ at' = [at EXCEPT ![c] = "start"]
                          /\ \E s \in {"finish", "idle"} : stage' = [stage EXCEPT ![c] = s]
           Goes(c) == /\ stage[c] = "run" /\ stage' = stage
                      /\ \E s \in {"pairs", "insert", "update", "find", "create"} :
                           at' = [at EXCEPT ![c] = s]
<1>9. ASSUME NEW c \in Call, CallStep(c)
      PROVE  (at' = at /\ stage' = stage) \/ Answered(c) \/ Goes(c)
  <2>1. UNCHANGED idem => at' = at /\ stage' = stage
    BY DEF idem
  <2>2. ASSUME NEW good, Handled(c, good) PROVE Answered(c)
    BY <1>3, <2>2
  <2>3. ASSUME NEW s \in {"pairs", "insert", "update", "find", "create"},
               stage[c] = "run", Continue(c, s)
        PROVE  Goes(c)
    BY <1>4, <2>3
  <2>4. Leave(c) => Answered(c)
    BY <1>5
  <2> HIDE DEF Answered, Goes
  <2>5. Start(c) => Answered(c) \/ Goes(c)
    BY <1>1, <2>2, <2>3
  <2>6. Proceed(c) => (at' = at /\ stage' = stage) \/ Answered(c) \/ Goes(c)
    BY <1>2, <2>1, <2>2, <2>3
  <2> QED
    BY <1>8, <1>9, <2>2, <2>4, <2>5, <2>6 DEF CallStep
<1>10. ASSUME NEW c \in Call, Answered(c) \/ Goes(c)
       PROVE  /\ at' \in [Call -> {"start", "pairs", "insert", "update", "find", "create"}]
              /\ \A d \in Call : at'[d] # "start" => stage'[d] = "run"
  BY <1>10
<1> HIDE DEF Answered, Goes
<1> QED
  BY <1>6, <1>7, <1>9, <1>10 DEF Next

LEMMA TypeStep ==
  ASSUME Base, CommandKnown, AtCommand, GenerationSound, [Next]_vars
  PROVE  Base'
<1>1. IdemInv'
  BY MiddlewareStep, IdemStep DEF Base
<1>2. command' \in [Key -> Command \cup {NoCommand}] /\ changes' \in 0..MaxChanges
  <2> USE ContactAssumption DEF Base, TypeOK
  <2>1. ASSUME NEW c \in Call, CallStep(c) PROVE UNCHANGED <<command, changes>>
    BY <2>1 DEF CallStep, Start, Proceed, StatementFails, Leave
  <2>2. ASSUME NEW c \in Call, NEW k \in Key, Send(c, k)
        PROVE  command' \in [Key -> Command \cup {NoCommand}] /\ changes' = changes
    BY <2>2 DEF Send
  <2>3. ASSUME NEW k \in Key, KeyIsForgotten(k)
        PROVE  command' \in [Key -> Command \cup {NoCommand}] /\ changes' = changes
    BY <2>3 DEF KeyIsForgotten
  <2>4. Outside => command' = command /\ changes' \in 0..MaxChanges
    BY DEF Outside
  <2> QED
    BY <2>1, <2>2, <2>3, <2>4 DEF Next, vars
<1>3. IdemTypeOK'
  BY <1>1 DEF IdemInv
<1> QED
  BY <1>1, <1>2, <1>3, AtStep, RecTypeStep, RepTypeStep DEF Base, TypeOK

-----------------------------------------------------------------------------
(* A call and its command.                                                 *)

\* The command of a running call's key does not change, nor does the key.
LEMMA CommandStays ==
  ASSUME Base, CommandKnown, [Next]_vars,
         NEW c \in Call, stage[c] = "run", stage'[c] = "run"
  PROVE  key'[c] = key[c] /\ command'[key'[c]] = command[key[c]]
<1> USE DEF Base, TypeOK, IdemTypeOK
<1>1. key[c] \in Key /\ command[key[c]] # NoCommand
  BY RunningCall, CommandAssumption
<1>2. ASSUME NEW d \in Call, CallStep(d)
      PROVE  /\ command' = command
             /\ \/ key' = key
                \/ key' = [key EXCEPT ![d] = NoKey] /\ stage'[d] = "idle"
  <2>1. command' = command
    BY <1>2 DEF CallStep, Start, Proceed, StatementFails, Leave
  <2>2. CASE Leave(d)
    BY <2>1, <2>2 DEF Leave, Lookup, Finish, Die, End
  <2>3. ASSUME ~Leave(d) PROVE key' = key
    <3>1. Start(d) => key' = key
      BY DEF Start, HandleGenerate, HandleRespond, HandleReport, ListAll, FindCandidate,
             CheckTarget, Continue, Handled
    <3>2. Proceed(d) => key' = key
      BY DEF Proceed, CheckPair, Insert, Generated, UpdateStatus, FindExisting, CreateReport,
             Continue, Handled, idem
    <3>3. StatementFails(d) => key' = key
      BY DEF StatementFails, Handled
    <3> QED
      BY <1>2, <2>3, <3>1, <3>2, <3>3 DEF CallStep
  <2> QED
    BY <2>1, <2>2, <2>3
<1>3. ASSUME NEW d \in Call, NEW k \in Key, Send(d, k)
      PROVE  /\ d # c => key'[c] = key[c]
             /\ d # c
             /\ command' = command \/ (command[k] = NoCommand /\ \E x : command' = [command EXCEPT ![k] = x])
  BY <1>3 DEF Send, Claim
<1>4. ASSUME NEW k \in Key, KeyIsForgotten(k)
      PROVE  key' = key /\ key[c] # k /\ command' = [command EXCEPT ![k] = NoCommand]
  BY <1>4 DEF KeyIsForgotten, Expire
<1>5. Outside \/ UNCHANGED vars => key' = key /\ command' = command
  BY DEF Outside, vars, idem
<1> QED
  BY <1>1, <1>2, <1>3, <1>4, <1>5 DEF Next

\* A known key has a command.
LEMMA CommandKnownStep ==
  ASSUME Base, CommandKnown, [Next]_vars
  PROVE  CommandKnown'
<1> USE DEF Base, TypeOK, IdemTypeOK, CommandKnown
<1>1. ASSUME NEW c \in Call, CallStep(c)
      PROVE  command' = command /\ \A k \in Key : command[k] = NoCommand => store'[k] = "none"
  <2>1. command' = command
    BY <1>1 DEF CallStep, Start, Proceed, StatementFails, Leave
  <2>2. CASE Finish(c)
    <3>1. key[c] \in Key /\ store[key[c]] = "pending"
      BY <2>2, CallHasKey DEF Finish, IdemInv, KeysSound, Runs
    <3>2. store' = store \/ \E v : store' = [store EXCEPT ![key[c]] = v]
      BY <2>2 DEF Finish
    <3> QED
      BY <2>1, <3>1, <3>2
  <2>3. CASE ~Finish(c)
    <3>1. Start(c) => store' = store
      BY DEF Start, HandleGenerate, HandleRespond, HandleReport, ListAll, FindCandidate,
             CheckTarget, Continue, Handled
    <3>2. Proceed(c) => store' = store
      BY DEF Proceed, CheckPair, Insert, Generated, UpdateStatus, FindExisting, CreateReport,
             Continue, Handled, idem
    <3>3. StatementFails(c) \/ Leave(c) => store' = store
      BY <2>3 DEF StatementFails, Leave, Lookup, Die, Handled
    <3> QED
      BY <1>1, <2>1, <3>1, <3>2, <3>3 DEF CallStep
  <2> QED
    BY <2>2, <2>3
<1>2. ASSUME NEW c \in Call, NEW k \in Key, Send(c, k) PROVE CommandKnown'
  <2>1. command'[k] # NoCommand /\ \A l \in Key \ {k} : command'[l] = command[l]
    BY <1>2, CommandAssumption DEF Send
  <2>2. \A l \in Key \ {k} : store'[l] = store[l]
    BY <1>2 DEF Send, Claim
  <2> QED
    BY <2>1, <2>2
<1>3. ASSUME NEW k \in Key, KeyIsForgotten(k) PROVE CommandKnown'
  BY <1>3 DEF KeyIsForgotten, Expire
<1>4. Outside \/ UNCHANGED vars => command' = command /\ store' = store
  BY DEF Outside, vars, idem
<1> QED
  BY <1>1, <1>2, <1>3, <1>4 DEF Next

\* Ids once used stay so.
LEMMA UsedGrows ==
  ASSUME Base, [Next]_vars
  PROVE  Used \subseteq Used'
<1>1. next' = next \/ next' = next + 1
  BY DEF Next, CallStep, Send, Start, HandleGenerate, HandleRespond, HandleReport, ListAll,
         FindCandidate, Proceed, CheckPair, Insert, Generated, UpdateStatus, StatementFails,
         Leave, Discard, KeyIsForgotten, Outside, CreateTopic, DeleteTopic, FriendshipChanges,
         rec, vars
<1> QED
  BY <1>1, RowsAssumption DEF Used, Base, TypeOK, RecTypeOK

\* A call's variables are its own.
LEMMA Aside ==
  ASSUME Base, NEW c \in Call, NEW d \in Call \ {c}, CallStep(d)
  PROVE  /\ at'[c] = at[c] /\ stage'[c] = stage[c]
         /\ todo'[c] = todo[c] /\ pair'[c] = pair[c] /\ run'[c] = run[c]
         /\ case'[c] = case[c]
<1> USE DEF Base, TypeOK, IdemTypeOK, RecTypeOK, RepTypeOK
<1>1. at'[c] = at[c] /\ stage'[c] = stage[c]
  <2>1. Start(d) => at'[c] = at[c] /\ stage'[c] = stage[c]
    BY DEF Start, HandleGenerate, HandleRespond, HandleReport, ListAll, FindCandidate,
           CheckTarget, Continue, Handled
  <2>2. Proceed(d) => at'[c] = at[c] /\ stage'[c] = stage[c]
    BY DEF Proceed, CheckPair, Insert, Generated, UpdateStatus, FindExisting, CreateReport,
           Continue, Handled, idem
  <2>3. StatementFails(d) \/ Leave(d) => at'[c] = at[c] /\ stage'[c] = stage[c]
    BY DEF StatementFails, Leave, Lookup, Finish, Die, End, Handled
  <2> QED
    BY <2>1, <2>2, <2>3 DEF CallStep
<1>2. todo'[c] = todo[c] /\ pair'[c] = pair[c] /\ run'[c] = run[c]
  BY DEF CallStep, Start, HandleGenerate, HandleRespond, HandleReport, ListAll,
       FindCandidate, Proceed, CheckPair, Insert, Generated, UpdateStatus, StatementFails,
       Leave, Discard, rec
<1>3. case'[c] = case[c]
  BY DEF CallStep, Start, HandleGenerate, HandleRespond, HandleReport, CheckTarget,
       Proceed, FindExisting, CreateReport, StatementFails, Leave, Close, rep
<1> QED
  BY <1>1, <1>2, <1>3

\* Steps of other calls, and none, leave them alone.
LEMMA Elsewhere ==
  ASSUME Base, [Next]_vars, NEW c \in Call, ~CallStep(c)
  PROVE  /\ at'[c] = at[c]
         /\ at[c] # "start" => stage'[c] = stage[c]
         /\ todo'[c] = todo[c] /\ pair'[c] = pair[c] /\ run'[c] = run[c]
         /\ case'[c] = case[c]
<1> USE DEF Base, TypeOK, IdemTypeOK
<1>1. ASSUME NEW d \in Call, NEW k \in Key, Send(d, k)
      PROVE  UNCHANGED <<at, rec, rep>> /\ (at[c] # "start" => stage'[c] = stage[c])
  <2>1. Claim(d, k) /\ UNCHANGED <<rec, rep>>
    BY <1>1 DEF Send
  <2>2. at' = at /\ stage[d] = "idle"
    BY <2>1 DEF Claim
  <2>3. c # d => stage'[c] = stage[c]
    BY <2>1 DEF Claim
  <2>4. at[c] # "start" => c # d
    BY <2>2
  <2> QED
    BY <2>1, <2>2, <2>3, <2>4
<1>2. ASSUME (\E k \in Key : KeyIsForgotten(k)) \/ Outside \/ UNCHANGED vars
      PROVE  UNCHANGED <<at, stage, todo, pair, run, case>>
  BY <1>2 DEF KeyIsForgotten, Expire, Forget, Outside, CreateTopic, DeleteTopic, FriendshipChanges,
       vars, idem, rec, rep
<1>3. (\E d \in Call \ {c} : CallStep(d)) \/ (\E d \in Call, k \in Key : Send(d, k))
      \/ (\E k \in Key : KeyIsForgotten(k)) \/ Outside \/ UNCHANGED vars
  BY DEF Next
<1> QED
  BY Aside, <1>1, <1>2, <1>3 DEF rec, rep

\* A call goes on to the statements of its command.
LEMMA AtCommandStep ==
  ASSUME Base, CommandKnown, AtCommand, GenerationSound, [Next]_vars
  PROVE  AtCommand'
<1> USE DEF Base, TypeOK, IdemTypeOK
<1> DEFINE P(c) ==
      /\ at[c] \in {"pairs", "insert"} => command[key[c]] \in Generate
      /\ at[c] = "update" => command[key[c]] \in Respond /\ command[key[c]].id \in Used
      /\ at[c] \in {"find", "create"} => /\ command[key[c]] \in Report
                                       /\ case[c] = command[key[c]].case
<1> SUFFICES ASSUME NEW c \in Call PROVE P(c)'
  BY DEF AtCommand
<1>1. P(c)
  BY DEF AtCommand
<1>2. CASE ~CallStep(c)
  <2>1. at'[c] = at[c] /\ case'[c] = case[c]
    BY <1>2, Elsewhere
  <2>2. at[c] # "start" => key'[c] = key[c] /\ command'[key'[c]] = command[key[c]]
    BY <1>2, Elsewhere, CommandStays
  <2> QED
    BY <1>1, <2>1, <2>2, UsedGrows
<1>3. CASE Start(c)
  <2>1. stage[c] = "run"
    BY <1>3 DEF Start, HandleGenerate, HandleRespond, HandleReport, Begins
  <2>2. at'[c] # "start" => key'[c] = key[c] /\ command'[key'[c]] = command[key[c]]
    BY <2>1, AtStep, CommandStays
  <2>3. CASE HandleGenerate(c)
    BY <2>2, <2>3 DEF HandleGenerate, Begins, ListAll, Continue
  <2>4. CASE HandleRespond(c)
    BY <2>2, <2>4, UsedGrows DEF HandleRespond, Begins, FindCandidate, Continue, Handled
  <2>5. ASSUME NEW x \in Command \cap Report, Begins(c, x), CheckTarget(c, x.case) PROVE P(c)'
    <3>1. x.case \in Case
      BY DEF Report
    <3> QED
      BY <2>2, <2>5, <3>1 DEF Begins, CheckTarget, Continue, RepTypeOK
  <2> QED
    BY <1>3, <2>3, <2>4, <2>5 DEF Start, HandleReport
<1>4. CASE Proceed(c)
  <2>1. stage[c] = "run"
    BY <1>4 DEF Proceed, CheckPair, Insert, Generated, UpdateStatus, FindExisting, CreateReport
  <2>2. at'[c] # "start" => key'[c] = key[c] /\ command'[key'[c]] = command[key[c]]
    BY <2>1, AtStep, CommandStays
  <2>3. CASE CheckPair(c) \/ Insert(c)
    BY <1>1, <2>2, <2>3 DEF CheckPair, Insert, Continue, idem
  <2>4. CASE FindExisting(c)
    BY <1>1, <2>2, <2>4 DEF FindExisting, Continue, Handled
  <2>5. CASE ~(CheckPair(c) \/ Insert(c) \/ FindExisting(c))
    <3>1. at'[c] = "start"
      BY <1>4, <2>5 DEF Proceed, Generated, UpdateStatus, CreateReport, Handled
    <3> QED
      BY <3>1
  <2> QED
    BY <2>3, <2>4, <2>5
<1>5. CASE StatementFails(c) \/ Leave(c)
  <2>1. at'[c] = "start"
    BY <1>5 DEF StatementFails, Leave, Lookup, Finish, Die, End, Handled
  <2> QED
    BY <2>1
<1> QED
  BY <1>2, <1>3, <1>4, <1>5 DEF CallStep

-----------------------------------------------------------------------------
(* Generations.                                                            *)

\* What a step may do to the table of candidates.
LEMMA TableStep ==
  ASSUME Base, [Next]_vars
  PROVE  \/ next' = next /\ runs' = runs /\ cands' = cands
         \/ next' = next /\ cands' = cands /\ \E c \in Call : ListAll(c)
         \/ runs' = runs /\ \E c \in Call : Insert(c)
         \/ /\ next' = next /\ runs' = runs
            /\ \E c \in Call : /\ at[c] = "update"
                               /\ UpdateStatus(c, command[key[c]].id, command[key[c]].to)
<1>1. ASSUME NEW c \in Call, CallStep(c)
      PROVE  \/ next' = next /\ runs' = runs /\ cands' = cands
             \/ next' = next /\ cands' = cands /\ ListAll(c)
             \/ runs' = runs /\ Insert(c)
             \/ /\ next' = next /\ runs' = runs /\ at[c] = "update"
                /\ UpdateStatus(c, command[key[c]].id, command[key[c]].to)
  <2>1. Start(c) => \/ next' = next /\ runs' = runs /\ cands' = cands
                    \/ next' = next /\ cands' = cands /\ ListAll(c)
    BY DEF Start, HandleGenerate, HandleRespond, HandleReport, ListAll, FindCandidate, rec
  <2>2. Proceed(c) => \/ next' = next /\ runs' = runs /\ cands' = cands
                      \/ runs' = runs /\ Insert(c)
                      \/ /\ next' = next /\ runs' = runs /\ at[c] = "update"
                         /\ UpdateStatus(c, command[key[c]].id, command[key[c]].to)
    BY DEF Proceed, CheckPair, Insert, Generated, UpdateStatus, Discard, rec
  <2>3. StatementFails(c) \/ Leave(c) => next' = next /\ runs' = runs /\ cands' = cands
    BY DEF StatementFails, Leave, Discard, rec
  <2> QED
    BY <1>1, <2>1, <2>2, <2>3 DEF CallStep
<1>2. (\E c \in Call, k \in Key : Send(c, k)) \/ (\E k \in Key : KeyIsForgotten(k))
      \/ Outside \/ UNCHANGED vars => next' = next /\ runs' = runs /\ cands' = cands
  BY DEF Send, KeyIsForgotten, Outside, CreateTopic, DeleteTopic, FriendshipChanges, vars, rec
<1> QED
  BY <1>1, <1>2 DEF Next

\* A row once used keeps its pair, its room and its generation.
LEMMA RowsKeep ==
  ASSUME Base, AtCommand, [Next]_vars, NEW i \in Used
  PROVE  /\ i \in Used' /\ cands[i] \in Row
         /\ cands'[i].pair = cands[i].pair /\ cands'[i].room = cands[i].room
         /\ cands'[i].run = cands[i].run
         /\ cands[i].status # "pending_review" => cands'[i].status = cands[i].status
<1> USE RowsAssumption DEF Base, TypeOK, RecTypeOK
<1>1. i \in Used' /\ cands[i] \in Row /\ i \in Id /\ i < next
  BY UsedGrows DEF Used, Id
<1>2. CASE cands' = cands
  BY <1>1, <1>2
<1>3. ASSUME NEW c \in Call, Insert(c) PROVE cands'[i] = cands[i]
  BY <1>1, <1>3 DEF Insert
<1>4. ASSUME NEW c \in Call, at[c] = "update",
             UpdateStatus(c, command[key[c]].id, command[key[c]].to)
      PROVE  \/ cands'[i] = cands[i]
             \/ /\ cands'[i] = [cands[i] EXCEPT !.status = command[key[c]].to]
                /\ cands[i].status = "pending_review"
  BY <1>1, <1>4 DEF UpdateStatus
<1>5. \/ cands'[i] = cands[i]
      \/ cands[i].status = "pending_review"
         /\ \E s : cands'[i] = [cands[i] EXCEPT !.status = s]
  BY <1>2, <1>3, <1>4, TableStep
<1>6. ASSUME NEW s, cands'[i] = [cands[i] EXCEPT !.status = s]
      PROVE  /\ cands'[i].pair = cands[i].pair /\ cands'[i].room = cands[i].room
             /\ cands'[i].run = cands[i].run
  BY <1>1, <1>6 DEF Row
<1> QED
  BY <1>1, <1>5, <1>6

\* What an insert adds.
LEMMA InsertRow ==
  ASSUME Base, AtCommand, GenerationSound, NEW c \in Call, Insert(c)
  PROVE  \/ Used' = Used /\ cands' = cands
         \/ /\ next \notin Used /\ Used' = Used \cup {next}
            /\ \A i \in Used : cands'[i] = cands[i]
            /\ cands'[next].pair = pair[c] /\ cands'[next].run = run[c]
            /\ cands'[next].status = "pending_review"
            /\ ~Conflicts(pair[c], cands'[next].room)
<1> USE RowsAssumption DEF Base, TypeOK, RecTypeOK, Id
<1>1. CASE UNCHANGED <<cands, next>>
  BY <1>1 DEF Used
<1>2. ASSUME NEW r \in MatchRooms(pair[c], snap[c]), ~Conflicts(pair[c], r), next <= MaxRows,
             cands' = [cands EXCEPT ![next] = [pair |-> pair[c], room |-> r,
                        run |-> run[c], status |-> "pending_review"]],
             next' = next + 1
      PROVE  /\ next \notin Used /\ Used' = Used \cup {next}
             /\ \A i \in Used : cands'[i] = cands[i]
             /\ cands'[next].pair = pair[c] /\ cands'[next].run = run[c]
             /\ cands'[next].status = "pending_review"
             /\ ~Conflicts(pair[c], cands'[next].room)
  <2>1. next \in Id /\ next \notin Used /\ Used' = Used \cup {next}
    BY <1>2 DEF Used
  <2>2. cands'[next] = [pair |-> pair[c], room |-> r, run |-> run[c], status |-> "pending_review"]
    BY <1>2, <2>1
  <2>3. \A i \in Used : cands'[i] = cands[i]
    BY <1>2, <2>1 DEF Used
  <2> QED
    BY <1>2, <2>1, <2>2, <2>3
<1> QED
  BY <1>1, <1>2 DEF Insert

\* What a call does with its generation.
LEMMA GenerationOfCall ==
  ASSUME Base, NEW c \in Call, CallStep(c)
  PROVE  \/ ListAll(c)
         \/ UNCHANGED rec /\ at'[c] \notin {"pairs", "insert"}
         \/ CheckPair(c)
         \/ Insert(c)
         \/ /\ at[c] = "update" /\ at'[c] = "start"
            /\ UpdateStatus(c, command[key[c]].id, command[key[c]].to)
         \/ Discard(c) /\ at'[c] = "start"
<1> USE DEF Base, TypeOK
<1>1. ASSUME Start(c)
      PROVE  ListAll(c) \/ (UNCHANGED rec /\ at'[c] \notin {"pairs", "insert"})
  BY <1>1 DEF Start, HandleGenerate, HandleRespond, HandleReport, FindCandidate, CheckTarget,
       Continue, Handled
<1>2. ASSUME Proceed(c)
      PROVE  \/ CheckPair(c)
             \/ Insert(c)
             \/ Discard(c) /\ at'[c] = "start"
             \/ /\ at[c] = "update" /\ at'[c] = "start"
                /\ UpdateStatus(c, command[key[c]].id, command[key[c]].to)
             \/ UNCHANGED rec /\ at'[c] \notin {"pairs", "insert"}
  BY <1>2 DEF Proceed, Generated, UpdateStatus, FindExisting, CreateReport, Continue, Handled
<1>3. ASSUME StatementFails(c) \/ Leave(c)
      PROVE  \/ Discard(c) /\ at'[c] = "start"
             \/ UNCHANGED rec /\ at'[c] = "start"
  BY <1>3 DEF StatementFails, Leave, Lookup, Finish, Die, End, Handled
<1> QED
  BY <1>1, <1>2, <1>3 DEF CallStep

\* Generations stay apart, and a pair that was inserted is not looked at again.
LEMMA GenerationStep ==
  ASSUME Base, AtCommand, GenerationSound, [Next]_vars
  PROVE  GenerationSound'
<1> USE DEF Base, TypeOK, RecTypeOK
<1>1. ASSUME NEW c \in Call, CallStep(c) PROVE GenerationSound'
  <2>1. \A d \in Call \ {c} : /\ at'[d] = at[d] /\ todo'[d] = todo[d]
                              /\ pair'[d] = pair[d] /\ run'[d] = run[d]
    BY <1>1, Aside
  <2>2. CASE ListAll(c)
    <3>1. UNCHANGED <<cands, next, pair>> /\ runs' = runs + 1 /\ run'[c] = runs + 1 /\ at'[c] = "pairs"
      BY <2>2 DEF ListAll, Continue
    <3>2. \A i \in Used : cands[i].run \in Nat /\ cands[i].run <= runs
      BY DEF GenerationSound, Row
    <3>3. Used' = Used
      BY <3>1 DEF Used
    <3> QED
      BY <2>1, <3>1, <3>2, <3>3 DEF GenerationSound
  <2>3. CASE UNCHANGED rec /\ at'[c] \notin {"pairs", "insert"}
    BY <2>1, <2>3 DEF GenerationSound, rec, Used
  <2>4. CASE CheckPair(c)
    <3>1. UNCHANGED <<cands, next, runs, run>> /\ todo'[c] \subseteq todo[c] /\ at[c] = "pairs"
      BY <2>4 DEF CheckPair
    <3>2. at'[c] = "insert" => pair'[c] \in todo'[c]
      BY <2>4 DEF CheckPair, Continue, idem
    <3>3. Used' = Used
      BY <3>1 DEF Used
    <3> QED
      BY <2>1, <3>1, <3>2, <3>3 DEF GenerationSound
  <2>5. CASE Insert(c)
    <3>1. UNCHANGED <<runs, run>> /\ todo'[c] = todo[c] \ {pair[c]} /\ at[c] = "insert" /\ at'[c] = "pairs"
      BY <2>5 DEF Insert, Continue
    <3>2. \/ Used' = Used /\ cands' = cands
          \/ /\ Used' = Used \cup {next}
             /\ \A i \in Used : cands'[i] = cands[i]
             /\ cands'[next].pair = pair[c] /\ cands'[next].run = run[c]
      BY <2>5, InsertRow
    <3>3. run[c] <= runs /\ run[c] # 0 /\ \A d \in Call : run[d] = run[c] => d = c
      BY <3>1 DEF GenerationSound
    <3> QED
      BY <2>1, <3>1, <3>2, <3>3 DEF GenerationSound
  <2>6. CASE /\ at[c] = "update" /\ at'[c] = "start"
             /\ UpdateStatus(c, command[key[c]].id, command[key[c]].to)
    <3>1. UNCHANGED <<next, runs, run, todo, pair>>
      BY <2>6 DEF UpdateStatus
    <3>2. \A i \in Used : cands'[i].pair = cands[i].pair /\ cands'[i].run = cands[i].run
      BY RowsKeep
    <3>3. Used' = Used
      BY <3>1 DEF Used
    <3> QED
      BY <2>1, <2>6, <3>1, <3>2, <3>3 DEF GenerationSound
  <2>7. CASE Discard(c) /\ at'[c] = "start"
    <3>1. UNCHANGED <<cands, next, runs>> /\ run'[c] = 0
      BY <2>7 DEF Discard
    <3>2. Used' = Used
      BY <3>1 DEF Used
    <3> QED
      BY <2>1, <2>7, <3>1, <3>2 DEF GenerationSound
  <2> QED
    BY <1>1, <2>2, <2>3, <2>4, <2>5, <2>6, <2>7, GenerationOfCall
<1>2. CASE \A c \in Call : ~CallStep(c)
  <2>1. UNCHANGED <<cands, next, runs, run, todo, pair, at>>
    BY <1>2 DEF Next, Send, Claim, KeyIsForgotten, Expire, Outside, CreateTopic, DeleteTopic,
         FriendshipChanges, vars, idem, rec
  <2> QED
    BY <2>1 DEF GenerationSound, Used
<1> QED
  BY <1>1, <1>2

\* A row is inserted unless one names the same room, and a generation inserts
\* one for a pair.
LEMMA DuplicatesStep ==
  ASSUME Base, AtCommand, GenerationSound, DuplicatesAreRoomless, [Next]_vars
  PROVE  DuplicatesAreRoomless'
<1> USE DEF Base, TypeOK, RecTypeOK
<1>1. ASSUME NEW c \in Call, Insert(c) PROVE DuplicatesAreRoomless'
  <2>1. CASE Used' = Used /\ cands' = cands
    BY <2>1 DEF DuplicatesAreRoomless
  <2>2. ASSUME next \notin Used, Used' = Used \cup {next},
               \A i \in Used : cands'[i] = cands[i],
               cands'[next].pair = pair[c], cands'[next].run = run[c],
               ~Conflicts(pair[c], cands'[next].room)
        PROVE  DuplicatesAreRoomless'
    <3>1. \A i \in Used : cands[i].pair = pair[c] /\ cands[i].room = cands'[next].room =>
                            cands'[next].room = NoRoom /\ cands[i].run # run[c]
      BY <1>1, <2>2 DEF Conflicts, Insert, GenerationSound
    <3> QED
      BY <2>2, <3>1 DEF DuplicatesAreRoomless
  <2> QED
    BY <1>1, <2>1, <2>2, InsertRow
<1>2. CASE next' = next
  <2>1. Used' = Used
    BY <1>2 DEF Used
  <2> QED
    BY <2>1, RowsKeep DEF DuplicatesAreRoomless
<1> QED
  BY <1>1, <1>2, TableStep

-----------------------------------------------------------------------------
(* Answers.                                                                *)

\* When the executions of a key become more.
LEMMA WinsStep ==
  ASSUME Base, CommandKnown, [Next]_vars, NEW k \in Key
  PROVE  \/ wins'[k] = wins[k] /\ command'[k] = command[k]
         \/ wins'[k] = 0
         \/ /\ command'[k] = command[k]
            /\ \E c \in Call :
                 /\ key[c] = k
                 /\ \/ at[c] \in {"pairs", "find", "create"}
                    \/ /\ at[c] = "update" /\ cands[command[k].id].status = "pending_review"
                       /\ UpdateStatus(c, command[k].id, command[k].to)
<1> USE DEF Base, TypeOK, IdemTypeOK
<1>1. ASSUME NEW c \in Call, CallStep(c) PROVE command' = command
  BY <1>1 DEF CallStep, Start, Proceed, StatementFails, Leave
<1>2. ASSUME NEW c \in Call, Start(c)
      PROVE  wins' = wins \/ Handled(c, FALSE)
  BY <1>2 DEF Start, HandleGenerate, HandleRespond, HandleReport, ListAll, FindCandidate,
       CheckTarget, Continue
<1>3. ASSUME NEW c \in Call, Handled(c, FALSE) PROVE wins'[k] = wins[k]
  BY <1>3 DEF Handled
<1>4. ASSUME NEW c \in Call, NEW good, Handled(c, good), key[c] # k PROVE wins'[k] = wins[k]
  BY <1>4 DEF Handled
<1>5. ASSUME NEW c \in Call, Proceed(c), wins'[k] # wins[k]
      PROVE  /\ key[c] = k
             /\ \/ at[c] \in {"pairs", "find", "create"}
                \/ /\ at[c] = "update" /\ cands[command[k].id].status = "pending_review"
                   /\ UpdateStatus(c, command[k].id, command[k].to)
  <2>1. CASE CheckPair(c) \/ Insert(c)
    BY <1>5, <2>1 DEF CheckPair, Insert, Continue, idem
  <2>2. CASE Generated(c) \/ CreateReport(c) \/ FindExisting(c)
    <3>1. at[c] \in {"pairs", "find", "create"}
      BY <2>2 DEF Generated, CreateReport, FindExisting
    <3>2. wins' = wins \/ \E good \in BOOLEAN : Handled(c, good)
      BY <2>2 DEF Generated, CreateReport, FindExisting, Continue
    <3> QED
      BY <1>4, <1>5, <3>1, <3>2
  <2>3. CASE at[c] = "update" /\ UpdateStatus(c, command[key[c]].id, command[key[c]].to)
    <3>1. \/ Handled(c, FALSE)
          \/ Handled(c, TRUE) /\ cands[command[key[c]].id].status = "pending_review"
      BY <2>3 DEF UpdateStatus
    <3> QED
      BY <1>3, <1>4, <1>5, <2>3, <3>1
  <2> QED
    BY <1>5, <2>1, <2>2, <2>3 DEF Proceed
<1>6. ASSUME NEW c \in Call, StatementFails(c) \/ Leave(c) PROVE wins'[k] = wins[k]
  BY <1>3, <1>6 DEF StatementFails, Leave, Lookup, Finish, Die
<1>7. ASSUME NEW c \in Call, NEW l \in Key, Send(c, l)
      PROVE  (wins'[k] = wins[k] /\ command'[k] = command[k]) \/ wins'[k] = 0
  <2>1. wins' = wins
    BY <1>7 DEF Send, Claim
  <2>2. command[k] = NoCommand => wins[k] = 0
    BY DEF CommandKnown, IdemInv, KeysSound
  <2>3. command'[k] = command[k] \/ command[k] = NoCommand
    BY <1>7 DEF Send
  <2> QED
    BY <2>1, <2>2, <2>3
<1>8. ASSUME NEW l \in Key, KeyIsForgotten(l)
      PROVE  (wins'[k] = wins[k] /\ command'[k] = command[k]) \/ wins'[k] = 0
  BY <1>8 DEF KeyIsForgotten, Expire
<1>9. Outside \/ UNCHANGED vars => wins' = wins /\ command' = command
  BY DEF Outside, vars, idem
<1> QED
  BY <1>1, <1>2, <1>3, <1>5, <1>6, <1>7, <1>8, <1>9 DEF Next, CallStep

\* What was answered with success stays in the table.
LEMMA VerdictStep ==
  ASSUME Base, CommandKnown, AtCommand, VerdictSound, [Next]_vars
  PROVE  VerdictSound'
<1> USE DEF Base, TypeOK, IdemTypeOK
<1> SUFFICES ASSUME NEW k \in Key, wins'[k] = 1, command'[k] \in Respond
             PROVE  /\ command'[k].id \in Used'
                    /\ cands'[command'[k].id].status = command'[k].to
  BY DEF VerdictSound
<1>1. command'[k].to \in {"confirmed", "dismissed"}
  BY DEF Respond
<1>2. CASE wins'[k] = wins[k] /\ command'[k] = command[k]
  BY <1>1, <1>2, RowsKeep DEF VerdictSound
<1>3. ASSUME NEW c \in Call, command'[k] = command[k], key[c] = k,
             at[c] \in {"pairs", "find", "create"}
      PROVE  FALSE
  BY <1>3, KindsDiffer DEF AtCommand
<1>4. ASSUME NEW c \in Call, command'[k] = command[k], key[c] = k, at[c] = "update",
             cands[command[k].id].status = "pending_review",
             UpdateStatus(c, command[k].id, command[k].to)
      PROVE  /\ command[k].id \in Used'
             /\ cands'[command[k].id].status = command[k].to
  <2>1. command[k].id \in Used
    BY <1>4 DEF AtCommand
  <2>2. cands[command[k].id] \in Row /\ command[k].id \in Id
    BY <2>1, RowsAssumption DEF RecTypeOK, Used, Id
  <2>3. cands'[command[k].id] = [cands[command[k].id] EXCEPT !.status = command[k].to]
    BY <1>4, <2>2 DEF UpdateStatus, RecTypeOK
  <2> QED
    BY <2>1, <2>2, <2>3, UsedGrows DEF Row
<1> QED
  BY <1>2, <1>3, <1>4, WinsStep

-----------------------------------------------------------------------------
(* Reports.                                                                *)

\* What a call does with its report.
LEMMA ReportOfCall ==
  ASSUME Base, NEW c \in Call, CallStep(c)
  PROVE  \/ FindExisting(c)
         \/ CreateReport(c)
         \/ UNCHANGED <<reports, rows, blind>> /\ at'[c] # "create"
<1> USE DEF Base, TypeOK
<1>1. ASSUME Start(c) PROVE UNCHANGED <<reports, rows, blind>> /\ at'[c] # "create"
  BY <1>1 DEF Start, HandleGenerate, HandleRespond, HandleReport, ListAll, FindCandidate,
       CheckTarget, Continue, Handled, rep
<1>2. ASSUME Proceed(c)
      PROVE  \/ FindExisting(c) \/ CreateReport(c)
             \/ UNCHANGED <<reports, rows, blind>> /\ at'[c] # "create"
  BY <1>2 DEF Proceed, CheckPair, Insert, Generated, UpdateStatus, Continue, Handled, idem, rep
<1>3. ASSUME StatementFails(c) \/ Leave(c)
      PROVE  UNCHANGED <<reports, rows, blind>> /\ at'[c] # "create"
  BY <1>3 DEF StatementFails, Leave, Lookup, Finish, Die, End, Handled, rep
<1> QED
  BY <1>1, <1>2, <1>3 DEF CallStep

\* A call that is about to insert stays with its key, and came from its lookup.
LEMMA CreateOfCall ==
  ASSUME Base, CommandKnown, [Next]_vars, NEW c \in Call, at[c] = "create", at'[c] = "create"
  PROVE  key'[c] = key[c]
<1>1. stage[c] = "run" /\ stage'[c] = "run"
  BY AtStep DEF Base, TypeOK
<1> QED
  BY <1>1, CommandStays

\* The lookup of a call: it found no row, or failed and marked the key.
LEMMA FindStep ==
  ASSUME Base, CommandKnown, AtCommand, RowsSound, RetryStoresOneReport, [Next]_vars,
         NEW c \in Call, CallStep(c), FindExisting(c)
  PROVE  RowsSound' /\ RetryStoresOneReport'
<1> USE DEF Base, TypeOK, RepTypeOK, IdemTypeOK
<1>1. key[c] \in Key /\ case[c] = command[key[c]].case /\ case[c] \in Case
  BY ReportsCase DEF FindExisting, AtCommand
<1>2. UNCHANGED <<reports, rows>> /\ key' = key
  BY DEF FindExisting, Continue, Handled
<1>3. command' = command
  BY DEF CallStep, Start, Proceed, StatementFails, Leave
<1>4. blind \subseteq blind'
  BY DEF FindExisting
<1>5. at'[c] = "create" => reports[case[c]] = 0 \/ key[c] \in blind'
  BY DEF FindExisting, Continue, Handled
<1>6. at'[c] = "create" /\ key[c] \notin blind' => rows[key[c]] = 0
  BY <1>1, <1>5 DEF RowsSound
<1>7. \A d \in Call \ {c} : at'[d] = at[d]
  BY Aside
<1>8. RowsSound'
  BY <1>2, <1>3, <1>4, <1>6, <1>7 DEF RowsSound
<1> QED
  BY <1>2, <1>4, <1>8 DEF RetryStoresOneReport

\* The insert of a call: no other call runs under its key, and none inserted
\* before, unless a lookup failed.
LEMMA CreateStep ==
  ASSUME Base, CommandKnown, AtCommand, RowsSound, RetryStoresOneReport, [Next]_vars,
         NEW c \in Call, CallStep(c), CreateReport(c)
  PROVE  RowsSound' /\ RetryStoresOneReport'
<1> USE DEF Base, TypeOK, RepTypeOK, IdemTypeOK
<1> DEFINE k == key[c]
<1>1. at[c] = "create" /\ stage[c] = "run"
  BY DEF CreateReport
<1>2. k \in Key /\ case[c] = command[k].case /\ case[c] \in Case /\ command[k] \in Command \cap Report
  BY <1>1, ReportsCase, RunningCall DEF AtCommand
<1>3. UNCHANGED <<key, blind>> /\ at'[c] = "start"
  BY DEF CreateReport, Handled
<1>4. /\ rows' = [rows EXCEPT ![k] = @ + 1]
      /\ reports' = [reports EXCEPT ![command[k].case] = @ + 1]
  BY <1>2 DEF CreateReport
<1>5. command' = command
  BY DEF CallStep, Start, Proceed, StatementFails, Leave
<1>6. k \notin blind => rows[k] = 0
  BY <1>1 DEF RowsSound
<1>7. \A d \in Call \ {c} : at'[d] = at[d] /\ (at[d] = "create" => key[d] # k)
  <2> SUFFICES ASSUME NEW d \in Call \ {c} PROVE at'[d] = at[d] /\ (at[d] = "create" => key[d] # k)
    OBVIOUS
  <2>1. at[d] = "create" => Runs(d)
    BY DEF Runs
  <2> QED
    BY <1>1, <2>1, Aside DEF IdemInv, KeysSound, Runs
<1> HIDE DEF k
<1>8. \A l \in Key : rows'[l] > 0 => command[l] \in Command \cap Report /\ reports'[command[l].case] > 0
  <2> SUFFICES ASSUME NEW l \in Key, rows'[l] > 0
               PROVE  command[l] \in Command \cap Report /\ reports'[command[l].case] > 0
    OBVIOUS
  <2>1. command[l] \in Command \cap Report /\ (l # k => reports[command[l].case] > 0)
    BY <1>2, <1>4 DEF RowsSound
  <2>2. command[l].case \in Case /\ command[k].case \in Case
    BY <1>2, <2>1 DEF Report
  <2> QED
    BY <1>2, <1>4, <2>1, <2>2, CaseAssumption
<1>9. \A d \in Call : at'[d] = "create" /\ key'[d] \notin blind' => rows'[key'[d]] = 0
  BY <1>3, <1>4, <1>7, CallHasKey DEF RowsSound
<1>10. RetryStoresOneReport'
  BY <1>2, <1>3, <1>4, <1>6 DEF RetryStoresOneReport
<1> QED
  BY <1>5, <1>8, <1>9, <1>10 DEF RowsSound

\* Nothing else inserts a report, and a key is forgotten only while no call has it.
LEMMA ReportStep ==
  ASSUME Base, CommandKnown, AtCommand, RowsSound, RetryStoresOneReport, [Next]_vars
  PROVE  RowsSound' /\ RetryStoresOneReport'
<1> USE DEF Base, TypeOK, RepTypeOK, IdemTypeOK
<1>1. ASSUME UNCHANGED <<reports, rows, blind>>,
             \A l \in Key : command[l] # NoCommand => command'[l] = command[l],
             \A d \in Call : at'[d] = "create" => at[d] = "create"
      PROVE  RowsSound' /\ RetryStoresOneReport'
  <2>1. \A l \in Key : rows[l] > 0 => command'[l] = command[l]
    BY <1>1, CommandAssumption DEF RowsSound
  <2>2. \A d \in Call : at'[d] = "create" => at[d] = "create" /\ key'[d] = key[d]
    BY <1>1, CreateOfCall
  <2> QED
    BY <1>1, <2>1, <2>2 DEF RowsSound, RetryStoresOneReport
<1>2. ASSUME NEW c \in Call, CallStep(c) PROVE RowsSound' /\ RetryStoresOneReport'
  <2>1. CASE UNCHANGED <<reports, rows, blind>> /\ at'[c] # "create"
    <3>1. command' = command
      BY <1>2 DEF CallStep, Start, Proceed, StatementFails, Leave
    <3>2. \A d \in Call : at'[d] = "create" => at[d] = "create"
      BY <1>2, <2>1, Aside
    <3> QED
      BY <1>1, <2>1, <3>1, <3>2
  <2> QED
    BY <1>2, <2>1, FindStep, CreateStep, ReportOfCall
<1>3. ASSUME NEW c \in Call, NEW k \in Key, Send(c, k) PROVE RowsSound' /\ RetryStoresOneReport'
  BY <1>1, <1>3 DEF Send, Claim, rep
<1>4. ASSUME NEW k \in Key, KeyIsForgotten(k) PROVE RowsSound' /\ RetryStoresOneReport'
  <2>1. /\ \A c \in Call : key[c] # k
        /\ UNCHANGED <<key, at, reports>>
        /\ rows' = [rows EXCEPT ![k] = 0] /\ blind' = blind \ {k}
        /\ command' = [command EXCEPT ![k] = NoCommand]
    BY <1>4 DEF KeyIsForgotten, Expire, Forget
  <2>2. \A c \in Call : at[c] = "create" => key[c] \in Key \ {k}
    BY <2>1, CallHasKey
  <2> QED
    BY <2>1, <2>2 DEF RowsSound, RetryStoresOneReport
<1>5. CASE Outside \/ UNCHANGED vars
  BY <1>1, <1>5 DEF Outside, vars, idem, rep
<1> QED
  BY <1>2, <1>3, <1>4, <1>5 DEF Next

-----------------------------------------------------------------------------
\* Initially no command is known and nothing is stored.
LEMMA InvInit == Init => Inv
<1> SUFFICES ASSUME Init PROVE Inv
  OBVIOUS
<1>1. IdemInv
  BY IdemInvInit DEF Init
<1>2. Used = {}
  BY DEF Init, RecInit, Used
<1>3. RecTypeOK
  BY <1>2, RowsAssumption DEF Init, RecInit, RecTypeOK, NoRow
<1>4. RepTypeOK
  BY CaseAssumption DEF Init, RepInit, RepTypeOK
<1>5. TypeOK
  BY <1>1, <1>3, <1>4, ContactAssumption DEF TypeOK, Init, IdemInv, IdemInit
<1>6. CommandKnown /\ AtCommand /\ RowsSound /\ RetryStoresOneReport
  BY DEF Init, IdemInit, RepInit, CommandKnown, AtCommand, RowsSound, RetryStoresOneReport
<1>7. GenerationSound /\ DuplicatesAreRoomless
  BY <1>2 DEF Init, IdemInit, RecInit, GenerationSound, DuplicatesAreRoomless
<1>8. VerdictSound
  BY DEF Init, IdemInit, VerdictSound
<1> QED
  BY <1>1, <1>5, <1>6, <1>7, <1>8 DEF Inv, Base

LEMMA InvStep == Inv /\ [Next]_vars => Inv'
<1> SUFFICES ASSUME Inv, [Next]_vars PROVE Inv'
  OBVIOUS
<1> USE DEF Inv
<1>1. Base' /\ CommandKnown' /\ AtCommand'
  BY TypeStep, CommandKnownStep, AtCommandStep
<1>2. GenerationSound' /\ DuplicatesAreRoomless'
  BY GenerationStep, DuplicatesStep
<1>3. VerdictSound' /\ RowsSound' /\ RetryStoresOneReport'
  BY VerdictStep, ReportStep
<1> QED
  BY <1>1, <1>2, <1>3

LEMMA InvCorrect == Spec => []Inv
BY InvInit, InvStep, PTL DEF Spec

-----------------------------------------------------------------------------
\* The types of Commands hold for any users, topics, commands, calls and keys.
THEOREM TypeCorrect == Spec => []TypeOK
<1>1. Inv => TypeOK
  BY DEF Inv, Base
<1> QED
  BY <1>1, InvCorrect, PTL

\* A key is pending only while a call runs its command, or after a crash, a
\* failed write of its record or a SETNX whose answer was lost
\* (middleware/idempotency.go).
THEOREM PendingCorrect == Spec => []PendingIsOwned
<1>1. Inv => PendingIsOwned
  BY DEF Inv, Base, IdemInv
<1> QED
  BY <1>1, InvCorrect, PTL

\* The middleware keeps the promise of OnceOnly for the commands behind it: one
\* execution at most, and no success is told that is not it.
THEOREM OnceOnlyCorrect == Spec => ImplementsOnceOnly
<1>1. Init => Promise!Init
  BY IdemInvInit DEF Init
<1>2. Inv /\ [Next]_vars => [Promise!Next]_<<wins, told>>
  BY MiddlewareStep, IdemStep DEF Inv, Base
<1> QED
  BY <1>1, <1>2, InvCorrect, PTL DEF Spec, ImplementsOnceOnly, Promise!Spec

\* What is left of the claim that generations may be repeated
\* (recommendation_service.go:60-62): if they overlap or are repeated they add no
\* second row for a pair in a room, and no generation adds two rows for a pair.
THEOREM DuplicatesCorrect == Spec => []DuplicatesAreRoomless
<1>1. Inv => DuplicatesAreRoomless
  BY DEF Inv
<1> QED
  BY <1>1, InvCorrect, PTL

\* An answer that was confirmed to its caller is not turned over.
THEOREM VerdictCorrect == Spec => []AnsweredVerdictStands
<1>1. Inv => AnsweredVerdictStands
  <2> SUFFICES ASSUME Inv, NEW k \in told, command[k] \in Respond
               PROVE  cands[command[k].id].status = command[k].to
    BY DEF AnsweredVerdictStands
  <2>1. k \in Key /\ wins[k] = 1
    BY DEF Inv, Base, IdemInv, IdemTypeOK, KeysSound
  <2> QED
    BY <2>1 DEF Inv, VerdictSound
<1> QED
  BY <1>1, InvCorrect, PTL

\* A report sent again under its key is stored once, unless a lookup of it failed
\* (report_service.go:61, :73): nothing is inserted twice by a retry, whether its
\* calls overlap, die, or are told that an insert failed that was applied.
THEOREM RetryCorrect == Spec => []RetryStoresOneReport
<1>1. Inv => RetryStoresOneReport
  BY DEF Inv
<1> QED
  BY <1>1, InvCorrect, PTL
=============================================================================
