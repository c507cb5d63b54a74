# Verification of the chat server and its client

This directory holds TLA+ models of the chat application in `src/` (a Go server
with PostgreSQL and Redis, a React client), the TLC configurations that check
them, and proofs of their main invariants. `PROJECT.json` lists, for every
definition of a model, the lines of code it stands for.

## 1. Inventory

| Component | State | Operations | Talks to |
|---|---|---|---|
| WebSocket hub (`ws/hub.go`, `client.go`, `handler.go`) | per process: `users` and `rooms` maps under one mutex; per connection: its `rooms`, a channel of 32 frames, two goroutines | register, join, leave, send message, send direct message, unregister, dispatch of what Redis delivers, both pumps, shutdown | Redis pub/sub and presence, PostgreSQL, push, the client |
| Presence (`repository/user_presence.go`, `room_online_counter.go`) | Redis hash of connection counts, Redis set of users per room | HINCRBY, HDEL, SADD, SREM, SCARD | shared by all processes |
| Message delivery (`SocketContext.tsx`, `hub.go`, `message_repository.go`, `direct_message_repository.go`) | queue and timers of the tab, copied to sessionStorage; rows with a unique `msg_id` | reliable send, retry, replay, acknowledge, store, publish | hub, Redis |
| Speech rate limit (`ws/client.go`) | two time windows per connection | allow | send message |
| Friendships (`friend_service.go`) | one row per ordered pair of users | request, respond, remove, list | direct messages, recommendations |
| Conversations, direct messages, read cursors (`conversation_service.go`) | conversation, message and cursor rows | open, history, unread counts | friendships, hub |
| Idempotency keys (`middleware/idempotency.go`) | Redis key: absent, pending, completed | claim, replay, complete, delete | every HTTP command |
| Login limiter (`middleware/login_rate_limit.go`) | Redis counter with expiry | count, refuse | login |
| Accounts and tokens (`auth_service.go`, `token_blacklist.go`, `AuthContext.tsx`) | user rows, blacklist, cookie, the tab's user | register, login, logout, authenticate | HTTP, WebSocket handshake |
| Web Push (`push_service.go`, `push.ts`, `sw.js`) | subscription rows, the browser's subscription | subscribe, unsubscribe, notify with retries | presence, direct messages |
| Watch topics, recommendations | topic and candidate rows | generate, respond, match | friendships, rooms |
| Reports | report rows | report once | - |
| Rooms and history (`RoomChatPage.tsx`, `DirectChatPage.tsx`) | message list and seen ids of a page | load history, merge live messages | hub, HTTP |
| Users, media, events, bot, configuration, metrics, Web Push cryptography | single rows, files, append-only records | reads and single writes | - |

What is hard in this code:

* **Two kinds of shared state with different granularity.** The maps of a hub
  change under its mutex; Redis changes one command at a time. A handler is a
  critical section followed by several commands, and handlers of other
  connections, here and in other processes, run between any two of them.
* **Channels after the lock.** A broadcast copies its targets under the lock
  and sends after releasing it, while a connection may end; a connection sends
  to its own channel and waits when it is full.
* **At-least-once sending, exactly-once effect.** A message goes out on first
  send, by timer and by replay on a new socket, survives a reload, and may be
  handled by two readPumps at once. The unique index decides; publishing
  follows as a separate step that may fail or be cut off. The echo is the only
  confirmation, and may be lost.
* **Check then act** on the database: friend requests, reports, registrations,
  friend check before a direct message, presence check before a push.
* **Crashes.** What a process leaves in Redis (counts, sets, pending keys)
  outlives it.

What makes each component correct:

* hub and presence: the maps agree and name no ended connection; nobody is
  counted online who is not connected, and nobody connected is offline; a
  departed user leaves every room; no client holds up or ends the process;
  both pumps of a dead connection end;
* delivery: one row and one publication per message, a final outcome for the
  sender, a confirmation only of a stored message, a bounded number of frames,
  no message forgotten;
* friendships: at most one relation per pair, a direct message only between
  friends; reports: one per reporter and message;
* idempotency: the handler of a key runs once, and a retry gets its answer;
* limits: at most the allowed number in every window, and a refusal that ends;
* session: a revoked token gives no new access, a message goes out under the
  identity that wrote it;
* read cursors and chat pages: nothing unread is skipped, nothing shown is lost;
* push: an offline user with a live subscription is notified;
* recommendations: a pair is offered once.

`PROJECT.json` lists every component with its status and every hazard with its line.

## 2. Plan

Done, in the order in which it matters most:

1. `HubSession`: connections of several processes against Redis.
2. `HubDispatch`: the goroutines and channels of one process.
3. `MessageLog` (abstract) and `Delivery` (detailed), with the refinement.
4. `Friends`: requests, answers and removals under concurrent commands, and the
   friend check before a conversation.
5. `HubSession_proofs`, `Delivery_proofs`, `Friends_proofs`, `HubDispatch_proofs`.
   `Registry` (abstract), which `HubSession`, `HubDispatch` and `Delivery` implement,
   and `Friendship` (abstract), which `Friends` implements.
6. `Idempotency`, which implements `OnceOnly`, around the handlers of `Recommend`
   and `Reports`; `Commands` composes them. `Commands_proofs`,
   `Idempotency_proofs`.
7. `Session` over `Tokens`: login, logout, blacklist and limiter against tabs that
   share a jar, and their sockets. `Session_proofs`.
8. `Threads`, `ChatView` and `Push`, composed by `Conversation` with the handlers
   of a message. `Conversation_proofs`.

To come, in this order:

9. The tab's queue against a change of user: `Delivery` has one user for a tab,
   `Session` no messages. The hazard is listed (`SocketContext.tsx:63`).
10. The two windows of the speech limit, as functions of a sequence of times.
11. Proofs where two modules meet: that the `online` of `Conversation` is what
    `HubSession` allows. `Wedge` of `HubSession` and `Stuck` of `HubDispatch` meet in
    `Registry`: both are its connections that only the end of their process takes out.

## 3. Modules

| Module | Models | Correspondence |
|---|---|---|
| `HubSession` | connections from register to unregister in several hubs, the presence hash, the online sets | `users`, `rooms`, `joined` are `Hub.users`, `Hub.rooms` and `Client.rooms` (all processes together, a connection belongs to one by `Host`); `pc[c]` is where the goroutine of connection `c` is; one action per critical section of `h.mu` or Redis command |
| `MCHubSession` | the instance TLC checks | - |
| `HubDispatch` | readPump, writePump and subscribeLoop around the send channels of one process | `queue[c]` counts the frames in `Client.send`; `targets` is the copy `dispatchToLocalClients` iterates over; a send on a closed channel sets `alive` to FALSE |
| `Registry` | what the hub promises of connections and rooms: a connection is opened once, changes only its own membership, and leaves every room in the step that closes it; one that got stuck stays until its process ends | abstract; `Life` in `HubSession`, `HubDispatch` and `Delivery` reads its `life` from the place of a connection's goroutines, and `members` is `rooms`, `room` or `joined` |
| `MessageLog` | what delivery promises: submitted, stored once, posted once, confirmed or given up | abstract; no code of its own |
| `Delivery` | the tab's queue, retries, sockets and reloads; readPump storing and publishing; the echo | `phase`, `attempts`, `timer` are `pendingRef` and its records; each socket is a link with its own readPump; `stored[m]` counts rows of a `msg_id`; `bus` and `down` carry the echo |
| `Friendship` | what the friendship service promises: a pair becomes friends by the acceptance of an open request only, parts in one step, and opens a conversation only if it was friends | abstract; `PairsWith` in `Friends` reads the pairs of a status from the rows |
| `Friends` | the rows of `friendships` and the pairs of `conversations` under concurrent commands | `rows` is the table by id; a task is the goroutine of an HTTP request or a readPump, `pc[t]` the statement it executes next, `me`, `peer`, `id`, `verdict` what it has in hand; one action per SQL statement with the checks that follow it |
| `MCFriends` | the instance TLC checks: users and tasks are interchangeable, and all its properties are safety properties, so symmetry is sound | - |
| `OnceOnly` | what the replay protection promises: a command takes effect at most once, and success is told of that one execution | abstract; no code of its own |
| `Idempotency` | the middleware around a handler | `store` is Redis; a call is an HTTP request, `stage` where it is in the middleware, `at` the next statement of its handler; one action per Redis command, with its failure and the death of the call |
| `Recommend` | watch topics, generation of candidates, the answers to them | `topics`, `cands` are the tables; `snap`, `todo`, `pair` the local variables of `GenerateCandidates` |
| `Reports` | target check, lookup and insert of a report | `reports` counts the rows of a reporter and a target |
| `Commands` | both behind `Idempotency`, with topics and friendships that change meanwhile | `command[k]` is what the caller of a key asks for, and asks again |
| `MCCommands` | the instance TLC checks | - |
| `Threads` | messages by time of creation, conversations, read cursors | `createdAt`, `known`, `readAt` are columns and rows; `Unread` is the filter of `ListByUser`'s `unread_count` |
| `ChatView` | the open chat page of a tab, its requests and its socket | `shown`, `seen`, `request` are the page's list, `seenMsgIds` and the effect that is not cancelled; a request is a handler on the server, statement by statement |
| `Push` | the browser's subscription, the toggle, the rows, `NotifyOfflineUser` | `duty[m]` is where the goroutine that notifies of a message is, `targets[m]` its rows |
| `Conversation` | the handlers of room and direct messages against `ChatView` and `Push` | `phase[m]` is where the handler of a message is |
| `MCConversation` | the instance TLC checks | - |
| `Tokens` | the blacklist and the login counter in Redis, by whole seconds | a token is its user and its `iat`; `black`, `deadline` are ends of times to live |
| `Session` | tabs with one jar and one stored identity; registration, login, guests, session check, logout; the handshake | `cookie` is the jar, `stored` is localStorage, `identity[b]` the user of `AuthContext`, `sock[b]` the user of the server's `Client` |
| `MCSession` | the instance TLC checks | - |
| `HubSession_proofs`, `HubDispatch_proofs`, `Delivery_proofs`, `Friends_proofs`, `Idempotency_proofs`, `Commands_proofs`, `Session_proofs`, `Conversation_proofs` | proofs | - |

`Commands` and `Conversation` compose by extension: their actions are the actions
of the modules they extend, with what the others do in the same step.

Where one module leaves to another what it only needs the outcome of:

* `HubSession` has the step `Wedge` (a connection waits for ever on its own full
  channel), which `HubDispatch` explains in detail.
* `Delivery` lets an echo be dropped at dispatch, which is `DispatchSend` of
  `HubDispatch` at a full channel. It crashes a link at any point, `HubSession`
  and `HubDispatch` a whole process.
* `Friends` ends where the conversation exists; `Delivery` has the storing and
  publishing of one message with its repeats; `Conversation` handles each
  message once and has what happens to it at the reader.
* `Conversation` has the presence of the reader as one variable that follows the
  socket some time later; its two Redis commands are in `HubSession`. There
  `SoleConnectionIsExact` and `DepartedLeftNothing` say that, without a fault, a
  reader's only connection is counted once it is served, and nothing is left when
  all have ended.
* `Recommend` has friendship as a set of pairs that changes; `Friends` says how.

Granularity. One action is one critical section, one Redis command or one SQL
statement, with these exceptions: the `now()` of an INSERT and its visibility are
one step; so are the attempts of `sendWithRetry` to one endpoint, of which only
the last answer changes anything, and the arrival of a login's answer with the
cookie it sets and the identity it stores. A browser never gets an endpoint
twice, so in `Push` the id of a row and its endpoint are the same thing.

A command or statement that fails may have taken effect: an error may mean that
Redis or PostgreSQL did not get it, or that its answer was lost, late, or cancelled
with the request. Where the code goes on differently in the two cases the models
have both: the SETNX of `Claim` (503, and the key stays pending), the INSERT of a
message (`Create` of `Delivery`) and of a report, the UPDATE of a candidate, the
HINCRBY of `MarkOffline`, the INCR of the login limiter. Elsewhere an applied
command without an answer changes nothing a step with one would not. It is assumed
that a command takes effect, if at all, before its answer or error reaches the code.

History variables (marked so in the declarations) never occur in a guard:
`counted` and `orphans` in `HubSession`; `frames`, `lost` and `stranded` in
`Delivery`; `friends` and `met` in `Friends`; `wins`, `told` and `orphan` in
`Idempotency`; `run` in `Recommend`; `rows` and `blind` in `Reports`; `displayed`,
`unused`, `beyond`, `between`, `early` and `missed` in `ChatView`; `acked`,
`excused` and `pushed` in `Push`; `twins`, `revoked` and `stuck` in `Tokens`;
`fresh`, `confirmed` and `kept` in `Session`. Three more are history and bound at
once, or make a name new: `runs` in `Recommend` (`MaxRuns`), `issued` in `Push`
(a new endpoint is none of them), and `issued` in `Tokens`, which only tells twins.

Operators such as `CreateRepublishing` or `OnOpenWithoutTimers`, commented as
mutants, are no part of the models. Each is a plausible mistake in the
operation defined after it, and replacing that operation by it makes TLC find
the property named in `PROJECT.json` violated.

## 4. Runs

| Run | Question | Result |
|---|---|---|
| `hub_session` | Do registry, presence and online sets stay consistent through joins, leaves, disconnects, lost commands and a crash; what may several tabs of a user do to each other, and what is left when they have ended? | holds, 756,242 states |
| `hub_presence` | Is a connected user online? (`user_presence.go:10-12`) | violated |
| `hub_count` | Is the count last shown in a quiet room its number of users? (`docs/29-final-delivery-document.md:22-23`) | violated |
| `hub_dispatch` | Do broadcasts complete, copy open channels only, do dead connections end, and is what the hub does of its connections what `Registry` allows? | holds, 134,377 states |
| `hub_removal` | Does every disconnected connection leave the maps? (`hub.go:327-328`, `hub_integration_test.go:271-272`) | violated |
| `hub_panic` | Does the process survive its clients? (`hub.go:237-238`) | violated |
| `delivery` | Does the whole path implement `MessageLog`, with bounded retries and a reported outcome? | holds, 1,156,065 states |
| `friends` | Are two users friends exactly if a request was accepted and neither removed the other since, do answers stand, and does the service implement `Friendship`? | holds, 238,138 states |
| `friends_pair` | Is there one relation per pair? (`friend_service.go:101-103`, `117`) | violated |
| `commands` | Does the replay protection keep its promise around handlers of several statements, whichever of them fail before or after they took effect; is a retried report stored once, and does a confirmed answer stand? | holds, 3,675,718 states |
| `conversation` | Between live events, history, cursor and push: is any message hidden, doubled, dropped or left untold in a way not named? | holds, 4,750,427 states |
| `session` | Does a tab act as the user it shows, is a logout final, does a lockout end? | holds, 2,196,405 states |

The five disagreements between the code and its documents that have a run:

* **`hub_presence`.** `MarkOffline` decrements the count and, if the result is
  0, deletes the field with a second command. A `MarkOnline` of the same user
  in between is deleted with the field: the user is connected and offline.
* **`hub_count`.** `broadcastRoomUserCount` reads SCARD and publishes the number
  in a second command. Of two concurrent joins or leaves the one that counted
  first may publish last, and the room shows the old number until the next
  change.
* **`hub_removal`.** The first frame of `register` and the answers of the
  commands wait for room in the connection's own channel. Broadcasts can have
  filled it while no writePump will empty it (not started yet, or already gone
  after a write error): the goroutine waits for ever and `unregister` never runs.
* **`hub_panic`.** A connection that ends after the copy of the targets and
  before the send to it has closed its channel. The `select` with a `default`
  does not protect from a send on a closed channel; the panic is in a goroutine
  nothing recovers.
* **`friends_pair`.** `SendRequest` looks for a row in either direction and
  inserts in a second statement. The unique index that is to catch the race is
  on the ordered pair: two users who ask each other at once both get a row.
  `FriendsAsAgreed` shows that the rest of the service copes with both rows,
  because removal deletes the accepted rows of both directions. A refusal of one
  row does not touch the other: who accepted A's request and is then refused by A
  remains A's friend, until one of them removes the other.

Three more have no run of their own. The first two are stated next to the code they
are about, and TLC refutes each within ten seconds when it is added to the
INVARIANTS of `MCCommands.cfg`:

* **`NoRepeatedRecommendation`** (`Recommend`). `recommendation_service.go:60-62` and
  `match_candidate_repository.go:24-26` say that generating again adds no
  recommendation twice, and the unit test of T110
  (`recommendation_service_test.go:146`) expects it of a fake store. For two users
  who share words but no room `room_id` is NULL, and the unique index does not apply to it: the
  second generation inserts the pair again. `DuplicatesCorrect` proves what is left:
  a pair is stored once per room, and a generation repeats no pair of its own.
* **`OneReportPerCase`** (`Reports`). `report_service.go:59-60`,
  `docs/29-final-delivery-document.md:182` and
  `docs/09-task16-18-19-work-log.md:23-25` (T80) say that a target reported again adds no second row. The
  lookup and the insert are two statements with no index behind them, and the error
  of the lookup is dropped: two calls under different keys (`client.ts:76` makes a
  new one for every command), or one whose lookup fails, store a second row.
  `RetryStoresOneReport` says what does hold, for the retries of one key.
* **The end of a login counter**, excused as `stuck` in `LockoutIsTemporary`: see
  below.

Bounds and why they are enough:

* `HubSession`: three connections of two users on two processes, one room, one
  fault (`MaxFaults`). The second connection of one user, in the other process,
  gives every race on a count or a set entry; the other user gives a bystander
  whose count and messages interfere; the one
  fault may be a crash, or the loss of any command or of HINCRBY's answer at any
  place, and a second would be another of these. A
  connection is opened once, so a reconnection is another connection. With one
  room a disconnect cleans up one; the proofs hold for any set of rooms.
* `HubDispatch`: two connections, `SendCap = 2` instead of 32, one command under
  way per peer (`MaxUnread`). What matters of a capacity is full, empty and in
  between; two connections give a broadcast whose first target is slow and whose
  second has ended.
* `Delivery`: one room message and one direct message, two attempts instead of
  four, two sockets, one frame still under way when the page joins or leaves
  (`MaxUp`). Two attempts give first send and retry in every combination of
  timer and replay, two sockets give two readPumps at work on one message. The
  run ends when the sockets are used up; the proofs hold for any bounds.
* `Friends`: three users, two tasks, three requests (`MaxRows`). Two tasks give
  mirrored requests, two answers to one request, and a removal (a single
  statement, which needs no task) between the statements of either; the third
  request lets a pair part and ask again, or a bystander be asked. Two users
  and two requests are enough for `friends_pair`. The proofs hold for any number.

* `Commands`: two calls under two keys, so that two calls of one key, and calls of
  different keys, overlap; two users, whose topics share a word or a room as they
  come and go; two generations (`MaxRuns`) and two candidates (`MaxRows`), which let a
  second generation repeat the first; both contrary answers to one candidate; two
  reports (`MaxReports`); one change of a topic or a friendship (`MaxChanges`),
  anywhere in between.
* `Conversation`: a conversation and a room, a message of the reader and one of
  somebody else, each for either thread; pages of one message, so that two fill
  more than a page; two requests, so that a cancelled one overlaps the page's own;
  two endpoints, so that a dead row stands beside a living one; four moves of the
  reader (`MaxMoves`): with these the socket opens and a page is opened, left and
  opened again, or a page is open across a reconnection, or a subscription is made,
  ended by the browser, and made again.
* `Session`: two tabs of one browser, two users, two requests under way, two
  logins (`MaxAsks`), three seconds of time (`MaxTime = 2`), tokens that live two
  seconds, a window of one second and one attempt in it (`Life`, `Window`,
  `Limit`): a token expires within the run, and a blacklist entry that ended a
  second early would show.

Symmetry is used where the members of a set are interchangeable and all properties
are safety properties (`ImplementsOnceOnly`, `ImplementsFriendship` and the others of those
runs have no liveness part), so it is sound. `commands`, `conversation`
and `session` take one to two minutes each.

What the properties of `session` and `conversation` name as exceptions, or do not
promise, are ways in which the code does behave:

* A failed EXPIRE, or a first INCR whose answer is lost, leaves a login counter
  without end: `LoginRateLimiter` sets the
  time to live only when INCR returned 1. The comment at `login_rate_limit.go:44-46`
  expects the next request to try again; the next request gets 2.
* A login over a session that is still shown keeps the old user's socket, because
  the socket follows whether somebody is logged in and not who.
* A session check sent before another tab logged in may answer after it, and shows
  the earlier user beside the jar of the later.
* Two logins of a user within a second get the same token, so the logout of one
  ends the other.
* The cursor is set to the time of its statement, so a message stored after the
  query of the page and before it counts as read without being shown.
* An event that arrives before the page's history is replaced by it, and a page
  that stays open asks for nothing after a reconnection.

Deadlock is not checked (`CHECK_DEADLOCK FALSE`): in every model the system
really stops, when all connections have ended or all messages have their outcome.

Fairness:

* `HubSession`, `HubDispatch`: the Go scheduler runs every goroutine that can
  run, hence weak fairness for the steps of each goroutine. `Progress(c)` is
  the one goroutine of a connection (its commands follow one another), and
  Redis answers or fails. Nothing is assumed of peers, networks or faults:
  connecting, commands, disconnecting, `Wedge` and `Crash` may never happen.
* `Delivery`: a timer that is set expires (`setTimeout`). Nothing is assumed of
  the network, the server or the user; `FateIsReported` supposes instead that
  the socket stays open from some time on.
* `Friends`, `Commands`, `Conversation` and `Session` have no fairness and no
  liveness: a command or request may end at any statement, and a user owes nothing.

## 5. Proofs

Each of the eight modules `*_proofs` is checked by `tlapm` with its name. They hold
for all constants that satisfy the named assumptions, which TLC evaluates in the
runs.

`HubSession_proofs` assumes `ConnAssumption` (finitely many connections and
users), `RoomAssumption`, `PlacementAssumption`, `FaultAssumption`.

* `TypeCorrect`. The types are not inductive alone: `SCARD` is applied to the
  set of the room in hand, so the invariant adds that a command that works on a
  room has one.
* `RegistryCorrect`. Inductive together with the types; each conjunct is kept
  by every critical section because `unregister` clears both indexes in one.
* `PresenceCorrect`. A user's count is at most the number of connections that
  were counted. A decrement takes one connection out of the set, an increment
  adds one, `HDel` and a lost command only lower the count or leave the set
  larger; the proof is about cardinalities of finite sets.
* `OnlineSetCorrect`. Every listed user has a witness. The invariant follows a
  witness through `SRem`, cleanup and crash: a step that takes the last witness
  away removes the entry, or records the removal as lost.

`Delivery_proofs` assumes `MsgAssumption` and `BoundAssumption`. Its invariant
`Inv` has four parts: `TabInv` (types, each transmission is a counted attempt,
only submitted messages are on a link), `OpenLink`, `LogInv` (what is in a
readPump's hand is stored, not posted, and in no other's; an echo is of a stored
message, and in a room of a posted one) and `Watched` (a pending message has a
timer, is stranded, or will be replayed). None of the properties is inductive
without it: that a message is posted once needs that no two readPumps hold it,
and that a confirmed message is stored needs what the echoes on the way carry.

* `TypeCorrect`, `FramesCorrect`, `WatchedCorrect`, `PostedCorrect`: the four
  invariants of the run.
* `DeliveryImplementsLog`: every step is one of `MessageLog` or a stutter.
  `SendReliable` submits, `Create` stores, `Publish` and `PublishToTarget` post,
  `OnMessage` confirms, `RetryTimer` gives up.

`Friends_proofs` assumes `UserAssumption` and `RowAssumption`. Its invariant is
`TypeInv`, `FriendsAsAgreed` and `MetSound`. `TypeInv` adds to the types that
ids from `next` on are unused, so that a stored request replaces none, and that
the request a task answers, if it is still there, is between the two users the
task works for: without it an answer could make friends of a pair and change
the row of another. `MetSound` says that the pair of a conversation being
opened has met, which the friend check established before other tasks ran.

* `TypeCorrect`, `AgreementCorrect`: the invariants of the run.
* `AnswerCorrect`: the action property of the run.
* `ConversationCorrect`: a conversation is between users who were friends.
* `MirroredCorrect`: what is left of the claim `friends_pair` refutes. Two rows of a
  pair that count run in opposite directions, so the unique index bounds them to
  two. `PairInv` says that the index holds and that nobody asks himself, which a
  command carries from its check to its insert.
* `FriendshipImplemented`: `CreateRequest` asks, `Resolve` accepts or refuses,
  `RemoveFriend` parts, the direct message talks. Mirrored rows make this more than
  a renaming: an answer leaves a pair with or without a request, and a removal must
  take both rows in one step.

`HubDispatch_proofs` assumes `CapAssumption`. The invariant is the types and
`Registered`: the users map holds exactly the connections between register and
unregister. Both inclusions are needed, one because a copied target must not have
closed its channel, the other because a command may put only a registered
connection into the room.

* `TypeCorrect`, `SnapshotCorrect`: the types, and that a broadcast copies open
  channels only.
* `PumpsCorrect` (`PumpsShareSocket`): the socket is closed exactly if one of the two
  pumps has returned. `PumpInv` adds that the writePump starts when `register`
  returns. It is what makes `BrokenConnectionEnds` true, whose liveness stays with TLC.
* `StuckCorrect` (`StuckIsForever`) and `StuckIsNeverRemoved`: how far `hub_removal`
  reaches. No step of any goroutine or peer frees a connection that waits on its own
  full channel without a writePump; it stays in the `users` map, and in its room.
* `RegistryImplemented`. `UnopenedIsQuiet` (no frame is queued for, and no broadcast
  names, a connection that has not registered) keeps a broadcast to a full channel
  from making a connection stuck before it is open. A panic is `End`: all
  connections of the process close at once.

`HubSession_proofs` has five more theorems. `SoleConnectionCorrect` has the invariant
`SoleInv`, which says what a user's only connection has in Redis at every place of its
goroutine (the entry of the room of a join or leave is behind until SADD or SREM),
and that a user without connections so far has nothing there. One lemma,
`SoleFrame`, reduces each step to the connection that takes it.

* `CountCorrect` (`CountIsExactUntilGone`) and `DepartureCorrect`
  (`DepartedLeftNothing`) say, for users with any number of connections, how far
  `hub_presence` reaches: without a fault a count is exact until a connection of the
  user has ended, and when the last one has ended nothing is left. Their invariant
  `AccountInv` says which places of a goroutine are counted (`CountedKnown`), that a
  cleanup has no room left when it reaches the count (`CleanedUp`), and that a count
  below zero has an HDEL on its way (`NegativeIsPassing`): without the last a count
  that HDEL put wrong could stay negative for ever.
* `UnlistedCorrect` (`UnlistedHasLeaver`) says what several tabs in one room may do to
  each other: the online set holds the user and not the tabs, so a tab that leaves
  hides one that stays, but nothing else does. `LeaveIsLocal` adds that SREM is
  reached after the tab has left the room's map, so whoever removes the user is the
  leaver that explains it; a leaver that comes back adds the user again.
* `RegistryImplemented`: the critical sections of `h.mu` are the steps of `Registry`,
  and everything Redis does in between is a stutter.

`Delivery_proofs` ends with `RegistryImplemented` too: the sockets of one tab, as
`Delivery` has them, open, join and close as `Registry` allows. So the three models
that look at the hub from different sides agree on what it promises.

`Idempotency_proofs` and `Commands_proofs` assume `KeyAssumption`,
`RowsAssumption`, `TopicAssumption`, `CaseAssumption`, `CommandAssumption` and
`ContactAssumption`. The middleware is proved for any handler: `HandlerStep` is a
step that touches nothing of it or ends with `Handled`. `KeysSound` says that one
call at most runs the command of a key, that the key is pending meanwhile, and
that `wins` is what the record says; `PendingIsOwned` and the refinement follow.
`Commands_proofs` adds `CommandKnown` and `AtCommand` (a call executes statements
of its key's command), `GenerationSound` (a generation has a number of its own,
and the rows it inserted are of pairs it will not look at again), `VerdictSound`
(what was won stands in the table) and `RowsSound` (the rows inserted under a key are
rows of its case, and before the insert of a call there are none, unless a lookup of
the key failed).

* `TypeCorrect`, `PendingCorrect`, `VerdictCorrect`, `RetryCorrect`: the invariants
  of the run.
* `DuplicatesCorrect`: what is left of the refuted `NoRepeatedRecommendation`.
* `OnceOnlyCorrect`: `Commands` implements `OnceOnly`. `Handled` with success
  executes, `Lookup` and `Finish` tell, `Expire` forgets.

`Session_proofs` assumes `TokenAssumption`, `NobodyAssumption` and
`AsksAssumption`. `AnswerSound` says what an answer carries. `FreshSound` is what
`TabActsAsShown` needs: a session check that is fresh carries the token that is
still in the jar, and its tab's socket, if it has one, was opened with it.
`TokenSound` (a token that was issued once and is on its way is nowhere else) and
`RevokedSound` (an entry lasts as long as its token, which leaves the jar with the
logout's answer) give `LogoutIsFinal`: without the first a login that arrives
could bring a revoked token. `LimitSound` says that exactly one attempt may set
the counter's end, and finds it unset; otherwise a late EXPIRE could extend or
reopen a window.

* `TypeCorrect`, `TabCorrect`, `LogoutCorrect`, `LockoutCorrect`.

`Conversation_proofs` assumes `ThreadAssumption`, `ViewAssumption`,
`EndpointAssumption` and `NoticeAssumption`. `SentSound` (a message has a thread
from its first statement on, and its conversation exists) is needed because a
conversation that is not found shows an empty page. `PushSound` says that the row
of a confirmed subscription is there, and that a notice without an excuse has it
still to send to. `RequestSound` says that between the two statements of a
request every message of the conversation is in its page, beyond it, or was
stored in between; `PageSound` that the request of an open page lacks no message
but those that are `Due`, and that what is on the page is in `seenMsgIds`.

* `TypeCorrect`, `HiddenCorrect`, `PageCorrect`, `AwayCorrect`.

All safety properties of the passing runs are proved. Model-checked only: the
liveness properties (`DepartedUserDisappears`, `SlowClientNeverBlocksHub`,
`BrokenConnectionEnds`, `FateIsReported`), since the proof system does not reason
about fairness and ENABLED, and what the runs refute. Proved without being a property
of a run, because the properties of a run are few: `ConversationIsEarned` (which
`ImplementsFriendship` contains), `RelationsAreMirrored`, `DuplicatesAreRoomless`,
`PumpsShareSocket`, `StuckIsForever`, and `ImplementsRegistry` of `HubSession` and
`Delivery`; TLC finds no counterexample to any of them on the
instances of the runs.

## 6. Not modelled

* In the modelled components: the contents and order of messages (only their
  identity matters to the properties), typing indications and the other frames
  that change no state; ping and pong, except that an unanswered ping breaks the
  connection; the rate limit, word list and length check, which are one choice
  of a refusal in `Create`; the interaction-event records; a change of the user
  within a tab that has pending messages; a limit on sessionStorage. In `Friends`:
  notifications and event records, which follow a stored request and whose failure
  is ignored, and the listings. In `Recommend`: scores, texts, the order of the
  pairs. In `ChatView`: pages of history other than the first, which no page of
  the client asks for, and the error shown instead of a history, which a page that
  changes its thread in place does not take back. In `Session`: the middleware that reads the token from the
  header, which the browser does not use, and passwords.
* The speech rate limit: two counters of one connection, kept by the one goroutine
  that reads from it. Nothing interleaves; `Delivery` has its refusal.
* Creating and listing rooms, and profiles: single statements.
* For good: media upload, event records and the training export, the bot (a
  sequential client of the same interface), configuration, logging, metrics and
  health, Web Push cryptography, the remaining pages of the client. They are
  single-row reads and writes, append-only records, or computations without state; `PROJECT.json` gives the reason for each.
