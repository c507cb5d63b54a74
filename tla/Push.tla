-------------------------------- MODULE Push --------------------------------
(***************************************************************************)
(* Web Push for one reader: the subscription of the browser (push.ts,      *)
(* NotificationToggle.tsx), the rows of the server (api/push.go,           *)
(* push_subscription_repository.go), and NotifyOfflineUser                 *)
(* (service/push_service.go) for the messages the reader is to be told of. *)
(*                                                                         *)
(* A browser never gets an endpoint twice, so the id of a row and its      *)
(* endpoint name the same thing.  The attempts of sendWithRetry are one    *)
(* step: only the answer to the last of them changes anything.             *)
(***************************************************************************)
EXTENDS Naturals

CONSTANTS
  Notice,      \* messages to notify of
  Endpoint,    \* endpoints the push service gives to the browser
  NoEndpoint   \* "no subscription"

ASSUME EndpointAssumption == NoEndpoint \notin Endpoint

VARIABLES
  device,      \* the browser's subscription
  toggle,      \* what the toggle shows, or the request it waits for
  asks,        \* the endpoint in that request
  issued,      \* history: endpoints the browser ever had
  acked,       \* history: the subscription, if the server has confirmed it
  rows,        \* table push_subscriptions
  duty,        \* where the notification of a message is
  targets,     \* the endpoints it has still to send to
  excused,     \* history: notices with a reason not to be shown
  pushed       \* history: notices the service worker has shown

sub  == <<device, toggle, asks, issued, acked>>
push == <<sub, rows, duty, targets, excused, pushed>>

PushTypeOK ==
  /\ device \in Endpoint \cup {NoEndpoint}
  /\ toggle \in {"off", "saving", "on", "leaving"}
  /\ asks \in Endpoint \cup {NoEndpoint}
  /\ issued \subseteq Endpoint
  /\ acked \in {device, NoEndpoint}
  /\ rows \subseteq issued
  /\ duty \in [Notice -> {"none", "check", "list", "send", "done"}]
  /\ targets \in [Notice -> SUBSET issued]
  /\ excused \subseteq Notice
  /\ pushed \subseteq Notice
  /\ {device, asks} \subseteq issued \cup {NoEndpoint}
  /\ toggle \in {"saving", "leaving"} <=> asks # NoEndpoint

PushInit ==
  /\ device = NoEndpoint /\ toggle = "off" /\ asks = NoEndpoint
  /\ issued = {} /\ acked = NoEndpoint /\ rows = {}
  /\ duty = [m \in Notice |-> "none"]
  /\ targets = [m \in Notice |-> {}]
  /\ excused = {} /\ pushed = {}

Underway == {m \in Notice : duty[m] \in {"check", "list", "send"}}

\* Something a notification depends on changes while it is under way.
ExcuseAll == excused' = excused \cup Underway

\* Create: INSERT ... ON CONFLICT (user_id, endpoint) DO UPDATE; here all rows are
\* the reader's.
Upsert(e) == rows' = rows \cup {e}

\* DeleteByEndpoint and DeleteByID; none is there to delete when it was done before.
DeleteRow(e) == rows' = rows \ {e}

-----------------------------------------------------------------------------
(* The browser.                                                            *)

\* subscribeToPush: the browser's subscription is made, or the one it has is
\* used again, and sent to the server.
Subscribe ==
  /\ toggle = "off"
  /\ IF device = NoEndpoint
     THEN \E e \in Endpoint \ issued : device' = e /\ issued' = issued \cup {e}
     ELSE UNCHANGED <<device, issued>>
  /\ toggle' = "saving"
  /\ asks' = device'
  /\ acked' = NoEndpoint
  /\ ExcuseAll
  /\ UNCHANGED <<rows, duty, targets, pushed>>

\* POST: the row is upserted, and the toggle hears of it unless the answer is
\* lost.
Save ==
  /\ toggle = "saving"
  /\ Upsert(asks)
  /\ \/ toggle' = "on" /\ acked' = IF device = asks THEN asks ELSE NoEndpoint
     \/ toggle' = "off" /\ UNCHANGED acked
  /\ asks' = NoEndpoint
  /\ UNCHANGED <<device, issued, duty, targets, excused, pushed>>

\* unsubscribeFromPush: the browser's subscription ends before the server hears
\* of it.
Unsubscribe ==
  /\ toggle = "on"
  /\ toggle' = IF device = NoEndpoint THEN "off" ELSE "leaving"
  /\ asks' = device
  /\ device' = NoEndpoint
  /\ acked' = NoEndpoint
  /\ ExcuseAll
  /\ UNCHANGED <<issued, rows, duty, targets, pushed>>

\* DELETE.
DeleteByEndpoint ==
  /\ toggle = "leaving"
  /\ DeleteRow(asks)
  /\ toggle' \in {"off", "on"}
  /\ asks' = NoEndpoint
  /\ UNCHANGED <<device, issued, acked, duty, targets, excused, pushed>>

\* The request of the toggle fails before its statement: the toggle stays as it was.
ToggleFails ==
  /\ toggle \in {"saving", "leaving"}
  /\ toggle' = IF toggle = "saving" THEN "off" ELSE "on"
  /\ asks' = NoEndpoint
  /\ UNCHANGED <<device, issued, acked, rows, duty, targets, excused, pushed>>

\* The page is loaded: the toggle asks the browser, not the server.
ShowToggle ==
  /\ \/ toggle = "off" /\ device # NoEndpoint /\ toggle' = "on"
     \/ toggle = "on" /\ device = NoEndpoint /\ toggle' = "off"
  /\ UNCHANGED <<device, asks, issued, acked, rows, duty, targets, excused, pushed>>

\* The browser or its push service ends the subscription.
Revoke ==
  /\ device # NoEndpoint
  /\ device' = NoEndpoint
  /\ acked' = NoEndpoint
  /\ ExcuseAll
  /\ UNCHANGED <<toggle, asks, issued, rows, duty, targets, pushed>>

-----------------------------------------------------------------------------
(* NotifyOfflineUser.                                                      *)

\* It is called.  A reader who has no confirmed subscription cannot expect a push.
Begin(m, reason) ==
  /\ duty[m] = "none"
  /\ duty' = [duty EXCEPT ![m] = "check"]
  /\ excused' = IF reason \/ acked = NoEndpoint THEN excused \cup {m} ELSE excused
  /\ UNCHANGED <<sub, rows, targets, pushed>>

\* IsOnline: a reader who is online is told by the socket.
CheckPresence(m, online) ==
  /\ duty[m] = "check"
  /\ duty' = [duty EXCEPT ![m] = IF online THEN "done" ELSE "list"]
  /\ UNCHANGED <<sub, rows, targets, excused, pushed>>

ListByUser(m) ==
  /\ duty[m] = "list"
  /\ targets' = [targets EXCEPT ![m] = rows]
  /\ duty' = [duty EXCEPT ![m] = IF rows = {} THEN "done" ELSE "send"]
  /\ UNCHANGED <<sub, rows, excused, pushed>>

\* Mutant of SendWithRetry: a dead endpoint ends the loop over the rows.
SendUntilDead(m, e) ==
  /\ duty[m] = "send" /\ e \in targets[m]
  /\ \/ /\ e = device
        /\ targets' = [targets EXCEPT ![m] = @ \ {e}]
        /\ pushed' = pushed \cup {m}
        /\ UNCHANGED <<rows, excused>>
     \/ /\ e # device
        /\ targets' = [targets EXCEPT ![m] = {}]
        /\ DeleteRow(e)
        /\ UNCHANGED <<pushed, excused>>
  /\ duty' = [duty EXCEPT ![m] = IF targets'[m] = {} THEN "done" ELSE "send"]
  /\ UNCHANGED sub

\* sendWithRetry for one row: the push service delivers to a subscription that is
\* alive, and answers 404 or 410 for one that is not, whose row is deleted; or
\* the attempts come to nothing.
SendWithRetry(m, e) ==
  /\ duty[m] = "send" /\ e \in targets[m]
  /\ targets' = [targets EXCEPT ![m] = @ \ {e}]
  /\ duty' = [duty EXCEPT ![m] = IF targets'[m] = {} THEN "done" ELSE "send"]
  /\ \/ /\ e = device
        /\ pushed' = pushed \cup {m}
        /\ UNCHANGED <<rows, excused>>
     \/ /\ e # device
        /\ DeleteRow(e)
        /\ UNCHANGED <<pushed, excused>>
     \/ /\ excused' = IF e = device THEN excused \cup {m} ELSE excused
        /\ UNCHANGED <<rows, pushed>>
  /\ UNCHANGED sub

\* A statement fails or the process ends.
GiveUp(m) ==
  /\ m \in Underway
  /\ duty' = [duty EXCEPT ![m] = "done"]
  /\ targets' = [targets EXCEPT ![m] = {}]
  /\ excused' = excused \cup {m}
  /\ UNCHANGED <<sub, rows, pushed>>

Choose == Subscribe \/ Unsubscribe \/ ShowToggle \/ Revoke

PushStep(online) ==
  \/ Save \/ DeleteByEndpoint \/ ToggleFails
  \/ \E m \in Notice : \/ CheckPresence(m, online) \/ ListByUser(m) \/ GiveUp(m)
                       \/ \E e \in Endpoint : SendWithRetry(m, e)

-----------------------------------------------------------------------------
\* A reader who was away is shown the notification: when it is done it was
\* shown, or the socket, the presence or the subscription changed meanwhile,
\* or a statement or all attempts failed.  No clean-up of dead endpoints, late
\* answer or reload of the page costs the row of a living subscription.
AwayReaderIsTold ==
  \A m \in Notice : duty[m] = "done" => m \in pushed \cup excused
=============================================================================
