----------------------------- MODULE Idempotency -----------------------------
(***************************************************************************)
(* The replay protection of HTTP commands (middleware/idempotency.go).  A  *)
(* call is one HTTP request that carries an Idempotency-Key; a retry is    *)
(* another call with the same key.  Each Redis command is an action.  A    *)
(* key stands for scope, method, route and header; a call without the      *)
(* header, or with a malformed one, never gets here.                       *)
(*                                                                         *)
(* The handler behind the middleware belongs to the modules that extend    *)
(* this one: it runs while stage is "run" and ends with Handled.           *)
(***************************************************************************)
EXTENDS Naturals

CONSTANTS
  Call,        \* requests that may be under way at a time
  Key,         \* idempotency keys
  NoKey        \* "no key"

ASSUME KeyAssumption == NoKey \notin Key

VARIABLES
  store,       \* Redis: what is recorded under a key
  stage,       \* where a call is in the middleware
  key,         \* the key of a call
  at,          \* the statement its handler executes next, "start" at first
  ok,          \* whether its handler answered 2xx
  wins,        \* history: successful executions since the key is known
  told,        \* history: keys answered with success since they are known
  orphan       \* history: keys left pending by a crash, by a failed SET or DEL, or
               \* by a SETNX whose answer was lost

idem == <<store, stage, key, at, ok, wins, told, orphan>>

IdemTypeOK ==
  /\ store \in [Key -> {"none", "pending", "done"}]
  /\ stage \in [Call -> {"idle", "lookup", "run", "finish"}]
  /\ key \in [Call -> Key \cup {NoKey}]
  /\ ok \in [Call -> BOOLEAN]
  /\ wins \in [Key -> Nat]
  /\ told \subseteq Key
  /\ orphan \subseteq Key
  /\ \A c \in Call : stage[c] = "idle" <=> key[c] = NoKey

IdemInit ==
  /\ store = [k \in Key |-> "none"]
  /\ stage = [c \in Call |-> "idle"]
  /\ key = [c \in Call |-> NoKey]
  /\ at = [c \in Call |-> "start"]
  /\ ok = [c \in Call |-> FALSE]
  /\ wins = [k \in Key |-> 0]
  /\ told = {}
  /\ orphan = {}

-----------------------------------------------------------------------------
\* Mutant of End: the call keeps its key.
EndKeepingKey(c) ==
  /\ stage' = [stage EXCEPT ![c] = "idle"]
  /\ at' = [at EXCEPT ![c] = "start"]
  /\ ok' = [ok EXCEPT ![c] = FALSE]
  /\ UNCHANGED key

\* The call is answered and forgotten.
End(c) ==
  /\ stage' = [stage EXCEPT ![c] = "idle"]
  /\ key' = [key EXCEPT ![c] = NoKey]
  /\ at' = [at EXCEPT ![c] = "start"]
  /\ ok' = [ok EXCEPT ![c] = FALSE]

\* Mutant of Claim: SET in the place of SETNX.
ClaimAlways(c, k) ==
  /\ stage[c] = "idle"
  /\ key' = [key EXCEPT ![c] = k]
  /\ store' = [store EXCEPT ![k] = "pending"]
  /\ stage' = [stage EXCEPT ![c] = "run"]
  /\ UNCHANGED <<at, ok, wins, told, orphan>>

\* SETNX: the first call of a key runs the command, the others look it up.  An
\* error is answered with 503 and no DEL: when Redis did set the key and only its
\* answer was lost, late or cancelled, the key is pending and nobody runs it.
Claim(c, k) ==
  /\ stage[c] = "idle"
  /\ \/ /\ store[k] = "none"
        /\ store' = [store EXCEPT ![k] = "pending"]
        /\ \/ /\ key' = [key EXCEPT ![c] = k]
              /\ stage' = [stage EXCEPT ![c] = "run"]
              /\ UNCHANGED orphan
           \/ /\ orphan' = orphan \cup {k}
              /\ UNCHANGED <<key, stage>>
     \/ /\ store[k] # "none"
        /\ key' = [key EXCEPT ![c] = k]
        /\ stage' = [stage EXCEPT ![c] = "lookup"]
        /\ UNCHANGED <<store, orphan>>
  /\ UNCHANGED <<at, ok, wins, told>>

\* GET: the recorded answer is replayed; a pending key, one that is gone by
\* now, and a failed GET are answered with 409.
Lookup(c) ==
  /\ stage[c] = "lookup"
  /\ \/ told' = IF store[key[c]] = "done" THEN told \cup {key[c]} ELSE told
     \/ UNCHANGED told
  /\ End(c)
  /\ UNCHANGED <<store, wins, orphan>>

\* The handler has written its answer.
Handled(c, good) ==
  /\ stage' = [stage EXCEPT ![c] = "finish"]
  /\ at' = [at EXCEPT ![c] = "start"]
  /\ ok' = [ok EXCEPT ![c] = good]
  /\ wins' = [wins EXCEPT ![key[c]] = IF good THEN @ + 1 ELSE @]
  /\ UNCHANGED <<store, key, told, orphan>>

\* The handler goes on with another statement.
Continue(c, statement) ==
  /\ at' = [at EXCEPT ![c] = statement]
  /\ UNCHANGED <<store, stage, key, ok, wins, told, orphan>>

\* Mutant of Finish: the key of a failed command is not released.
FinishKeepingFailed(c) ==
  /\ stage[c] = "finish"
  /\ store' = [store EXCEPT ![key[c]] = IF ok[c] THEN "done" ELSE @]
  /\ told' = IF ok[c] THEN told \cup {key[c]} ELSE told
  /\ End(c)
  /\ UNCHANGED <<wins, orphan>>

\* SET of the record, or DEL after a failure; an error of either is ignored.
\* net/http sends the small answer when the middleware returns.
Finish(c) ==
  /\ stage[c] = "finish"
  /\ \/ /\ store' = [store EXCEPT ![key[c]] = IF ok[c] THEN "done" ELSE "none"]
        /\ UNCHANGED orphan
     \/ /\ orphan' = orphan \cup {key[c]}
        /\ UNCHANGED store
  /\ told' = IF ok[c] THEN told \cup {key[c]} ELSE told
  /\ End(c)
  /\ UNCHANGED wins

\* The handler panics (gin.Recovery answers 500) or the process ends: neither
\* SET nor DEL is sent.
Die(c) ==
  /\ stage[c] \in {"run", "finish"}
  /\ orphan' = orphan \cup {key[c]}
  /\ End(c)
  /\ UNCHANGED <<store, wins, told>>

\* Redis drops a key after 24 hours; no request lasts that long.
Expire(k) ==
  /\ store[k] # "none"
  /\ \A c \in Call : key[c] # k
  /\ store' = [store EXCEPT ![k] = "none"]
  /\ wins' = [wins EXCEPT ![k] = 0]
  /\ told' = told \ {k}
  /\ orphan' = orphan \ {k}
  /\ UNCHANGED <<stage, key, at, ok>>

-----------------------------------------------------------------------------
\* A key is pending only while a call runs its command, or after a crash, a
\* failed SET or DEL, or a SETNX whose answer was lost: whatever else overlaps or
\* fails, the retries of a command are not answered with 409 for a day.
PendingIsOwned ==
  \A k \in Key : store[k] = "pending" =>
    \/ k \in orphan
    \/ \E c \in Call : key[c] = k /\ stage[c] \in {"run", "finish"}

\* However its calls overlap, fail, crash and are repeated, a key keeps the
\* promise of OnceOnly.
Promise == INSTANCE OnceOnly WITH effects <- wins, told <- told
ImplementsOnceOnly == Promise!Spec
=============================================================================
