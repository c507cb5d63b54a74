------------------------- MODULE Idempotency_proofs -------------------------
(***************************************************************************)
(* What the replay protection guarantees for any calls and keys, whatever  *)
(* handlers stand behind it: they are only known to use Continue and       *)
(* Handled while they run.                                                 *)
(***************************************************************************)
EXTENDS Idempotency, TLAPS

\* A handler's statement, as far as the middleware sees it: it goes on, or it
\* has answered.
HandlerStep(c) ==
  /\ stage[c] = "run"
  /\ \/ UNCHANGED <<store, stage, key, ok, wins, told, orphan>>
     \/ \E good \in BOOLEAN : Handled(c, good)

IdemNext ==
  \/ \E c \in Call : \/ \E k \in Key : Claim(c, k)
                     \/ Lookup(c) \/ HandlerStep(c) \/ Finish(c) \/ Die(c)
  \/ \E k \in Key : Expire(k)

Runs(c) == stage[c] \in {"run", "finish"}

\* One call runs the command of a pending key, and wins counts its success.
KeysSound ==
  /\ \A c, d \in Call : Runs(c) /\ Runs(d) /\ key[c] = key[d] => c = d
  /\ \A c \in Call : Runs(c) => store[key[c]] = "pending"
  /\ \A c \in Call : stage[c] = "run" => wins[key[c]] = 0
  /\ \A c \in Call : stage[c] = "finish" => wins[key[c]] = IF ok[c] THEN 1 ELSE 0
  /\ \A k \in Key : store[k] = "none" => wins[k] = 0
  /\ \A k \in Key : store[k] = "done" => wins[k] = 1
  /\ \A k \in Key : wins[k] \in {0, 1}
  /\ \A k \in told : wins[k] = 1

IdemInv == IdemTypeOK /\ KeysSound /\ PendingIsOwned

-----------------------------------------------------------------------------
\* Initially no key is known.
LEMMA IdemInvInit == IdemInit => IdemInv /\ Promise!Init
<1> SUFFICES ASSUME IdemInit PROVE IdemInv /\ Promise!Init
  OBVIOUS
<1>1. IdemTypeOK
  BY KeyAssumption DEF IdemInit, IdemTypeOK
<1> QED
  BY <1>1 DEF IdemInit, IdemInv, KeysSound, PendingIsOwned, Runs, Promise!Init

\* A call with its key runs or looks up.
LEMMA CallHasKey ==
  ASSUME IdemTypeOK, NEW c \in Call, stage[c] # "idle"
  PROVE  key[c] \in Key
BY DEF IdemTypeOK

\* Nothing the promise speaks of changes.
LEMMA Stutter == UNCHANGED <<wins, told>> => [Promise!Next]_<<wins, told>>
OBVIOUS

\* SETNX lets in a call only if no other runs the command.
LEMMA ClaimStep ==
  ASSUME IdemInv, NEW c \in Call, NEW k \in Key, Claim(c, k)
  PROVE  IdemInv' /\ [Promise!Next]_<<wins, told>>
<1> USE DEF IdemInv, IdemTypeOK
<1>1. IdemTypeOK'
  BY KeyAssumption DEF Claim
<1>2. /\ \A d \in Call \ {c} : key'[d] = key[d] /\ stage'[d] = stage[d]
      /\ UNCHANGED <<ok, wins, told>>
  BY DEF Claim
<1>3. ~Runs(c)
  BY DEF Claim, Runs
<1>4. ASSUME store[k] = "none"
      PROVE  \A d \in Call : Runs(d) => key[d] # k
  BY <1>4 DEF KeysSound
<1>5. CASE /\ store[k] = "none" /\ store' = [store EXCEPT ![k] = "pending"]
           /\ key'[c] = k /\ stage'[c] = "run" /\ orphan' = orphan
  <2>1. KeysSound'
    BY <1>2, <1>3, <1>4, <1>5 DEF KeysSound, Runs
  <2>2. PendingIsOwned'
    BY <1>2, <1>3, <1>5 DEF PendingIsOwned, Runs
  <2> QED
    BY <1>1, <1>2, <2>1, <2>2
<1>6. CASE /\ store[k] = "none" /\ store' = [store EXCEPT ![k] = "pending"]
           /\ UNCHANGED <<key, stage>> /\ orphan' = orphan \cup {k}
  <2>1. KeysSound'
    BY <1>2, <1>4, <1>6 DEF KeysSound, Runs
  <2>2. PendingIsOwned'
    BY <1>6 DEF PendingIsOwned
  <2> QED
    BY <1>1, <1>2, <2>1, <2>2
<1>7. CASE UNCHANGED <<store, orphan>> /\ stage'[c] = "lookup"
  <2>1. KeysSound'
    BY <1>2, <1>3, <1>7 DEF KeysSound, Runs
  <2>2. PendingIsOwned'
    BY <1>2, <1>3, <1>7 DEF PendingIsOwned, Runs
  <2> QED
    BY <1>1, <1>2, <2>1, <2>2
<1> QED
  BY <1>5, <1>6, <1>7 DEF Claim

\* A replayed answer tells of the one execution.
LEMMA LookupStep ==
  ASSUME IdemInv, NEW c \in Call, Lookup(c)
  PROVE  IdemInv' /\ [Promise!Next]_<<wins, told>>
<1> USE DEF IdemInv, IdemTypeOK
<1>1. key[c] \in Key /\ ~Runs(c)
  BY DEF Lookup, Runs
<1>2. IdemTypeOK'
  BY <1>1 DEF Lookup, End
<1>3. \A d \in Call \ {c} : key'[d] = key[d] /\ stage'[d] = stage[d] /\ ok'[d] = ok[d]
  BY DEF Lookup, End
<1>4. stage'[c] = "idle"
  BY DEF Lookup, End
<1>5. told' = told \/ (told' = told \cup {key[c]} /\ store[key[c]] = "done")
  BY DEF Lookup
<1>6. KeysSound'
  BY <1>1, <1>3, <1>4, <1>5 DEF Lookup, KeysSound, Runs
<1>7. PendingIsOwned'
  BY <1>1, <1>3, <1>4 DEF Lookup, PendingIsOwned, Runs
<1>8. [Promise!Next]_<<wins, told>>
  BY <1>1, <1>5 DEF Lookup, KeysSound, Promise!Next, Promise!Tell
<1> QED
  BY <1>2, <1>6, <1>7, <1>8

\* The handler succeeds at most once, since no other call runs the command and
\* none did before.
LEMMA HandlerStepKeeps ==
  ASSUME IdemInv, NEW c \in Call, HandlerStep(c)
  PROVE  IdemInv' /\ [Promise!Next]_<<wins, told>>
<1> USE DEF IdemInv, IdemTypeOK
<1>1. key[c] \in Key /\ stage[c] = "run" /\ wins[key[c]] = 0
  BY DEF HandlerStep, KeysSound
<1>2. CASE UNCHANGED <<store, stage, key, ok, wins, told, orphan>>
  BY <1>2 DEF KeysSound, PendingIsOwned, Runs
<1>3. ASSUME NEW good \in BOOLEAN, Handled(c, good)
      PROVE  IdemInv' /\ [Promise!Next]_<<wins, told>>
  <2>1. UNCHANGED <<store, key, told, orphan>>
    BY <1>3 DEF Handled
  <2>2. wins' = [wins EXCEPT ![key[c]] = IF good THEN 1 ELSE 0]
    BY <1>1, <1>3 DEF Handled
  <2>3. /\ stage'[c] = "finish" /\ ok'[c] = good
        /\ \A d \in Call \ {c} : stage'[d] = stage[d] /\ ok'[d] = ok[d]
    BY <1>3 DEF Handled
  <2>4. IdemTypeOK'
    BY <1>1, <1>3, <2>1, <2>2 DEF Handled
  <2>5. \A d \in Call \ {c} : Runs(d) => key[d] # key[c]
    BY <1>1 DEF KeysSound, Runs
  <2>6. KeysSound'
    BY <1>1, <2>1, <2>2, <2>3, <2>5 DEF KeysSound, Runs
  <2>7. PendingIsOwned'
    BY <1>1, <2>1, <2>3 DEF PendingIsOwned
  <2>8. [Promise!Next]_<<wins, told>>
    BY <1>1, <2>1, <2>2 DEF Promise!Next, Promise!Execute
  <2> QED
    BY <2>4, <2>6, <2>7, <2>8
<1> QED
  BY <1>2, <1>3 DEF HandlerStep

\* The record is written after the success it tells of; a failure frees the key.
LEMMA FinishStep ==
  ASSUME IdemInv, NEW c \in Call, Finish(c)
  PROVE  IdemInv' /\ [Promise!Next]_<<wins, told>>
<1> USE DEF IdemInv, IdemTypeOK
<1>1. key[c] \in Key /\ Runs(c) /\ stage[c] = "finish"
  BY DEF Finish, Runs
<1>2. IdemTypeOK'
  BY <1>1 DEF Finish, End
<1>3. /\ stage'[c] = "idle"
      /\ \A d \in Call \ {c} : key'[d] = key[d] /\ stage'[d] = stage[d] /\ ok'[d] = ok[d]
  BY DEF Finish, End
<1>4. \A d \in Call \ {c} : Runs(d) => key[d] # key[c]
  BY <1>1 DEF KeysSound
<1>5. wins' = wins /\ wins[key[c]] = IF ok[c] THEN 1 ELSE 0
  BY <1>1 DEF Finish, KeysSound
<1>6. told' = IF ok[c] THEN told \cup {key[c]} ELSE told
  BY DEF Finish
<1>7. \/ store' = [store EXCEPT ![key[c]] = IF ok[c] THEN "done" ELSE "none"] /\ orphan' = orphan
      \/ store' = store /\ orphan' = orphan \cup {key[c]}
  BY DEF Finish
<1>8. KeysSound'
  BY <1>1, <1>3, <1>4, <1>5, <1>6, <1>7 DEF KeysSound, Runs
<1>9. PendingIsOwned'
  BY <1>1, <1>3, <1>4, <1>7 DEF PendingIsOwned, Runs
<1>10. [Promise!Next]_<<wins, told>>
  BY <1>1, <1>5, <1>6 DEF Promise!Next, Promise!Tell
<1> QED
  BY <1>2, <1>8, <1>9, <1>10

\* A call that dies leaves its key pending, and this is recorded.
LEMMA DieStep ==
  ASSUME IdemInv, NEW c \in Call, Die(c)
  PROVE  IdemInv' /\ [Promise!Next]_<<wins, told>>
<1> USE DEF IdemInv, IdemTypeOK
<1>1. key[c] \in Key /\ Runs(c)
  BY DEF Die, Runs
<1>2. IdemTypeOK'
  BY <1>1 DEF Die, End
<1>3. /\ stage'[c] = "idle"
      /\ \A d \in Call \ {c} : key'[d] = key[d] /\ stage'[d] = stage[d] /\ ok'[d] = ok[d]
  BY DEF Die, End
<1>4. KeysSound'
  BY <1>1, <1>3 DEF Die, KeysSound, Runs
<1>5. PendingIsOwned'
  BY <1>1, <1>3 DEF Die, PendingIsOwned, Runs
<1> QED
  BY <1>2, <1>4, <1>5 DEF Die

\* A key that ends is forgotten with its executions.
LEMMA ExpireStep ==
  ASSUME IdemInv, NEW k \in Key, Expire(k)
  PROVE  IdemInv' /\ [Promise!Next]_<<wins, told>>
<1> USE DEF IdemInv, IdemTypeOK
<1>1. \A c \in Call : key[c] # k
  BY DEF Expire
<1>2. IdemTypeOK'
  BY DEF Expire
<1>3. KeysSound'
  BY <1>1 DEF Expire, KeysSound, Runs
<1>4. PendingIsOwned'
  BY <1>1 DEF Expire, PendingIsOwned
<1>5. Promise!Forget(k)
  BY DEF Expire, Promise!Forget
<1> QED
  BY <1>2, <1>3, <1>4, <1>5 DEF Promise!Next

-----------------------------------------------------------------------------
\* Every step of the middleware keeps the invariant and the promise.
LEMMA IdemStep ==
  ASSUME IdemInv, IdemNext \/ UNCHANGED idem
  PROVE  IdemInv' /\ [Promise!Next]_<<wins, told>>
<1>1. CASE UNCHANGED idem
  <2>1. UNCHANGED <<store, stage, key, ok, wins, told, orphan>>
    BY <1>1 DEF idem
  <2> QED
    BY <2>1 DEF IdemInv, IdemTypeOK, KeysSound, PendingIsOwned, Runs
<1>2. CASE IdemNext
  BY <1>2, ClaimStep, LookupStep, HandlerStepKeeps, FinishStep, DieStep, ExpireStep
     DEF IdemNext
<1> QED
  BY <1>1, <1>2
=============================================================================
