------------------------------ MODULE OnceOnly ------------------------------
(***************************************************************************)
(* What middleware/idempotency.go:15-17 promises of a key while its record *)
(* lives: the command takes effect at most once, and whoever is told of    *)
(* success is told of that one execution.                                  *)
(***************************************************************************)
EXTENDS Naturals

CONSTANT Key

VARIABLES
  effects,     \* how often the command of a key succeeded since the key is known
  told         \* keys whose caller was answered with success

Init == effects = [k \in Key |-> 0] /\ told = {}

Execute(k) ==
  /\ effects[k] = 0
  /\ effects' = [effects EXCEPT ![k] = 1]
  /\ UNCHANGED told

Tell(k) ==
  /\ effects[k] = 1
  /\ told' = told \cup {k}
  /\ UNCHANGED effects

\* The record's 24 hours are over: the key is as good as new.
Forget(k) ==
  /\ effects' = [effects EXCEPT ![k] = 0]
  /\ told' = told \ {k}

Next == \E k \in Key : Execute(k) \/ Tell(k) \/ Forget(k)

Spec == Init /\ [][Next]_<<effects, told>>
=============================================================================
