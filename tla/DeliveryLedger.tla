--------------------------- MODULE DeliveryLedger ---------------------------
(***************************************************************************)
(* What durable scheduled delivery promises about one delivery key,        *)
(* whoever delivers it and however often: a ledger in which every attempt  *)
(* follows a settled failure, an attempt whose lease lapsed can only be    *)
(* concluded and never repeated, the ledger says "succeeded" exactly when  *)
(* the handler completed, and a key that is retired stays so.              *)
(***************************************************************************)
CONSTANT Keys

VARIABLES
  state,  \* [Keys -> States]
  done    \* [Keys -> {0, 1}]: whether the handler of the key has completed

States == {"new", "running", "uncertain", "succeeded", "failed", "retired"}

Init ==
  /\ state \in [Keys -> {"new"}]
  /\ done \in [Keys -> {0}]

(* The first attempt, or one more after a settled failure. *)
Attempt(k) ==
  /\ state[k] \in {"new", "failed"} /\ done[k] = 0
  /\ state'[k] = "running" /\ done'[k] = done[k]

(* The handler of the open attempt completes. *)
Complete(k) ==
  /\ state[k] \in {"running", "uncertain"} /\ done[k] = 0
  /\ state'[k] = state[k] /\ done'[k] = 1

(* The open attempt is settled as what its handler did. *)
Conclude(k) ==
  /\ state[k] \in {"running", "uncertain"}
  /\ state'[k] = IF done[k] = 1 THEN "succeeded" ELSE "failed"
  /\ done'[k] = done[k]

(* Nobody settled the attempt within its lease. *)
Lapse(k) ==
  /\ state[k] = "running"
  /\ state'[k] = "uncertain" /\ done'[k] = done[k]

(* The key's delivery window is over and the ledger has no open attempt. *)
Retire(k) ==
  /\ state[k] # "running"
  /\ state'[k] = "retired" /\ done'[k] = done[k]

Idle(k) == state'[k] = state[k] /\ done'[k] = done[k]

(* One transaction may move many keys, each along its own life. *)
Next ==
  /\ state' \in [Keys -> States]
  /\ done' \in [Keys -> {0, 1}]
  /\ \A k \in Keys : \/ Attempt(k) \/ Complete(k) \/ Conclude(k)
                     \/ Lapse(k) \/ Retire(k) \/ Idle(k)

Spec == Init /\ [][Next]_<<state, done>>
=============================================================================
