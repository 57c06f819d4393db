------------------------ MODULE MCScheduledDelivery ------------------------
(* Instances of ScheduledDelivery for TLC.                                  *)
EXTENDS ScheduledDelivery, TLC

CONSTANTS k1, k2, k3, w1, w2

(* All keys fall due together. *)
Together == [k \in Keys |-> 0]
(* k2 falls due when k1's retention has passed. *)
Later == [k \in Keys |-> IF k = k1 THEN 0 ELSE 5]

OneChunk == [k \in Keys |-> 1]
TwoChunks == [k \in Keys |-> IF k = k3 THEN 2 ELSE 1]

WakeSymmetry == Permutations(Wakes)
=============================================================================
