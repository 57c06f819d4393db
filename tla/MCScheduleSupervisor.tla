------------------------- MODULE MCScheduleSupervisor -------------------------
(* Instances of ScheduleSupervisor for TLC. *)
EXTENDS ScheduleSupervisor

CONSTANTS a, b, c1, c2

Two == {a, b}
TwoCalls == {c1, c2}
=============================================================================
