--------------------------- MODULE MCRoomRuntime ---------------------------
(* Instances of RoomRuntime for TLC.                                        *)
EXTENDS RoomRuntime, TLC

CONSTANTS c1, c2, u1, u2

ConnSymmetry == Permutations(Conns)
RoomSymmetry == Permutations(Conns) \cup Permutations(Users)
=============================================================================
