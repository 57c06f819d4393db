---------------------------- MODULE MCUploadGrants ----------------------------
(* Instances of UploadGrants for TLC. *)
EXTENDS UploadGrants, TLC

CONSTANTS r1, r2nd

ReqSymmetry == Permutations({r1, r2nd})
=============================================================================
