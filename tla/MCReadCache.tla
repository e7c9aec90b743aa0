---------------------------- MODULE MCReadCache ----------------------------
(* Instances of ReadCache for TLC. *)
EXTENDS ReadCache

CONSTANTS r1, r2
=============================================================================
