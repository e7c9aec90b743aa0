------------------------------ MODULE MCNotes ------------------------------
(* Instances of Notes for TLC. *)
EXTENDS Notes, TLC

CONSTANTS d1, d2

DeviceSymmetry == Permutations(Devices)
=============================================================================
