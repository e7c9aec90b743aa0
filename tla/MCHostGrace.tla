---------------------------- MODULE MCHostGrace ----------------------------
(* Instances of HostGrace for TLC. *)
EXTENDS HostGrace, TLC

CONSTANTS phone, laptop

Devices == Permutations({phone, laptop})
=============================================================================
