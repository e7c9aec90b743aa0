------------------------------ MODULE MCWsHub ------------------------------
(* Instances of WsHub for TLC. *)
EXTENDS WsHub, TLC

CONSTANTS c1, c2

ConnSymmetry == Permutations(Conns)
=============================================================================
