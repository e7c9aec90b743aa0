---------------------------- MODULE MCBroadcast ----------------------------
(* Instances of Broadcast for TLC: one host with one or two broadcasts. *)
EXTENDS Broadcast, TLC

CONSTANTS host, ann, bob, one, two, r1, r2

\* Every broadcast is the host's.
HostOfAll == [b \in Broadcasts |-> host]

Slots     == Permutations({r1, r2})
Alike     == Permutations({one, two}) \cup Slots
=============================================================================
