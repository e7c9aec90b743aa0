----------------------------- MODULE MCAccounts -----------------------------
(* Instances of Accounts for TLC. *)
EXTENDS Accounts, TLC

CONSTANTS r1, r2, p1, p2

AccountSymmetry == Permutations(Requests) \cup Permutations(Passwords)
=============================================================================
