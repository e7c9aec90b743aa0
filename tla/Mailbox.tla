------------------------------ MODULE Mailbox ------------------------------
(***************************************************************************)
(* What the hub promises a connection about what is published to its user: *)
(* it sees some of the PUBLISHes, each at most once and in the order in    *)
(* which Redis took them.  One may be missed, never repeated or reordered. *)
(***************************************************************************)
EXTENDS Integers, Sequences

CONSTANT Conns

VARIABLES
    sent,  \* PUBLISHes so far; they are numbered in that order
    got    \* what each connection has been sent since it opened

Init == sent = 0 /\ got = [c \in Conns |-> << >>]

Publish == sent' = sent + 1 /\ UNCHANGED got

\* The newest message a connection has seen, 0 if none.
Latest(c) == IF got[c] = << >> THEN 0 ELSE got[c][Len(got[c])]

Deliver(c) ==
    /\ \E m \in (Latest(c) + 1)..sent : got' = [got EXCEPT ![c] = Append(@, m)]
    /\ UNCHANGED sent

\* Some connections close, or lose their registration.
Close(gone) ==
    /\ got' = [c \in Conns |-> IF c \in gone THEN << >> ELSE got[c]]
    /\ UNCHANGED sent

Next ==
    \/ Publish
    \/ \E c \in Conns : Deliver(c)
    \/ \E gone \in SUBSET Conns : Close(gone)

Spec == Init /\ [][Next]_<<sent, got>>
=============================================================================
