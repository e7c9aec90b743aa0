------------------------------ MODULE Session ------------------------------
(***************************************************************************)
(* What the broadcast API promises clients whose requests do not overlap:  *)
(* each operation is one step, allowed by the broadcast as it is at that   *)
(* step.  A broadcast is offline, live or deleted for good; only a live    *)
(* one has people in it, and each has one role.                            *)
(***************************************************************************)
CONSTANTS
    Broadcasts, Users,
    Creator,     \* whose each broadcast is
    Invitations  \* the sets of users that one request may appoint

VARIABLES
    phase,    \* "none", "inactive", "active" or "deleted"
    cohosts,  \* who is appointed
    cast,     \* the role each user takes part in, "none" for not at all
    past      \* who was there when the broadcast ended, and is not seated again

Nobody == [u \in Users |-> "none"]

Audience(b) == {u \in Users : cast[b][u] # "none"}

Init ==
    /\ phase   = [b \in Broadcasts |-> "none"]
    /\ cohosts = [b \in Broadcasts |-> {}]
    /\ cast    = [b \in Broadcasts |-> Nobody]
    /\ past    = [b \in Broadcasts |-> {}]

Becomes(b, from, to) == phase[b] = from /\ phase' = [phase EXCEPT ![b] = to]
IsLive(b) == phase[b] = "active" /\ UNCHANGED phase

Place(b, u, ro) == cast' = [cast EXCEPT ![b][u] = ro]
Seat(b, u, ro)  == Place(b, u, IF u \in past[b] THEN cast[b][u] ELSE ro) /\ UNCHANGED past

Appointed(b, cs) ==
    /\ Creator[b] \notin cs
    /\ cohosts' = [cohosts EXCEPT ![b] = cohosts[b] \cup cs]

\* Nobody who is live may announce another broadcast.
Create(b) ==
    /\ Becomes(b, "none", "inactive")
    /\ \A c \in Broadcasts : Creator[c] = Creator[b] => phase[c] # "active"
    /\ \E cs \in Invitations : Appointed(b, cs)
    /\ UNCHANGED <<cast, past>>

Update(b) ==
    /\ phase[b] = "inactive"
    /\ \E cs \in Invitations : Appointed(b, cs)
    /\ UNCHANGED <<phase, cast, past>>

Delete(b) == Becomes(b, "inactive", "deleted") /\ UNCHANGED <<cohosts, cast, past>>

Start(b) == Becomes(b, "inactive", "active") /\ Seat(b, Creator[b], "host") /\ UNCHANGED cohosts

End(b) ==
    /\ Becomes(b, "active", "inactive")
    /\ cast' = [cast EXCEPT ![b] = Nobody]
    /\ past' = [past EXCEPT ![b] = past[b] \cup Audience(b)]
    /\ UNCHANGED cohosts

\* One broadcast at a time, and never one's own.
Join(b, u) ==
    /\ IsLive(b) /\ u # Creator[b]
    /\ \A c \in Broadcasts : u \notin Audience(c)
    /\ Seat(b, u, IF u \in cohosts[b] THEN "cohost" ELSE "participant")
    /\ UNCHANGED cohosts

Leave(b, u) ==
    /\ IsLive(b) /\ u \in Audience(b)
    /\ Place(b, u, "none")
    /\ UNCHANGED <<cohosts, past>>

AddCohost(b, u) ==
    /\ IsLive(b) /\ u \notin cohosts[b] \cup {Creator[b]}
    /\ cohosts' = [cohosts EXCEPT ![b] = cohosts[b] \cup {u}]
    /\ Seat(b, u, "cohost")

\* A cohost stays as a participant, or is removed from the room, which also
\* lets a later appointment or join seat them again.
RemoveCohost(b, u) ==
    /\ IsLive(b) /\ u \in cohosts[b]
    /\ cohosts' = [cohosts EXCEPT ![b] = cohosts[b] \ {u}]
    /\ \/ Seat(b, u, "participant")
       \/ Place(b, u, "none") /\ past' = [past EXCEPT ![b] = past[b] \ {u}]

Next == \E b \in Broadcasts :
    \/ Create(b) \/ Update(b) \/ Delete(b) \/ Start(b) \/ End(b)
    \/ \E u \in Users : Join(b, u) \/ Leave(b, u) \/ AddCohost(b, u) \/ RemoveCohost(b, u)

Spec == Init /\ [][Next]_<<phase, cohosts, cast, past>>
=============================================================================
