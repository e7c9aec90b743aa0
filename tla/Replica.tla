------------------------------ MODULE Replica ------------------------------
(***************************************************************************)
(* What the notes API promises the devices of a user.  Every write moves   *)
(* the version of an item on; the writes of a transaction happen at once;  *)
(* a device changes an item only if it holds it in its current version,    *)
(* or forces one that it made and has never heard of again; and a device   *)
(* that hears of an item hears of it as it is.                             *)
(***************************************************************************)
EXTENDS Integers

CONSTANTS Items, Devices, Bodies

\* Version 0 is no item.
Item == [version : Nat, body : Bodies, deleted : BOOLEAN]

VARIABLES
    store, \* the items
    held,  \* what each device holds of them
    made   \* the items whose id each device made

Init ==
    /\ store \in [Items -> Item] /\ held = [d \in Devices |-> store]
    /\ made = [d \in Devices |-> {}]

SameContent(a, b) == a.body = b.body /\ a.deleted = b.deleted

\* Device d made item i and was not told what became of it, so that it takes the
\* item for new.  What other devices have written to it is lost.
Forced(d, i) == i \in made[d] /\ held[d][i].version = 0

\* Device d writes some items: their content only where it holds the current
\* version (of an item that is new, none), or forces it.
Write(d) ==
    /\ store' \in [Items -> Item]
    /\ \A i \in Items : store'[i] # store[i] =>
         /\ store'[i].version > store[i].version
         /\ \/ SameContent(store'[i], store[i])
            \/ held[d][i].version = store[i].version
            \/ Forced(d, i)

\* Some items are removed.
Purge ==
    /\ store' \in [Items -> Item]
    /\ \A i \in Items : store'[i] # store[i] => store'[i].version = 0

\* Devices hear of some items.
Hear ==
    /\ held' \in [Devices -> [Items -> Item]]
    /\ \A d \in Devices, i \in Items : held'[d][i] \in {held[d][i], store'[i]}

\* Devices make ids, no two of them the same.
Make ==
    /\ made' \in [Devices -> SUBSET Items]
    /\ \A d \in Devices : made[d] \subseteq made'[d]
    /\ \A d, e \in Devices : d # e => made'[d] \cap made'[e] = {}

Next == (Purge \/ \E d \in Devices : Write(d)) /\ Hear /\ Make

Spec == Init /\ [][Next]_<<store, held, made>>
=============================================================================
