----------------------------- MODULE Broadcast -----------------------------
(***************************************************************************)
(* The life cycle of a live audio broadcast: the HTTP operations of        *)
(* BroadcastService (create, update, delete, start, end, join, leave,      *)
(* add_cohost, remove_cohost) over Postgres, Redis and LiveKit.            *)
(*                                                                         *)
(* A request is a process.  It runs its queries (one atomic step each, in  *)
(* any order where the code awaits them with tokio::join!), decides on     *)
(* what it read and commits one transaction.  The handler then spawns a    *)
(* task for its Redis and LiveKit effects and answers; the task outlives   *)
(* the answer and stays in the slot until it ends.  Nothing is locked      *)
(* between the queries and the transaction, so other requests interleave   *)
(* everywhere, and even clients who wait for every answer meet the tasks   *)
(* of earlier requests.                                                    *)
(*                                                                         *)
(* The hub's rooms, which start, join, leave and end also change, are      *)
(* module WsHub's.  The set room:{id}:members is left out: nothing reads   *)
(* its members.                                                            *)
(***************************************************************************)
EXTENDS Integers, FiniteSets

CONSTANTS
    Broadcasts,   \* ids of the broadcasts rows clients may create
    Users,        \* registered users
    Creator,      \* the creator_id of each broadcast
    Reqs,         \* slots for requests, and for the tasks they spawned
    Serial,       \* whether a client calls only once every earlier request is answered
    Ops,          \* the operations clients call
    Faults,       \* whether commands may fail and requests be cut short
    MaxCohosts,   \* MAX_COHOSTS of dto.rs
    MaxRequests   \* bound: requests issued in a behaviour

AllOps == {"create", "update", "delete", "start", "end", "join", "leave",
           "add_cohost", "remove_cohost"}

ASSUME BroadcastAssumption ==
    /\ IsFiniteSet(Users)
    /\ Creator \in [Broadcasts -> Users]
    /\ Ops \subseteq AllOps
    /\ Serial \in BOOLEAN /\ Faults \in BOOLEAN
    /\ MaxCohosts \in Nat
    /\ MaxRequests \in Nat

VARIABLES
    \* Postgres, table broadcasts
    status,      \* "none" before the INSERT, then the status column
    token,       \* broadcast_token IS NOT NULL
    deleted,     \* deleted_at IS NOT NULL
    \* Postgres, tables broadcast_participants and broadcast_cohosts
    rows,        \* users with a participant row
    left,        \* those whose row has left_at set
    role,        \* role column of the row, "none" without a row
    cohosts,     \* users with a cohost row
    \* Redis and LiveKit
    liveCount,   \* live_count key; an absent key counts as 0, as for INCR
    lkRoom,      \* the LiveKit room exists
    \* the API
    req,         \* the request in each slot
    issued       \* requests issued so far

bcVars    == <<status, token, deleted>>
partVars  == <<rows, left, role>>
dbVars    == <<bcVars, partVars, cohosts>>
cacheVars == <<liveCount, lkRoom>>
vars      == <<dbVars, cacheVars, req, issued>>

-----------------------------------------------------------------------------
(* Requests *)

Roles    == {"none", "host", "cohost", "participant"}
Statuses == {"none", "inactive", "active"}
Queries  == {"bc", "active_host", "cohost", "busy", "row", "full"}
\* In the handler, and in the task it spawned.
Handling == {"read", "commit"}
Pcs      == Handling \cup {"seed", "unroom", "uncount", "count", "decr", "zero", "kick", "purge"}

Idle == [op |-> "idle"]

Request ==
    [op: AllOps, b: Broadcasts, u: Users, t: Users, pc: Pcs,
     todo: SUBSET Queries,             \* queries not answered yet
     seen: Statuses,                   \* find_by_id, "none" when not found
     hit: SUBSET Queries,              \* Boolean queries that answered true
     mine: {"absent", "live", "left"}] \* find_participant

\* The queries each operation awaits before it decides.
Reads(op) ==
    CASE op = "create"        -> {"active_host"}
      [] op = "join"          -> {"bc", "cohost", "busy"}
      [] op = "leave"         -> {"bc", "row"}
      [] op = "add_cohost"    -> {"cohost", "bc", "full"}
      [] op = "remove_cohost" -> {"bc", "cohost"}
      [] OTHER                -> {"bc"}

NewRequest(op, b, u, t) ==
    [op |-> op, b |-> b, u |-> u, t |-> t, pc |-> "read", todo |-> Reads(op),
     seen |-> "none", hit |-> {}, mine |-> "absent"]

\* Request r has not been answered.
Running(r) == req[r] # Idle /\ req[r].pc \in Handling

InFlight(op, b) == \E r \in Reqs : req[r] # Idle /\ req[r].op = op /\ req[r].b = b

\* Only add_cohost and remove_cohost name a user other than the caller.
Targets(op, u) == IF op \in {"add_cohost", "remove_cohost"} THEN Users ELSE {u}

Init ==
    /\ status    = [b \in Broadcasts |-> "none"]
    /\ token     = [b \in Broadcasts |-> FALSE]
    /\ deleted   = [b \in Broadcasts |-> FALSE]
    /\ rows      = [b \in Broadcasts |-> {}]
    /\ left      = [b \in Broadcasts |-> {}]
    /\ role      = [b \in Broadcasts |-> [u \in Users |-> "none"]]
    /\ cohosts   = [b \in Broadcasts |-> {}]
    /\ liveCount = [b \in Broadcasts |-> 0]
    /\ lkRoom    = [b \in Broadcasts |-> FALSE]
    /\ req       = [r \in Reqs |-> Idle]
    /\ issued    = 0

\* A client calls an operation.  A create inserts a row nobody has inserted;
\* the other operations name a row that exists (or existed and was deleted).
Call(r) ==
    /\ req[r] = Idle
    /\ issued < MaxRequests
    /\ Serial => \A s \in Reqs : ~Running(s)
    /\ \E op \in Ops, b \in Broadcasts, u \in Users : \E t \in Targets(op, u) :
        /\ IF op = "create"
           THEN /\ status[b] = "none" /\ u = Creator[b]
                /\ ~InFlight("create", b)
           ELSE status[b] # "none"
        /\ req' = [req EXCEPT ![r] = NewRequest(op, b, u, t)]
    /\ issued' = issued + 1
    /\ UNCHANGED <<dbVars, cacheVars>>

-----------------------------------------------------------------------------
(* Queries *)

find_by_id(b) == IF deleted[b] THEN "none" ELSE status[b]

is_active_host(u) ==
    \E b \in Broadcasts : Creator[b] = u /\ status[b] = "active" /\ ~deleted[b]

is_cohost(b, u) == u \in cohosts[b]

find_active_participant(u) == \E b \in Broadcasts : u \in rows[b] \ left[b]

find_participant(b, u) ==
    IF u \notin rows[b] THEN "absent" ELSE IF u \in left[b] THEN "left" ELSE "live"

\* get_cohosts(b).len() == MAX_COHOSTS
cohosts_full(b) == Cardinality(cohosts[b]) = MaxCohosts

\* The answer of a Boolean query of request q.
Answer(query, q) ==
    CASE query = "active_host" -> is_active_host(q.u)
      [] query = "cohost"      -> is_cohost(q.b, q.t)
      [] query = "busy"        -> find_active_participant(q.u)
      [] query = "full"        -> cohosts_full(q.b)
      [] OTHER                 -> FALSE

\* add_cohost awaits is_cohost, and may stop there, before its other queries.
Askable(q) ==
    IF q.op # "add_cohost" THEN q.todo
    ELSE IF "cohost" \in q.todo THEN {"cohost"}
    ELSE IF "cohost" \in q.hit THEN {} ELSE q.todo

\* Request q once query has answered.
Answered(q, query) ==
    [q EXCEPT !.todo = q.todo \ {query},
              !.seen = IF query = "bc" THEN find_by_id(q.b) ELSE q.seen,
              !.mine = IF query = "row" THEN find_participant(q.b, q.u) ELSE q.mine,
              !.hit  = IF Answer(query, q) THEN q.hit \cup {query} ELSE q.hit]

Query(r) ==
    /\ req[r] # Idle /\ req[r].pc = "read"
    /\ \E query \in Askable(req[r]) : req' = [req EXCEPT ![r] = Answered(req[r], query)]
    /\ UNCHANGED <<dbVars, cacheVars, issued>>

\* add_cohost goes on without its limit check when get_cohosts fails.
CountCohostsFails(r) ==
    /\ Faults
    /\ req[r] # Idle /\ req[r].pc = "read" /\ "full" \in Askable(req[r])
    /\ req' = [req EXCEPT ![r].todo = req[r].todo \ {"full"}]
    /\ UNCHANGED <<dbVars, cacheVars, issued>>

\* The slot is free again, or moves to pc.
Done(r)     == req' = [req EXCEPT ![r] = Idle]
Goto(r, pc) == req' = [req EXCEPT ![r].pc = pc]

\* Request r runs op and every query it awaits has answered.
Ready(r, op) == req[r] # Idle /\ req[r].op = op /\ req[r].pc = "read" /\ req[r].todo = {}
At(r, pc)    == req[r] # Idle /\ req[r].pc = pc

-----------------------------------------------------------------------------
(* Transactions *)

\* The guards the operations share, on what the request read.
IsCreatorForgotten(q) == TRUE
IsCreator(q) == Creator[q.b] = q.u

IsLiveForgotten(q) == q.seen # "none"
IsLive(q) == q.seen = "active"

NotLiveForgotten(q) == q.seen # "none"
NotLive(q) == q.seen = "inactive"

NotSelfForgotten(q) == TRUE
NotSelf(q) == q.t # Creator[q.b]

\* The checks of each operation between its queries and its transaction.
Accepted(q) ==
    CASE q.op = "create"        -> "active_host" \notin q.hit
      [] q.op = "update"        -> NotLive(q) /\ IsCreator(q)
      [] q.op = "delete"        -> NotLive(q) /\ IsCreator(q)
      [] q.op = "start"         -> NotLive(q) /\ IsCreator(q)
      [] q.op = "end"           -> IsLive(q) /\ IsCreator(q)
      [] q.op = "join"          -> IsLive(q) /\ Creator[q.b] # q.u /\ "busy" \notin q.hit
      [] q.op = "leave"         -> IsLive(q) /\ q.mine = "live"
      [] q.op = "add_cohost"    -> IsLive(q) /\ IsCreator(q) /\ NotSelf(q) /\ q.hit = {}
      [] q.op = "remove_cohost" -> IsLive(q) /\ IsCreator(q) /\ "cohost" \in q.hit

\* deduplicate_cohosts: at most three invitees (MAX_COHOSTS), none the creator.
Invitees(q) == {cs \in SUBSET (Users \ {q.u}) : Cardinality(cs) <= MaxCohosts}

\* INSERT: a broadcast begins inactive.
create(b) == status' = [status EXCEPT ![b] = "inactive"]

\* UPDATE by id, whatever the status has become.
delete(b) == deleted' = [deleted EXCEPT ![b] = TRUE]

\* INSERT ... ON CONFLICT DO NOTHING, and DELETE.
add_cohosts(b, cs)  == cohosts' = [cohosts EXCEPT ![b] = @ \cup cs]
remove_cohost(b, u) == cohosts' = [cohosts EXCEPT ![b] = @ \ {u}]

set_active(b) ==
    /\ status' = [status EXCEPT ![b] = "active"]
    /\ token'  = [token EXCEPT ![b] = TRUE]

set_inactive(b) == status' = [status EXCEPT ![b] = "inactive"]

\* upsert_participant_tx: ON CONFLICT updates role and joined_at, not left_at.
upsert_participant(b, u, ro) ==
    /\ rows'  = [rows EXCEPT ![b] = @ \cup {u}]
    /\ role'  = [role EXCEPT ![b][u] = ro]
    /\ UNCHANGED left

\* remove_participant: DELETE.
remove_participant(b, u) ==
    /\ rows'  = [rows EXCEPT ![b] = @ \ {u}]
    /\ left'  = [left EXCEPT ![b] = @ \ {u}]
    /\ role'  = [role EXCEPT ![b][u] = "none"]

clear_participants_none(b) == UNCHANGED partVars

\* get_participant_ids_and_clear: left_at is set on every row that has none.
clear_participants(b) ==
    /\ left' = [left EXCEPT ![b] = rows[b]]
    /\ UNCHANGED <<rows, role>>

CreateCommit(r) ==
    /\ Ready(r, "create") /\ Accepted(req[r])
    /\ create(req[r].b)
    /\ \E cs \in Invitees(req[r]) : add_cohosts(req[r].b, cs)
    /\ Done(r)
    /\ UNCHANGED <<token, deleted, partVars, cacheVars, issued>>

UpdateCommit(r) ==
    /\ Ready(r, "update") /\ Accepted(req[r])
    /\ \E cs \in Invitees(req[r]) : add_cohosts(req[r].b, cs)
    /\ Done(r)
    /\ UNCHANGED <<bcVars, partVars, cacheVars, issued>>

DeleteCommit(r) ==
    /\ Ready(r, "delete") /\ Accepted(req[r])
    /\ delete(req[r].b)
    /\ Goto(r, "purge")
    /\ UNCHANGED <<status, token, partVars, cohosts, cacheVars, issued>>

\* start asks LiveKit for the room before it opens the transaction.
StartCreateRoom(r) ==
    /\ Ready(r, "start") /\ Accepted(req[r])
    /\ lkRoom' = [lkRoom EXCEPT ![req[r].b] = TRUE]
    /\ Goto(r, "commit")
    /\ UNCHANGED <<dbVars, liveCount, issued>>

\* set_active guards neither the status nor deleted_at the row has by now.
StartCommit(r) ==
    /\ At(r, "commit")
    /\ set_active(req[r].b)
    /\ upsert_participant(req[r].b, req[r].u, "host")
    /\ Goto(r, "seed")
    /\ UNCHANGED <<deleted, cohosts, cacheVars, issued>>

EndCommit(r) ==
    /\ Ready(r, "end") /\ Accepted(req[r])
    /\ clear_participants(req[r].b)
    /\ set_inactive(req[r].b)
    /\ Goto(r, "unroom")
    /\ UNCHANGED <<token, deleted, cohosts, cacheVars, issued>>

JoinRoleFlat(q) == "participant"
JoinRole(q) == IF "cohost" \in q.hit THEN "cohost" ELSE "participant"

JoinCommit(r) ==
    /\ Ready(r, "join") /\ Accepted(req[r])
    /\ upsert_participant(req[r].b, req[r].u, JoinRole(req[r]))
    /\ Goto(r, "count")
    /\ UNCHANGED <<bcVars, cohosts, cacheVars, issued>>

LeaveCommit(r) ==
    /\ Ready(r, "leave") /\ Accepted(req[r])
    /\ remove_participant(req[r].b, req[r].u)
    /\ Goto(r, "decr")
    /\ UNCHANGED <<bcVars, cohosts, cacheVars, issued>>

\* An added cohost gets a participant row; no room entry and no live count.
AddCohostCommit(r) ==
    /\ Ready(r, "add_cohost") /\ Accepted(req[r])
    /\ add_cohosts(req[r].b, {req[r].t})
    /\ upsert_participant(req[r].b, req[r].t, "cohost")
    /\ Done(r)
    /\ UNCHANGED <<bcVars, cacheVars, issued>>

\* remove_from_room = true
RemoveCohostCommit(r) ==
    /\ Ready(r, "remove_cohost") /\ Accepted(req[r])
    /\ remove_cohost(req[r].b, req[r].t)
    /\ remove_participant(req[r].b, req[r].t)
    /\ Goto(r, "kick")
    /\ UNCHANGED <<bcVars, cacheVars, issued>>

\* remove_from_room = false
DemoteCohostCommit(r) ==
    /\ Ready(r, "remove_cohost") /\ Accepted(req[r])
    /\ remove_cohost(req[r].b, req[r].t)
    /\ upsert_participant(req[r].b, req[r].t, "participant")
    /\ Done(r)
    /\ UNCHANGED <<bcVars, cacheVars, issued>>

\* A guard fails: an error, or the early Ok of leave and remove_cohost.
\* add_cohost stops at its first query when the user is a cohost already.
Refuse(r) ==
    /\ req[r] # Idle /\ req[r].pc = "read"
    /\ \/ req[r].todo = {} /\ ~Accepted(req[r])
       \/ req[r].op = "add_cohost" /\ "cohost" \in req[r].hit
    /\ Done(r)
    /\ UNCHANGED <<dbVars, cacheVars, issued>>

-----------------------------------------------------------------------------
(* The spawned tasks, one Redis or LiveKit command at a time *)

SetCount(r, n) == liveCount' = [liveCount EXCEPT ![req[r].b] = n]
Count(r) == liveCount[req[r].b]

\* start: set_live_count.
StartSetCount(r) ==
    /\ At(r, "seed") /\ SetCount(r, 1) /\ Done(r)
    /\ UNCHANGED <<dbVars, lkRoom, issued>>

\* end: delete_room and delete_live_count.
EndDeleteRoom(r) ==
    /\ At(r, "unroom") /\ lkRoom' = [lkRoom EXCEPT ![req[r].b] = FALSE]
    /\ Goto(r, "uncount")
    /\ UNCHANGED <<dbVars, liveCount, issued>>

EndDeleteCount(r) ==
    /\ At(r, "uncount") /\ SetCount(r, 0) /\ Done(r)
    /\ UNCHANGED <<dbVars, lkRoom, issued>>

\* join: increment_live_count.
JoinCount(r) ==
    /\ At(r, "count") /\ SetCount(r, Count(r) + 1) /\ Done(r)
    /\ UNCHANGED <<dbVars, lkRoom, issued>>

\* leave: decrement_live_count is DECR and, on a count of zero or less, DEL.
LeaveDecr(r) ==
    /\ At(r, "decr") /\ SetCount(r, Count(r) - 1)
    /\ IF Count(r) - 1 <= 0 THEN Goto(r, "zero") ELSE Done(r)
    /\ UNCHANGED <<dbVars, lkRoom, issued>>

LeaveDeleteCount(r) ==
    /\ At(r, "zero") /\ SetCount(r, 0) /\ Done(r)
    /\ UNCHANGED <<dbVars, lkRoom, issued>>

\* remove_cohost with remove_from_room: a bare DECR.
KickDecr(r) ==
    /\ At(r, "kick") /\ SetCount(r, Count(r) - 1) /\ Done(r)
    /\ UNCHANGED <<dbVars, lkRoom, issued>>

\* delete: the spawned DEL of live_count.
DeletePurge(r) ==
    /\ At(r, "purge") /\ SetCount(r, 0) /\ Done(r)
    /\ UNCHANGED <<dbVars, lkRoom, issued>>

\* A Redis or LiveKit command fails.  The code drops the error and goes on; a
\* failed DECR of leave reads as 0 remaining.
AfterError(pc) ==
    CASE pc = "unroom" -> "uncount"
      [] pc = "decr"   -> "zero"
      [] OTHER         -> "done"

CommandFails(r) ==
    /\ Faults
    /\ req[r] # Idle /\ ~Running(r)
    /\ IF AfterError(req[r].pc) = "done" THEN Done(r) ELSE Goto(r, AfterError(req[r].pc))
    /\ UNCHANGED <<dbVars, cacheVars, issued>>

\* The client disconnects and axum drops the handler, a query or transaction
\* fails, LiveKit refuses the room, or the instance stops: the rest is not done.
Abandon(r) ==
    /\ Faults
    /\ req[r] # Idle
    /\ Done(r)
    /\ UNCHANGED <<dbVars, cacheVars, issued>>

\* Clients issue no more requests and none is in flight.
Quiet == issued = MaxRequests /\ \A r \in Reqs : req[r] = Idle

Commit(r) ==
    \/ CreateCommit(r) \/ UpdateCommit(r) \/ DeleteCommit(r)
    \/ StartCommit(r) \/ EndCommit(r) \/ JoinCommit(r) \/ LeaveCommit(r)
    \/ AddCohostCommit(r) \/ RemoveCohostCommit(r) \/ DemoteCohostCommit(r)

Effect(r) ==
    \/ StartCreateRoom(r) \/ StartSetCount(r)
    \/ EndDeleteRoom(r) \/ EndDeleteCount(r)
    \/ JoinCount(r) \/ LeaveDecr(r) \/ LeaveDeleteCount(r)
    \/ KickDecr(r) \/ DeletePurge(r)

Fault(r) == CountCohostsFails(r) \/ CommandFails(r) \/ Abandon(r)

Step(r) == Query(r) \/ Refuse(r) \/ Commit(r) \/ Effect(r)

Next ==
    \/ \E r \in Reqs : Call(r) \/ Step(r) \/ Fault(r)
    \/ Quiet /\ UNCHANGED vars

Spec == Init /\ [][Next]_vars

-----------------------------------------------------------------------------
(* Properties *)

\* Types of tables, caches and requests; the status column has two values.
TypeOK ==
    /\ status    \in [Broadcasts -> Statuses]
    /\ token     \in [Broadcasts -> BOOLEAN]
    /\ deleted   \in [Broadcasts -> BOOLEAN]
    /\ rows      \in [Broadcasts -> SUBSET Users]
    /\ left      \in [Broadcasts -> SUBSET Users]
    /\ role      \in [Broadcasts -> [Users -> Roles]]
    /\ cohosts   \in [Broadcasts -> SUBSET Users]
    /\ liveCount \in [Broadcasts -> Int]
    /\ lkRoom    \in [Broadcasts -> BOOLEAN]
    /\ req       \in [Reqs -> Request \cup {Idle}]
    /\ issued    \in Nat

Live(b) == rows[b] \ left[b]

\* The host role belongs to the creator and to nobody else: no interleaving of
\* joins, cohost promotions and demotions gives it away or takes it from the
\* creator's row (join, add_cohost and deduplicate_cohosts keep creators out).
HostIsCreator ==
    \A b \in Broadcasts : \A u \in rows[b] : role[b][u] = "host" <=> u = Creator[b]

\* Nobody has a participant row in a broadcast that never went live: a stale
\* "active" read of join, add_cohost or remove_cohost is still of a broadcast
\* that start had activated, so it carries a LiveKit token.
RowsOnlyAfterStart == \A b \in Broadcasts : rows[b] # {} => token[b]

\* Control of a broadcast stays with its creator: a step that changes its
\* status, deletes it or changes its cohosts is the commit of a request that
\* the creator made for that broadcast.
OnlyCreatorControls ==
    [][\A b \in Broadcasts :
         \/ /\ status'[b] = status[b]
            /\ deleted'[b] = deleted[b]
            /\ cohosts'[b] = cohosts[b]
         \/ \E r \in Reqs : /\ req[r] # Idle
                             /\ req[r].b = b /\ req[r].u = Creator[b]
                             /\ req'[r] # req[r]]_vars

\* A participant row whose left_at is set never becomes live again: the upsert
\* of join, start, add_cohost and remove_cohost does not clear the column, so
\* only deleting the row (and inserting a new one) does.
LeftStaysLeft ==
    [][\A b \in Broadcasts : left[b] \cap rows'[b] \subseteq left'[b]]_vars

\* When a broadcast is not live nobody is a live participant of it: end clears
\* the participants ("We have to clear the list of participants").
EndClearsParticipants ==
    \A b \in Broadcasts : status[b] # "active" => Live(b) = {}

\* A live participant has the cohost role exactly when there is a cohost row:
\* refresh_token mints the role of the participant row, join that of the other.
CohostRolesAgree ==
    \A b \in Broadcasts : \A u \in Live(b) : role[b][u] = "cohost" <=> u \in cohosts[b]

\* What clients see: a deleted row is no row, and a participant whose left_at is
\* set takes no part.
Phase == [b \in Broadcasts |-> IF deleted[b] THEN "deleted" ELSE status[b]]
Cast  == [b \in Broadcasts |-> [u \in Users |-> IF u \in Live(b) THEN role[b][u] ELSE "none"]]

Invitations == {cs \in SUBSET Users : Cardinality(cs) <= MaxCohosts}

Api == INSTANCE Session WITH phase <- Phase, cast <- Cast, past <- left

\* To clients who wait for every answer the operations act like the single steps
\* of Session, although each reads first and commits later, and although the tasks
\* that earlier requests spawned run on: what find_by_id, is_cohost,
\* find_active_participant and the others answered is what the transaction finds.
ActsAtomically == Api!Spec
=============================================================================
