------------------------------- MODULE Notes -------------------------------
(***************************************************************************)
(* Notes and folders of one user on several devices: the REST operations,  *)
(* sync_push, sync_pull and the purge job.  (Every query filters on        *)
(* creator_id, so users do not meet.)  Postgres commits each statement of  *)
(* an endpoint by itself; sync_push is one transaction, but reads through  *)
(* the pool, outside it.  updated_at is NOW(), the time at which the       *)
(* transaction began: a row may commit long after its stamp.               *)
(* Title, content and pinned are one body, named by the device that wrote  *)
(* it; ids are numbers because UUIDs are compared.                         *)
(***************************************************************************)
EXTENDS Integers, Sequences, FiniteSets

CONSTANTS
    Devices,   \* the devices of the user; each has one request at a time
    Notes,     \* ids of notes
    Folders,   \* ids of folders
    Old,       \* what may be there at the beginning, known to every device
    Limit,     \* page size of sync_pull
    Retention, \* RETENTION_DAYS
    Batch,     \* rows per DELETE of the purge job (5000)
    Pool,      \* connections of the database pool (20)
    MaxMutations, \* bound: mutations of a push (200)
    MaxWrites, \* bound: requests that write
    MaxTime    \* bound: the clock

ASSUME NotesAssumption ==
    /\ Notes \subseteq Nat \ {0} /\ Folders \subseteq Nat \ {0} /\ Notes \cap Folders = {}
    /\ Old \subseteq SUBSET (Notes \cup Folders) /\ 0 \notin Devices
    /\ IsFiniteSet(Notes) /\ IsFiniteSet(Folders)
    /\ Limit \in Nat \ {0} /\ Retention \in Nat /\ Batch \in Nat \ {0} /\ Pool \in Nat \ {0}
    /\ MaxMutations \in Nat /\ MaxWrites \in Nat /\ MaxTime \in Nat \ {0}

Items  == Notes \cup Folders
Tables == {Notes, Folders}
None   == 0

NoRow == [version |-> 0, body |-> None, folder |-> None, updated |-> 0, deleted |-> 0]
Row   == [version : Nat, body : Devices \cup {None}, folder : Folders \cup {None},
          updated : 0..MaxTime, deleted : 0..MaxTime]

\* NoteDto, FolderDto: what a device is told of a row.
NoCopy  == [version |-> 0, body |-> None, folder |-> None, deleted |-> FALSE]
View(r) == [version |-> r.version, body |-> r.body, folder |-> r.folder,
            deleted |-> r.deleted # 0]

VARIABLES
    now,    \* the clock
    row,    \* the committed rows; version 0 is no row
    copy,   \* what each device holds of each item
    cursor, \* the cursor of each device in each table
    maker,  \* the device that generated the id, or None
    req,    \* the request of each device
    writes, \* requests that write so far
    purge,  \* the purge job: its stage, its cutoff and the ids it has selected
    late,   \* history: rows committed with a stamp behind the device's cursor
    gone    \* history: ids that were purged

vars == <<now, row, copy, cursor, maker, req, writes, purge, late, gone>>
db == <<row, late>>

\* A mutation of a push; base 0 is base_version None.
Mutation == [id : Items, base : Nat, deleted : BOOLEAN, folder : Folders \cup {None}]

\* A push also has the mutations left, folders first, and the rows it has written.
Idle == [pc |-> "idle", ids |-> {}, folder |-> None, base |-> 0, stamp |-> 0, body |-> None,
         left |-> << >>, wrote |-> [i \in Items |-> NoRow]]
Statements == {"create", "update", "delete", "remove", "move"}
InTx == {"folders", "forceFolder", "notes", "forceNote"}
Pcs  == {"idle", "found"} \cup Statements \cup InTx

First == [NoRow EXCEPT !.version = 1]
Init ==
    /\ now = 1 /\ writes = 0
    /\ \E old \in Old :
        /\ row = [i \in Items |-> IF i \in old THEN First ELSE NoRow]
        /\ copy = [d \in Devices |-> [i \in Items |-> IF i \in old THEN View(First) ELSE NoCopy]]
    /\ cursor = [d \in Devices |-> [t \in Tables |-> <<1, 0>>]]
    /\ maker = [i \in Items |-> None] /\ req = [d \in Devices |-> Idle]
    /\ purge = [stage |-> "idle", cutoff |-> 0, ids |-> {}]
    /\ late = [d \in Devices |-> {}] /\ gone = {}

At(d, pc) == req[d].pc = pc
\* The keys of a page are (updated_at, id), compared as Postgres compares rows.
Before(a, b) == a[1] < b[1] \/ (a[1] = b[1] /\ a[2] < b[2])
Key(r, i) == <<r[i].updated, i>>
TableOf(i) == IF i \in Notes THEN Notes ELSE Folders

-----------------------------------------------------------------------------
(* Postgres: commits, row locks, the pool *)

\* The rows a push has written and not committed; other writers wait for them.
Held(d) == {i \in Items : req[d].wrote[i].version # 0}
Locked(d, i) == \E e \in Devices \ {d} : i \in Held(e)
\* A note that was written and not committed holds its folder against DELETE.
Referenced(f) == \E d \in Devices, i \in Items : req[d].wrote[i].folder = f
\* sync_push keeps a connection for its transaction.
FreeConnection == Cardinality({d \in Devices : req[d].pc \in InTx}) < Pool

\* The rows r become visible, those of ids with a new stamp.
Commit(r, ids) ==
    /\ row' = r
    /\ late' = [d \in Devices |-> (late[d] \ ids)
                    \cup {i \in ids : ~Before(cursor[d][TableOf(i)], Key(r, i))}]

\* The rows of ids are in the answer, which may not arrive.
Told(d, r, ids) ==
    copy' \in {copy, [copy EXCEPT ![d] =
                        [i \in Items |-> IF i \in ids THEN View(r[i]) ELSE copy[d][i]]]}
Answer(d) == req' = [req EXCEPT ![d] = Idle]

-----------------------------------------------------------------------------
(* The endpoints: what the statement of request q makes of row r *)

Exists(f) == f = None \/ row[f].version # 0
Touched(q, r) == [r EXCEPT !.version = @ + 1, !.updated = q.stamp]
Refiled(q, r) == [Touched(q, r) EXCEPT !.folder = q.folder]
Unmoved(q, r) == r.version = q.base /\ r.deleted = 0
IsLive(r) == r.version # 0 /\ r.deleted = 0

\* INSERT: an id that exists and a folder that does not are database errors.
create_note(q, r) ==
    IF r.version = 0 /\ Exists(q.folder) THEN [Refiled(q, r) EXCEPT !.body = q.body] ELSE r
create_folder(q, r) ==
    IF r.version = 0 THEN [Touched(q, r) EXCEPT !.body = q.body] ELSE r

\* folder_id is set from the request, absent or not.  Where no row matches the
\* endpoint looks the row up and answers 409 with it, or 404.
update_note_by_version(q, r) ==
    IF Unmoved(q, r) /\ Exists(q.folder) THEN [Refiled(q, r) EXCEPT !.body = q.body] ELSE r
UpdateKeepsVersion(q, r) == IF Unmoved(q, r) THEN [r EXCEPT !.body = q.body, !.updated = q.stamp] ELSE r
update_folder_by_version(q, r) ==
    IF Unmoved(q, r) THEN [Touched(q, r) EXCEPT !.body = q.body] ELSE r

soft_delete_note(q, r) ==
    IF Unmoved(q, r) THEN [Touched(q, r) EXCEPT !.deleted = q.stamp] ELSE r
\* should_delete_notes is not read and orphan_notes_in_folder is not called:
\* the notes stay in the folder.
soft_delete_folder(q, r) ==
    IF Unmoved(q, r) THEN [Touched(q, r) EXCEPT !.deleted = q.stamp] ELSE r

\* UPDATE by id, whatever the version: add_note_to_folder has the same one.
move_notes_to_folder(q, r) == IF IsLive(r) /\ Exists(q.folder) THEN Refiled(q, r) ELSE r
remove_note_from_folder(q, r) ==
    IF IsLive(r) /\ r.folder = q.folder THEN [Touched(q, r) EXCEPT !.folder = None] ELSE r

Outcome(q, i) ==
    LET r == row[i]
    IN  CASE q.pc = "create" /\ i \in Notes   -> create_note(q, r)
          [] q.pc = "create" /\ i \in Folders -> create_folder(q, r)
          [] q.pc = "update" /\ i \in Notes   -> update_note_by_version(q, r)
          [] q.pc = "update" /\ i \in Folders -> update_folder_by_version(q, r)
          [] q.pc = "delete" /\ i \in Notes   -> soft_delete_note(q, r)
          [] q.pc = "delete" /\ i \in Folders -> soft_delete_folder(q, r)
          [] q.pc = "move"   -> move_notes_to_folder(q, r)
          [] q.pc = "remove" -> remove_note_from_folder(q, r)

Waits(d, q) == \E i \in q.ids : Locked(d, i)

\* The statement runs and commits.
Execute(d, q) ==
    LET r == [i \in Items |-> IF i \in q.ids THEN Outcome(q, i) ELSE row[i]]
        changed == {i \in q.ids : r[i] # row[i]}
    IN  /\ ~Waits(d, q)
        /\ Commit(r, changed) /\ Told(d, r, changed) /\ Answer(d)
        /\ UNCHANGED <<now, cursor, purge, gone>>

\* A statement runs at once unless a push holds one of its rows: then it waits,
\* with the NOW() it started with.
Submit(d, q) ==
    \/ Execute(d, q)
    \/ /\ Waits(d, q) /\ req' = [req EXCEPT ![d] = q]
       /\ UNCHANGED <<now, db, copy, cursor, purge, gone>>

Resume(d) == req[d].pc \in Statements /\ Execute(d, req[d]) /\ UNCHANGED <<maker, writes>>

-----------------------------------------------------------------------------
(* Requests of a device *)

\* A device sends the version it holds, and an id it makes up only until it
\* holds that item.
Base(d, i) == copy[d][i].version
Knows(d, i) == Base(d, i) # 0 /\ ~copy[d][i].deleted
MayMake(d, i) == Base(d, i) = 0 /\ maker[i] \in {None, d}

Arrives(d) == At(d, "idle") /\ writes < MaxWrites /\ writes' = writes + 1
Query(d, pc, ids, f, base) ==
    [Idle EXCEPT !.pc = pc, !.ids = ids, !.folder = f, !.base = base,
                 !.stamp = now, !.body = d]
Placed(i, f) == i \in Folders => f = None

Create(d, i, f) ==
    /\ MayMake(d, i) /\ maker' = [maker EXCEPT ![i] = d]
    /\ Placed(i, f) /\ Submit(d, Query(d, "create", {i}, f, 0))
Update(d, i, f) ==
    /\ Knows(d, i) /\ UNCHANGED maker
    /\ Placed(i, f) /\ Submit(d, Query(d, "update", {i}, f, Base(d, i)))
Delete(d, i) ==
    /\ Knows(d, i) /\ UNCHANGED maker
    /\ Submit(d, Query(d, "delete", {i}, None, Base(d, i)))
Remove(d, n, f) ==
    /\ Knows(d, n) /\ UNCHANGED maker
    /\ Submit(d, Query(d, "remove", {n}, f, 0))
Unfile(d, ids) ==
    /\ ids # {} /\ (\A n \in ids : Knows(d, n)) /\ UNCHANGED maker
    /\ Submit(d, Query(d, "move", ids, None, 0))

\* add_note_to_folder and move_notes_to_folder look the folder up, the first
\* the note too; the statement starts later.
FindFolder(d, ids, f) ==
    /\ ids # {} /\ \A n \in ids : Knows(d, n)
    /\ IsLive(row[f])
    /\ Cardinality(ids) = 1 => \A n \in ids : IsLive(row[n]) /\ row[n].folder # f
    /\ req' = [req EXCEPT ![d] = [Query(d, "found", ids, f, 0) EXCEPT !.stamp = 0]]
    /\ UNCHANGED <<now, db, copy, cursor, maker, purge, gone>>
File(d) ==
    /\ At(d, "found") /\ Submit(d, [req[d] EXCEPT !.pc = "move", !.stamp = now])
    /\ UNCHANGED <<maker, writes>>

-----------------------------------------------------------------------------
(* sync_push *)

Mutations(d) ==
    {m \in [id : Items, base : {Base(d, i) : i \in Items}, deleted : BOOLEAN, folder : Folders \cup {None}] :
        /\ m.base = Base(d, m.id) /\ (m.base # 0 \/ MayMake(d, m.id))
        /\ Placed(m.id, m.folder)}

\* The folders of the batch before the notes, each in the client's order.
FoldersFirst(ms) ==
    \A k, l \in DOMAIN ms : ms[k].id \in Notes /\ ms[l].id \in Folders => l < k

\* A mutation that fails validation, or is deleted and was never on the server,
\* writes nothing: as if it were absent.
Push(d, ms) ==
    /\ FreeConnection
    /\ ms # << >> /\ FoldersFirst(ms)
    /\ \A k \in DOMAIN ms : ms[k].base = 0 => ~ms[k].deleted
    /\ maker' = [i \in Items |-> IF maker[i] = None /\ \E k \in DOMAIN ms : ms[k].id = i
                                 THEN d ELSE maker[i]]
    /\ req' = [req EXCEPT ![d] = [Query(d, "folders", {}, None, 0) EXCEPT !.left = ms]]
    /\ UNCHANGED <<now, db, copy, cursor, purge, gone>>

Internal == <<now, db, copy, cursor, maker, writes, purge, gone>>
\* An error drops the transaction: nothing of the batch is kept.
RollBack(d) == Answer(d) /\ UNCHANGED Internal

\* The mutation whose turn it is, and the row as the transaction sees it.
Current(d) == Head(req[d].left)
Mine(d, i) == IF i \in Held(d) THEN req[d].wrote[i] ELSE row[i]

Snapshot(d, r, m) ==
    [Touched(req[d], r) EXCEPT !.body = req[d].body, !.folder = m.folder,
                               !.deleted = IF ~m.deleted THEN 0 ELSE IF @ # 0 THEN @ ELSE req[d].stamp]
\* The push goes on to the next mutation, at pc.
Turn(d, pc) == req' = [req EXCEPT ![d].pc = pc, ![d].left = Tail(@)]
Apply(d, m, pc) ==
    req' = [req EXCEPT ![d].pc = pc, ![d].left = Tail(@),
                       ![d].wrote[m.id] = Snapshot(d, Mine(d, m.id), m)]

\* The statement of a mutation: INSERT ... ON CONFLICT DO NOTHING without a
\* base version, UPDATE ... WHERE version = base with one.
upsert_if_absent(d, m) == m.base = 0 /\ Mine(d, m.id).version = 0
ApplyWhateverVersion(d, m) == m.base # 0 /\ Mine(d, m.id).version # 0
apply_snapshot_if_version_matches(d, m) == m.base # 0 /\ Mine(d, m.id).version = m.base
Writable(d, m) == upsert_if_absent(d, m) \/ apply_snapshot_if_version_matches(d, m)
\* Where it would write, it waits for the push that has written the row.
Stuck(d, m) == Locked(d, m.id) /\ Writable(d, m)

\* When it wrote nothing, the row is looked up through the pool, which does not see
\* what this very batch has written; a deleted row is not found.  Either fails the
\* batch.  Without a base version the client's clock decides whether the snapshot
\* is forced.
apply_mutation(d, m, pc, force) ==
    /\ ~Stuck(d, m)
    /\ IF Writable(d, m)
       THEN Apply(d, m, pc)
       ELSE /\ FreeConnection
            /\ \/ IsLive(row[m.id]) /\ Turn(d, pc)
               \/ IsLive(row[m.id]) /\ m.base = 0 /\ req' = [req EXCEPT ![d].pc = force]
               \/ ~IsLive(row[m.id]) /\ Answer(d)
    /\ UNCHANGED Internal

OfFolder(d) == req[d].left # << >> /\ Current(d).id \in Folders
OfNote(d)   == req[d].left # << >> /\ Current(d).id \in Notes

apply_folder_mutation(d) ==
    At(d, "folders") /\ OfFolder(d) /\ apply_mutation(d, Current(d), "folders", "forceFolder")

\* UPDATE by id, whatever the version.
force_apply(d, m, pc) ==
    /\ ~Locked(d, m.id)
    /\ IF Mine(d, m.id).version = 0 THEN Answer(d) ELSE Apply(d, m, pc)
    /\ UNCHANGED Internal

force_apply_folder_snapshot(d) == At(d, "forceFolder") /\ force_apply(d, Current(d), "folders")

\* The folders the notes name, read outside the transaction: one that this
\* very batch creates is not there, and its notes are unfiled.
Filed(d) == \E k \in DOMAIN req[d].left : req[d].left[k].folder # None
owned_folder_ids(d) ==
    /\ At(d, "folders") /\ ~OfFolder(d) /\ (Filed(d) => FreeConnection)
    /\ req' = [req EXCEPT ![d].pc = "notes",
                 ![d].left = [k \in DOMAIN @ |->
                     IF Exists(@[k].folder) THEN @[k] ELSE [@[k] EXCEPT !.folder = None]]]
    /\ UNCHANGED Internal

\* The foreign key: the folder is there, or the statement fails.
FolderExists(d) == Exists(Current(d).folder)

apply_note_mutation(d) ==
    /\ At(d, "notes") /\ OfNote(d)
    /\ IF FolderExists(d) THEN apply_mutation(d, Current(d), "notes", "forceNote") ELSE RollBack(d)

force_apply_note_snapshot(d) ==
    /\ At(d, "forceNote")
    /\ IF FolderExists(d) THEN force_apply(d, Current(d), "notes") ELSE RollBack(d)

\* tx.commit and the answer, with the rows that were applied.
sync_push(d) ==
    LET r == [i \in Items |-> Mine(d, i)]
    IN  /\ At(d, "notes") /\ req[d].left = << >>
        /\ Commit(r, Held(d)) /\ Told(d, r, Held(d)) /\ Answer(d)
        /\ UNCHANGED <<now, cursor, maker, writes, purge, gone>>

\* acquire_timeout: a push that needs another connection while pushes hold all.
NeedsConnection(d) ==
    \/ At(d, "folders") /\ ~OfFolder(d) /\ Filed(d)
    \/ ((At(d, "folders") /\ OfFolder(d)) \/ (At(d, "notes") /\ OfNote(d))) /\ ~Writable(d, Current(d))
AcquireForever(d) == NeedsConnection(d) /\ FreeConnection /\ RollBack(d)
AcquireTimeout(d) == NeedsConnection(d) /\ ~FreeConnection /\ RollBack(d)

\* Postgres ends a push that waits for itself: each of some pushes waits for a row of
\* another of them, and is waited for.
WaitsFor(d, e) ==
    /\ req[d].pc \in InTx /\ req[d].left # << >> /\ d # e /\ Current(d).id \in Held(e)
    /\ req[d].pc \in {"forceFolder", "forceNote"} \/ Writable(d, Current(d))
DeadlockDetected(d) ==
    /\ \E S \in SUBSET Devices : d \in S /\ \A e \in S : \E f, g \in S : WaitsFor(e, f) /\ WaitsFor(g, e)
    /\ RollBack(d)

-----------------------------------------------------------------------------
(* sync_pull *)

\* The rows behind the cursor's back, oldest first, are read up to Limit + 1.
find_changed_since(d, t) ==
    {i \in t : row[i].version # 0 /\ Before(cursor[d][t], Key(row, i))}
Page(d, t) ==
    LET changed == find_changed_since(d, t)
    IN  {i \in changed :
            Cardinality({j \in changed : Before(Key(row, j), Key(row, i))}) < Limit}

NextCursorOfFetched(d, t) ==
    IF find_changed_since(d, t) = {} THEN cursor[d][t]
    ELSE CHOOSE k \in {Key(row, i) : i \in find_changed_since(d, t)} :
            \A i \in find_changed_since(d, t) : ~Before(k, Key(row, i))

\* The key of the last row of the page, or the cursor the device came with.
NextCursor(d, t) ==
    IF Page(d, t) = {} THEN cursor[d][t]
    ELSE CHOOSE k \in {Key(row, i) : i \in Page(d, t)} :
            \A i \in Page(d, t) : ~Before(k, Key(row, i))

\* The two tables are read by statements of their own that share no row; an
\* answer that does not arrive changes nothing.
sync_pull(d) ==
    /\ At(d, "idle")
    /\ copy' = [copy EXCEPT ![d] = [i \in Items |->
                    IF i \in Page(d, TableOf(i)) THEN View(row[i]) ELSE copy[d][i]]]
    /\ cursor' = [cursor EXCEPT ![d] = [t \in Tables |-> NextCursor(d, t)]]
    /\ UNCHANGED <<now, db, maker, req, writes, purge, gone>>

-----------------------------------------------------------------------------
(* The purge job *)

Cutoff == now - Retention

\* A run that would find nothing is not a step of the model.
purge_stale_notes ==
    /\ purge.stage = "idle"
    /\ \E i \in Items : row[i].deleted # 0 /\ row[i].deleted < Cutoff
    /\ purge' = [stage |-> "notes", cutoff |-> Cutoff, ids |-> {}]
    /\ UNCHANGED <<now, db, copy, cursor, maker, req, writes, gone>>

PurgeTable == IF purge.stage = "notes" THEN Notes ELSE Folders
NextStage  == IF purge.stage = "notes" THEN "folders" ELSE "idle"
Stale(t)   == {i \in t : row[i].version # 0 /\ row[i].deleted # 0 /\ row[i].deleted < purge.cutoff}

\* The subselect of the DELETE.
PurgeSelect ==
    /\ purge.stage # "idle" /\ purge.ids = {}
    /\ \E ids \in SUBSET Stale(PurgeTable) :
        /\ Cardinality(ids) = Batch \/ (Cardinality(ids) < Batch /\ ids = Stale(PurgeTable))
        /\ purge' = IF ids = {} THEN [purge EXCEPT !.stage = NextStage]
                                ELSE [purge EXCEPT !.ids = ids]
    /\ UNCHANGED <<now, db, copy, cursor, maker, req, writes, gone>>

PurgeLeavesFiled ==
    /\ purge.ids # {} /\ Commit([i \in Items |-> IF i \in purge.ids THEN NoRow ELSE row[i]], {})
    /\ gone' = gone \cup purge.ids /\ purge' = [purge EXCEPT !.ids = {}]
    /\ UNCHANGED <<now, copy, cursor, maker, req, writes>>

\* The DELETE waits for the locks of its rows and then deletes what it has
\* selected, restored meanwhile or not.  A folder's notes are unfiled by the
\* foreign key, with a new updated_at from the trigger and the version as it was.
purge_batched ==
    LET orphans == {n \in Notes \ purge.ids : row[n].folder \in purge.ids}
        r == [i \in Items |-> CASE i \in purge.ids -> NoRow
                                [] i \in orphans -> [row[i] EXCEPT !.folder = None, !.updated = now]
                                [] OTHER -> row[i]]
    IN  /\ purge.ids # {}
        /\ \A d \in Devices : Held(d) \cap (purge.ids \cup orphans) = {}
        /\ \A i \in purge.ids : ~Referenced(i)
        /\ Commit(r, orphans)
        /\ gone' = gone \cup purge.ids
        /\ purge' = [purge EXCEPT !.ids = {},
                        !.stage = IF Cardinality(purge.ids) < Batch THEN NextStage ELSE @]
        /\ UNCHANGED <<now, copy, cursor, maker, req, writes>>

Tick == now < MaxTime /\ now' = now + 1
        /\ UNCHANGED <<row, copy, cursor, maker, req, writes, purge, late, gone>>

-----------------------------------------------------------------------------

Request(d) ==
    /\ Arrives(d)
    /\ \/ \E i \in Items, f \in Folders \cup {None} : Create(d, i, f) \/ Update(d, i, f)
       \/ \E i \in Items : Delete(d, i)
       \/ \E n \in Notes, f \in Folders : Remove(d, n, f)
       \/ \E ids \in SUBSET Notes : Unfile(d, ids) \/ \E f \in Folders : FindFolder(d, ids, f)
       \/ \E n \in 1..MaxMutations : \E ms \in [1..n -> Mutations(d)] : Push(d, ms)

Step(d) ==
    \/ Resume(d) \/ File(d)
    \/ apply_folder_mutation(d) \/ force_apply_folder_snapshot(d) \/ owned_folder_ids(d)
    \/ apply_note_mutation(d) \/ force_apply_note_snapshot(d) \/ sync_push(d)
    \/ AcquireTimeout(d) \/ DeadlockDetected(d)

Purge == purge_stale_notes \/ PurgeSelect \/ purge_batched

Next == Tick \/ Purge \/ \E d \in Devices : Request(d) \/ Step(d) \/ sync_pull(d)

Spec == Init /\ [][Next]_vars

-----------------------------------------------------------------------------
(* Properties *)

\* Types, and the foreign key of notes.folder_id, which purging a folder keeps.
TypeOK ==
    /\ now \in 0..MaxTime /\ writes \in 0..MaxWrites
    /\ \A i \in Items : Exists(row[i].folder)
    /\ row \in [Items -> Row] /\ maker \in [Items -> Devices \cup {None}]
    /\ copy \in [Devices -> [Items -> [version : Nat, body : Devices \cup {None},
                                       folder : Folders \cup {None}, deleted : BOOLEAN]]]
    /\ cursor \in [Devices -> [Tables -> (0..MaxTime) \X (Items \cup {0})]]
    /\ \A d \in Devices :
        /\ req[d].pc \in Pcs /\ req[d].ids \subseteq Items /\ req[d].folder \in Folders \cup {None}
        /\ req[d].left \in Seq(Mutation) /\ req[d].wrote \in [Items -> Row]
    /\ purge.stage \in {"idle", "notes", "folders"} /\ purge.ids \subseteq Items
    /\ late \in [Devices -> SUBSET Items] /\ gone \subseteq Items

\* The optimistic lock of update, delete and push compares versions only, so a
\* device whose base_version still matches must hold what the row holds: no
\* writer may change a row and leave its version.  (Its folder apart, which the
\* purge of a folder clears under the same version; an id that comes back
\* after its purge starts at version 1 again.)
VersionNamesState ==
    \A d \in Devices, i \in Items :
        (/\ i \notin gone
         /\ copy[d][i].version # 0 /\ copy[d][i].version = row[i].version)
        => /\ copy[d][i].body = row[i].body
           /\ copy[d][i].deleted = (row[i].deleted # 0)

\* The content of an item, in the database and on the devices: its folder is not part
\* of it, which the purge clears under the same version.  And the ids a device has made.
Store  == [i \in Items |-> [version |-> row[i].version, body |-> row[i].body,
                            deleted |-> row[i].deleted # 0]]
Copies == [d \in Devices |-> [i \in Items |->
              [version |-> copy[d][i].version, body |-> copy[d][i].body,
               deleted |-> copy[d][i].deleted]]]
Made   == [d \in Devices |-> {i \in Items : maker[i] = d}]
Sync == INSTANCE Replica WITH Bodies <- Devices \cup {None}, store <- Store, held <- Copies,
                              made <- Made

\* The optimistic lock, as the devices see it: rows and copies behave like Replica.
\* Through pushes that stay open across other requests and statements that waited for
\* a lock, a device changes only what it holds as it is, and is told only what is so.
\* The exception is Replica's Forced: a push without base_version overwrites whatever
\* has become of an item that the device made.
Replicates == Sync!Spec

\* sync_pull replays "everything since X": what a device's cursor has passed it
\* holds as the server has it, however pages cut through rows of one stamp.
\* The exception is a row that commits after the cursor passed its stamp.
PullMissesOnlyLate ==
    \A d \in Devices, i \in Items :
        (/\ row[i].version # 0 /\ i \notin late[d]
         /\ ~Before(cursor[d][TableOf(i)], Key(row, i)))
        => copy[d][i] = View(row[i])

\* sync_push holds a connection and row locks while it asks the pool for another
\* connection.  When pushes hold every connection the acquire timeout ends one:
\* whatever waits for what, some open push can go on.
PushesMove ==
    (\E d \in Devices : req[d].pc \in InTx)
    => \E d \in Devices : req[d].pc \in InTx /\ ENABLED Step(d)
=============================================================================
