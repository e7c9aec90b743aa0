---------------------------- MODULE NotesProofs ----------------------------
(***************************************************************************)
(* Theorems about Notes for any notes, folders, devices and bounds: rows   *)
(* and copies behave like Replica, a version names one state, and a pull   *)
(* misses nothing but late commits, although a push stays open across      *)
(* other requests and reads outside its transaction.                       *)
(***************************************************************************)
EXTENDS Notes, FiniteSetTheorems, WellFoundedInduction, TLAPS

-----------------------------------------------------------------------------
(* Types *)

RequestType == [pc : Pcs, ids : SUBSET Items, folder : Folders \cup {None}, base : Nat,
                stamp : 0..MaxTime, body : Devices \cup {None}, left : Seq(Mutation),
                wrote : [Items -> Row]]
CopyType == [version : Nat, body : Devices \cup {None}, folder : Folders \cup {None},
             deleted : BOOLEAN]

RowOK   == row \in [Items -> Row]
CopyOK  == copy \in [Devices -> [Items -> CopyType]]
ReqOK   == req \in [Devices -> RequestType]
PullOK  == cursor \in [Devices -> [Tables -> (0..MaxTime) \X (Items \cup {0})]]
PurgeOK == purge \in [stage : {"idle", "notes", "folders"}, cutoff : Int, ids : SUBSET Items]
RestOK  == /\ now \in 0..MaxTime /\ writes \in 0..MaxWrites
           /\ maker \in [Items -> Devices \cup {None}]
           /\ late \in [Devices -> SUBSET Items] /\ gone \subseteq Items

TypeInv == RowOK /\ CopyOK /\ ReqOK /\ PullOK /\ PurgeOK /\ RestOK

-----------------------------------------------------------------------------
(* The invariant *)

\* The foreign key; folders are in no folder.
FolderInv ==
    /\ \A i \in Items : Exists(row[i].folder)
    /\ \A f \in Folders : row[f].folder = None

\* A mutation carries the version that its device holds, mk being who has made what.
Sent(d, m, mk) ==
    /\ copy[d][m.id].version = m.base /\ (m.base = 0 => mk[m.id] = d)
    /\ m.id \in Folders => m.folder = None

\* What request q of device d says of the items it names is what d holds of them.
QueryOK(d, q, mk) ==
    /\ q.pc = "idle" => q.left = << >> /\ \A i \in Items : q.wrote[i].version = 0
    /\ \A k \in DOMAIN q.left : Sent(d, q.left[k], mk)
    /\ q.pc \in {"forceFolder", "forceNote"} => q.left # << >> /\ Head(q.left).base = 0
    /\ q.pc = "forceFolder" => Head(q.left).id \in Folders
    /\ q.pc \in {"found", "move", "remove"} => q.ids \subseteq Notes
    /\ q.pc = "create" => \A i \in q.ids : copy[d][i].version = 0
    /\ q.pc \in {"update", "delete"} => \A i \in q.ids : copy[d][i].version = q.base

\* Device d may change the content of item i: it holds the row that is there, or made
\* the item and holds nothing of it.
MayChange(d, i, mk) ==
    \/ copy[d][i].version = row[i].version
    \/ copy[d][i].version = 0 /\ mk[i] = d

\* The rows that a push has written replace those that are there as long as it is
\* open, and so are the folders that they name.
PendingOK(d, q, mk) ==
    \A i \in Items :
        /\ Exists(q.wrote[i].folder) /\ (i \in Folders => q.wrote[i].folder = None)
        /\ q.wrote[i].version # 0 => q.wrote[i].version > row[i].version /\ MayChange(d, i, mk)

ReqInv == \A d \in Devices : QueryOK(d, req[d], maker) /\ PendingOK(d, req[d], maker)

\* A row is written by one open push at most.
LockInv == \A d, e \in Devices : d # e => Held(d) \cap Held(e) = {}

\* Devices are behind the rows, never ahead.
VersionInv ==
    \A d \in Devices, i \in Items : i \notin gone => copy[d][i].version <= row[i].version

NotesInv ==
    /\ TypeInv /\ FolderInv /\ ReqInv /\ LockInv
    /\ VersionInv /\ VersionNamesState /\ PullMissesOnlyLate

-----------------------------------------------------------------------------
(* Items, rows and requests *)

\* Notes and folders are different items, and none of them is None.
LEMMA ItemFacts ==
    /\ IsFiniteSet(Items) /\ None \notin Items
    /\ \A i \in Items : i \in Nat /\ (i \in Notes \/ i \in Folders) /\ ~(i \in Notes /\ i \in Folders)
    /\ \A i \in Items : TableOf(i) \in Tables /\ i \in TableOf(i)
    /\ \A t \in Tables : t \subseteq Items /\ IsFiniteSet(t)
    /\ \A t \in Tables, i \in Items : i \in t => TableOf(i) = t
<1>1. IsFiniteSet(Items)
  BY NotesAssumption, FS_Union DEF Items
<1> QED
  BY <1>1, NotesAssumption DEF Items, Tables, TableOf, None

\* No row is a row, and no request is a request.
LEMMA NoneTypes ==
    /\ NoRow \in Row /\ NoRow.folder = None /\ NoRow.version = 0
    /\ Idle \in RequestType /\ Idle.pc = "idle" /\ Idle.left = << >>
    /\ \A i \in Items : Idle.wrote[i] = NoRow
<1>1. 0 \in 0..MaxTime
  BY NotesAssumption
<1>2. NoRow \in Row /\ NoRow.folder = None /\ NoRow.version = 0
  BY <1>1 DEF NoRow, Row, None
<1>3. [i \in Items |-> NoRow] \in [Items -> Row] /\ << >> \in Seq(Mutation)
  BY <1>2
<1> QED
  BY <1>1, <1>2, <1>3 DEF Idle, RequestType, Pcs, None

\* The mutation whose turn it is, and those after it.
LEMMA LeftFacts ==
    ASSUME NEW ms \in Seq(Mutation), ms # << >>
    PROVE  /\ Head(ms) \in Mutation /\ 1 \in DOMAIN ms /\ Head(ms) = ms[1]
           /\ Tail(ms) \in Seq(Mutation)
           /\ \A k \in DOMAIN Tail(ms) : \E l \in DOMAIN ms : Tail(ms)[k] = ms[l]
<1>1. Len(ms) \in Nat \ {0} /\ DOMAIN ms = 1..Len(ms) /\ \A k \in 1..Len(ms) : ms[k] \in Mutation
  OBVIOUS
<1>2. Head(ms) = ms[1] /\ Tail(ms) \in Seq(Mutation) /\ Len(Tail(ms)) = Len(ms) - 1
  OBVIOUS
<1>3. \A k \in 1..(Len(ms) - 1) : Tail(ms)[k] = ms[k + 1] /\ k + 1 \in 1..Len(ms)
  BY <1>1
<1>4. DOMAIN Tail(ms) = 1..(Len(ms) - 1)
  BY <1>2
<1> QED
  BY <1>1, <1>2, <1>3, <1>4

\* Ids keep their makers.
MakerGrows ==
    /\ maker' \in [Items -> Devices \cup {None}]
    /\ \A i \in Items : maker[i] # None => maker'[i] = maker[i]

\* What a write does to a row.
LEMMA RowWrites ==
    ASSUME NEW r \in Row, NEW q \in RequestType
    PROVE  /\ Touched(q, r) \in Row /\ Touched(q, r).version = r.version + 1
           /\ Touched(q, r).body = r.body /\ Touched(q, r).deleted = r.deleted
           /\ Touched(q, r).folder = r.folder
           /\ Refiled(q, r) \in Row /\ Refiled(q, r).version = r.version + 1
           /\ Refiled(q, r).body = r.body /\ Refiled(q, r).deleted = r.deleted
           /\ Refiled(q, r).folder = q.folder
<1>1. /\ r.version + 1 \in Nat /\ q.stamp \in 0..MaxTime /\ q.folder \in Folders \cup {None}
  BY DEF Row, RequestType
<1>2. /\ Touched(q, r) \in Row /\ Touched(q, r).version = r.version + 1
      /\ Touched(q, r).body = r.body /\ Touched(q, r).deleted = r.deleted
      /\ Touched(q, r).folder = r.folder
  BY <1>1 DEF Row, Touched
<1> QED
  BY <1>1, <1>2 DEF Row, Refiled

\* One column of a row.
LEMMA RowColumns ==
    ASSUME NEW r \in Row
    PROVE  /\ \A b \in Devices \cup {None} :
                 /\ [r EXCEPT !.body = b] \in Row /\ [r EXCEPT !.body = b].version = r.version
                 /\ [r EXCEPT !.body = b].folder = r.folder
           /\ \A f \in Folders \cup {None} :
                 /\ [r EXCEPT !.folder = f] \in Row /\ [r EXCEPT !.folder = f].version = r.version
                 /\ [r EXCEPT !.folder = f].folder = f /\ [r EXCEPT !.folder = f].body = r.body
                 /\ [r EXCEPT !.folder = f].deleted = r.deleted
           /\ \A t \in 0..MaxTime :
                 /\ [r EXCEPT !.deleted = t] \in Row /\ [r EXCEPT !.deleted = t].version = r.version
                 /\ [r EXCEPT !.deleted = t].folder = r.folder
BY DEF Row

-----------------------------------------------------------------------------
(* A statement, and what it commits *)

\* Device d replaces row i by r: a later version, its content changed only if d may.
Replaces(d, i, r) ==
    /\ r \in Row /\ r.version > row[i].version
    /\ Exists(r.folder) /\ (i \in Folders => r.folder = None)
    /\ (r.body = row[i].body /\ r.deleted = row[i].deleted) \/ MayChange(d, i, maker)

\* The statement of an endpoint leaves a row alone or replaces it.
LEMMA OutcomeReplaces ==
    ASSUME RowOK, FolderInv, NEW d \in Devices, NEW q \in RequestType, q.pc \in Statements,
           NEW mk, QueryOK(d, q, mk), NEW i \in q.ids
    PROVE  Outcome(q, i) = row[i] \/ Replaces(d, i, Outcome(q, i))
<1>0. /\ i \in Items /\ row[i] \in Row /\ row[i].version + 1 > row[i].version /\ (i \in Notes \/ i \in Folders)
      /\ ~(i \in Notes /\ i \in Folders) /\ q.body \in Devices \cup {None}
      /\ q.stamp \in 0..MaxTime /\ Exists(None) /\ Exists(row[i].folder) /\ None \in Folders \cup {None}
      /\ i \in Folders => row[i].folder = None
  BY ItemFacts DEF RequestType, RowOK, Row, Exists, FolderInv
<1> DEFINE T == Touched(q, row[i])
           F == Refiled(q, row[i])
<1>a. /\ T \in Row /\ T.version = row[i].version + 1 /\ T.folder = row[i].folder
      /\ F \in Row /\ F.version = row[i].version + 1 /\ F.folder = q.folder
      /\ T.body = row[i].body /\ T.deleted = row[i].deleted
  BY <1>0, RowWrites
<1> HIDE DEF T, F
<1>b. /\ [T EXCEPT !.body = q.body] \in Row /\ [F EXCEPT !.body = q.body] \in Row
      /\ [T EXCEPT !.body = q.body].version = row[i].version + 1
      /\ [F EXCEPT !.body = q.body].version = row[i].version + 1
      /\ [T EXCEPT !.body = q.body].folder = row[i].folder
      /\ [F EXCEPT !.body = q.body].folder = q.folder
  BY <1>0, <1>a, RowColumns
<1>c. /\ [T EXCEPT !.folder = None] \in Row
      /\ [T EXCEPT !.folder = None].version = row[i].version + 1
      /\ [T EXCEPT !.folder = None].folder = None
      /\ [T EXCEPT !.folder = None].body = row[i].body
      /\ [T EXCEPT !.folder = None].deleted = row[i].deleted
  BY <1>0, <1>a, RowColumns
<1>1. CASE q.pc = "create"
  <2>1. copy[d][i].version = 0
    BY <1>1 DEF QueryOK
  <2>2. CASE i \in Notes
    <3>1. Outcome(q, i) = create_note(q, row[i])
      BY <1>0, <1>1, <2>2 DEF Outcome
    <3> QED
      BY <1>0, <1>b, <2>1, <2>2, <3>1 DEF create_note, Replaces, MayChange, T, F
  <2>3. CASE i \in Folders
    <3>1. Outcome(q, i) = create_folder(q, row[i])
      BY <1>0, <1>1, <2>3 DEF Outcome
    <3> QED
      BY <1>0, <1>b, <2>1, <2>3, <3>1 DEF create_folder, Replaces, MayChange, T, F
  <2> QED
    BY <1>0, <2>2, <2>3
<1>2. CASE q.pc = "update"
  <2>1. copy[d][i].version = q.base
    BY <1>2 DEF QueryOK
  <2>2. CASE i \in Notes
    <3>1. Outcome(q, i) = update_note_by_version(q, row[i])
      BY <1>0, <1>2, <2>2 DEF Outcome
    <3> QED
      BY <1>0, <1>b, <2>1, <2>2, <3>1 DEF update_note_by_version, Unmoved, Replaces, MayChange, T, F
  <2>3. CASE i \in Folders
    <3>1. Outcome(q, i) = update_folder_by_version(q, row[i])
      BY <1>0, <1>2, <2>3 DEF Outcome
    <3> QED
      BY <1>0, <1>b, <2>1, <2>3, <3>1 DEF update_folder_by_version, Unmoved, Replaces, MayChange, T, F
  <2> QED
    BY <1>0, <2>2, <2>3
<1>3. CASE q.pc = "delete"
  <2>1. copy[d][i].version = q.base
    BY <1>3 DEF QueryOK
  <2>2. Outcome(q, i) = IF Unmoved(q, row[i]) THEN [Touched(q, row[i]) EXCEPT !.deleted = q.stamp] ELSE row[i]
    <3>1. CASE i \in Notes
      BY <1>0, <1>3, <3>1 DEF Outcome, soft_delete_note
    <3>2. CASE i \in Folders
      BY <1>0, <1>3, <3>2 DEF Outcome, soft_delete_folder
    <3> QED
      BY <1>0, <3>1, <3>2
  <2> QED
    BY <1>0, <2>1, <2>2, RowWrites, RowColumns DEF Unmoved, Replaces, MayChange
<1>4. CASE q.pc = "move"
  <2>1. i \in Notes /\ Outcome(q, i) = move_notes_to_folder(q, row[i])
    BY <1>4 DEF Outcome, QueryOK
  <2> QED
    BY <1>0, <2>1, RowWrites DEF move_notes_to_folder, Replaces
<1>5. CASE q.pc = "remove"
  <2>1. i \in Notes /\ Outcome(q, i) = remove_note_from_folder(q, row[i])
    BY <1>5 DEF Outcome, QueryOK
  <2> QED
    BY <1>0, <1>c, <2>1 DEF remove_note_from_folder, Replaces, T
<1> QED
  BY <1>1, <1>2, <1>3, <1>4, <1>5 DEF Statements

\* The rows of ids are committed for device d, which has the answer or does not; no
\* open push has written one of them.
Committed(d, ids) ==
    /\ ids \subseteq Items /\ row' \in [Items -> Row]
    /\ \A i \in Items \ ids : row'[i] = row[i]
    /\ \A i \in ids : Replaces(d, i, row'[i])
    /\ \A e \in Devices \ {d} : Held(e) \cap ids = {}
    /\ Commit(row', ids) /\ Told(d, row', ids) /\ Answer(d)
    /\ UNCHANGED <<now, cursor, purge, gone>>

\* A statement that runs does this to the rows it changes ..
LEMMA ExecuteCommits ==
    ASSUME NotesInv, NEW d \in Devices, NEW q \in RequestType, q.pc \in Statements,
           NEW mk, QueryOK(d, q, mk), Execute(d, q)
    PROVE  \E ids : Committed(d, ids)
<1> DEFINE r == [i \in Items |-> IF i \in q.ids THEN Outcome(q, i) ELSE row[i]]
           ids == {i \in q.ids : r[i] # row[i]}
<1>1. /\ ~Waits(d, q) /\ Commit(r, ids) /\ Told(d, r, ids) /\ Answer(d)
      /\ UNCHANGED <<now, cursor, purge, gone>>
  BY DEF Execute
<1>2. row' = r
  BY <1>1 DEF Commit
<1>3. q.ids \subseteq Items /\ RowOK /\ FolderInv
  BY DEF RequestType, NotesInv, TypeInv
<1>4. \A i \in q.ids : r[i] = Outcome(q, i) /\ (r[i] = row[i] \/ Replaces(d, i, r[i]))
  BY <1>3, OutcomeReplaces
<1>5. \A i \in Items \ q.ids : r[i] = row[i]
  OBVIOUS
<1>6. DOMAIN r = Items /\ r = [i \in Items |-> r[i]]
  OBVIOUS
<1>7. \A e \in Devices \ {d} : Held(e) \cap q.ids = {}
  BY <1>1 DEF Waits, Locked
<1> HIDE DEF r
<1>8. r \in [Items -> Row]
  <2>1. \A i \in Items : r[i] \in Row
    BY <1>3, <1>4, <1>5 DEF RowOK, Replaces
  <2> QED
    BY <1>6, <2>1
<1>9. Committed(d, ids)
  BY <1>1, <1>2, <1>3, <1>4, <1>5, <1>7, <1>8 DEF Committed
<1> QED
  BY <1>9

\* .. and so does a push at its commit.
LEMMA PushCommits ==
    ASSUME NotesInv, NEW d \in Devices, sync_push(d)
    PROVE  Committed(d, Held(d))
<1> DEFINE r == [i \in Items |-> Mine(d, i)]
<1>1. /\ Commit(r, Held(d)) /\ Told(d, r, Held(d)) /\ Answer(d) /\ row' = r
      /\ UNCHANGED <<now, cursor, purge, gone>>
  BY DEF sync_push, Commit
<1>2. /\ RowOK /\ PendingOK(d, req[d], maker) /\ req[d].wrote \in [Items -> Row]
      /\ Held(d) = {i \in Items : req[d].wrote[i].version # 0}
  BY DEF NotesInv, TypeInv, ReqOK, ReqInv, RequestType, Held
<1>3. \A i \in Held(d) : r[i] = req[d].wrote[i] /\ Replaces(d, i, r[i])
  BY <1>2 DEF PendingOK, Replaces, Mine
<1>4. \A i \in Items \ Held(d) : r[i] = row[i]
  BY DEF Mine
<1>6. DOMAIN r = Items /\ r = [i \in Items |-> r[i]] /\ Held(d) \subseteq Items
  BY <1>2
<1> HIDE DEF r
<1>7. r \in [Items -> Row]
  <2>1. \A i \in Items : r[i] \in Row
    BY <1>2, <1>3, <1>4 DEF RowOK, Replaces
  <2> QED
    BY <1>6, <2>1
<1>8. \A e \in Devices \ {d} : Held(e) \cap Held(d) = {}
  BY DEF NotesInv, LockInv
<1> QED
  BY <1>1, <1>3, <1>4, <1>6, <1>7, <1>8 DEF Committed

\* A device without a request has written nothing.
LEMMA IdleRequest ==
    ASSUME NEW d \in Devices, NEW mk
    PROVE  QueryOK(d, Idle, mk) /\ PendingOK(d, Idle, mk)
<1>1. \A i \in Items : Idle.wrote[i].version = 0 /\ Idle.wrote[i].folder = None
  BY NoneTypes
<1>2. DOMAIN Idle.left = {}
  BY NoneTypes
<1> QED
  BY <1>1, <1>2, NoneTypes DEF QueryOK, PendingOK, Exists

\* What a device has made it has made later, too.
LEMMA RequestGrows ==
    ASSUME NEW d \in Devices, NEW q \in RequestType, MakerGrows, QueryOK(d, q, maker), PendingOK(d, q, maker)
    PROVE  QueryOK(d, q, maker') /\ PendingOK(d, q, maker')
<1>1. d # None /\ \A i \in Items : maker[i] = d => maker'[i] = d
  BY NotesAssumption DEF MakerGrows, None
<1>2. \A k \in DOMAIN q.left : q.left[k].id \in Items
  <2>1. q.left \in Seq(Mutation)
    BY DEF RequestType
  <2>2. \A k \in DOMAIN q.left : q.left[k] \in Mutation
    BY <2>1
  <2> QED
    BY <2>2 DEF Mutation
<1>3. \A k \in DOMAIN q.left : Sent(d, q.left[k], maker) => Sent(d, q.left[k], maker')
  BY <1>1, <1>2 DEF Sent
<1>4. QueryOK(d, q, maker')
  BY <1>3 DEF QueryOK
<1>5. PendingOK(d, q, maker')
  BY <1>1 DEF PendingOK, MayChange
<1> QED
  BY <1>4, <1>5

\* The invariant survives a commit: what it replaces nobody else has written, folders
\* that were there still are, and no device holds what is new unless it is told.
LEMMA CommittedKeeps ==
    ASSUME NotesInv, NEW d \in Devices, NEW ids, Committed(d, ids),
           writes' \in 0..MaxWrites, MakerGrows
    PROVE  NotesInv'
<1>0. /\ RowOK /\ CopyOK /\ ReqOK /\ PullOK /\ PurgeOK /\ RestOK /\ FolderInv /\ ReqInv /\ LockInv
      /\ VersionInv /\ VersionNamesState /\ PullMissesOnlyLate
  BY DEF NotesInv, TypeInv
<1>1. /\ ids \subseteq Items /\ row' \in [Items -> Row]
      /\ \A i \in Items \ ids : row'[i] = row[i]
      /\ \A i \in ids : Replaces(d, i, row'[i])
      /\ \A e \in Devices \ {d} : Held(e) \cap ids = {}
      /\ now' = now /\ cursor' = cursor /\ purge' = purge /\ gone' = gone
      /\ maker' \in [Items -> Devices \cup {None}]
  BY DEF Committed, MakerGrows
<1>2. late' = [e \in Devices |-> (late[e] \ ids)
                    \cup {i \in ids : ~Before(cursor[e][TableOf(i)], Key(row', i))}]
  BY DEF Committed, Commit
<1>3. copy' = copy \/ copy' = [copy EXCEPT ![d] =
                        [i \in Items |-> IF i \in ids THEN View(row'[i]) ELSE copy[d][i]]]
  BY DEF Committed, Told
<1>4. req' = [req EXCEPT ![d] = Idle]
  BY DEF Committed, Answer
<1>5. \A i \in Items : View(row'[i]) \in CopyType
  BY <1>1 DEF View, CopyType, Row
<1>6. /\ copy' \in [Devices -> [Items -> CopyType]]
      /\ \A e \in Devices \ {d} : copy'[e] = copy[e]
      /\ \A e \in Devices, i \in Items : copy'[e][i] = copy[e][i] \/ (i \in ids /\ copy'[e][i] = View(row'[i]))
  <2>1. CASE copy' = copy
    BY <1>0, <2>1 DEF CopyOK
  <2>2. CASE copy' = [copy EXCEPT ![d] =
                        [i \in Items |-> IF i \in ids THEN View(row'[i]) ELSE copy[d][i]]]
    <3> DEFINE c == [i \in Items |-> IF i \in ids THEN View(row'[i]) ELSE copy[d][i]]
    <3>1. c \in [Items -> CopyType]
      BY <1>0, <1>5 DEF CopyOK
    <3>2. \A i \in Items : c[i] = copy[d][i] \/ (i \in ids /\ c[i] = View(row'[i]))
      OBVIOUS
    <3>3. copy' = [copy EXCEPT ![d] = c]
      BY <2>2
    <3> HIDE DEF c
    <3> QED
      BY <1>0, <3>1, <3>2, <3>3 DEF CopyOK
  <2> QED
    BY <1>3, <2>1, <2>2
<1>7. /\ req' \in [Devices -> RequestType] /\ req'[d] = Idle
      /\ \A e \in Devices \ {d} : req'[e] = req[e]
  BY <1>0, <1>4, NoneTypes DEF ReqOK
<1>8. late' \in [Devices -> SUBSET Items]
  BY <1>0, <1>1, <1>2 DEF RestOK
<1>9. TypeInv'
  BY <1>0, <1>1, <1>6, <1>7, <1>8 DEF TypeInv, RowOK, CopyOK, ReqOK, PullOK, PurgeOK, RestOK
<1>10. /\ \A i \in Items : row[i].version # 0 => row'[i].version # 0
       /\ \A i \in Items : row[i] \in Row /\ row'[i] \in Row
       /\ \A i \in ids : row'[i].version > row[i].version
  BY <1>0, <1>1 DEF RowOK, Row, Replaces
<1>11. \A f \in Folders \cup {None} : Exists(f) => Exists(f)'
  BY <1>10 DEF Exists, Items
<1>12. FolderInv'
  <2>1. \A i \in Items : row'[i].folder \in Folders \cup {None} /\ Exists(row'[i].folder)
    BY <1>0, <1>1, <1>10 DEF FolderInv, Replaces, Row
  <2>2. \A f \in Folders : row'[f].folder = None
    BY <1>0, <1>1 DEF FolderInv, Replaces, Items
  <2> QED
    BY <1>11, <2>1, <2>2 DEF FolderInv
<1>13. ReqInv'
  <2> SUFFICES ASSUME NEW e \in Devices
               PROVE  QueryOK(e, req[e], maker)' /\ PendingOK(e, req[e], maker)'
    BY DEF ReqInv
  <2>1. CASE e = d
    <3>1. /\ req'[e] = Idle /\ Idle.pc = "idle" /\ DOMAIN Idle.left = {} /\ Idle.left = << >>
          /\ \A i \in Items : Idle.wrote[i].version = 0 /\ Idle.wrote[i].folder = None
      BY <1>7, <2>1, NoneTypes
    <3> QED
      BY <3>1 DEF QueryOK, PendingOK, Exists
  <2>2. CASE e # d
    <3>1. QueryOK(e, req[e], maker) /\ PendingOK(e, req[e], maker) /\ req'[e] = req[e] /\ copy'[e] = copy[e]
          /\ req[e] \in RequestType
      BY <1>0, <1>6, <1>7, <2>2 DEF ReqInv, ReqOK
    <3>2. QueryOK(e, req[e], maker') /\ PendingOK(e, req[e], maker')
      BY <3>1, RequestGrows
    <3>3. QueryOK(e, req[e], maker)'
      BY <3>1, <3>2 DEF QueryOK, Sent
    <3>4. \A i \in Items : req[e].wrote[i].version # 0 => row'[i] = row[i]
      BY <1>1, <2>2 DEF Held
    <3>5. \A i \in Items : req[e].wrote[i].folder \in Folders \cup {None}
      BY <3>1 DEF RequestType, Row
    <3>6. PendingOK(e, req[e], maker)'
      BY <1>11, <3>1, <3>2, <3>4, <3>5 DEF PendingOK, MayChange
    <3> QED
      BY <3>3, <3>6
  <2> QED
    BY <2>1, <2>2
<1>14. LockInv'
  <2>1. Held(d)' = {} /\ \A e \in Devices \ {d} : Held(e)' = Held(e)
    BY <1>7, NoneTypes DEF Held
  <2> QED
    BY <1>0, <2>1 DEF LockInv
<1>15. VersionInv'
  <2> SUFFICES ASSUME NEW e \in Devices, NEW i \in Items, i \notin gone
               PROVE  copy'[e][i].version <= row'[i].version
    BY <1>1 DEF VersionInv
  <2>1. /\ copy[e][i].version <= row[i].version /\ copy[e][i].version \in Nat
        /\ row[i].version \in Nat /\ row'[i].version \in Nat
    BY <1>0, <1>10 DEF VersionInv, CopyOK, CopyType, Row
  <2>2. row[i].version <= row'[i].version
    BY <1>1, <1>10, <2>1
  <2>3. CASE copy'[e][i] = copy[e][i]
    BY <2>1, <2>2, <2>3
  <2>4. CASE copy'[e][i] = View(row'[i])
    <3>1. copy'[e][i].version = row'[i].version
      BY <2>4 DEF View
    <3> QED
      BY <2>1, <3>1
  <2> QED
    BY <1>6, <2>3, <2>4
<1>16. VersionNamesState'
  <2> SUFFICES ASSUME NEW e \in Devices, NEW i \in Items, i \notin gone, copy'[e][i].version # 0,
                      copy'[e][i].version = row'[i].version
               PROVE  copy'[e][i].body = row'[i].body /\ copy'[e][i].deleted = (row'[i].deleted # 0)
    BY <1>1 DEF VersionNamesState
  <2>1. CASE i \in ids /\ copy'[e][i] = View(row'[i])
    BY <2>1 DEF View
  <2>2. CASE copy'[e][i] = copy[e][i]
    <3>1. i \notin ids
      <4>1. copy[e][i].version <= row[i].version /\ row[i].version \in Nat /\ copy[e][i].version \in Nat
        BY <1>0, <1>10 DEF VersionInv, CopyOK, CopyType, Row
      <4> QED
        BY <1>10, <2>2, <4>1
    <3> QED
      BY <1>0, <1>1, <2>2, <3>1 DEF VersionNamesState
  <2> QED
    BY <1>6, <2>1, <2>2
<1>17. PullMissesOnlyLate'
  <2> SUFFICES ASSUME NEW e \in Devices, NEW i \in Items, row'[i].version # 0, i \notin late'[e],
                      ~Before(cursor[e][TableOf(i)], Key(row', i))
               PROVE  copy'[e][i] = View(row'[i])
    BY <1>1 DEF PullMissesOnlyLate, Key
  <2>1. i \notin ids
    BY <1>2
  <2>2. row'[i] = row[i] /\ i \notin late[e] /\ copy'[e][i] = copy[e][i]
    BY <1>1, <1>2, <1>6, <2>1
  <2> QED
    BY <1>0, <2>2 DEF PullMissesOnlyLate, Key
<1> QED
  BY <1>9, <1>12, <1>13, <1>14, <1>15, <1>16, <1>17 DEF NotesInv

-----------------------------------------------------------------------------
(* Requests: what a request does before it commits *)

\* The rows request q has written.
Written(q) == {i \in Items : q.wrote[i].version # 0}

\* Request q may be the request of device d, mk being who has made what.
RequestOK(d, q, mk) ==
    /\ q \in RequestType /\ QueryOK(d, q, mk) /\ PendingOK(d, q, mk)
    /\ \A e \in Devices \ {d} : Held(e) \cap Written(q) = {}

\* The request that a device has is one, and so is none.
LEMMA RequestFacts ==
    ASSUME NotesInv, NEW d \in Devices
    PROVE  RequestOK(d, req[d], maker) /\ RequestOK(d, Idle, maker) /\ Held(d) = Written(req[d])
<1>1. req[d] \in RequestType /\ QueryOK(d, req[d], maker) /\ PendingOK(d, req[d], maker)
  BY DEF NotesInv, TypeInv, ReqOK, ReqInv
<1>2. Held(d) = Written(req[d]) /\ \A e \in Devices \ {d} : Held(e) \cap Held(d) = {}
  BY DEF Held, Written, NotesInv, LockInv
<1>3. Written(Idle) = {}
  BY NoneTypes DEF Written
<1> QED
  BY <1>1, <1>2, <1>3, IdleRequest, NoneTypes DEF RequestOK

\* The invariant survives when a device's request moves on and the rows stay.
LEMMA RequestMoves ==
    ASSUME NotesInv, NEW d \in Devices, NEW q, RequestOK(d, q, maker'), req' = [req EXCEPT ![d] = q],
           UNCHANGED <<now, db, copy, cursor, purge, gone>>,
           writes' \in 0..MaxWrites, MakerGrows
    PROVE  NotesInv'
<1>0. /\ RowOK /\ CopyOK /\ ReqOK /\ PullOK /\ PurgeOK /\ RestOK /\ FolderInv /\ ReqInv /\ LockInv
      /\ VersionInv /\ VersionNamesState /\ PullMissesOnlyLate
  BY DEF NotesInv, TypeInv
<1>1. /\ now' = now /\ row' = row /\ late' = late /\ copy' = copy /\ cursor' = cursor
      /\ purge' = purge /\ gone' = gone
  BY DEF db
<1>2. /\ req' \in [Devices -> RequestType] /\ req'[d] = q
      /\ \A e \in Devices \ {d} : req'[e] = req[e]
  BY <1>0 DEF ReqOK, RequestOK
<1>3. TypeInv'
  BY <1>0, <1>1, <1>2 DEF TypeInv, RowOK, CopyOK, ReqOK, PullOK, PurgeOK, RestOK, MakerGrows
<1>4. FolderInv' /\ VersionInv' /\ VersionNamesState' /\ PullMissesOnlyLate'
  BY <1>0, <1>1 DEF FolderInv, Exists, VersionInv, VersionNamesState, PullMissesOnlyLate, Key
<1>5. ReqInv'
  <2> SUFFICES ASSUME NEW e \in Devices
               PROVE  QueryOK(e, req'[e], maker') /\ PendingOK(e, req'[e], maker')
    BY <1>1 DEF ReqInv, QueryOK, Sent, PendingOK, MayChange, Exists
  <2>1. CASE e = d
    BY <1>2, <2>1 DEF RequestOK
  <2>2. CASE e # d
    BY <1>0, <1>2, <2>2, RequestGrows DEF ReqInv, ReqOK
  <2> QED
    BY <2>1, <2>2
<1>6. LockInv'
  <2>1. Held(d)' = Written(q) /\ \A e \in Devices \ {d} : Held(e)' = Held(e)
    BY <1>2 DEF Held, Written
  <2>2. \A e \in Devices \ {d} : Held(e) \cap Written(q) = {}
    BY DEF RequestOK
  <2> QED
    BY <1>0, <2>1, <2>2 DEF LockInv
<1> QED
  BY <1>3, <1>4, <1>5, <1>6 DEF NotesInv

\* A step of device d's request moves the request on, or commits rows and answers.
Serves(d) ==
    /\ \/ \E ids : Committed(d, ids)
       \/ /\ \E q : RequestOK(d, q, maker') /\ req' = [req EXCEPT ![d] = q]
          /\ UNCHANGED <<now, db, copy, cursor, purge, gone>>
    /\ writes' \in 0..MaxWrites /\ MakerGrows

\* Either keeps the invariant.
LEMMA ServesKeeps ==
    ASSUME NotesInv, NEW d \in Devices, Serves(d)
    PROVE  NotesInv'
<1>1. writes' \in 0..MaxWrites /\ MakerGrows
  BY DEF Serves
<1>2. CASE \E ids : Committed(d, ids)
  BY <1>1, <1>2, CommittedKeeps
<1>3. CASE /\ \E q : RequestOK(d, q, maker') /\ req' = [req EXCEPT ![d] = q]
           /\ UNCHANGED <<now, db, copy, cursor, purge, gone>>
  BY <1>1, <1>3, RequestMoves
<1> QED
  BY <1>2, <1>3 DEF Serves

\* A statement runs or waits.
LEMMA SubmitServes ==
    ASSUME NotesInv, NEW d \in Devices, NEW q, RequestOK(d, q, maker'), q.pc \in Statements, Submit(d, q),
           writes' \in 0..MaxWrites, MakerGrows
    PROVE  Serves(d)
<1>1. q \in RequestType /\ QueryOK(d, q, maker')
  BY DEF RequestOK
<1>2. CASE Execute(d, q)
  BY <1>1, <1>2, ExecuteCommits DEF Serves
<1>3. CASE /\ Waits(d, q) /\ req' = [req EXCEPT ![d] = q]
           /\ UNCHANGED <<now, db, copy, cursor, purge, gone>>
  BY <1>3 DEF Serves
<1> QED
  BY <1>2, <1>3 DEF Submit

\* A request that arrives has written nothing.
LEMMA ArrivesOK ==
    ASSUME NotesInv, NEW d \in Devices, NEW pc \in Pcs, NEW ids \in SUBSET Items,
           NEW f \in Folders \cup {None}, NEW base \in Nat, NEW ms \in Seq(Mutation), NEW mk,
           pc \notin {"idle", "forceFolder", "forceNote"},
           \A k \in DOMAIN ms : Sent(d, ms[k], mk),
           pc \in {"found", "move", "remove"} => ids \subseteq Notes,
           pc = "create" => \A i \in ids : copy[d][i].version = 0,
           pc \in {"update", "delete"} => \A i \in ids : copy[d][i].version = base
    PROVE  /\ RequestOK(d, [Query(d, pc, ids, f, base) EXCEPT !.left = ms], mk)
           /\ ms = << >> => RequestOK(d, Query(d, pc, ids, f, base), mk)
           /\ Query(d, pc, ids, f, base).pc = pc
<1> DEFINE p == Query(d, pc, ids, f, base)
           q == [p EXCEPT !.left = ms]
<1>0. now \in 0..MaxTime
  BY DEF NotesInv, TypeInv, RestOK
<1>1. /\ p.pc = pc /\ p.ids = ids /\ p.base = base /\ p.left = << >> /\ p.wrote = Idle.wrote
      /\ q.pc = pc /\ q.ids = ids /\ q.base = base /\ q.left = ms /\ q.wrote = Idle.wrote
  BY DEF Query, Idle
<1>2. p \in RequestType
  BY <1>0, NoneTypes DEF Query, RequestType
<1>3. q \in RequestType
  BY <1>2 DEF RequestType
<1>4. ms = << >> => p = q
  <2> HIDE DEF p
  <2> QED
    BY <1>1, <1>2 DEF RequestType
<1> HIDE DEF p, q
<1>5. QueryOK(d, q, mk)
  BY <1>1 DEF QueryOK
<1>6. \A i \in Items : q.wrote[i].version = 0 /\ q.wrote[i].folder = None
  BY <1>1, NoneTypes
<1>7. PendingOK(d, q, mk) /\ Written(q) = {}
  BY <1>6 DEF PendingOK, Exists, Written
<1>8. RequestOK(d, q, mk)
  BY <1>3, <1>5, <1>7 DEF RequestOK
<1> QED
  BY <1>1, <1>4, <1>8 DEF p, q

\* The mutations of a push carry the version that the device holds.
LEMMA MutationFacts ==
    ASSUME NotesInv, NEW d \in Devices, NEW m \in Mutations(d)
    PROVE  /\ m \in Mutation /\ copy[d][m.id].version = m.base /\ (m.id \in Folders => m.folder = None)
           /\ m.base = 0 => maker[m.id] \in {None, d}
<1>1. /\ m \in [id : Items, base : {Base(d, i) : i \in Items}, deleted : BOOLEAN, folder : Folders \cup {None}]
      /\ m.base = Base(d, m.id) /\ (m.base # 0 \/ MayMake(d, m.id)) /\ Placed(m.id, m.folder)
  BY DEF Mutations
<1>2. \A i \in Items : Base(d, i) \in Nat
  BY DEF NotesInv, TypeInv, CopyOK, CopyType, Base
<1> QED
  BY <1>1, <1>2 DEF Mutation, Base, MayMake, Placed

\* A request arrives: its statement runs or waits, or it has only begun.
LEMMA RequestServes ==
    ASSUME NotesInv, NEW d \in Devices, Request(d)
    PROVE  Serves(d)
<1>0. /\ RestOK /\ CopyOK /\ \A i \in Items : copy[d][i].version \in Nat
      /\ Notes \subseteq Items /\ Folders \subseteq Items /\ now \in 0..MaxTime
      /\ {Notes, Folders} = Tables
  BY DEF NotesInv, TypeInv, RestOK, CopyOK, CopyType, Items, Tables
<1>1. writes' \in 0..MaxWrites
  BY <1>0, NotesAssumption DEF Request, Arrives, RestOK
<1>2. UNCHANGED maker => MakerGrows
  BY <1>0 DEF RestOK, MakerGrows
<1>a. /\ << >> \in Seq(Mutation) /\ \A k \in DOMAIN << >> : FALSE
      /\ \A m, mk : \A k \in DOMAIN << >> : Sent(d, m, mk)
  OBVIOUS
<1>b. ASSUME NEW pc \in Pcs, NEW ids \in SUBSET Items, NEW f \in Folders \cup {None}, NEW base \in Nat,
             pc \notin {"idle", "forceFolder", "forceNote"},
             pc \in {"found", "move", "remove"} => ids \subseteq Notes,
             pc = "create" => \A i \in ids : copy[d][i].version = 0,
             pc \in {"update", "delete"} => \A i \in ids : copy[d][i].version = base
      PROVE  RequestOK(d, Query(d, pc, ids, f, base), maker') /\ Query(d, pc, ids, f, base).pc = pc
  <2>1. PICK ms \in Seq(Mutation) : ms = << >> /\ \A k \in DOMAIN ms : Sent(d, ms[k], maker')
    BY <1>a
  <2>2. ms = << >> => RequestOK(d, Query(d, pc, ids, f, base), maker')
    BY <1>b, <2>1, ArrivesOK
  <2> QED
    BY <2>1, <2>2 DEF Query, Idle
<1>3. ASSUME NEW i \in Items, NEW f \in Folders \cup {None}, Create(d, i, f)
      PROVE  Serves(d)
  <2>1. MakerGrows
    BY <1>0, <1>3 DEF Create, MayMake, RestOK, MakerGrows
  <2>2. copy[d][i].version = 0
    BY <1>3 DEF Create, MayMake, Base
  <2>3. RequestOK(d, Query(d, "create", {i}, f, 0), maker') /\ Query(d, "create", {i}, f, 0).pc \in Statements
    BY <1>b, <2>2 DEF Pcs, Statements
  <2> QED
    BY <1>1, <1>3, <2>1, <2>3, SubmitServes DEF Create
<1>4. ASSUME NEW i \in Items, NEW f \in Folders \cup {None}, Update(d, i, f)
      PROVE  Serves(d)
  <2> DEFINE q == Query(d, "update", {i}, f, Base(d, i))
  <2>1. RequestOK(d, q, maker') /\ q.pc \in Statements
    BY <1>0, <1>b DEF Pcs, Statements, Base
  <2> QED
    BY <1>1, <1>2, <1>4, <2>1, SubmitServes DEF Update
<1>5. ASSUME NEW i \in Items, Delete(d, i)
      PROVE  Serves(d)
  <2> DEFINE q == Query(d, "delete", {i}, None, Base(d, i))
  <2>1. RequestOK(d, q, maker') /\ q.pc \in Statements
    BY <1>0, <1>b DEF Pcs, Statements, Base
  <2> QED
    BY <1>1, <1>2, <1>5, <2>1, SubmitServes DEF Delete
<1>6. ASSUME NEW n \in Notes, NEW f \in Folders, Remove(d, n, f)
      PROVE  Serves(d)
  <2> DEFINE q == Query(d, "remove", {n}, f, 0)
  <2>1. RequestOK(d, q, maker') /\ q.pc \in Statements
    BY <1>0, <1>b DEF Pcs, Statements
  <2> QED
    BY <1>1, <1>2, <1>6, <2>1, SubmitServes DEF Remove
<1>7. ASSUME NEW ids \in SUBSET Notes, Unfile(d, ids)
      PROVE  Serves(d)
  <2> DEFINE q == Query(d, "move", ids, None, 0)
  <2>0. ids \in SUBSET Items /\ "move" \in Pcs /\ "move" \in Statements
    BY <1>0 DEF Pcs, Statements
  <2>1. RequestOK(d, q, maker') /\ q.pc = "move"
    BY <1>b, <2>0
  <2> QED
    BY <1>1, <1>2, <1>7, <2>0, <2>1, SubmitServes DEF Unfile
<1>8. ASSUME NEW ids \in SUBSET Notes, NEW f \in Folders, FindFolder(d, ids, f)
      PROVE  Serves(d)
  <2> DEFINE p == Query(d, "found", ids, f, 0)
             q == [p EXCEPT !.stamp = 0]
  <2>1. RequestOK(d, p, maker')
    BY <1>0, <1>b DEF Pcs
  <2>2. /\ req' = [req EXCEPT ![d] = q] /\ UNCHANGED maker
        /\ UNCHANGED <<now, db, copy, cursor, purge, gone>>
    BY <1>8 DEF FindFolder
  <2> HIDE DEF p
  <2>3. 0 \in 0..MaxTime
    BY NotesAssumption
  <2>4. p \in RequestType
    BY <2>1 DEF RequestOK
  <2>5. /\ q \in RequestType /\ q.left = p.left /\ q.wrote = p.wrote
        /\ q.pc = p.pc /\ q.ids = p.ids /\ q.base = p.base
    BY <2>3, <2>4 DEF RequestType
  <2> HIDE DEF q
  <2>6. RequestOK(d, q, maker')
    BY <2>1, <2>5 DEF RequestOK, QueryOK, PendingOK, Written
  <2> QED
    BY <1>1, <1>2, <2>2, <2>6 DEF Serves
<1>9. ASSUME NEW n \in 1..MaxMutations, NEW ms \in [1..n -> Mutations(d)], Push(d, ms)
      PROVE  Serves(d)
  <2> DEFINE q == [Query(d, "folders", {}, None, 0) EXCEPT !.left = ms]
  <2>1. /\ req' = [req EXCEPT ![d] = q]
        /\ UNCHANGED <<now, db, copy, cursor, purge, gone>>
        /\ maker' = [i \in Items |-> IF maker[i] = None /\ \E k \in DOMAIN ms : ms[k].id = i
                                     THEN d ELSE maker[i]]
    BY <1>9 DEF Push
  <2>2. MakerGrows
    BY <1>0, <2>1 DEF RestOK, MakerGrows
  <2>3. \A k \in DOMAIN ms : /\ ms[k] \in Mutation /\ copy[d][ms[k].id].version = ms[k].base
                             /\ ms[k].id \in Folders => ms[k].folder = None
                             /\ ms[k].base = 0 => maker[ms[k].id] \in {None, d}
    BY MutationFacts
  <2>4. ms \in Seq(Mutation)
    <3>1. n \in Nat /\ ms \in [1..n -> Mutation]
      BY <2>3, NotesAssumption
    <3> QED
      BY <3>1
  <2>5. \A k \in DOMAIN ms : Sent(d, ms[k], maker')
    <3> SUFFICES ASSUME NEW k \in DOMAIN ms
                 PROVE  Sent(d, ms[k], maker')
      OBVIOUS
    <3>1. ms[k].base = 0 => maker'[ms[k].id] = d
      BY <2>1, <2>3 DEF Mutation
    <3> QED
      BY <2>3, <3>1 DEF Sent
  <2>6. RequestOK(d, q, maker')
    BY <1>0, <2>4, <2>5, ArrivesOK DEF Pcs, InTx
  <2> QED
    BY <1>1, <2>1, <2>2, <2>6 DEF Serves
<1> QED
  BY <1>3, <1>4, <1>5, <1>6, <1>7, <1>8, <1>9 DEF Request

\* The row that a mutation writes.
LEMMA SnapshotFacts ==
    ASSUME NEW d \in Devices, req[d] \in RequestType, NEW r \in Row, NEW m \in Mutation
    PROVE  /\ Snapshot(d, r, m) \in Row /\ Snapshot(d, r, m).version = r.version + 1
           /\ Snapshot(d, r, m).folder = m.folder
<1> DEFINE T == Touched(req[d], r)
<1>1. T \in Row /\ T.version = r.version + 1
  BY RowWrites
<1>2. /\ req[d].body \in Devices \cup {None} /\ req[d].stamp \in 0..MaxTime
      /\ m.folder \in Folders \cup {None} /\ 0 \in 0..MaxTime
  BY NotesAssumption DEF RequestType, Mutation
<1> HIDE DEF T
<1>3. Snapshot(d, r, m) = [T EXCEPT !.body = req[d].body, !.folder = m.folder,
                                    !.deleted = IF ~m.deleted THEN 0 ELSE IF T.deleted # 0 THEN T.deleted
                                                ELSE req[d].stamp]
  BY <1>1 DEF Snapshot, T, Row
<1> QED
  BY <1>1, <1>2, <1>3 DEF Row

\* A push that goes on without a write, with mutations that the device may send.
LEMMA PushGoesOn ==
    ASSUME NotesInv, NEW d \in Devices, NEW pc \in InTx, NEW ms \in Seq(Mutation),
           \A k \in DOMAIN ms : Sent(d, ms[k], maker),
           pc \in {"forceFolder", "forceNote"} => ms # << >> /\ Head(ms).base = 0,
           pc = "forceFolder" => Head(ms).id \in Folders
    PROVE  RequestOK(d, [req[d] EXCEPT !.pc = pc, !.left = ms], maker)
<1> DEFINE q == [req[d] EXCEPT !.pc = pc, !.left = ms]
<1>1. RequestOK(d, req[d], maker) /\ req[d] \in RequestType
  BY RequestFacts DEF RequestOK
<1>2. pc \in Pcs /\ pc \notin {"idle", "found", "move", "remove", "create", "update", "delete"}
  BY DEF Pcs, InTx
<1>3. q \in RequestType /\ q.pc = pc /\ q.left = ms /\ q.wrote = req[d].wrote
  BY <1>1, <1>2 DEF RequestType
<1> HIDE DEF q
<1>4. QueryOK(d, q, maker)
  BY <1>2, <1>3 DEF QueryOK
<1>5. PendingOK(d, q, maker) /\ Written(q) = Written(req[d])
  BY <1>1, <1>3 DEF RequestOK, PendingOK, Written
<1>6. RequestOK(d, q, maker)
  BY <1>1, <1>3, <1>4, <1>5 DEF RequestOK
<1> QED
  BY <1>6 DEF q

\* The mutation whose turn it is, and those that are left after it.
LEMMA TurnFacts ==
    ASSUME NotesInv, NEW d \in Devices, req[d].left # << >>
    PROVE  /\ req[d].left \in Seq(Mutation) /\ Current(d) \in Mutation /\ Sent(d, Current(d), maker)
           /\ Tail(req[d].left) \in Seq(Mutation)
           /\ \A k \in DOMAIN Tail(req[d].left) : Sent(d, Tail(req[d].left)[k], maker)
<1>1. req[d].left \in Seq(Mutation) /\ \A k \in DOMAIN req[d].left : Sent(d, req[d].left[k], maker)
  BY DEF NotesInv, TypeInv, ReqOK, RequestType, ReqInv, QueryOK
<1> DEFINE ms == req[d].left
<1>2. /\ Head(ms) \in Mutation /\ 1 \in DOMAIN ms /\ Head(ms) = ms[1]
      /\ Tail(ms) \in Seq(Mutation)
      /\ \A k \in DOMAIN Tail(ms) : \E l \in DOMAIN ms : Tail(ms)[k] = ms[l]
  BY <1>1, LeftFacts
<1> HIDE DEF ms
<1>3. \A k \in DOMAIN ms : Sent(d, ms[k], maker)
  BY <1>1 DEF ms
<1>4. Sent(d, Head(ms), maker) /\ \A k \in DOMAIN Tail(ms) : Sent(d, Tail(ms)[k], maker)
  BY <1>2, <1>3
<1> QED
  BY <1>1, <1>2, <1>4 DEF ms, Current

\* A push that writes a row: nobody else has written it, its folder is there, and the
\* mutation was made from the row the transaction sees, or from none.
LEMMA PushWrites ==
    ASSUME NotesInv, NEW d \in Devices, NEW pc \in {"folders", "notes"}, req[d].left # << >>,
           ~Locked(d, Current(d).id), Exists(Current(d).folder),
           Current(d).base \in {0, Mine(d, Current(d).id).version},
           Apply(d, Current(d), pc)
    PROVE  \E q : RequestOK(d, q, maker) /\ req' = [req EXCEPT ![d] = q]
<1> DEFINE m == Current(d)
           i == m.id
           w == Snapshot(d, Mine(d, i), m)
           p == [req[d] EXCEPT !.pc = pc, !.left = Tail(req[d].left)]
           q == [p EXCEPT !.wrote[i] = w]
<1>1. /\ RequestOK(d, req[d], maker) /\ req[d] \in RequestType /\ req \in [Devices -> RequestType]
      /\ m \in Mutation /\ Sent(d, m, maker) /\ i \in Items
  BY RequestFacts, TurnFacts DEF RequestOK, NotesInv, TypeInv, ReqOK, Mutation
<1>2. RequestOK(d, p, maker)
  <2>1. pc \in InTx /\ pc \notin {"forceFolder", "forceNote"}
    BY DEF InTx
  <2> QED
    BY <2>1, PushGoesOn, TurnFacts
<1>3. /\ row[i] \in Row /\ req[d].wrote[i] \in Row /\ Mine(d, i) \in Row
      /\ Mine(d, i) = IF req[d].wrote[i].version # 0 THEN req[d].wrote[i] ELSE row[i]
  BY <1>1 DEF NotesInv, TypeInv, RowOK, RequestType, Mine, Held
<1>4. w \in Row /\ w.version = Mine(d, i).version + 1 /\ w.folder = m.folder
  BY <1>1, <1>3, SnapshotFacts
<1>5. w.version # 0 /\ w.version > row[i].version /\ MayChange(d, i, maker)
  <2>1. row[i].version \in Nat /\ req[d].wrote[i].version \in Nat
    BY <1>3 DEF Row
  <2>2. CASE req[d].wrote[i].version # 0
    <3>1. req[d].wrote[i].version > row[i].version /\ MayChange(d, i, maker)
      BY <1>1, <2>2 DEF RequestOK, PendingOK
    <3> QED
      BY <1>3, <1>4, <2>1, <2>2, <3>1
  <2>3. CASE req[d].wrote[i].version = 0
    <3>1. m.base \in {0, row[i].version} /\ copy[d][i].version = m.base /\ (m.base = 0 => maker[i] = d)
      BY <1>1, <1>3, <2>3 DEF Sent
    <3> QED
      BY <1>3, <1>4, <2>1, <2>3, <3>1 DEF MayChange
  <2> QED
    BY <2>2, <2>3
<1>6. req' = [req EXCEPT ![d] = q]
  BY <1>1 DEF Apply
<1> HIDE DEF w, p
<1>7. /\ p \in RequestType /\ p.pc = pc /\ p.left = Tail(req[d].left) /\ p.wrote = req[d].wrote
  BY <1>1, <1>2 DEF RequestOK, p, RequestType
<1>8. /\ q \in RequestType /\ q.pc = pc /\ q.left = p.left /\ q.ids = p.ids /\ q.base = p.base
      /\ q.wrote = [req[d].wrote EXCEPT ![i] = w]
  BY <1>1, <1>4, <1>7 DEF RequestType
<1> HIDE DEF q
<1>9. /\ q.wrote[i] = w /\ \A j \in Items \ {i} : q.wrote[j] = req[d].wrote[j]
  BY <1>1, <1>8 DEF RequestType
<1>10. QueryOK(d, q, maker)
  <2>1. QueryOK(d, p, maker) /\ q.pc # "idle"
    BY <1>2, <1>8 DEF RequestOK
  <2> QED
    BY <1>7, <1>8, <2>1 DEF QueryOK
<1>11. PendingOK(d, q, maker)
  <2>1. PendingOK(d, req[d], maker)
    BY <1>1 DEF RequestOK
  <2>2. Exists(w.folder) /\ (i \in Folders => w.folder = None)
    BY <1>1, <1>4 DEF Sent
  <2> QED
    BY <1>5, <1>9, <2>1, <2>2 DEF PendingOK
<1>12. \A e \in Devices \ {d} : Held(e) \cap Written(q) = {}
  <2>1. Written(q) \subseteq Written(req[d]) \cup {i}
    BY <1>9 DEF Written
  <2> QED
    BY <1>1, <2>1 DEF RequestOK, Locked
<1> QED
  BY <1>6, <1>8, <1>10, <1>11, <1>12 DEF RequestOK

\* A step of a request: every statement of a push writes a row or goes on, and an
\* error leaves nothing.
LEMMA StepServes ==
    ASSUME NotesInv, NEW d \in Devices, Step(d)
    PROVE  Serves(d)
<1>0. /\ RestOK /\ RequestOK(d, req[d], maker) /\ RequestOK(d, Idle, maker) /\ req[d] \in RequestType
      /\ req \in [Devices -> RequestType]
  BY RequestFacts DEF NotesInv, TypeInv, ReqOK, RequestOK
<1>a. UNCHANGED <<maker, writes>> => writes' \in 0..MaxWrites /\ MakerGrows
  BY <1>0 DEF RestOK, MakerGrows
<1>b. ASSUME UNCHANGED Internal, NEW q, RequestOK(d, q, maker), req' = [req EXCEPT ![d] = q]
      PROVE  Serves(d)
  <2>1. maker' = maker
    BY <1>b DEF Internal
  <2>2. RequestOK(d, q, maker')
    BY <1>b, <2>1
  <2> QED
    BY <1>a, <1>b, <2>2 DEF Internal, Serves
<1>c. UNCHANGED Internal /\ Answer(d) => Serves(d)
  BY <1>0, <1>b DEF Answer
<1>d. ASSUME UNCHANGED Internal, req[d].left # << >>, NEW pc \in {"folders", "notes"}, Turn(d, pc)
      PROVE  Serves(d)
  <2>1. req' = [req EXCEPT ![d] = [req[d] EXCEPT !.pc = pc, !.left = Tail(req[d].left)]]
    BY <1>0, <1>d DEF Turn
  <2>2. RequestOK(d, [req[d] EXCEPT !.pc = pc, !.left = Tail(req[d].left)], maker)
    <3>1. pc \in InTx /\ pc \notin {"forceFolder", "forceNote"}
      BY DEF InTx
    <3> QED
      BY <1>d, <3>1, PushGoesOn, TurnFacts
  <2> QED
    BY <1>b, <1>d, <2>1, <2>2
<1>e. ASSUME req[d].left # << >>, Exists(Current(d).folder), NEW pc \in {"folders", "notes"},
             NEW force \in {"forceFolder", "forceNote"},
             force = "forceFolder" => Current(d).id \in Folders, apply_mutation(d, Current(d), pc, force)
      PROVE  Serves(d)
  <2>1. UNCHANGED Internal /\ ~Stuck(d, Current(d))
    BY <1>e DEF apply_mutation
  <2>2. CASE Writable(d, Current(d))
    <3>1. /\ ~Locked(d, Current(d).id) /\ Apply(d, Current(d), pc)
          /\ Current(d).base \in {0, Mine(d, Current(d).id).version}
      BY <1>e, <2>1, <2>2 DEF apply_mutation, Stuck, Writable, upsert_if_absent, apply_snapshot_if_version_matches
    <3> QED
      BY <1>b, <1>e, <2>1, <3>1, PushWrites
  <2>3. CASE ~Writable(d, Current(d))
    <3>1. \/ Turn(d, pc)
          \/ Current(d).base = 0 /\ req' = [req EXCEPT ![d].pc = force]
          \/ Answer(d)
      BY <1>e, <2>3 DEF apply_mutation
    <3>2. CASE Current(d).base = 0 /\ req' = [req EXCEPT ![d].pc = force]
      <4>1. req' = [req EXCEPT ![d] = [req[d] EXCEPT !.pc = force, !.left = req[d].left]]
        BY <1>0, <3>2 DEF RequestType
      <4>2. /\ force \in InTx /\ Head(req[d].left).base = 0
            /\ force = "forceFolder" => Head(req[d].left).id \in Folders
        BY <1>e, <3>2 DEF InTx, Current
      <4>3. \A k \in DOMAIN req[d].left : Sent(d, req[d].left[k], maker)
        BY <1>0 DEF RequestOK, QueryOK
      <4>4. RequestOK(d, [req[d] EXCEPT !.pc = force, !.left = req[d].left], maker)
        BY <1>e, <4>2, <4>3, PushGoesOn, TurnFacts
      <4> QED
        BY <1>b, <2>1, <4>1, <4>4
    <3> QED
      BY <1>c, <1>d, <1>e, <2>1, <3>1, <3>2
  <2> QED
    BY <2>2, <2>3
<1>f. ASSUME req[d].left # << >>, Current(d).base = 0, Exists(Current(d).folder),
             NEW pc \in {"folders", "notes"}, force_apply(d, Current(d), pc)
      PROVE  Serves(d)
  <2>1. UNCHANGED Internal /\ ~Locked(d, Current(d).id) /\ (Answer(d) \/ Apply(d, Current(d), pc))
    BY <1>f DEF force_apply
  <2>2. CASE Apply(d, Current(d), pc)
    BY <1>b, <1>f, <2>1, <2>2, PushWrites
  <2> QED
    BY <1>c, <2>1, <2>2
<1>g. /\ req[d].left # << >> /\ Current(d).id \in Folders => Current(d).folder = None
      /\ req[d].pc \in {"forceFolder", "forceNote"} => req[d].left # << >> /\ Current(d).base = 0
      /\ req[d].pc = "forceFolder" => Current(d).id \in Folders
  BY <1>0, TurnFacts DEF Sent, RequestOK, QueryOK, Current
<1>1. CASE Resume(d)
  <2>1. req[d].pc \in Statements /\ Execute(d, req[d]) /\ UNCHANGED <<maker, writes>>
    BY <1>1 DEF Resume
  <2>2. RequestOK(d, req[d], maker')
    BY <1>0, <2>1
  <2> QED
    BY <1>a, <2>1, <2>2, SubmitServes DEF Submit
<1>2. CASE File(d)
  <2> DEFINE q == [req[d] EXCEPT !.pc = "move", !.stamp = now]
  <2>1. req[d].pc = "found" /\ Submit(d, q) /\ UNCHANGED <<maker, writes>>
    BY <1>2 DEF File, At
  <2>2. /\ q \in RequestType /\ q.pc = "move" /\ q.ids = req[d].ids
        /\ q.left = req[d].left /\ q.wrote = req[d].wrote
    BY <1>0 DEF RequestType, RestOK, Pcs, Statements
  <2> HIDE DEF q
  <2>3. RequestOK(d, q, maker)
    BY <1>0, <2>1, <2>2 DEF RequestOK, QueryOK, PendingOK, Written
  <2>4. RequestOK(d, q, maker')
    BY <2>1, <2>3
  <2> QED
    BY <1>a, <2>1, <2>2, <2>4, SubmitServes DEF Statements
<1>3. CASE apply_folder_mutation(d)
  <2>1. /\ req[d].left # << >> /\ Current(d).id \in Folders
        /\ apply_mutation(d, Current(d), "folders", "forceFolder")
    BY <1>3 DEF apply_folder_mutation, OfFolder
  <2>2. Exists(Current(d).folder)
    BY <1>g, <2>1 DEF Exists
  <2>3. "folders" \in {"folders", "notes"} /\ "forceFolder" \in {"forceFolder", "forceNote"}
    OBVIOUS
  <2> QED
    BY <1>e, <2>1, <2>2, <2>3
<1>4. CASE force_apply_folder_snapshot(d)
  <2>1. /\ req[d].left # << >> /\ Current(d).base = 0 /\ Current(d).id \in Folders
        /\ force_apply(d, Current(d), "folders")
    BY <1>4, <1>g DEF force_apply_folder_snapshot, At
  <2>2. Exists(Current(d).folder)
    BY <1>g, <2>1 DEF Exists
  <2>3. "folders" \in {"folders", "notes"}
    OBVIOUS
  <2> QED
    BY <1>f, <2>1, <2>2, <2>3
<1>5. CASE owned_folder_ids(d)
  <2> DEFINE l == req[d].left
             ms == [k \in DOMAIN l |-> IF Exists(l[k].folder) THEN l[k] ELSE [l[k] EXCEPT !.folder = None]]
  <2>1. UNCHANGED Internal /\ req' = [req EXCEPT ![d] = [req[d] EXCEPT !.pc = "notes", !.left = ms]]
    BY <1>0, <1>5 DEF owned_folder_ids
  <2>2. l \in Seq(Mutation) /\ \A k \in DOMAIN l : l[k] \in Mutation /\ Sent(d, l[k], maker)
    BY <1>0 DEF RequestType, RequestOK, QueryOK
  <2>3. \A k \in DOMAIN l : /\ ms[k] \in Mutation /\ ms[k].id = l[k].id /\ ms[k].base = l[k].base
                            /\ ms[k].folder \in {l[k].folder, None}
    <3> SUFFICES ASSUME NEW k \in DOMAIN l
                 PROVE  /\ ms[k] \in Mutation /\ ms[k].id = l[k].id /\ ms[k].base = l[k].base
                        /\ ms[k].folder \in {l[k].folder, None}
      OBVIOUS
    <3>1. l[k] \in Mutation /\ ms[k] = IF Exists(l[k].folder) THEN l[k] ELSE [l[k] EXCEPT !.folder = None]
      BY <2>2
    <3> QED
      BY <3>1 DEF Mutation
  <2>4. ms \in Seq(Mutation)
    <3>0. DOMAIN l = 1..Len(l) /\ Len(l) \in Nat
      BY <2>2
    <3>1. DOMAIN ms = DOMAIN l /\ ms = [k \in DOMAIN l |-> ms[k]]
      OBVIOUS
    <3> HIDE DEF ms
    <3>2. \A k \in DOMAIN l : ms[k] \in Mutation
      BY <2>3
    <3>3. ms \in [1..Len(l) -> Mutation]
      BY <3>0, <3>1, <3>2
    <3> QED
      BY <3>0, <3>3
  <2>5. DOMAIN ms = DOMAIN l
    OBVIOUS
  <2> HIDE DEF ms, l
  <2>6. \A k \in DOMAIN ms : Sent(d, ms[k], maker)
    BY <2>2, <2>3, <2>5 DEF Sent
  <2>7. RequestOK(d, [req[d] EXCEPT !.pc = "notes", !.left = ms], maker)
    BY <2>4, <2>6, PushGoesOn DEF InTx
  <2> QED
    BY <1>b, <2>1, <2>7
<1>6. CASE apply_note_mutation(d)
  <2>1. req[d].left # << >> /\ At(d, "notes")
    BY <1>6 DEF apply_note_mutation, OfNote
  <2>2. CASE FolderExists(d)
    BY <1>6, <1>e, <2>1, <2>2 DEF apply_note_mutation, FolderExists
  <2>3. CASE ~FolderExists(d)
    BY <1>6, <1>c, <2>3 DEF apply_note_mutation, RollBack
  <2> QED
    BY <2>2, <2>3
<1>7. CASE force_apply_note_snapshot(d)
  <2>1. req[d].left # << >> /\ Current(d).base = 0
    BY <1>7, <1>g DEF force_apply_note_snapshot, At
  <2>2. CASE FolderExists(d)
    BY <1>7, <1>f, <2>1, <2>2 DEF force_apply_note_snapshot, FolderExists
  <2>3. CASE ~FolderExists(d)
    BY <1>7, <1>c, <2>3 DEF force_apply_note_snapshot, RollBack
  <2> QED
    BY <2>2, <2>3
<1>8. CASE sync_push(d)
  <2>1. UNCHANGED <<maker, writes>>
    BY <1>8 DEF sync_push
  <2> QED
    BY <1>8, <1>a, <2>1, PushCommits DEF Serves
<1>9. CASE AcquireTimeout(d) \/ DeadlockDetected(d)
  BY <1>9, <1>c DEF AcquireTimeout, DeadlockDetected, RollBack
<1> QED
  BY <1>1, <1>2, <1>3, <1>4, <1>5, <1>6, <1>7, <1>8, <1>9 DEF Step

-----------------------------------------------------------------------------
(* The purge job *)

\* The notes of the folders that are being purged.
Orphans == {n \in Notes \ purge.ids : row[n].folder \in purge.ids}

\* What the DELETE of the purge does to the rows.
LEMMA PurgeFacts ==
    ASSUME NotesInv, purge_batched
    PROVE  /\ row' \in [Items -> Row] /\ purge.ids \subseteq Items /\ gone' = gone \cup purge.ids
           /\ \A i \in purge.ids : row'[i] = NoRow
           /\ \A i \in Items \ purge.ids :
                /\ row'[i].version = row[i].version /\ row'[i].body = row[i].body
                /\ row'[i].deleted = row[i].deleted
                /\ IF i \in Orphans THEN row'[i].folder = None ELSE row'[i] = row[i]
           /\ late' = [d \in Devices |-> (late[d] \ Orphans)
                        \cup {i \in Orphans : ~Before(cursor[d][TableOf(i)], Key(row', i))}]
<1> DEFINE r == [i \in Items |-> CASE i \in purge.ids -> NoRow
                                [] i \in Orphans -> [row[i] EXCEPT !.folder = None, !.updated = now]
                                [] OTHER -> row[i]]
<1>0. /\ RowOK /\ purge.ids \subseteq Items /\ now \in 0..MaxTime
  BY DEF NotesInv, TypeInv, PurgeOK, RestOK
<1>1. Commit(r, Orphans) /\ gone' = gone \cup purge.ids
  BY DEF purge_batched, Orphans
<1>2. row' = r
  BY <1>1 DEF Commit
<1>3. \A i \in Items : LET w == [row[i] EXCEPT !.folder = None, !.updated = now]
                       IN  /\ row[i] \in Row /\ w \in Row /\ w.version = row[i].version
                           /\ w.body = row[i].body /\ w.deleted = row[i].deleted /\ w.folder = None
  BY <1>0 DEF RowOK, Row
<1>4. /\ \A i \in purge.ids : r[i] = NoRow
      /\ \A i \in Items \ purge.ids : r[i] = IF i \in Orphans
                                             THEN [row[i] EXCEPT !.folder = None, !.updated = now] ELSE row[i]
      /\ DOMAIN r = Items /\ r = [i \in Items |-> r[i]]
  <2>1. \A i \in Items : r[i] = CASE i \in purge.ids -> NoRow
                                [] i \in Orphans -> [row[i] EXCEPT !.folder = None, !.updated = now]
                                [] OTHER -> row[i]
    OBVIOUS
  <2>2. DOMAIN r = Items /\ r = [i \in Items |-> r[i]]
    OBVIOUS
  <2> HIDE DEF r
  <2>3. \A i \in purge.ids : i \in Items /\ i \notin Orphans
    BY <1>0 DEF Orphans
  <2> QED
    BY <2>1, <2>2, <2>3
<1> HIDE DEF r
<1>5. \A i \in Items : r[i] \in Row
  BY <1>3, <1>4, NoneTypes
<1>6. \A i \in Items \ purge.ids :
                /\ r[i].version = row[i].version /\ r[i].body = row[i].body
                /\ r[i].deleted = row[i].deleted
                /\ IF i \in Orphans THEN r[i].folder = None ELSE r[i] = row[i]
  BY <1>3, <1>4
<1> QED
  BY <1>0, <1>1, <1>2, <1>4, <1>5, <1>6 DEF Commit

\* The purge keeps the invariant: it waits for the rows that pushes have written and
\* for the folders those rows name.
LEMMA PurgeKeeps ==
    ASSUME NotesInv, purge_batched
    PROVE  NotesInv'
<1>0. /\ RowOK /\ CopyOK /\ ReqOK /\ PullOK /\ PurgeOK /\ RestOK /\ FolderInv /\ ReqInv /\ LockInv
      /\ VersionInv /\ VersionNamesState /\ PullMissesOnlyLate
  BY DEF NotesInv, TypeInv
<1>1. /\ now' = now /\ copy' = copy /\ cursor' = cursor /\ maker' = maker /\ req' = req
      /\ writes' = writes
      /\ purge' = [purge EXCEPT !.ids = {},
                        !.stage = IF Cardinality(purge.ids) < Batch THEN NextStage ELSE @]
      /\ \A d \in Devices : Held(d) \cap (purge.ids \cup Orphans) = {}
      /\ \A i \in purge.ids : ~Referenced(i)
  BY DEF purge_batched, Orphans
<1>2. /\ row' \in [Items -> Row] /\ purge.ids \subseteq Items /\ gone' = gone \cup purge.ids
      /\ \A i \in purge.ids : row'[i] = NoRow
      /\ \A i \in Items \ purge.ids :
           /\ row'[i].version = row[i].version /\ row'[i].body = row[i].body
           /\ row'[i].deleted = row[i].deleted
           /\ IF i \in Orphans THEN row'[i].folder = None ELSE row'[i] = row[i]
      /\ late' = [d \in Devices |-> (late[d] \ Orphans)
                   \cup {i \in Orphans : ~Before(cursor[d][TableOf(i)], Key(row', i))}]
  BY PurgeFacts
<1>3. Orphans \subseteq Items
  BY DEF Orphans, Items
<1>4. TypeInv'
  <2>1. purge' \in [stage : {"idle", "notes", "folders"}, cutoff : Int, ids : SUBSET Items]
    BY <1>0, <1>1 DEF PurgeOK, NextStage
  <2>2. late' \in [Devices -> SUBSET Items] /\ gone' \subseteq Items
    BY <1>0, <1>2, <1>3 DEF RestOK
  <2> QED
    BY <1>0, <1>1, <1>2, <2>1, <2>2 DEF TypeInv, RowOK, CopyOK, ReqOK, PullOK, PurgeOK, RestOK
<1>5. \A f \in Folders \cup {None} : f \notin purge.ids /\ Exists(f) => Exists(f)'
  BY <1>2 DEF Exists, Items
<1>6. FolderInv'
  <2>1. ASSUME NEW i \in Items
        PROVE  Exists(row[i].folder)' /\ (i \in Folders => row'[i].folder = None)
    <3>1. CASE i \in purge.ids \cup Orphans
      BY <1>2, <2>1, <3>1, NoneTypes DEF Exists
    <3>2. CASE i \notin purge.ids \cup Orphans
      <4>1. row'[i] = row[i] /\ Exists(row[i].folder) /\ row[i].folder \in Folders \cup {None}
            /\ (i \in Folders => row[i].folder = None)
        BY <1>0, <1>2, <2>1, <3>2 DEF FolderInv, RowOK, Row
      <4>2. row[i].folder = None \/ row[i].folder \notin purge.ids
        BY <2>1, <3>2, <4>1, ItemFacts DEF Orphans
      <4>3. Exists(row[i].folder)'
        BY <1>5, <4>1, <4>2 DEF Exists
      <4> QED
        BY <4>1, <4>3
    <3> QED
      BY <3>1, <3>2
  <2> QED
    BY <2>1 DEF FolderInv, Items
<1>7. ReqInv'
  <2> SUFFICES ASSUME NEW e \in Devices
               PROVE  QueryOK(e, req[e], maker)' /\ PendingOK(e, req[e], maker)'
    BY DEF ReqInv
  <2>1. QueryOK(e, req[e], maker) /\ PendingOK(e, req[e], maker) /\ req[e] \in RequestType
    BY <1>0 DEF ReqInv, ReqOK
  <2>2. QueryOK(e, req[e], maker)'
    BY <1>1, <2>1 DEF QueryOK, Sent
  <2>3. \A i \in Items : req[e].wrote[i].version # 0 => row'[i] = row[i]
    BY <1>1, <1>2 DEF Held
  <2>4. \A i \in Items : req[e].wrote[i].folder \in Folders \cup {None} /\ req[e].wrote[i].folder \notin purge.ids
    BY <1>1, <2>1 DEF RequestType, Row, Referenced
  <2>5. PendingOK(e, req[e], maker)'
    BY <1>1, <1>5, <2>1, <2>3, <2>4 DEF PendingOK, MayChange
  <2> QED
    BY <2>2, <2>5
<1>8. LockInv'
  BY <1>0, <1>1 DEF LockInv, Held
<1>9. VersionInv' /\ VersionNamesState'
  BY <1>0, <1>1, <1>2 DEF VersionInv, VersionNamesState
<1>10. PullMissesOnlyLate'
  <2> SUFFICES ASSUME NEW e \in Devices, NEW i \in Items, row'[i].version # 0, i \notin late'[e],
                      ~Before(cursor[e][TableOf(i)], Key(row', i))
               PROVE  copy'[e][i] = View(row'[i])
    BY <1>1 DEF PullMissesOnlyLate, Key
  <2>1. i \notin purge.ids
    BY <1>2, NoneTypes
  <2>2. i \notin Orphans
    BY <1>2, <2>1
  <2>3. row'[i] = row[i] /\ i \notin late[e]
    BY <1>2, <2>1, <2>2
  <2> QED
    BY <1>0, <1>1, <2>3 DEF PullMissesOnlyLate, Key
<1> QED
  BY <1>4, <1>6, <1>7, <1>8, <1>9, <1>10 DEF NotesInv

\* The clock, the steps with which the purge chooses its rows, and stuttering.
Chooses == Tick \/ purge_stale_notes \/ PurgeSelect \/ UNCHANGED vars

\* They leave rows, copies and requests alone.
LEMMA ChoosesKeeps ==
    ASSUME NotesInv, Chooses
    PROVE  NotesInv' /\ row' = row /\ copy' = copy
<1>0. /\ RowOK /\ CopyOK /\ ReqOK /\ PullOK /\ PurgeOK /\ RestOK /\ FolderInv /\ ReqInv /\ LockInv
      /\ VersionInv /\ VersionNamesState /\ PullMissesOnlyLate
  BY DEF NotesInv, TypeInv
<1>1. /\ row' = row /\ late' = late /\ copy' = copy /\ cursor' = cursor /\ maker' = maker
      /\ req' = req /\ writes' = writes /\ gone' = gone
  BY DEF Chooses, Tick, purge_stale_notes, PurgeSelect, db, vars
<1>2. now' \in 0..MaxTime
  BY <1>0, NotesAssumption DEF Chooses, Tick, purge_stale_notes, PurgeSelect, vars, RestOK
<1>3. PurgeOK'
  <2>1. CASE Tick
    BY <1>0, <2>1 DEF Tick, PurgeOK
  <2>2. CASE purge_stale_notes
    BY <1>0, <2>2, NotesAssumption DEF purge_stale_notes, PurgeOK, Cutoff, RestOK
  <2>3. CASE PurgeSelect
    <3>1. PICK ids \in SUBSET Stale(PurgeTable) :
                purge' = IF ids = {} THEN [purge EXCEPT !.stage = NextStage] ELSE [purge EXCEPT !.ids = ids]
      BY <2>3 DEF PurgeSelect
    <3>2. ids \subseteq Items
      BY DEF Stale, PurgeTable, Items
    <3> QED
      BY <1>0, <3>1, <3>2 DEF PurgeOK, NextStage
  <2>4. CASE UNCHANGED vars
    BY <1>0, <2>4 DEF PurgeOK, vars
  <2> QED
    BY <2>1, <2>2, <2>3, <2>4 DEF Chooses
<1>4. TypeInv'
  BY <1>0, <1>1, <1>2, <1>3 DEF TypeInv, RowOK, CopyOK, ReqOK, PullOK, RestOK
<1>5. FolderInv' /\ LockInv' /\ VersionInv' /\ VersionNamesState' /\ PullMissesOnlyLate'
  BY <1>0, <1>1 DEF FolderInv, Exists, LockInv, Held, VersionInv, VersionNamesState, PullMissesOnlyLate, Key
<1>6. ReqInv'
  BY <1>0, <1>1 DEF ReqInv, QueryOK, Sent, PendingOK, MayChange, Exists
<1> QED
  BY <1>1, <1>4, <1>5, <1>6 DEF NotesInv

-----------------------------------------------------------------------------
(* The pages of sync_pull *)

\* The keys of a page are in a strict total order.
LEMMA BeforeOrder ==
    /\ \A a \in Nat \X Nat : ~Before(a, a)
    /\ \A a, b \in Nat \X Nat : a # b => Before(a, b) \/ Before(b, a)
    /\ \A a, b, c \in Nat \X Nat : Before(a, b) /\ Before(b, c) => Before(a, c)
<1>1. \A a \in Nat \X Nat : a[1] \in Nat /\ a[2] \in Nat /\ a = <<a[1], a[2]>>
  OBVIOUS
<1> QED
  BY <1>1 DEF Before

\* A page that is not empty has a last row.
LEMMA LastRow ==
    ASSUME NEW P, IsFiniteSet(P), P # {}, NEW k \in [P -> Nat \X Nat]
    PROVE  \E i \in P : \A j \in P : ~Before(k[i], k[j])
<1> DEFINE Up(i) == {j \in P : Before(k[i], k[j])}
           T == {Up(i) : i \in P}
           R == StrictSubsetOrdering(P)
<1>1. T \subseteq FiniteSubsetsOf(P)
  BY FS_Subset DEF FiniteSubsetsOf
<1>2. T # {}
  <2>1. PICK i \in P : TRUE
    OBVIOUS
  <2>2. Up(i) \in T
    BY <2>1
  <2> HIDE DEF T
  <2> QED
    BY <2>2
<1>3. \E x \in T : \A y \in T : ~(<<y, x>> \in R)
  <2>1. IsWellFoundedOn(R, FiniteSubsetsOf(P))
    BY FS_StrictSubsetOrderingWellFounded
  <2> HIDE DEF R, T
  <2> QED
    BY <1>1, <1>2, <2>1, WFMin
<1>4. PICK i \in P : \A j \in P : ~(<<Up(j), Up(i)>> \in R)
  BY <1>3
<1>5. ASSUME NEW j \in P, Before(k[i], k[j])
      PROVE  FALSE
  <2>1. Up(j) \subseteq Up(i)
    BY <1>5, BeforeOrder
  <2>2. j \in Up(i) /\ j \notin Up(j)
    BY <1>5, BeforeOrder
  <2>3. Up(j) \in SUBSET P /\ Up(i) \in SUBSET P /\ Up(j) # Up(i)
    BY <2>2
  <2> QED
    BY <1>4, <2>1, <2>3 DEF StrictSubsetOrdering
<1> QED
  BY <1>5

\* The page of a table, and the cursor behind it: a changed row that the new cursor
\* has passed is in the page.
LEMMA PageFacts ==
    ASSUME NotesInv, NEW d \in Devices, NEW t \in Tables
    PROVE  /\ Page(d, t) \subseteq t
           /\ NextCursor(d, t) \in (0..MaxTime) \X (Items \cup {0})
           /\ \A i \in t : /\ row[i].version # 0 /\ Before(cursor[d][t], Key(row, i))
                           /\ ~Before(NextCursor(d, t), Key(row, i))
                           => i \in Page(d, t)
<1> DEFINE C == find_changed_since(d, t)
           P == Page(d, t)
           Smaller(i) == {j \in C : Before(Key(row, j), Key(row, i))}
<1>1. t \subseteq Items /\ IsFiniteSet(t)
  BY ItemFacts
<1>2. C \subseteq t /\ P \subseteq C /\ P = {i \in C : Cardinality(Smaller(i)) < Limit}
  BY DEF find_changed_since, Page
<1>3. IsFiniteSet(C) /\ IsFiniteSet(P)
  BY <1>1, <1>2, FS_Subset
<1>4. \A i \in Items : Key(row, i) \in (0..MaxTime) \X (Items \cup {0}) /\ Key(row, i) \in Nat \X Nat
  BY ItemFacts, NotesAssumption DEF NotesInv, TypeInv, RowOK, Row, Key
<1>5. CASE P = {}
  <2>1. NextCursor(d, t) = cursor[d][t]
    BY <1>5 DEF NextCursor
  <2> QED
    BY <1>1, <1>2, <1>5, <2>1 DEF NotesInv, TypeInv, PullOK
<1>6. CASE P # {}
  <2> DEFINE k == [i \in P |-> Key(row, i)]
  <2>1. k \in [P -> Nat \X Nat]
    BY <1>1, <1>2, <1>4
  <2>2. \E i \in P : \A j \in P : ~Before(k[i], k[j])
    <3> HIDE DEF k, P
    <3> QED
      BY <1>3, <1>6, <2>1, LastRow
  <2>3. \E c \in {Key(row, i) : i \in P} : \A j \in P : ~Before(c, Key(row, j))
    BY <2>2
  <2>4. /\ NextCursor(d, t) \in {Key(row, i) : i \in P}
        /\ \A j \in P : ~Before(NextCursor(d, t), Key(row, j))
    BY <1>6, <2>3 DEF NextCursor
  <2>5. PICK l \in P : NextCursor(d, t) = Key(row, l)
    BY <2>4
  <2>6. ASSUME NEW i \in t, row[i].version # 0, Before(cursor[d][t], Key(row, i)),
               ~Before(Key(row, l), Key(row, i))
        PROVE  i \in P
    <3>1. i \in C /\ l \in C /\ i \in Items /\ l \in Items
      BY <1>1, <1>2, <2>6 DEF find_changed_since
    <3>2. \A j \in C : Before(Key(row, j), Key(row, i)) => Before(Key(row, j), Key(row, l))
      <4>1. \A j \in C : Key(row, j) \in Nat \X Nat
        BY <1>1, <1>2, <1>4
      <4>2. Key(row, i) \in Nat \X Nat /\ Key(row, l) \in Nat \X Nat
        BY <1>4, <3>1
      <4>3. Key(row, i) = Key(row, l) \/ Before(Key(row, i), Key(row, l))
        BY <2>6, <4>2, BeforeOrder
      <4> QED
        BY <4>1, <4>2, <4>3, BeforeOrder
    <3>3. Smaller(i) \subseteq Smaller(l) /\ IsFiniteSet(Smaller(l)) /\ IsFiniteSet(Smaller(i))
      BY <1>3, <3>2, FS_Subset
    <3>4. Cardinality(Smaller(i)) <= Cardinality(Smaller(l)) /\ Cardinality(Smaller(i)) \in Nat
          /\ Cardinality(Smaller(l)) \in Nat
      BY <3>3, FS_Subset, FS_CardinalityType
    <3>5. Cardinality(Smaller(l)) < Limit
      BY <1>2
    <3> HIDE DEF Smaller, C, P
    <3>6. Cardinality(Smaller(i)) < Limit
      BY <3>4, <3>5, NotesAssumption
    <3> QED
      BY <1>2, <3>1, <3>6
  <2> QED
    BY <1>1, <1>2, <1>4, <2>5, <2>6
<1> QED
  BY <1>5, <1>6

\* A pull tells a device of rows as they are ..
LEMMA PullTells ==
    ASSUME NotesInv, NEW d \in Devices, sync_pull(d)
    PROVE  /\ copy' \in [Devices -> [Items -> CopyType]] /\ \A e \in Devices \ {d} : copy'[e] = copy[e]
           /\ \A i \in Items : copy'[d][i] = IF i \in Page(d, TableOf(i)) THEN View(row[i]) ELSE copy[d][i]
<1> DEFINE c == [i \in Items |-> IF i \in Page(d, TableOf(i)) THEN View(row[i]) ELSE copy[d][i]]
<1>1. copy \in [Devices -> [Items -> CopyType]] /\ row \in [Items -> Row]
  BY DEF NotesInv, TypeInv, CopyOK, RowOK
<1>2. \A i \in Items : View(row[i]) \in CopyType
  BY <1>1 DEF View, CopyType, Row
<1>3. c \in [Items -> CopyType]
  BY <1>1, <1>2
<1>4. \A i \in Items : c[i] = IF i \in Page(d, TableOf(i)) THEN View(row[i]) ELSE copy[d][i]
  OBVIOUS
<1>5. copy' = [copy EXCEPT ![d] = c]
  BY DEF sync_pull
<1> HIDE DEF c
<1> QED
  BY <1>1, <1>3, <1>4, <1>5

\* .. and keeps the invariant: its cursor passes no row that is not in the page.
LEMMA PullKeeps ==
    ASSUME NotesInv, NEW d \in Devices, sync_pull(d)
    PROVE  NotesInv'
<1>0. /\ RowOK /\ CopyOK /\ ReqOK /\ PullOK /\ PurgeOK /\ RestOK /\ FolderInv /\ ReqInv /\ LockInv
      /\ VersionInv /\ VersionNamesState /\ PullMissesOnlyLate
  BY DEF NotesInv, TypeInv
<1>1. /\ now' = now /\ row' = row /\ late' = late /\ maker' = maker /\ req' = req
      /\ writes' = writes /\ purge' = purge /\ gone' = gone /\ req[d].pc = "idle"
      /\ cursor' = [cursor EXCEPT ![d] = [t \in Tables |-> NextCursor(d, t)]]
  BY DEF sync_pull, db, At
<1>2. /\ copy' \in [Devices -> [Items -> CopyType]] /\ \A e \in Devices \ {d} : copy'[e] = copy[e]
      /\ \A i \in Items : copy'[d][i] = IF i \in Page(d, TableOf(i)) THEN View(row[i]) ELSE copy[d][i]
  BY PullTells
<1>3. /\ \A e \in Devices \ {d} : cursor'[e] = cursor[e]
      /\ \A t \in Tables : cursor'[d][t] = NextCursor(d, t)
      /\ cursor' \in [Devices -> [Tables -> (0..MaxTime) \X (Items \cup {0})]]
  <2> DEFINE k == [t \in Tables |-> NextCursor(d, t)]
  <2>1. k \in [Tables -> (0..MaxTime) \X (Items \cup {0})] /\ \A t \in Tables : k[t] = NextCursor(d, t)
    BY PageFacts
  <2>2. cursor' = [cursor EXCEPT ![d] = k]
    BY <1>1
  <2> HIDE DEF k
  <2> QED
    BY <1>0, <2>1, <2>2 DEF PullOK
<1>4. TypeInv'
  BY <1>0, <1>1, <1>2, <1>3 DEF TypeInv, RowOK, CopyOK, ReqOK, PullOK, PurgeOK, RestOK
<1>5. FolderInv' /\ LockInv'
  BY <1>0, <1>1 DEF FolderInv, Exists, LockInv, Held
<1>6. ReqInv'
  <2> SUFFICES ASSUME NEW e \in Devices
               PROVE  QueryOK(e, req[e], maker)' /\ PendingOK(e, req[e], maker)'
    BY DEF ReqInv
  <2>1. QueryOK(e, req[e], maker) /\ PendingOK(e, req[e], maker)
    BY <1>0 DEF ReqInv
  <2>3. CASE e = d
    <3>1. req[e].pc = "idle" /\ req[e].left = << >> /\ \A i \in Items : req[e].wrote[i].version = 0
      BY <1>1, <2>1, <2>3 DEF QueryOK
    <3>2. DOMAIN req[e].left = {}
      BY <3>1
    <3> QED
      BY <1>1, <2>1, <3>1, <3>2 DEF QueryOK, PendingOK, Exists
  <2>4. CASE e # d
    BY <1>1, <1>2, <2>1, <2>4 DEF QueryOK, Sent, PendingOK, MayChange, Exists
  <2> QED
    BY <2>3, <2>4
<1>7. ASSUME NEW e \in Devices, NEW i \in Items
      PROVE  \/ copy'[e][i] = copy[e][i]
             \/ copy'[e][i] = View(row[i])
  BY <1>2, <1>7
<1>8. VersionInv'
  <2> SUFFICES ASSUME NEW e \in Devices, NEW i \in Items, i \notin gone
               PROVE  copy'[e][i].version <= row[i].version
    BY <1>1 DEF VersionInv
  <2>1. copy[e][i].version <= row[i].version /\ row[i].version \in Nat
    BY <1>0 DEF VersionInv, RowOK, Row
  <2>2. View(row[i]).version = row[i].version
    BY DEF View
  <2> QED
    BY <1>7, <2>1, <2>2
<1>9. VersionNamesState'
  <2> SUFFICES ASSUME NEW e \in Devices, NEW i \in Items, i \notin gone, copy'[e][i].version # 0,
                      copy'[e][i].version = row[i].version
               PROVE  copy'[e][i].body = row[i].body /\ copy'[e][i].deleted = (row[i].deleted # 0)
    BY <1>1 DEF VersionNamesState
  <2>1. CASE copy'[e][i] = copy[e][i]
    BY <1>0, <2>1 DEF VersionNamesState
  <2>2. CASE copy'[e][i] = View(row[i])
    BY <2>2 DEF View
  <2> QED
    BY <1>7, <2>1, <2>2
<1>10. PullMissesOnlyLate'
  <2> SUFFICES ASSUME NEW e \in Devices, NEW i \in Items, row[i].version # 0, i \notin late[e],
                      ~Before(cursor'[e][TableOf(i)], Key(row, i))
               PROVE  copy'[e][i] = View(row[i])
    BY <1>1 DEF PullMissesOnlyLate, Key
  <2>1. CASE e # d
    BY <1>0, <1>2, <1>3, <2>1 DEF PullMissesOnlyLate
  <2>2. CASE e = d
    <3>1. TableOf(i) \in Tables /\ i \in TableOf(i) /\ cursor'[e][TableOf(i)] = NextCursor(d, TableOf(i))
      BY <1>3, <2>2, ItemFacts
    <3>2. CASE Before(cursor[d][TableOf(i)], Key(row, i))
      <4>1. i \in Page(d, TableOf(i))
        BY <3>1, <3>2, PageFacts
      <4> QED
        BY <1>2, <2>2, <4>1
    <3>3. CASE ~Before(cursor[d][TableOf(i)], Key(row, i))
      <4>1. copy[d][i] = View(row[i])
        BY <1>0, <2>2, <3>3 DEF PullMissesOnlyLate
      <4> QED
        BY <1>7, <2>2, <4>1
    <3> QED
      BY <3>2, <3>3
  <2> QED
    BY <2>1, <2>2
<1> QED
  BY <1>4, <1>5, <1>6, <1>8, <1>9, <1>10 DEF NotesInv

-----------------------------------------------------------------------------
(* The theorems *)

\* The invariant holds at the beginning.
LEMMA InitInv == Init => NotesInv
<1> SUFFICES ASSUME Init
             PROVE  NotesInv
  OBVIOUS
<1>a. PICK old \in Old :
        /\ row = [i \in Items |-> IF i \in old THEN First ELSE NoRow]
        /\ copy = [d \in Devices |-> [i \in Items |-> IF i \in old THEN View(First) ELSE NoCopy]]
  BY DEF Init
<1>0. /\ now = 1 /\ writes = 0 /\ row = [i \in Items |-> IF i \in old THEN First ELSE NoRow]
      /\ copy = [d \in Devices |-> [i \in Items |-> IF i \in old THEN View(First) ELSE NoCopy]]
      /\ cursor = [d \in Devices |-> [t \in Tables |-> <<1, 0>>]]
      /\ maker = [i \in Items |-> None] /\ req = [d \in Devices |-> Idle]
      /\ purge = [stage |-> "idle", cutoff |-> 0, ids |-> {}]
      /\ late = [d \in Devices |-> {}] /\ gone = {}
  BY <1>a DEF Init
<1>1. /\ First = [version |-> 1, body |-> None, folder |-> None, updated |-> 0, deleted |-> 0]
      /\ First \in Row /\ NoRow \in Row /\ 0 \in 0..MaxTime /\ 1 \in 0..MaxTime /\ 0 \in 0..MaxWrites
  BY NotesAssumption DEF First, NoRow, Row, None
<1>2. View(First) = [version |-> 1, body |-> None, folder |-> None, deleted |-> FALSE]
  BY <1>1 DEF View
<1>3. View(First) \in CopyType /\ NoCopy \in CopyType
  BY <1>2 DEF CopyType, NoCopy, None
<1>4. \A i \in Items : row[i] = (IF i \in old THEN First ELSE NoRow)
  BY <1>0
<1>5. \A d \in Devices, i \in Items : copy[d][i] = (IF i \in old THEN View(First) ELSE NoCopy)
  BY <1>0
<1>6. TypeInv
  <2>1. RowOK /\ CopyOK
    BY <1>0, <1>1, <1>3 DEF RowOK, CopyOK
  <2>2. ReqOK /\ PurgeOK /\ RestOK
    BY <1>0, <1>1, NoneTypes DEF ReqOK, PurgeOK, RestOK
  <2>3. PullOK
    BY <1>0, <1>1 DEF PullOK
  <2> QED
    BY <2>1, <2>2, <2>3 DEF TypeInv
<1>7. FolderInv
  <2>1. \A i \in Items : row[i].folder = None
    BY <1>1, <1>4, NoneTypes
  <2> QED
    BY <2>1 DEF FolderInv, Exists, Items
<1>8. ReqInv /\ LockInv
  <2>1. \A d \in Devices : req[d] = Idle /\ Held(d) = {}
    BY <1>0, NoneTypes DEF Held
  <2> QED
    BY <1>6, <2>1, IdleRequest DEF ReqInv, LockInv, TypeInv
<1>9. VersionInv /\ VersionNamesState
  <2> SUFFICES ASSUME NEW d \in Devices, NEW i \in Items
               PROVE  /\ copy[d][i].version <= row[i].version
                      /\ copy[d][i].version # 0 => /\ copy[d][i].body = row[i].body
                                                   /\ copy[d][i].deleted = (row[i].deleted # 0)
    BY DEF VersionInv, VersionNamesState
  <2>1. CASE i \in old
    <3>1. row[i] = First /\ copy[d][i] = View(First)
      BY <1>4, <1>5, <2>1
    <3>2. /\ First.version = 1 /\ View(First).version = 1 /\ View(First).body = First.body
      BY <1>1, <1>2
    <3>3. View(First).deleted = (First.deleted # 0)
      BY DEF View
    <3> QED
      BY <3>1, <3>2, <3>3
  <2>2. CASE i \notin old
    <3>1. row[i] = NoRow /\ copy[d][i] = NoCopy
      BY <1>4, <1>5, <2>2
    <3>2. NoRow.version = 0 /\ NoCopy.version = 0
      BY DEF NoRow, NoCopy
    <3> QED
      BY <3>1, <3>2
  <2> QED
    BY <2>1, <2>2
<1>10. PullMissesOnlyLate
  BY <1>4, <1>5, NoneTypes DEF PullMissesOnlyLate
<1> QED
  BY <1>6, <1>7, <1>8, <1>9, <1>10 DEF NotesInv

\* Every step keeps the invariant.
LEMMA NextInv == NotesInv /\ [Next]_vars => NotesInv'
<1> SUFFICES ASSUME NotesInv, [Next]_vars
             PROVE  NotesInv'
  OBVIOUS
<1>1. CASE Chooses \/ purge_batched
  BY <1>1, ChoosesKeeps, PurgeKeeps
<1>2. ASSUME NEW d \in Devices, Request(d) \/ Step(d)
      PROVE  NotesInv'
  BY <1>2, RequestServes, StepServes, ServesKeeps
<1>3. ASSUME NEW d \in Devices, sync_pull(d)
      PROVE  NotesInv'
  BY <1>3, PullKeeps
<1> QED
  BY <1>1, <1>2, <1>3 DEF Next, Purge, Chooses

\* So it always holds.
LEMMA InvAlways == Spec => []NotesInv
BY InitInv, NextInv, PTL DEF Spec

\* The variables keep their types, and every note's folder is there: the purge of a
\* folder leaves no note filed in it, and no push commits one that is.
THEOREM TypeCorrect == Spec => []TypeOK
<1>1. NotesInv => TypeOK
  <2> SUFFICES ASSUME NotesInv
               PROVE  TypeOK
    OBVIOUS
  <2>1. RowOK /\ CopyOK /\ ReqOK /\ PullOK /\ PurgeOK /\ RestOK /\ FolderInv
    BY DEF NotesInv, TypeInv
  <2>2. \A d \in Devices :
        /\ req[d].pc \in Pcs /\ req[d].ids \subseteq Items /\ req[d].folder \in Folders \cup {None}
        /\ req[d].left \in Seq(Mutation) /\ req[d].wrote \in [Items -> Row]
    BY <2>1 DEF ReqOK, RequestType
  <2> QED
    BY <2>1, <2>2 DEF TypeOK, RowOK, CopyOK, CopyType, PullOK, PurgeOK, RestOK, FolderInv
<1> QED
  BY <1>1, InvAlways, PTL

\* A device whose version matches holds what the row holds, which is all that the
\* optimistic lock of update, delete and push compares.
THEOREM VersionCorrect == Spec => []VersionNamesState
<1>1. NotesInv => VersionNamesState
  BY DEF NotesInv
<1> QED
  BY <1>1, InvAlways, PTL

\* What a device's cursor has passed it holds as the server has it, unless the row
\* committed behind the cursor, whatever the page size.
THEOREM PullCorrect == Spec => []PullMissesOnlyLate
<1>1. NotesInv => PullMissesOnlyLate
  BY DEF NotesInv
<1> QED
  BY <1>1, InvAlways, PTL

-----------------------------------------------------------------------------
(* Notes implements Replica *)

\* What Replica sees of rows and copies.
LEMMA SyncTypes ==
    ASSUME NotesInv
    PROVE  /\ Store \in [Items -> Sync!Item] /\ Copies \in [Devices -> [Items -> Sync!Item]]
           /\ \A i \in Items : /\ Store[i].version = row[i].version /\ Store[i].body = row[i].body
                               /\ Store[i].deleted = (row[i].deleted # 0)
           /\ \A d \in Devices, i \in Items :
                Copies[d][i] = [version |-> copy[d][i].version, body |-> copy[d][i].body,
                                deleted |-> copy[d][i].deleted]
<1>1. /\ \A i \in Items : row[i].version \in Nat /\ row[i].body \in Devices \cup {None}
      /\ \A d \in Devices, i \in Items :
            /\ copy[d][i].version \in Nat /\ copy[d][i].body \in Devices \cup {None}
            /\ copy[d][i].deleted \in BOOLEAN
  BY DEF NotesInv, TypeInv, RowOK, CopyOK, Row, CopyType
<1>2. Store \in [Items -> Sync!Item]
  BY <1>1 DEF Store, Sync!Item
<1>3. Copies \in [Devices -> [Items -> Sync!Item]]
  BY <1>1 DEF Copies, Sync!Item
<1> QED
  BY <1>2, <1>3 DEF Store, Copies

\* Devices that are told of rows as they are hear of them.
LEMMA TellsHears ==
    ASSUME NotesInv, NotesInv',
           \A d \in Devices, i \in Items : copy'[d][i] = copy[d][i] \/ copy'[d][i] = View(row'[i])
    PROVE  Sync!Hear
<1>1. Copies' \in [Devices -> [Items -> Sync!Item]]
  <2>1. /\ \A d \in Devices, i \in Items :
            /\ copy'[d][i].version \in Nat /\ copy'[d][i].body \in Devices \cup {None}
            /\ copy'[d][i].deleted \in BOOLEAN
    BY DEF NotesInv, TypeInv, CopyOK, CopyType
  <2> QED
    BY <2>1 DEF Copies, Sync!Item
<1>2. ASSUME NEW d \in Devices, NEW i \in Items
      PROVE  Copies'[d][i] \in {Copies[d][i], Store'[i]}
  <2>1. /\ Copies'[d][i] = [version |-> copy'[d][i].version, body |-> copy'[d][i].body,
                            deleted |-> copy'[d][i].deleted]
        /\ Copies[d][i] = [version |-> copy[d][i].version, body |-> copy[d][i].body,
                           deleted |-> copy[d][i].deleted]
        /\ Store'[i] = [version |-> row'[i].version, body |-> row'[i].body,
                        deleted |-> row'[i].deleted # 0]
    BY DEF Copies, Store
  <2>2. CASE copy'[d][i] = copy[d][i]
    BY <2>1, <2>2
  <2>3. CASE copy'[d][i] = View(row'[i])
    BY <2>1, <2>3 DEF View
  <2> QED
    BY <2>2, <2>3
<1> QED
  BY <1>1, <1>2 DEF Sync!Hear

\* Devices make ids, and an id that is made keeps its maker.
LEMMA MakesMake ==
    ASSUME NotesInv, MakerGrows
    PROVE  Sync!Make
<1>1. /\ None \notin Devices /\ \A i \in Items, d \in Devices : maker[i] = d => maker'[i] = d
  BY NotesAssumption DEF MakerGrows, None
<1>2. \A d \in Devices : Made[d] = {i \in Items : maker[i] = d} /\ Made'[d] = {i \in Items : maker'[i] = d}
  BY DEF Made
<1>3. Made' \in [Devices -> SUBSET Items]
  BY DEF Made
<1>4. \A d \in Devices : Made[d] \subseteq Made'[d]
  BY <1>1, <1>2
<1>5. \A d, e \in Devices : d # e => Made'[d] \cap Made'[e] = {}
  BY <1>2
<1> QED
  BY <1>3, <1>4, <1>5 DEF Sync!Make

\* A commit is a Write of Replica: it moves versions on, and changes the content only
\* where the device holds the current version, or nothing of an item that it made.
LEMMA CommitWrites ==
    ASSUME NotesInv, NotesInv', NEW d \in Devices, NEW ids, Committed(d, ids), MakerGrows
    PROVE  Sync!Next
<1>1. /\ ids \subseteq Items
      /\ \A i \in Items \ ids : row'[i] = row[i]
      /\ \A i \in ids : Replaces(d, i, row'[i])
      /\ copy' \in {copy, [copy EXCEPT ![d] =
                        [i \in Items |-> IF i \in ids THEN View(row'[i]) ELSE copy[d][i]]]}
  BY DEF Committed, Told
<1>2. Store' \in [Items -> Sync!Item]
  <2>1. \A i \in Items : row'[i].version \in Nat /\ row'[i].body \in Devices \cup {None}
    BY DEF NotesInv, TypeInv, RowOK, Row
  <2> QED
    BY <2>1 DEF Store, Sync!Item
<1>3. /\ \A i \in Items : /\ Store[i].version = row[i].version /\ Store[i].body = row[i].body
                          /\ Store[i].deleted = (row[i].deleted # 0)
      /\ \A i \in Items : /\ Store'[i].version = row'[i].version /\ Store'[i].body = row'[i].body
                          /\ Store'[i].deleted = (row'[i].deleted # 0)
      /\ \A i \in Items : row'[i] = row[i] => Store'[i] = Store[i]
      /\ \A i \in Items : Copies[d][i].version = copy[d][i].version
      /\ \A i \in Items : maker[i] = d => i \in Made[d]
  BY DEF Store, Copies, Made
<1>4. Sync!Write(d)
  <2> SUFFICES ASSUME NEW i \in Items, Store'[i] # Store[i]
               PROVE  /\ Store'[i].version > Store[i].version
                      /\ \/ Sync!SameContent(Store'[i], Store[i])
                         \/ Copies[d][i].version = Store[i].version
                         \/ Sync!Forced(d, i)
    BY <1>2 DEF Sync!Write
  <2>1. i \in ids /\ Replaces(d, i, row'[i])
    BY <1>1, <1>3
  <2>2. row'[i].version > row[i].version
    BY <2>1 DEF Replaces
  <2>3. CASE MayChange(d, i, maker)
    BY <1>3, <2>2, <2>3 DEF MayChange, Sync!Forced
  <2>4. CASE row'[i].body = row[i].body /\ row'[i].deleted = row[i].deleted
    <3>1. Store'[i].body = Store[i].body /\ Store'[i].deleted = Store[i].deleted
      BY <1>3, <2>4
    <3> QED
      BY <1>3, <2>2, <3>1 DEF Sync!SameContent
  <2> QED
    BY <2>1, <2>3, <2>4 DEF Replaces
<1>5. \A e \in Devices, i \in Items : copy'[e][i] = copy[e][i] \/ copy'[e][i] = View(row'[i])
  <2>1. copy \in [Devices -> [Items -> CopyType]]
    BY DEF NotesInv, TypeInv, CopyOK
  <2> QED
    BY <1>1, <2>1
<1>6. Sync!Hear
  BY <1>5, TellsHears
<1> QED
  BY <1>4, <1>6, MakesMake DEF Sync!Next

\* A purge is a Purge of Replica, which tells nobody ..
LEMMA PurgeRefines ==
    ASSUME NotesInv, NotesInv', purge_batched
    PROVE  Sync!Next
<1>1. Store' \in [Items -> Sync!Item]
  <2>1. \A i \in Items : row'[i].version \in Nat /\ row'[i].body \in Devices \cup {None}
    BY DEF NotesInv, TypeInv, RowOK, Row
  <2> QED
    BY <2>1 DEF Store, Sync!Item
<1>2. /\ \A i \in purge.ids : row'[i] = NoRow
      /\ \A i \in Items \ purge.ids :
           /\ row'[i].version = row[i].version /\ row'[i].body = row[i].body
           /\ row'[i].deleted = row[i].deleted
  BY PurgeFacts
<1>3. ASSUME NEW i \in Items, Store'[i] # Store[i]
      PROVE  Store'[i].version = 0
  <2>1. i \in purge.ids
    BY <1>2, <1>3 DEF Store
  <2>2. row'[i].version = 0
    BY <1>2, <2>1, NoneTypes
  <2>3. Store'[i].version = row'[i].version
    BY DEF Store
  <2> QED
    BY <2>2, <2>3
<1>4. Sync!Purge
  BY <1>1, <1>3 DEF Sync!Purge
<1>5. Sync!Hear
  BY TellsHears DEF purge_batched
<1>6. MakerGrows
  BY DEF purge_batched, MakerGrows, NotesInv, TypeInv, RestOK
<1> QED
  BY <1>4, <1>5, <1>6, MakesMake DEF Sync!Next

\* .. and a pull tells a device of rows as they are.
LEMMA PullRefines ==
    ASSUME NotesInv, NotesInv', NEW d \in Devices, sync_pull(d)
    PROVE  Sync!Next
<1>1. row' = row
  BY DEF sync_pull, db
<1>2. Sync!Purge
  BY <1>1, SyncTypes DEF Sync!Purge, Store
<1>3. \A e \in Devices, i \in Items : copy'[e][i] = copy[e][i] \/ copy'[e][i] = View(row'[i])
  BY <1>1, PullTells
<1>4. Sync!Hear
  BY <1>3, TellsHears
<1>5. MakerGrows
  BY DEF sync_pull, MakerGrows, NotesInv, TypeInv, RestOK
<1> QED
  BY <1>2, <1>4, <1>5, MakesMake DEF Sync!Next

\* .. and so is a request that only begins, with the ids it makes.
LEMMA BeginRefines ==
    ASSUME NotesInv, NotesInv', row' = row, copy' = copy, MakerGrows
    PROVE  Sync!Next
<1>1. Sync!Purge
  BY SyncTypes DEF Sync!Purge, Store
<1>2. Sync!Hear
  BY TellsHears
<1> QED
  BY <1>1, <1>2, MakesMake DEF Sync!Next

\* Rows and copies behave like Replica: a device changes only what it holds as it is,
\* or what it made and has heard nothing of since; the rows of a push become visible at
\* once, and no device is told what is not so.
THEOREM Refinement == Spec => Replicates
<1>1. Init => Sync!Init
  <2> SUFFICES ASSUME Init
               PROVE  Sync!Init
    OBVIOUS
  <2>0. PICK old \in Old :
          /\ row = [i \in Items |-> IF i \in old THEN First ELSE NoRow]
          /\ copy = [d \in Devices |-> [i \in Items |-> IF i \in old THEN View(First) ELSE NoCopy]]
    BY DEF Init
  <2>1. Store \in [Items -> Sync!Item]
    BY InitInv, SyncTypes
  <2>2. \A d \in Devices, i \in Items :
          /\ copy[d][i].version = row[i].version /\ copy[d][i].body = row[i].body
          /\ copy[d][i].deleted = (row[i].deleted # 0)
    <3> SUFFICES ASSUME NEW d \in Devices, NEW i \in Items
                 PROVE  /\ copy[d][i].version = row[i].version /\ copy[d][i].body = row[i].body
                        /\ copy[d][i].deleted = (row[i].deleted # 0)
      OBVIOUS
    <3>1. CASE i \in old
      <4>1. row[i] = First /\ copy[d][i] = View(First)
        BY <2>0, <3>1
      <4> QED
        BY <4>1 DEF View
    <3>2. CASE i \notin old
      <4>1. row[i] = NoRow /\ copy[d][i] = NoCopy
        BY <2>0, <3>2
      <4>2. /\ NoCopy.version = NoRow.version /\ NoCopy.body = NoRow.body
            /\ NoRow.deleted = 0 /\ NoCopy.deleted = FALSE
        BY DEF NoRow, NoCopy
      <4> QED
        BY <4>1, <4>2
    <3> QED
      BY <3>1, <3>2
  <2>3. Copies = [d \in Devices |-> Store]
    BY <2>2 DEF Copies, Store
  <2>4. Made = [d \in Devices |-> {}]
    <3>1. None \notin Devices /\ \A i \in Items : maker[i] = None
      BY NotesAssumption DEF Init, None
    <3>2. \A d \in Devices : {i \in Items : maker[i] = d} = {}
      BY <3>1
    <3> QED
      BY <3>2 DEF Made
  <2> QED
    BY <2>1, <2>3, <2>4 DEF Sync!Init
<1>2. NotesInv /\ NotesInv' /\ [Next]_vars => [Sync!Next]_<<Store, Copies, Made>>
  <2> SUFFICES ASSUME NotesInv, NotesInv', [Next]_vars
               PROVE  Sync!Next \/ UNCHANGED <<Store, Copies, Made>>
    OBVIOUS
  <2>1. row' = row /\ copy' = copy /\ maker' = maker => UNCHANGED <<Store, Copies, Made>>
    BY DEF Store, Copies, Made
  <2>2. CASE Chooses
    BY <2>1, <2>2, ChoosesKeeps DEF Chooses, Tick, purge_stale_notes, PurgeSelect, vars
  <2>3. CASE purge_batched
    BY <2>3, PurgeRefines
  <2>4. ASSUME NEW d \in Devices, Request(d) \/ Step(d)
        PROVE  Sync!Next
    <3>1. Serves(d) /\ MakerGrows
      BY <2>4, RequestServes, StepServes DEF Serves
    <3>2. CASE \E ids : Committed(d, ids)
      BY <3>1, <3>2, CommitWrites
    <3>3. CASE UNCHANGED <<now, db, copy, cursor, purge, gone>>
      BY <3>1, <3>3, BeginRefines DEF db
    <3> QED
      BY <3>1, <3>2, <3>3 DEF Serves
  <2>5. ASSUME NEW d \in Devices, sync_pull(d)
        PROVE  Sync!Next
    BY <2>5, PullRefines
  <2> QED
    BY <2>2, <2>3, <2>4, <2>5 DEF Next, Purge, Chooses
<1> QED
  BY <1>1, <1>2, InvAlways, PTL DEF Spec, Replicates, Sync!Spec
=============================================================================
