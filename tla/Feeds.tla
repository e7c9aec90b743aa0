------------------------------- MODULE Feeds -------------------------------
(* The lists of the API, read page by page while their rows change.          *)
(*                                                                           *)
(* Every list endpoint pages with a key set: a query orders its rows, keeps   *)
(* those beyond the cursor's key, takes one more than the limit and encodes   *)
(* the last row shown as the next cursor.  What the endpoints differ in is    *)
(* the columns they order by, the columns the cursor condition compares, what *)
(* is encoded, and how the page is cached.  A client walks one list from its  *)
(* first page to its last.                                                    *)
EXTENDS Integers, FiniteSets, Sequences

CONSTANTS Ids,          \* ids of the rows, in the order of their UUIDs
          Times,        \* created_at, joined_at
          Alts,         \* the other column: title, name, role, count, end_time (0: NULL)
          Limits,       \* limits a client asks for
          MaxLimit,     \* the limit is clamped to 1 .. MaxLimit
          MaxChanges    \* bound on the writes of a behaviour

ASSUME FeedsAssumption ==
    /\ Ids \subseteq Nat /\ IsFiniteSet(Ids) /\ Times \subseteq Nat \ {0}
    /\ Alts \subseteq Nat /\ 0 \in Alts
    /\ Limits \subseteq Int /\ MaxLimit \in Nat \ {0} /\ MaxChanges \in Nat

VARIABLES feed,         \* the list that is read
          limit,        \* rows per page
          rows,         \* the rows of the list; at = 0: not in it
          cached,       \* the pages in Redis
          pc,           \* the walk: "reading", "done" or "failed"
          cursor,       \* next_cursor of the last page
          seen,         \* how often the walk has shown a row (2: more than once)
          kept,         \* rows in the list and unchanged since each page shown was read
          changes

vars == <<feed, limit, rows, cached, pc, cursor, seen, kept, changes>>

-----------------------------------------------------------------------------
(* The lists: what they sort on, the direction, and their cache *)

List(sort, order, cache) == [sort |-> sort, order |-> order, cache |-> cache]
Orders == {"asc", "desc"}

find_notes         == List("created", "desc", "none")
find_folders       == List("created", "desc", "none")
find_notifications == List("created", "desc", "none")
find_subscribers   == List("created", "desc", "none")
find_subscriptions == List("created", "desc", "none")

\* The key of a cached page of messages names its cursor and its limit.
find_messages == List("created", "desc", "page")

\* The key of a cached page of broadcasts names all of the query; the lists of a
\* requester's own subscriptions skip the cache, which is to miss every time.
find_broadcasts == {List(s, o, "page") : s \in {"created", "title", "start", "end", "total"},
                                         o \in Orders}

\* The key of a cached page of participants names neither cursor nor limit.
find_participants == {List(s, o, "list") : s \in {"role", "joined", "name"}, o \in Orders}

\* Not cached as long as no search succeeds.
search_profiles == List("rank", "desc", "none")

AllFeeds == {find_notes, find_folders, find_notifications, find_subscribers, find_subscriptions,
             find_messages, search_profiles} \cup find_broadcasts \cup find_participants

-----------------------------------------------------------------------------
(* Keys, cursors and their order *)

\* Row comparison, column by column.
Less(a, b) == \E n \in 1..Len(a) : a[n] < b[n] /\ \A m \in 1..(n - 1) : a[m] = b[m]
Ahead(a, b) == IF feed.order = "asc" THEN Less(a, b) ELSE Less(b, a)

\* end_time, or created_at while there is none.
EndTime(i) == IF rows[i].alt = 0 THEN rows[i].at ELSE rows[i].alt

\* What the query orders by; every key ends in the id.
OrderBy(i) ==
    CASE feed.sort = "title"                     -> <<rows[i].alt, rows[i].at, i>>
      [] feed.sort = "end"                       -> <<EndTime(i), i>>
      [] feed.sort \in {"total", "name", "role"} -> <<rows[i].alt, i>>
      [] OTHER                                   -> <<rows[i].at, i>>

\* What its cursor condition compares: not the title.
Compared(i) ==
    CASE feed.sort = "end"                       -> <<EndTime(i), i>>
      [] feed.sort \in {"total", "name", "role"} -> <<rows[i].alt, i>>
      [] OTHER                                   -> <<rows[i].at, i>>

\* What the service encodes of the last row: for a page of participants the time
\* they joined, whatever the list is sorted on.
Encoded(i) ==
    CASE feed.sort = "total" -> [shape |-> "score", key |-> <<rows[i].alt, i>>]
      [] feed.sort = "end"   -> [shape |-> "ts", key |-> <<EndTime(i), i>>]
      [] OTHER               -> [shape |-> "ts", key |-> <<rows[i].at, i>>]

\* What the repository decodes the cursor as.
Shape == CASE feed.sort \in {"total", "role"} -> "score"
           [] feed.sort = "name"              -> "name"
           [] OTHER                           -> "ts"

None == [shape |-> "none", key |-> <<0, 0>>]
Cursors == [shape : {"ts", "score"}, key : (Times \cup Alts) \X Ids]

cursor_op_or_equal(c, k) == Ahead(c, k) \/ (feed.sort = "title" /\ c = k)

\* ">" or "<", never the row of the cursor itself.
cursor_op(c, k) == Ahead(c, k)

Beyond(c, i) == c = None \/ cursor_op(c.key, Compared(i))

\* CursorParams::limit.
clamp(l) == IF l < 1 THEN 1 ELSE IF l > MaxLimit THEN MaxLimit ELSE l

-----------------------------------------------------------------------------
(* Reading a page *)

Present == {i \in Ids : rows[i].at # 0}
Matching == {i \in Present : Beyond(cursor, i)}

\* P is what ORDER BY ... LIMIT n returns of S.
IsFirst(P, S, n) ==
    /\ P \subseteq S /\ Cardinality(P) <= n
    /\ P # S => Cardinality(P) = n
    /\ \A i \in P, j \in S \ P : Ahead(OrderBy(i), OrderBy(j))

IsLast(i, P) == i \in P /\ \A j \in P \ {i} : Ahead(OrderBy(j), OrderBy(i))

from_rows_extra(F, P, next) ==
    /\ IsFirst(P, F, limit)
    /\ IF Cardinality(F) > limit THEN \E i \in F : IsLast(i, F) /\ next = Encoded(i)
                                 ELSE next = None

\* CursorPage::from_rows: the row fetched over the limit only says there is more.
from_rows(F, P, next) ==
    /\ IsFirst(P, F, limit)
    /\ IF Cardinality(F) > limit THEN \E i \in P : IsLast(i, P) /\ next = Encoded(i)
                                 ELSE next = None

\* The statement of a list by start_time is not SQL, nor is the one of a search;
\* the cursor condition of a list by end_time has one value too many; and a cursor
\* of another shape is refused.
Fails == \/ feed.sort \in {"start", "rank"}
         \/ cursor # None /\ (feed.sort = "end" \/ cursor.shape # Shape)

CacheKey(c) == IF feed.cache = "list" THEN None ELSE c

Stored(page) == {e \in cached : e.key # page.key} \cup {page}

Show(page) ==
    /\ seen' = [i \in Ids |-> IF i \in page.ids /\ seen[i] < 2 THEN seen[i] + 1 ELSE seen[i]]
    /\ cursor' = page.next
    /\ pc' = IF page.next = None THEN "done" ELSE "reading"
    /\ kept' = kept \cap page.kept

\* A page read from the database.  The one who holds the lock stores it, if Redis
\* takes it; those who gave up waiting for it do not.
Fetch ==
    /\ pc = "reading" /\ ~Fails
    /\ \E F \in SUBSET Matching : \E P \in SUBSET F : \E next \in {None} \cup {Encoded(i) : i \in F} :
          LET page == [key |-> CacheKey(cursor), ids |-> P, next |-> next, kept |-> Present] IN
          /\ IsFirst(F, Matching, limit + 1) /\ from_rows(F, P, next)
          /\ Show(page)
          /\ cached' \in IF feed.cache = "none" THEN {cached} ELSE {cached, Stored(page)}
    /\ UNCHANGED <<feed, limit, rows, changes>>

\* A page from the cache.
Hit ==
    /\ pc = "reading"
    /\ \E page \in cached : page.key = CacheKey(cursor) /\ Show(page)
    /\ UNCHANGED <<feed, limit, rows, cached, changes>>

FetchFails ==
    /\ pc = "reading" /\ Fails /\ pc' = "failed"
    /\ UNCHANGED <<feed, limit, rows, cached, cursor, seen, kept, changes>>

\* The client asks for the first page again.
Restart ==
    /\ pc # "reading" /\ pc' = "reading" /\ cursor' = None
    /\ seen' = [i \in Ids |-> 0] /\ kept' = Present
    /\ UNCHANGED <<feed, limit, rows, cached, changes>>

-----------------------------------------------------------------------------
(* The rows change under the walk *)

Row == [at : Times \cup {0}, alt : Alts]
Absent == [at |-> 0, alt |-> 0]

Write(i, row) ==
    /\ changes < MaxChanges /\ changes' = changes + 1
    /\ row # rows[i] /\ rows' = [rows EXCEPT ![i] = row]
    /\ kept' = kept \ {i}
    /\ cached' = {[e EXCEPT !.kept = @ \ {i}] : e \in cached}
    /\ UNCHANGED <<feed, limit, pc, cursor, seen>>

\* A row is inserted, or comes under the list's filters.
Insert(i) == i \notin Present /\ \E t \in Times, a \in Alts : Write(i, [at |-> t, alt |-> a])

\* A row is deleted, or falls out of the filters.
Remove(i) == i \in Present /\ Write(i, Absent)

\* A row moves: its count, title, name, role or end changes, or its user joins again.
Update(i) == i \in Present /\ \E t \in Times, a \in Alts : Write(i, [at |-> t, alt |-> a])

\* A page runs out of time, or is deleted after a write.
Evict ==
    /\ \E e \in cached : cached' = cached \ {e}
    /\ UNCHANGED <<feed, limit, rows, pc, cursor, seen, kept, changes>>

Init ==
    /\ feed \in AllFeeds /\ limit \in {clamp(l) : l \in Limits}
    /\ rows \in [Ids -> {r \in Row : r.at # 0} \cup {Absent}]
    /\ cached = {} /\ pc = "reading" /\ cursor = None
    /\ seen = [i \in Ids |-> 0] /\ kept = Present /\ changes = 0

Next == \/ Fetch \/ Hit \/ FetchFails \/ Restart \/ Evict
        \/ \E i \in Ids : Insert(i) \/ Remove(i) \/ Update(i)

Spec == Init /\ [][Next]_vars

-----------------------------------------------------------------------------
(* Properties *)

Pages == [key : Cursors \cup {None}, ids : SUBSET Ids, next : Cursors \cup {None}, kept : SUBSET Ids]

\* Types; a key has one page in Redis, and what a page or the walk calls kept is
\* in the list.
TypeOK ==
    /\ feed \in AllFeeds /\ limit \in 1..MaxLimit /\ changes \in 0..MaxChanges
    /\ rows \in [Ids -> Row] /\ seen \in [Ids -> 0..2] /\ kept \subseteq Present
    /\ pc \in {"reading", "done", "failed"} /\ cursor \in Cursors \cup {None}
    /\ cached \subseteq Pages
    /\ \A e \in cached : e.kept \subseteq Present
    /\ \A e, f \in cached : e.key = f.key => e = f

\* Lists whose cursor condition compares what they order by, and whose pages are
\* cached by cursor.
Sound == feed.sort \in {"created", "total"}

\* A walk shows no row twice that was in the list, unchanged, since the pages it
\* was given were read, and has shown each of them when it reaches the last page:
\* pages of different ages, rows that come, go and move, equal timestamps and
\* limits at their bounds lose or repeat nothing else (push_cursor_condition and
\* from_rows).
WalkComplete ==
    Sound => \A i \in kept : seen[i] <= 1 /\ (pc = "done" => seen[i] = 1)

\* A page read after a cursor ends in a cursor further on, so that a walk comes to
\* an end: also by title, where the cursor is not in the order of the rows.  Not
\* for participants, whose cached page is the same for every cursor.
CursorAdvances ==
    [][ /\ feed.cache # "list" /\ pc = "reading" /\ cursor # None /\ cursor' # None
        /\ seen' # seen
        => Ahead(cursor.key, cursor'.key) ]_vars
=============================================================================
