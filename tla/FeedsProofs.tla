---------------------------- MODULE FeedsProofs ----------------------------
(* Proofs about Feeds, for every set of rows, limits and values of the        *)
(* columns: a walk over a list with a sound cursor shows each row that stays  *)
(* exactly once, and a cursor only moves on.                                  *)
EXTENDS Feeds, FiniteSetTheorems, TLAPS

Pairs == Nat \X Nat

\* Row comparison of two pairs is the lexicographic order.
LEMMA LessPairs ==
    ASSUME NEW a \in Pairs, NEW b \in Pairs
    PROVE  Less(a, b) <=> a[1] < b[1] \/ (a[1] = b[1] /\ a[2] < b[2])
<1>1. Len(a) = 2 /\ a[1] \in Nat /\ a[2] \in Nat /\ b[1] \in Nat /\ b[2] \in Nat
    BY DEF Pairs
<1>2. 1..Len(a) = {1, 2} /\ 1..(1 - 1) = {} /\ 1..(2 - 1) = {1}
    BY <1>1
<1>3. Less(a, b) <=> \E n \in {1, 2} : a[n] < b[n] /\ \A m \in 1..(n - 1) : a[m] = b[m]
    BY <1>2 DEF Less
<1> QED
    BY <1>1, <1>2, <1>3

\* The order of a list on pairs is strict and total.
LEMMA AheadOrder ==
    /\ \A a \in Pairs : ~Ahead(a, a)
    /\ \A a, b, c \in Pairs : Ahead(a, b) /\ Ahead(b, c) => Ahead(a, c)
    /\ \A a, b, c \in Pairs : Ahead(a, b) /\ ~Ahead(a, c) => ~Ahead(b, c)
<1>1. \A a, b \in Pairs : Less(a, b) <=> a[1] < b[1] \/ (a[1] = b[1] /\ a[2] < b[2])
    BY LessPairs
<1>2. \A a \in Pairs : a[1] \in Nat /\ a[2] \in Nat
    BY DEF Pairs
<1>3. /\ \A a \in Pairs : ~Less(a, a)
      /\ \A a, b, c \in Pairs : Less(a, b) /\ Less(b, c) => Less(a, c)
    BY <1>1, <1>2
<1>4. CASE feed.order = "asc"
    BY <1>3, <1>4 DEF Ahead
<1>5. CASE feed.order # "asc"
    BY <1>3, <1>5 DEF Ahead
<1> QED
    BY <1>4, <1>5

-----------------------------------------------------------------------------
(* Types *)

\* The keys that are compared and encoded are pairs of naturals, but for the
\* three columns a list by title is ordered by.
LEMMA KeyTypes ==
    ASSUME TypeOK, NEW i \in Ids
    PROVE  /\ Compared(i) \in Pairs
           /\ feed.sort # "title" => OrderBy(i) \in Pairs
           /\ rows[i].at # 0 => Encoded(i) \in Cursors
           /\ Encoded(i) # None
<1>1. rows[i].at \in Nat /\ rows[i].alt \in Nat /\ i \in Nat /\ rows[i].alt \in Alts
      /\ (rows[i].at # 0 => rows[i].at \in Times)
    BY FeedsAssumption DEF TypeOK, Row
<1>2. EndTime(i) \in Nat /\ (rows[i].at # 0 => EndTime(i) \in Times \cup Alts)
    BY <1>1 DEF EndTime
<1> QED
    BY <1>1, <1>2 DEF Compared, OrderBy, Encoded, Cursors, None, Pairs

\* A cursor that is not None has a pair of numbers to compare with.
LEMMA CursorTypes ==
    ASSUME NEW c \in Cursors
    PROVE  c # None /\ c.key \in Pairs
<1>1. c.shape \in {"ts", "score"} /\ None.shape = "none"
    BY DEF Cursors, None
<1>2. c.key \in (Times \cup Alts) \X Ids /\ Times \cup Alts \subseteq Nat /\ Ids \subseteq Nat
    BY FeedsAssumption DEF Cursors
<1>3. c.key \in Nat \X Nat
    BY <1>2
<1> QED
    BY <1>1, <1>3 DEF Pairs

\* A page of the database, or of the cache, moves the walk within its types.
LEMMA ShowTypes ==
    ASSUME TypeOK, UNCHANGED rows, NEW page \in Pages, Show(page)
    PROVE  /\ seen' \in [Ids -> 0..2] /\ kept' \subseteq Present'
           /\ pc' \in {"reading", "done", "failed"} /\ cursor' \in Cursors \cup {None}
    BY DEF TypeOK, Show, Pages, Present

\* Init and every step keep the types; one page per key.
LEMMA TypeInduction ==
    /\ Init => TypeOK
    /\ TypeOK /\ [Next]_vars => TypeOK'
<1>1. Init => TypeOK
  <2> SUFFICES ASSUME Init PROVE TypeOK
      OBVIOUS
  <2>1. limit \in 1..MaxLimit
      BY FeedsAssumption DEF Init, clamp
  <2>2. rows \in [Ids -> Row]
      BY FeedsAssumption DEF Init, Row, Absent
  <2> QED
      BY <2>1, <2>2, FeedsAssumption DEF Init, TypeOK, Present, None
<1>2. ASSUME TypeOK, [Next]_vars PROVE TypeOK'
  <2> USE <1>2
  <2>1. CASE Fetch
    <3>1. PICK F \in SUBSET Matching : \E P \in SUBSET F : \E next \in {None} \cup {Encoded(i) : i \in F} :
              LET page == [key |-> CacheKey(cursor), ids |-> P, next |-> next, kept |-> Present] IN
              Show(page) /\ cached' \in IF feed.cache = "none" THEN {cached} ELSE {cached, Stored(page)}
        BY <2>1 DEF Fetch
    <3>2. PICK P \in SUBSET F, next \in {None} \cup {Encoded(i) : i \in F} :
              LET page == [key |-> CacheKey(cursor), ids |-> P, next |-> next, kept |-> Present] IN
              Show(page) /\ cached' \in IF feed.cache = "none" THEN {cached} ELSE {cached, Stored(page)}
        BY <3>1
    <3> DEFINE page == [key |-> CacheKey(cursor), ids |-> P, next |-> next, kept |-> Present]
    <3>3. UNCHANGED <<feed, limit, rows, changes>> /\ Present' = Present
        BY <2>1 DEF Fetch, Present
    <3>4. next \in Cursors \cup {None} /\ P \subseteq Ids
        BY KeyTypes DEF Matching, Present
    <3>5. page \in Pages
        BY <3>4 DEF Pages, CacheKey, TypeOK, Present
    <3>6. /\ seen' \in [Ids -> 0..2] /\ kept' \subseteq Present'
          /\ pc' \in {"reading", "done", "failed"} /\ cursor' \in Cursors \cup {None}
        BY <3>2, <3>3, <3>5, ShowTypes
    <3>7. \/ cached' = cached
          \/ cached' = {e \in cached : e.key # page.key} \cup {page}
        BY <3>2 DEF Stored
    <3>8. /\ cached' \subseteq Pages /\ \A e \in cached' : e.kept \subseteq Present'
          /\ \A e, f \in cached' : e.key = f.key => e = f
      <4> HIDE DEF page
      <4>1. page.kept = Present
          BY DEF page
      <4> QED
          BY <3>3, <3>5, <3>7, <4>1 DEF TypeOK
    <3> QED
        BY <3>3, <3>6, <3>8 DEF TypeOK
  <2>2. CASE Hit
    <3>1. PICK page \in cached : Show(page)
        BY <2>2 DEF Hit
    <3>2. page \in Pages /\ UNCHANGED <<feed, limit, rows, cached, changes>>
        BY <2>2 DEF Hit, TypeOK
    <3>3. /\ seen' \in [Ids -> 0..2] /\ kept' \subseteq Present'
          /\ pc' \in {"reading", "done", "failed"} /\ cursor' \in Cursors \cup {None}
        BY <3>1, <3>2, ShowTypes
    <3> QED
        BY <3>2, <3>3 DEF TypeOK, Present
  <2>3. CASE FetchFails
      BY <2>3 DEF FetchFails, TypeOK, Present
  <2>4. CASE Restart
      BY <2>4 DEF Restart, TypeOK, Present
  <2>5. CASE Evict
      BY <2>5 DEF Evict, TypeOK, Present
  <2>6. ASSUME NEW i \in Ids, NEW row \in Row, Write(i, row) PROVE TypeOK'
    <3>1. rows' \in [Ids -> Row] /\ changes' \in 0..MaxChanges
        BY <2>6, FeedsAssumption DEF Write, TypeOK
    <3>2. \A j \in Ids : j # i => (j \in Present <=> j \in Present')
        BY <2>6 DEF Write, TypeOK, Present
    <3>3. kept' \subseteq Present'
        BY <2>6, <3>2 DEF Write, TypeOK, Present
    <3>4. \A e \in cached : /\ [e EXCEPT !.kept = @ \ {i}] \in Pages
                            /\ [e EXCEPT !.kept = @ \ {i}].kept = e.kept \ {i}
                            /\ [e EXCEPT !.kept = @ \ {i}].key = e.key
                            /\ e.kept \ {i} \subseteq Present'
        BY <2>6, <3>2 DEF TypeOK, Pages, Present
    <3>5. cached' = {[e EXCEPT !.kept = @ \ {i}] : e \in cached}
        BY <2>6 DEF Write
    <3>6. /\ cached' \subseteq Pages /\ \A e \in cached' : e.kept \subseteq Present'
          /\ \A e, f \in cached' : e.key = f.key => e = f
      <4>1. cached' \subseteq Pages /\ \A e \in cached' : e.kept \subseteq Present'
          BY <3>4, <3>5
      <4>2. ASSUME NEW e \in cached', NEW f \in cached', e.key = f.key PROVE e = f
        <5>1. PICK d \in cached : e = [d EXCEPT !.kept = @ \ {i}]
            BY <3>5
        <5>2. PICK g \in cached : f = [g EXCEPT !.kept = @ \ {i}]
            BY <3>5
        <5>3. d.key = g.key
            BY <3>4, <4>2, <5>1, <5>2
        <5> QED
            BY <5>1, <5>2, <5>3 DEF TypeOK
      <4> QED
          BY <4>1, <4>2
    <3> QED
        BY <2>6, <3>1, <3>3, <3>6 DEF Write, TypeOK
  <2>7. CASE \E i \in Ids : Insert(i) \/ Remove(i) \/ Update(i)
    <3>1. Absent \in Row /\ \A t \in Times, a \in Alts : [at |-> t, alt |-> a] \in Row
        BY FeedsAssumption DEF Row, Absent
    <3> QED
        BY <2>6, <2>7, <3>1 DEF Insert, Remove, Update
  <2>8. CASE UNCHANGED vars
      BY <2>8 DEF vars, TypeOK, Present
  <2> QED
      BY <1>2, <2>1, <2>2, <2>3, <2>4, <2>5, <2>7, <2>8 DEF Next
<1> QED
    BY <1>1, <1>2

\* Types hold of every reachable state, whatever the rows, the limits and the
\* columns: cursors are built of values the table has, and a key of the cache
\* never holds two pages.
THEOREM TypeCorrect == Spec => []TypeOK
<1>1. TypeOK /\ [Next]_vars => TypeOK'
    BY TypeInduction
<1> QED
    BY <1>1, TypeInduction, PTL DEF Spec

-----------------------------------------------------------------------------
(* The walk *)

\* What a page read for a cursor tells of the rows that have not changed since:
\* it shows rows beyond its cursor, those it does not show are beyond its next
\* cursor, those it shows are not, and the next cursor is further on.
PageOK(e) ==
    /\ \A i \in e.kept :
          /\ i \in e.ids => Beyond(e.key, i)
          /\ Beyond(e.key, i) /\ i \notin e.ids => e.next # None /\ Beyond(e.next, i)
          /\ i \in e.ids /\ e.next # None => ~Beyond(e.next, i)
    /\ e.key # None /\ e.next # None => Ahead(e.key.key, e.next.key)

\* Rows the walk has not shown are beyond its cursor, those it has shown are not.
WalkOK ==
    \A i \in kept : IF pc = "done" THEN seen[i] = 1
                                   ELSE seen[i] = IF Beyond(cursor, i) THEN 0 ELSE 1

\* Strengthens WalkComplete to an inductive invariant.
WalkInv == TypeOK /\ (Sound => WalkOK /\ \A e \in cached : PageOK(e))

\* The page that a query returns.
LEMMA FetchedPage ==
    ASSUME TypeOK, Sound, NEW F \in SUBSET Matching, NEW P \in SUBSET F,
           NEW next \in {None} \cup {Encoded(i) : i \in F},
           IsFirst(F, Matching, limit + 1), from_rows(F, P, next)
    PROVE  PageOK([key |-> cursor, ids |-> P, next |-> next, kept |-> Present])
<1> DEFINE page == [key |-> cursor, ids |-> P, next |-> next, kept |-> Present]
<1>1. IsFiniteSet(Matching) /\ IsFiniteSet(F) /\ IsFiniteSet(P)
  <2>1. Matching \subseteq Ids
      BY DEF Matching, Present
  <2> QED
      BY <2>1, FS_Subset, FeedsAssumption
<1>2. \A i \in Ids : OrderBy(i) = Compared(i) /\ Encoded(i).key = Compared(i)
    BY DEF Sound, OrderBy, Compared, Encoded
<1>3. \A i \in P : i \in Matching /\ i \in Ids
    BY DEF Matching, Present
<1>4. ASSUME next = None PROVE P = Matching
  <2>1. Cardinality(F) \in Nat /\ Cardinality(P) \in Nat /\ limit \in Nat
      BY <1>1, FS_CardinalityType DEF TypeOK
  <2>2. ~(Cardinality(F) > limit)
    <3>1. \A i \in P : Encoded(i) # None
        BY <1>3, KeyTypes
    <3> QED
        BY <1>4, <3>1 DEF from_rows
  <2>3. F = Matching
      BY <2>1, <2>2 DEF IsFirst
  <2>4. P # F => Cardinality(P) < Cardinality(F)
    <3>1. Cardinality(P) <= Cardinality(F) /\ (Cardinality(F) = Cardinality(P) => F = P)
        BY <1>1, FS_Subset
    <3> QED
        BY <2>1, <3>1
  <2>5. P = F
      BY <2>1, <2>2, <2>4 DEF from_rows, IsFirst
  <2> QED
      BY <2>3, <2>5
<1>5. ASSUME next # None
      PROVE  \E l \in P : /\ next = Encoded(l)
                          /\ \A j \in P : j # l => Ahead(OrderBy(j), OrderBy(l))
                          /\ \A j \in Matching \ P : Ahead(OrderBy(l), OrderBy(j))
  <2>1. PICK l \in P : IsLast(l, P) /\ next = Encoded(l)
      BY <1>5 DEF from_rows
  <2>2. ASSUME NEW j \in Matching \ P PROVE Ahead(OrderBy(l), OrderBy(j))
    <3>1. CASE j \in F
        BY <3>1 DEF from_rows, IsFirst
    <3>2. CASE j \notin F
        BY <3>2 DEF IsFirst
    <3> QED
        BY <3>1, <3>2
  <2> QED
      BY <2>1, <2>2 DEF IsLast
<1>6. ASSUME NEW i \in Present
      PROVE  /\ i \in P => Beyond(cursor, i)
             /\ Beyond(cursor, i) /\ i \notin P => next # None /\ Beyond(next, i)
             /\ i \in P /\ next # None => ~Beyond(next, i)
  <2>1. i \in P => Beyond(cursor, i)
      BY <1>3 DEF Matching
  <2>2. ASSUME Beyond(cursor, i), i \notin P PROVE next # None /\ Beyond(next, i)
    <3>1. i \in Matching \ P /\ i \in Ids
        BY <2>2 DEF Matching, Present
    <3>2. next # None
        BY <1>4, <3>1
    <3>3. PICK l \in P : next = Encoded(l) /\ Ahead(OrderBy(l), OrderBy(i))
        BY <1>5, <3>1, <3>2
    <3> QED
        BY <1>2, <1>3, <3>1, <3>2, <3>3 DEF Beyond, cursor_op
  <2>3. ASSUME i \in P, next # None PROVE ~Beyond(next, i)
    <3>1. PICK l \in P : next = Encoded(l) /\ \A j \in P : j # l => Ahead(OrderBy(j), OrderBy(l))
        BY <1>5, <2>3
    <3>2. Compared(i) \in Pairs /\ Compared(l) \in Pairs /\ next.key = Compared(l)
        BY <1>2, <1>3, <2>3, <3>1, KeyTypes
    <3>3. ~Ahead(Compared(l), Compared(i))
      <4>1. CASE i = l
          BY <3>2, <4>1, AheadOrder
      <4>2. CASE i # l
        <5>1. Ahead(Compared(i), Compared(l))
            BY <1>2, <1>3, <2>3, <3>1, <4>2
        <5> QED
            BY <3>2, <5>1, AheadOrder
      <4> QED
          BY <4>1, <4>2
    <3> QED
        BY <2>3, <3>2, <3>3 DEF Beyond, cursor_op
  <2> QED
      BY <2>1, <2>2, <2>3
<1>7. ASSUME cursor # None, next # None PROVE Ahead(cursor.key, next.key)
  <2>1. PICK l \in P : next = Encoded(l)
      BY <1>5, <1>7
  <2>2. Beyond(cursor, l)
      BY <1>3 DEF Matching
  <2> QED
      BY <1>2, <1>3, <1>7, <2>1, <2>2 DEF Beyond, cursor_op
<1> QED
    BY <1>6, <1>7 DEF PageOK

\* Showing a page read for the walk's cursor keeps the walk in step.
LEMMA ShowStep ==
    ASSUME TypeOK, Sound, WalkOK, pc = "reading", UNCHANGED <<feed, rows>>,
           NEW page \in Pages, page.key = cursor, PageOK(page), Show(page)
    PROVE  WalkOK'
<1>1. \A c : \A i \in Ids : Beyond(c, i)' <=> Beyond(c, i)
    BY DEF Beyond, cursor_op, Ahead, Compared, EndTime
<1>2. SUFFICES ASSUME NEW i \in kept'
               PROVE  IF pc' = "done" THEN seen'[i] = 1
                                      ELSE seen'[i] = IF Beyond(page.next, i) THEN 0 ELSE 1
  <2>1. kept' \subseteq Ids /\ cursor' = page.next
      BY DEF Show, TypeOK, Present
  <2>2. \A i \in kept' : Beyond(cursor, i)' <=> Beyond(page.next, i)
      BY <2>1 DEF Beyond, cursor_op, Ahead, Compared, EndTime
  <2> QED
      BY <1>2, <2>2 DEF WalkOK
<1>3. i \in Ids /\ i \in kept /\ i \in page.kept
    BY DEF Show, TypeOK, Present
<1>4. seen[i] = IF Beyond(cursor, i) THEN 0 ELSE 1
    BY <1>3 DEF WalkOK
<1>5. seen'[i] = IF i \in page.ids THEN seen[i] + 1 ELSE seen[i]
    BY <1>3, <1>4 DEF Show
<1>6. pc' = "done" <=> page.next = None
    BY DEF Show
<1>7. CASE Beyond(cursor, i)
    BY <1>3, <1>4, <1>5, <1>6, <1>7 DEF PageOK
<1>8. CASE ~Beyond(cursor, i)
  <2>1. i \notin page.ids /\ seen'[i] = 1
      BY <1>3, <1>4, <1>5, <1>8 DEF PageOK
  <2>2. ASSUME page.next # None PROVE ~Beyond(page.next, i)
    <3>1. cursor # None /\ ~Ahead(cursor.key, Compared(i))
        BY <1>8 DEF Beyond, cursor_op
    <3>2. Ahead(cursor.key, page.next.key)
        BY <2>2, <3>1 DEF PageOK
    <3>3. cursor.key \in Pairs /\ page.next.key \in Pairs /\ Compared(i) \in Pairs
        BY <1>3, <2>2, <3>1, CursorTypes, KeyTypes DEF TypeOK, Pages
    <3> QED
        BY <2>2, <3>1, <3>2, <3>3, AheadOrder DEF Beyond, cursor_op
  <2> QED
      BY <1>6, <2>1, <2>2
<1> QED
    BY <1>7, <1>8

\* What a page tells of a row depends on that row alone.
LEMMA PageKept ==
    ASSUME UNCHANGED feed, NEW e, NEW i, PageOK(e), e.kept \subseteq Ids,
           \A j \in e.kept \ {i} : rows'[j] = rows[j],
           NEW f, f.key = e.key, f.ids = e.ids, f.next = e.next, f.kept = e.kept \ {i}
    PROVE  PageOK(f)'
<1>1. \A c : \A j \in f.kept : Beyond(c, j)' <=> Beyond(c, j)
    BY DEF Beyond, cursor_op, Ahead, Compared, EndTime
<1>2. \A a, b : Ahead(a, b)' <=> Ahead(a, b)
    BY DEF Ahead
<1> QED
    BY <1>1, <1>2 DEF PageOK

\* Init and every step keep the strengthened invariant.
LEMMA WalkInduction ==
    /\ Init => WalkInv
    /\ WalkInv /\ [Next]_vars => WalkInv'
<1>1. Init => WalkInv
  <2> SUFFICES ASSUME Init PROVE WalkInv
      OBVIOUS
  <2>1. TypeOK
      BY TypeInduction
  <2>2. WalkOK
      BY DEF Init, WalkOK, Beyond, Present
  <2> QED
      BY <2>1, <2>2 DEF WalkInv, Init
<1>2. ASSUME WalkInv, [Next]_vars PROVE WalkInv'
  <2> USE <1>2
  <2>1. TypeOK /\ TypeOK'
      BY TypeInduction DEF WalkInv
  <2>2. feed' = feed /\ (Sound' <=> Sound)
    <3>1. feed' = feed
        BY DEF Next, Fetch, Hit, FetchFails, Restart, Evict, Insert, Remove, Update, Write, vars
    <3> QED
        BY <3>1 DEF Sound
  <2> SUFFICES ASSUME Sound PROVE WalkOK' /\ \A e \in cached' : PageOK(e)'
      BY <2>1, <2>2 DEF WalkInv
  <2>3. WalkOK /\ \A e \in cached : PageOK(e)
      BY DEF WalkInv
  <2>4. \A c : CacheKey(c) = c
      BY <2>1 DEF CacheKey, Sound, TypeOK, AllFeeds, find_participants, find_broadcasts,
                  find_notes, find_folders, find_notifications, find_subscribers,
                  find_subscriptions, find_messages, search_profiles, List
  <2>5. ASSUME UNCHANGED rows, NEW e, PageOK(e) PROVE PageOK(e)'
      BY <2>2, <2>5 DEF PageOK, Beyond, cursor_op, Ahead, Compared, EndTime
  <2>6. CASE Fetch
    <3>1. PICK F \in SUBSET Matching : \E P \in SUBSET F : \E next \in {None} \cup {Encoded(i) : i \in F} :
              LET page == [key |-> CacheKey(cursor), ids |-> P, next |-> next, kept |-> Present] IN
              /\ IsFirst(F, Matching, limit + 1) /\ from_rows(F, P, next)
              /\ Show(page)
              /\ cached' \in IF feed.cache = "none" THEN {cached} ELSE {cached, Stored(page)}
        BY <2>6 DEF Fetch
    <3>2. PICK P \in SUBSET F, next \in {None} \cup {Encoded(i) : i \in F} :
              LET page == [key |-> CacheKey(cursor), ids |-> P, next |-> next, kept |-> Present] IN
              /\ IsFirst(F, Matching, limit + 1) /\ from_rows(F, P, next)
              /\ Show(page)
              /\ cached' \in IF feed.cache = "none" THEN {cached} ELSE {cached, Stored(page)}
        BY <3>1
    <3> DEFINE page == [key |-> cursor, ids |-> P, next |-> next, kept |-> Present]
    <3>3. /\ IsFirst(F, Matching, limit + 1) /\ from_rows(F, P, next) /\ Show(page)
          /\ cached' \subseteq cached \cup {page}
        BY <2>4, <3>2 DEF Stored
    <3>4. pc = "reading" /\ UNCHANGED <<feed, rows>>
        BY <2>6 DEF Fetch
    <3>5. PageOK(page)
        BY <2>1, <3>3, FetchedPage
    <3>6. page \in Pages
        BY <2>1, KeyTypes DEF Pages, TypeOK, Matching, Present
    <3>7. WalkOK'
      <4>1. page.key = cursor
          OBVIOUS
      <4> HIDE DEF page
      <4> QED
          BY <2>1, <2>3, <3>3, <3>4, <3>5, <3>6, <4>1, ShowStep
    <3>8. ASSUME NEW e \in cached' PROVE PageOK(e)'
      <4> HIDE DEF page
      <4>1. PageOK(e)
          BY <2>3, <3>3, <3>5
      <4> QED
          BY <2>5, <3>4, <4>1
    <3> QED
        BY <3>7, <3>8
  <2>7. CASE Hit
    <3>1. PICK page \in cached : page.key = CacheKey(cursor) /\ Show(page)
        BY <2>7 DEF Hit
    <3>2. pc = "reading" /\ UNCHANGED <<feed, rows, cached>> /\ page \in Pages
        BY <2>1, <2>7 DEF Hit, TypeOK
    <3>3. WalkOK'
        BY <2>1, <2>3, <2>4, <3>1, <3>2, ShowStep
    <3> QED
        BY <2>3, <2>5, <3>2, <3>3
  <2>8. CASE FetchFails \/ Restart \/ Evict \/ UNCHANGED vars
    <3>1. UNCHANGED rows /\ cached' \subseteq cached
        BY <2>8 DEF FetchFails, Restart, Evict, vars
    <3>2. \A c, i : Beyond(c, i)' <=> Beyond(c', i)
        BY <2>2, <3>1 DEF Beyond, cursor_op, Ahead, Compared, EndTime
    <3>3. WalkOK'
      <4>1. CASE Restart
          BY <4>1 DEF Restart, WalkOK, Beyond, Present
      <4>2. CASE FetchFails \/ Evict \/ UNCHANGED vars
        <5>1. /\ UNCHANGED <<feed, rows, cursor, seen, kept>> /\ (pc' = "done" <=> pc = "done")
            BY <4>2 DEF FetchFails, Evict, vars
        <5> QED
            BY <2>3, <5>1 DEF WalkOK, Beyond, cursor_op, Ahead, Compared, EndTime
      <4> QED
          BY <2>8, <4>1, <4>2
    <3> QED
        BY <2>3, <2>5, <3>1, <3>3
  <2>9. ASSUME NEW i \in Ids, NEW row \in Row, Write(i, row)
        PROVE  WalkOK' /\ \A e \in cached' : PageOK(e)'
    <3>1. \A j \in Ids \ {i} : rows'[j] = rows[j]
        BY <2>1, <2>9 DEF Write, TypeOK
    <3>2. UNCHANGED <<feed, pc, cursor, seen>> /\ kept' = kept \ {i} /\ kept \subseteq Ids
        BY <2>1, <2>9 DEF Write, TypeOK, Present
    <3>3. WalkOK'
        BY <2>3, <3>1, <3>2 DEF WalkOK, Beyond, cursor_op, Ahead, Compared, EndTime
    <3>4. ASSUME NEW f \in cached' PROVE PageOK(f)'
      <4>1. PICK e \in cached : f = [e EXCEPT !.kept = @ \ {i}]
          BY <2>9 DEF Write
      <4>2. e \in Pages
          BY <2>1 DEF TypeOK
      <4>3. f.key = e.key /\ f.ids = e.ids /\ f.next = e.next /\ f.kept = e.kept \ {i} /\ e.kept \subseteq Ids
          BY <4>1, <4>2 DEF Pages
      <4>4. \A j \in e.kept \ {i} : rows'[j] = rows[j]
          BY <3>1, <4>3
      <4> QED
          BY <2>2, <2>3, <4>1, <4>3, <4>4, PageKept
    <3> QED
        BY <3>3, <3>4
  <2>10. CASE \E i \in Ids : Insert(i) \/ Remove(i) \/ Update(i)
    <3>1. Absent \in Row /\ \A t \in Times, a \in Alts : [at |-> t, alt |-> a] \in Row
        BY FeedsAssumption DEF Row, Absent
    <3> QED
        BY <2>9, <2>10, <3>1 DEF Insert, Remove, Update
  <2> QED
      BY <2>6, <2>7, <2>8, <2>10 DEF Next
<1> QED
    BY <1>1, <1>2

\* A walk over a list with a sound cursor shows every row that stays exactly once
\* (push_cursor_condition and from_rows), for every table, limit and interleaving
\* of writes, hits, misses and evictions.
THEOREM WalkIsComplete == Spec => []WalkComplete
<1>1. WalkInv => WalkComplete
  <2> SUFFICES ASSUME WalkInv, Sound, NEW i \in kept
               PROVE  seen[i] <= 1 /\ (pc = "done" => seen[i] = 1)
      BY DEF WalkComplete
  <2>1. seen[i] \in {0, 1} /\ (pc = "done" => seen[i] = 1)
      BY DEF WalkInv, WalkOK
  <2> QED
      BY <2>1
<1>2. WalkInv /\ [Next]_vars => WalkInv'
    BY WalkInduction
<1> QED
    BY <1>1, <1>2, WalkInduction, PTL DEF Spec

-----------------------------------------------------------------------------
(* The cursor *)

\* The next cursor of a page is beyond the cursor it was read for.
Onward(e) == e.key # None /\ e.next # None => Ahead(e.key.key, e.next.key)

OnwardInv == TypeOK /\ (feed.cache # "list" => \A e \in cached : Onward(e))

\* Lists cached by page encode what they compare, or fail at their second page.
LEMMA PageLists ==
    ASSUME TypeOK, feed.cache # "list"
    PROVE  /\ \A c : CacheKey(c) = c
           /\ cursor # None /\ ~Fails => \A i \in Ids : Encoded(i).key = Compared(i)
<1>1. feed.sort \notin {"role", "name"}
    BY DEF TypeOK, AllFeeds, find_participants, find_broadcasts, find_notes, find_folders,
           find_notifications, find_subscribers, find_subscriptions, find_messages,
           search_profiles, List
<1> QED
    BY <1>1 DEF CacheKey, Fails, Encoded, Compared

\* The page a query returns is onward of the cursor.
LEMMA FetchedOnward ==
    ASSUME TypeOK, feed.cache # "list", ~Fails,
           NEW F \in SUBSET Matching, NEW P \in SUBSET F, NEW next, from_rows(F, P, next),
           cursor # None, next # None
    PROVE  Ahead(cursor.key, next.key)
<1>1. PICK i \in P : next = Encoded(i)
    BY DEF from_rows
<1>2. i \in Ids /\ Beyond(cursor, i)
    BY DEF Matching, Present
<1> QED
    BY <1>1, <1>2, PageLists DEF Beyond, cursor_op

\* One step: the invariant is kept and a page shown moves the cursor on.
LEMMA OnwardStep ==
    ASSUME OnwardInv, [Next]_vars
    PROVE  /\ OnwardInv'
           /\ /\ feed.cache # "list" /\ pc = "reading" /\ cursor # None /\ cursor' # None
              /\ seen' # seen
              => Ahead(cursor.key, cursor'.key)
<1>1. TypeOK /\ TypeOK'
    BY TypeInduction DEF OnwardInv
<1>2. feed' = feed
    BY DEF Next, Fetch, Hit, FetchFails, Restart, Evict, Insert, Remove, Update, Write, vars
<1> SUFFICES ASSUME feed.cache # "list"
             PROVE  /\ \A e \in cached' : Onward(e)'
                    /\ /\ pc = "reading" /\ cursor # None /\ cursor' # None /\ seen' # seen
                       => Ahead(cursor.key, cursor'.key)
    BY <1>1, <1>2 DEF OnwardInv
<1>3. \A e : Onward(e)' <=> Onward(e)
    BY <1>2 DEF Onward, Ahead
<1>4. \A e \in cached : Onward(e)
    BY DEF OnwardInv
<1>5. CASE Fetch
  <2>1. PICK F \in SUBSET Matching : \E P \in SUBSET F : \E next \in {None} \cup {Encoded(i) : i \in F} :
            LET page == [key |-> CacheKey(cursor), ids |-> P, next |-> next, kept |-> Present] IN
            /\ from_rows(F, P, next) /\ Show(page)
            /\ cached' \in IF feed.cache = "none" THEN {cached} ELSE {cached, Stored(page)}
      BY <1>5 DEF Fetch
  <2>2. PICK P \in SUBSET F, next \in {None} \cup {Encoded(i) : i \in F} :
            LET page == [key |-> CacheKey(cursor), ids |-> P, next |-> next, kept |-> Present] IN
            /\ from_rows(F, P, next) /\ Show(page)
            /\ cached' \in IF feed.cache = "none" THEN {cached} ELSE {cached, Stored(page)}
      BY <2>1
  <2> DEFINE page == [key |-> cursor, ids |-> P, next |-> next, kept |-> Present]
  <2>3. /\ from_rows(F, P, next) /\ Show(page) /\ cached' \subseteq cached \cup {page}
      BY <1>1, <2>2, PageLists DEF Stored
  <2>4. cursor # None /\ next # None => Ahead(cursor.key, next.key)
      BY <1>1, <1>5, <2>3, FetchedOnward DEF Fetch
  <2>5. Onward(page) /\ cursor' = next
      BY <2>3, <2>4 DEF Onward, Show
  <2> HIDE DEF page
  <2> QED
      BY <1>3, <1>4, <2>3, <2>4, <2>5
<1>6. CASE Hit
  <2>1. PICK page \in cached : page.key = CacheKey(cursor) /\ Show(page)
      BY <1>6 DEF Hit
  <2>2. page.key = cursor /\ cursor' = page.next /\ cached' = cached
      BY <1>1, <1>6, <2>1, PageLists DEF Show, Hit
  <2> QED
      BY <1>3, <1>4, <2>1, <2>2 DEF Onward
<1>7. CASE FetchFails \/ Restart \/ Evict \/ UNCHANGED vars
    BY <1>3, <1>4, <1>7 DEF FetchFails, Restart, Evict, vars
<1>8. CASE \E i \in Ids : Insert(i) \/ Remove(i) \/ Update(i)
  <2>1. PICK i \in Ids : \E row : Write(i, row)
      BY <1>8 DEF Insert, Remove, Update
  <2>2. seen' = seen /\ cached' = {[e EXCEPT !.kept = @ \ {i}] : e \in cached}
      BY <2>1 DEF Write
  <2>3. ASSUME NEW f \in cached' PROVE Onward(f)
    <3>1. PICK e \in cached : f = [e EXCEPT !.kept = @ \ {i}]
        BY <2>2
    <3>2. e \in Pages
        BY <1>1 DEF TypeOK
    <3>3. f.key = e.key /\ f.next = e.next
        BY <3>1, <3>2 DEF Pages
    <3> QED
        BY <1>4, <3>3 DEF Onward
  <2> QED
      BY <1>3, <2>2, <2>3
<1> QED
    BY <1>5, <1>6, <1>7, <1>8 DEF Next

\* A page read after a cursor ends further on (find_broadcasts by title included),
\* for every list cached by cursor or not at all: no walk goes round in circles.
THEOREM CursorsAdvance == Spec => CursorAdvances
<1>1. Init => OnwardInv
    BY TypeInduction DEF Init, OnwardInv
<1>2. OnwardInv /\ [Next]_vars => OnwardInv'
    BY OnwardStep
<1>3. OnwardInv /\ [Next]_vars =>
        [ /\ feed.cache # "list" /\ pc = "reading" /\ cursor # None /\ cursor' # None
          /\ seen' # seen
          => Ahead(cursor.key, cursor'.key) ]_vars
    BY OnwardStep
<1> QED
    BY <1>1, <1>2, <1>3, PTL DEF Spec, CursorAdvances
=============================================================================
