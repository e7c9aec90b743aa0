-------------------------- MODULE ReadCacheProofs --------------------------
(* Theorems about ReadCache: types and bounded staleness, for any number of     *)
(* requests and any lifetimes of entries and locks.                             *)
EXTENDS ReadCache, TLAPS

-----------------------------------------------------------------------------
(* The type invariant, part by part *)

ReqPcs == {"idle", "get", "lock", "fetch", "store", "release", "wait",
           "direct", "read", "keep", "update"}
ReqType(v) == [pc : ReqPcs, val : 0..v, tries : 0..(MaxRetries - 1)]
EntryType(v) == [val : 0..v, ttl : 0..Ttl]

ReqOK == req \in [Requests -> ReqType(db)]
EntryOK == cache \in EntryType(db)
LockOK ==
    /\ lock \in [ttl : 0..LockTtl, by : SUBSET Requests]
    /\ lock.ttl # 0 <=> lock.by # {}
CountsOK ==
    /\ kind \in Kinds /\ db \in Versions /\ old \in [Versions -> 0..MaxAge]
    /\ pending \in 0..MaxWrites /\ pending <= db

\* TypeOK, and that deletions still to be made come from writes that were done.
TypeInv == CountsOK /\ EntryOK /\ ReqOK /\ LockOK /\ overrun \in BOOLEAN

\* The parts make the whole.
LEMMA TypeParts == TypeInv => TypeOK
BY DEF TypeInv, TypeOK, ReqOK, EntryOK, LockOK, CountsOK, ReqType, EntryType, ReqPcs

\* A request or an entry of an older version is one of a newer version.
LEMMA Widen ==
    ASSUME NEW v \in Nat, NEW w \in Nat, v <= w
    PROVE  ReqType(v) \subseteq ReqType(w) /\ EntryType(v) \subseteq EntryType(w)
BY DEF ReqType, EntryType

\* Requests that begin, end, or go on keep their type.
LEMMA ReqMoves ==
    ASSUME NEW v \in Nat, req \in [Requests -> ReqType(v)], NEW r \in Requests
    PROVE  /\ Done(r) => req' \in [Requests -> ReqType(v)]
           /\ \A pc \in ReqPcs : Goto(r, pc) => req' \in [Requests -> ReqType(v)]
           /\ \A pc \in ReqPcs, w \in 0..v :
                 req' = [req EXCEPT ![r].pc = pc, ![r].val = w] => req' \in [Requests -> ReqType(v)]
           /\ (/\ req' = [req EXCEPT ![r].tries = @ + 1]
               /\ req[r].tries + 1 # MaxRetries) => req' \in [Requests -> ReqType(v)]
<1> USE ReadCacheAssumption
<1>0. req[r] \in ReqType(v)
  OBVIOUS
<1>1. Idle \in ReqType(v)
  BY DEF Idle, ReqType, ReqPcs
<1>2. Done(r) => req' \in [Requests -> ReqType(v)]
  BY <1>1 DEF Done
<1>3. ASSUME NEW pc \in ReqPcs PROVE Goto(r, pc) => req' \in [Requests -> ReqType(v)]
  <2>1. [req[r] EXCEPT !.pc = pc] \in ReqType(v)
    BY <1>0 DEF ReqType
  <2> QED
    BY <2>1 DEF Goto
<1>4. ASSUME NEW pc \in ReqPcs, NEW w \in 0..v
      PROVE  req' = [req EXCEPT ![r].pc = pc, ![r].val = w] => req' \in [Requests -> ReqType(v)]
  <2>1. [[req[r] EXCEPT !.pc = pc] EXCEPT !.val = w] \in ReqType(v)
    BY <1>0 DEF ReqType
  <2> QED
    BY <2>1
<1>5. (/\ req' = [req EXCEPT ![r].tries = @ + 1]
       /\ req[r].tries + 1 # MaxRetries) => req' \in [Requests -> ReqType(v)]
  <2>1. req[r].tries + 1 # MaxRetries => [req[r] EXCEPT !.tries = req[r].tries + 1] \in ReqType(v)
    BY <1>0 DEF ReqType
  <2> QED
    BY <2>1
<1> QED
  BY <1>2, <1>3, <1>4, <1>5, Zenon

\* Nothing is an entry.
LEMMA NothingType == ASSUME NEW v \in Nat PROVE Nothing \in EntryType(v)
BY ReadCacheAssumption DEF Nothing, EntryType

\* At the start nothing is cached, locked or under way.
LEMMA TypeInit == Init => TypeInv
<1> SUFFICES ASSUME Init PROVE TypeInv
  OBVIOUS
<1> USE ReadCacheAssumption DEF Init
<1>1. CountsOK
  BY DEF CountsOK, Versions, MaxAge
<1>2. EntryOK
  BY NothingType DEF EntryOK
<1>3. ReqOK
  BY DEF ReqOK, ReqType, ReqPcs, Idle
<1>4. LockOK
  BY DEF LockOK
<1> QED
  BY <1>1, <1>2, <1>3, <1>4 DEF TypeInv

\* Steps of a reader that change nothing but its own state.
Quietly(r) ==
    \/ Get(r) \/ GetFails(r) \/ Fetch(r) \/ FetchFails(r) \/ Wait(r) \/ Direct(r)
    \/ ReadProfile(r) \/ Abandon(r) \/ Start(r)

\* They keep the types.
LEMMA TypeQuiet ==
    ASSUME TypeInv, NEW r \in Requests, Quietly(r)
    PROVE  TypeInv'
<1>1. CountsOK /\ EntryOK /\ ReqOK /\ LockOK /\ overrun \in BOOLEAN /\ db \in Nat
  BY ReadCacheAssumption DEF TypeInv, CountsOK, Versions
<1>2. UNCHANGED <<kind, db, old, cache, lock, pending, overrun>>
  BY ZenonT(30) DEF Quietly, Get, GetFails, Fetch, FetchFails, Wait, Direct, ReadProfile, Abandon, Start
<1>3. \/ Done(r)
      \/ \E pc \in ReqPcs : Goto(r, pc)
      \/ \E pc \in ReqPcs, w \in 0..db : req' = [req EXCEPT ![r].pc = pc, ![r].val = w]
      \/ (req' = [req EXCEPT ![r].tries = @ + 1] /\ req[r].tries + 1 # MaxRetries)
  <2>1. CASE Get(r) \/ GetFails(r) \/ FetchFails(r) \/ Direct(r) \/ Abandon(r)
    BY <2>1, ZenonT(30) DEF Get, GetFails, FetchFails, Direct, Abandon, ReqPcs
  <2>2. CASE Fetch(r) \/ ReadProfile(r)
    <3>1. db \in 0..db /\ "store" \in ReqPcs /\ "keep" \in ReqPcs
      BY <1>1 DEF ReqPcs
    <3> QED
      BY <2>2, <3>1, ZenonT(30) DEF Fetch, ReadProfile
  <2>3. CASE Wait(r)
    BY <2>3, ZenonT(30) DEF Wait, ReqPcs
  <2>4. CASE Start(r)
    BY <2>4, ZenonT(30) DEF Start, ReqPcs
  <2> QED
    BY <2>1, <2>2, <2>3, <2>4, ZenonT(30) DEF Quietly
<1>4. req' \in [Requests -> ReqType(db)]
  BY <1>1, <1>3, ReqMoves, ZenonT(30) DEF ReqOK
<1>5. CountsOK' /\ EntryOK' /\ ReqOK' /\ LockOK' /\ overrun' \in BOOLEAN
  BY <1>1, <1>2, <1>4 DEF CountsOK, EntryOK, ReqOK, LockOK
<1> QED
  BY <1>5 DEF TypeInv

\* Steps of a reader that write the cache, the lock or the database.
LEMMA TypeLoud ==
    ASSUME TypeInv, NEW r \in Requests,
           \/ try_acquire_lock(r) \/ release_lock(r) \/ Store(r) \/ cache_profile(r)
           \/ UpdateMe(r) \/ UpdateMeWrite(r)
    PROVE  TypeInv'
<1>1. CountsOK /\ EntryOK /\ ReqOK /\ LockOK /\ overrun \in BOOLEAN /\ db \in Nat
  BY ReadCacheAssumption DEF TypeInv, CountsOK, Versions
<1>2. req[r] \in ReqType(db)
  BY <1>1 DEF ReqOK
<1>3. CASE try_acquire_lock(r) \/ release_lock(r)
  <2>1. req' \in [Requests -> ReqType(db)]
    BY <1>1, <1>3, ReqMoves, ZenonT(30) DEF try_acquire_lock, release_lock, ReqOK, ReqPcs
  <2>2. LockOK'
    <3>1. lock' = lock \/ lock' = [ttl |-> LockTtl, by |-> {r}] \/ lock' = [ttl |-> 0, by |-> {}]
      BY <1>3 DEF try_acquire_lock, release_lock
    <3> QED
      BY <1>1, <3>1, ReadCacheAssumption DEF LockOK
  <2>3. UNCHANGED <<kind, db, old, cache, pending, overrun>>
    BY <1>3 DEF try_acquire_lock, release_lock
  <2> QED
    <3>1. CountsOK' /\ EntryOK' /\ overrun' \in BOOLEAN
      BY <1>1, <2>3 DEF CountsOK, EntryOK
    <3>2. ReqOK'
      BY <2>1, <2>3 DEF ReqOK
    <3> QED
      BY <2>2, <3>1, <3>2 DEF TypeInv
<1>4. CASE Store(r) \/ cache_profile(r) \/ UpdateMe(r)
  <2>1. req' \in [Requests -> ReqType(db)]
    <3>1. 0 \in 0..db
      BY <1>1
    <3> QED
      BY <1>1, <1>4, <3>1, ReqMoves, ZenonT(30) DEF Store, cache_profile, UpdateMe, ReqOK, ReqPcs
  <2>2. \/ cache' = cache \/ cache' = Nothing
        \/ cache' = [val |-> req[r].val, ttl |-> Ttl]
    BY <1>2, <1>4 DEF Store, cache_profile, UpdateMe
  <2>3. EntryOK'
    <3>1. db' = db
      BY <1>4 DEF Store, cache_profile, UpdateMe
    <3>2. [val |-> req[r].val, ttl |-> Ttl] \in EntryType(db)
      BY <1>2, ReadCacheAssumption DEF ReqType, EntryType
    <3> QED
      BY <1>1, <2>2, <3>1, <3>2, NothingType DEF EntryOK
  <2>4. UNCHANGED <<kind, db, old, lock, pending, overrun>>
    BY <1>4 DEF Store, cache_profile, UpdateMe
  <2> QED
    <3>1. CountsOK' /\ LockOK' /\ overrun' \in BOOLEAN
      BY <1>1, <2>4 DEF CountsOK, LockOK
    <3>2. ReqOK'
      BY <2>1, <2>4 DEF ReqOK
    <3> QED
      BY <2>3, <3>1, <3>2 DEF TypeInv
<1>5. CASE UpdateMeWrite(r)
  <2>1. /\ db' \in Versions /\ db' \in Nat /\ db <= db' /\ pending' <= db'
        /\ UNCHANGED <<kind, old, cache, lock, pending, overrun>>
    <3>1. db \in 0..MaxWrites /\ MaxWrites \in Nat /\ pending \in Nat /\ pending <= db
      BY <1>1, ReadCacheAssumption DEF CountsOK, Versions
    <3>2. UNCHANGED <<kind, old, cache, lock, pending, overrun>>
      BY <1>5 DEF UpdateMeWrite
    <3>3. db' = db \/ (db < MaxWrites /\ db' = db + 1)
      BY <1>5 DEF UpdateMeWrite
    <3> QED
      BY <3>1, <3>2, <3>3 DEF Versions
  <2>2. req' \in [Requests -> ReqType(db)]
    <3>1. Goto(r, "get") \/ Done(r)
      BY <1>5 DEF UpdateMeWrite
    <3>2. "get" \in ReqPcs
      BY DEF ReqPcs
    <3>3. req \in [Requests -> ReqType(db)] /\ db \in Nat
      BY <1>1 DEF ReqOK
    <3> QED
      BY <3>1, <3>2, <3>3, ReqMoves, ZenonT(30)
  <2>3. req' \in [Requests -> ReqType(db')] /\ cache' \in EntryType(db')
    BY <1>1, <2>1, <2>2, Widen DEF EntryOK
  <2> QED
    BY <1>1, <2>1, <2>3 DEF TypeInv, CountsOK, LockOK, ReqOK, EntryOK
<1> QED
  BY <1>3, <1>4, <1>5

\* Writes, deletions and the clock.
LEMMA TypeRest ==
    ASSUME TypeInv, Write \/ Invalidate \/ InvalidateFails \/ Tick
    PROVE  TypeInv'
<1>1. CountsOK /\ EntryOK /\ ReqOK /\ LockOK /\ overrun \in BOOLEAN /\ db \in Nat
  BY ReadCacheAssumption DEF TypeInv, CountsOK, Versions
<1>2. CASE Write
  <2>1. /\ db' \in Versions /\ db' \in Nat /\ db <= db' /\ pending' \in 0..MaxWrites /\ pending' <= db'
        /\ UNCHANGED <<kind, old, cache, lock, req, overrun>>
    BY <1>1, <1>2, ReadCacheAssumption DEF Write, CountsOK, Versions
  <2>2. req' \in [Requests -> ReqType(db')] /\ cache' \in EntryType(db')
    BY <1>1, <2>1, Widen DEF EntryOK, ReqOK
  <2> QED
    BY <1>1, <2>1, <2>2 DEF TypeInv, CountsOK, LockOK, ReqOK, EntryOK
<1>3. CASE Invalidate \/ InvalidateFails
  <2>1. /\ pending' \in 0..MaxWrites /\ pending' <= db
        /\ UNCHANGED <<kind, db, old, lock, req, overrun>>
    BY <1>1, <1>3, ReadCacheAssumption DEF Invalidate, InvalidateFails, CountsOK, Versions
  <2>2. cache' \in EntryType(db)
    BY <1>1, <1>3, NothingType DEF Invalidate, InvalidateFails, EntryOK
  <2> QED
    BY <1>1, <2>1, <2>2 DEF TypeInv, CountsOK, LockOK, ReqOK, EntryOK
<1>4. CASE Tick
  <2>1. cache' \in EntryType(db)
    <3>1. cache.ttl # 0 => [cache EXCEPT !.ttl = cache.ttl - 1] \in EntryType(db)
      BY <1>1, ReadCacheAssumption DEF EntryOK, EntryType
    <3>2. cache' = Nothing \/ (cache.ttl # 0 /\ cache' = [cache EXCEPT !.ttl = cache.ttl - 1])
      BY <1>4 DEF Tick, Decay
    <3> QED
      BY <1>1, <3>1, <3>2, NothingType
  <2>2. LockOK'
    <3>1. lock.ttl \in 0..LockTtl
      BY <1>1 DEF LockOK
    <3>2. CASE lock.ttl <= 1
      BY <1>4, <3>2, ReadCacheAssumption DEF Tick, LockOK
    <3>3. CASE lock.ttl > 1
      <4>1. lock' = [lock EXCEPT !.ttl = lock.ttl - 1]
        BY <1>4, <3>1, <3>3 DEF Tick
      <4> QED
        BY <1>1, <3>1, <3>3, <4>1, ReadCacheAssumption DEF LockOK
    <3> QED
      BY <3>1, <3>2, <3>3, ReadCacheAssumption
  <2>3. old' \in [Versions -> 0..MaxAge]
    BY <1>1, <1>4, ReadCacheAssumption DEF Tick, CountsOK, Versions, MaxAge
  <2>4. UNCHANGED <<kind, db, req, pending>> /\ overrun' \in BOOLEAN
    BY <1>4 DEF Tick
  <2> QED
    BY <1>1, <2>1, <2>2, <2>3, <2>4 DEF TypeInv, CountsOK, ReqOK, EntryOK
<1> QED
  BY <1>2, <1>3, <1>4

\* Any step.
LEMMA TypeNext == TypeInv /\ [Next]_vars => TypeInv'
<1> SUFFICES ASSUME TypeInv, [Next]_vars PROVE TypeInv'
  OBVIOUS
<1>1. CASE UNCHANGED vars
  BY <1>1 DEF TypeInv, CountsOK, EntryOK, ReqOK, LockOK, vars
<1>2. CASE Next
  BY <1>2, TypeQuiet, TypeLoud, TypeRest DEF Next, Step, Quietly
<1> QED
  BY <1>1, <1>2

\* Entry, lock and requests keep their types: a request never retries more than
\* LOCK_MAX_RETRIES times and a lock is one request's.
THEOREM TypeCorrect == Spec => []TypeOK
BY TypeParts, TypeInit, TypeNext, PTL DEF Spec

-----------------------------------------------------------------------------
(* How old what is fetched and stored gets *)

\* The current version has not been superseded.
FreshInv == \A v \in Versions : v >= db => old[v] = 0

\* Only profiles are read without the lock.
PathInv == Coalesced => \A r \in Requests : req[r].pc \notin {"read", "keep", "update"}

\* Until a lock runs out under its holder, whoever has won it still has it.
FlightInv == ~overrun => \A r \in Winning : lock.by = {r}

\* What has been fetched is no older than the time its lock has lived.
FetchedInv ==
    ~overrun => \A r \in Requests :
                   req[r].pc = "store" => old[req[r].val] + lock.ttl <= LockTtl

\* What is stored is younger than a whole lock and the time the entry has lived.
StoredInv ==
    ~overrun /\ Coalesced /\ cache.ttl # 0 => old[cache.val] + cache.ttl < MaxAge

AgeInv == TypeInv /\ FreshInv /\ PathInv /\ FlightInv /\ FetchedInv /\ StoredInv

\* At the start nobody fetches and nothing is stored.
LEMMA AgeInit == Init => AgeInv
<1> SUFFICES ASSUME Init PROVE AgeInv
  OBVIOUS
<1>1. TypeInv
  BY TypeInit
<1>2. \A r \in Requests : req[r].pc = "idle"
  BY DEF Init, Idle
<1>3. cache.ttl = 0
  BY DEF Init, Nothing
<1>4. FreshInv
  BY DEF Init, FreshInv
<1>5. PathInv /\ FlightInv /\ FetchedInv
  BY <1>2 DEF PathInv, FlightInv, FetchedInv, Winning
<1>6. StoredInv
  BY <1>3 DEF StoredInv
<1> QED
  BY <1>1, <1>4, <1>5, <1>6 DEF AgeInv

\* What the types say in the terms of the argument.
LEMMA AgeTypes ==
    ASSUME TypeInv
    PROVE  /\ db \in Nat /\ db \in Versions /\ old \in [Versions -> Nat]
           /\ lock.ttl \in Nat /\ lock.ttl <= LockTtl /\ (lock.ttl = 0 <=> lock.by = {})
           /\ cache.ttl \in Nat /\ cache.ttl <= Ttl /\ cache.val \in Versions /\ cache.val <= db
           /\ \A r \in Requests : req[r].val \in Versions /\ req[r].val <= db
           /\ overrun \in BOOLEAN
           /\ LockTtl \in Nat \ {0} /\ Ttl \in Nat \ {0} /\ MaxAge = Ttl + LockTtl
<1>1. db \in Nat /\ db \in Versions /\ old \in [Versions -> Nat] /\ db <= MaxWrites
  BY ReadCacheAssumption DEF TypeInv, CountsOK, Versions, MaxAge
<1>2. lock.ttl \in Nat /\ lock.ttl <= LockTtl /\ (lock.ttl = 0 <=> lock.by = {})
  BY ReadCacheAssumption DEF TypeInv, LockOK
<1>3. cache.ttl \in Nat /\ cache.ttl <= Ttl /\ cache.val \in Versions /\ cache.val <= db
  BY <1>1, ReadCacheAssumption DEF TypeInv, EntryOK, EntryType, Versions
<1>4. \A r \in Requests : req[r].val \in Versions /\ req[r].val <= db
  BY <1>1, ReadCacheAssumption DEF TypeInv, ReqOK, ReqType, Versions
<1> QED
  BY <1>1, <1>2, <1>3, <1>4, ReadCacheAssumption DEF TypeInv, MaxAge

\* What Goto and Done do to the requests.
LEMMA ReqEffects ==
    ASSUME TypeInv, NEW r \in Requests
    PROVE  /\ \A pc : Goto(r, pc) => /\ \A q \in Requests \ {r} : req'[q] = req[q]
                                    /\ req'[r].pc = pc /\ req'[r].val = req[r].val
           /\ Done(r) => /\ \A q \in Requests \ {r} : req'[q] = req[q]
                         /\ req'[r].pc = "idle"
<1>1. req \in [Requests -> ReqType(db)] /\ req[r] \in ReqType(db)
  BY DEF TypeInv, ReqOK
<1>2. ASSUME NEW pc, Goto(r, pc)
      PROVE  /\ \A q \in Requests \ {r} : req'[q] = req[q]
             /\ req'[r].pc = pc /\ req'[r].val = req[r].val
  BY <1>1, <1>2 DEF Goto, ReqType
<1>3. ASSUME Done(r)
      PROVE  (\A q \in Requests \ {r} : req'[q] = req[q]) /\ req'[r].pc = "idle"
  BY <1>1, <1>3 DEF Done, Idle
<1> QED
  BY <1>2, <1>3

\* A step that leaves lock and ages alone, starts no fetch and stores nothing
\* behind the lock.
LEMMA AgeAside ==
    ASSUME AgeInv, TypeInv',
           kind' = kind, old' = old, lock' = lock, overrun' = overrun, db' >= db,
           cache' = cache \/ cache'.ttl = 0 \/ ~Coalesced,
           \A q \in Requests : \/ req'[q] = req[q]
                               \/ req'[q].pc \in {"idle", "get", "lock", "wait", "direct"}
                               \/ req'[q].pc \in {"read", "keep", "update"} /\ ~Coalesced
    PROVE  AgeInv'
<1>0. db \in Nat /\ db' \in Nat /\ \A v \in Versions : v \in Nat
  BY AgeTypes, ReadCacheAssumption DEF AgeInv, TypeInv, CountsOK, Versions
<1>1. FreshInv'
  BY <1>0 DEF AgeInv, FreshInv
<1>2. PathInv'
  BY DEF AgeInv, PathInv, Coalesced
<1>3. FlightInv'
  BY DEF AgeInv, FlightInv, Winning
<1>4. FetchedInv'
  BY DEF AgeInv, FetchedInv
<1>5. StoredInv'
  BY DEF AgeInv, StoredInv, Coalesced, MaxAge
<1> QED
  BY <1>1, <1>2, <1>3, <1>4, <1>5 DEF AgeInv

\* A lock that is set was free, so nobody was holding it.
LEMMA AgeLock ==
    ASSUME AgeInv, TypeInv', NEW r \in Requests,
           req[r].pc = "lock", lock.ttl = 0, Goto(r, "fetch") \/ Goto(r, "wait"),
           lock' = [ttl |-> LockTtl, by |-> {r}],
           UNCHANGED <<kind, db, old, cache, pending, overrun>>
    PROVE  AgeInv'
<1> USE DEF AgeInv
<1>1. (\A q \in Requests \ {r} : req'[q] = req[q]) /\ req'[r].pc \in {"fetch", "wait"}
  BY ReqEffects
<1>2. ~overrun => \A q \in Requests : req[q].pc \notin {"fetch", "store", "release"}
  BY AgeTypes DEF FlightInv, Winning
<1>3. FreshInv'
  BY DEF FreshInv
<1>4. PathInv'
  BY <1>1 DEF PathInv, Coalesced
<1>5. FlightInv' /\ FetchedInv'
  BY <1>1, <1>2 DEF FlightInv, FetchedInv, Winning
<1>6. StoredInv'
  BY DEF StoredInv, Coalesced, MaxAge
<1> QED
  BY <1>3, <1>4, <1>5, <1>6

\* What is fetched is current.
LEMMA AgeFetch ==
    ASSUME AgeInv, TypeInv', NEW r \in Requests, Fetch(r)
    PROVE  AgeInv'
<1> USE DEF AgeInv
<1>0. req \in [Requests -> ReqType(db)] /\ req[r] \in ReqType(db)
  BY DEF TypeInv, ReqOK
<1>1. /\ \A q \in Requests \ {r} : req'[q] = req[q]
      /\ req'[r].pc = "store" /\ req'[r].val = db /\ req[r].pc = "fetch"
  BY <1>0 DEF Fetch, ReqType
<1>2. UNCHANGED <<kind, db, old, cache, lock, pending, overrun>>
  BY DEF Fetch
<1>3. FreshInv'
  BY <1>2 DEF FreshInv
<1>4. PathInv'
  BY <1>1, <1>2 DEF PathInv, Coalesced
<1>5. FlightInv'
  BY <1>1, <1>2 DEF FlightInv, Winning
<1>6. old[db] = 0
  BY AgeTypes DEF FreshInv
<1>7. FetchedInv'
  BY <1>1, <1>2, <1>6, AgeTypes DEF FetchedInv
<1>8. StoredInv'
  BY <1>2 DEF StoredInv, Coalesced, MaxAge
<1> QED
  BY <1>3, <1>4, <1>5, <1>7, <1>8

\* What is stored is as old as what was fetched.
LEMMA AgeStore ==
    ASSUME AgeInv, TypeInv', NEW r \in Requests, Store(r)
    PROVE  AgeInv'
<1> USE DEF AgeInv
<1>0. req \in [Requests -> ReqType(db)]
  BY DEF TypeInv, ReqOK
<1>1. /\ \A q \in Requests \ {r} : req'[q] = req[q]
      /\ req'[r].pc = "release" /\ req[r].pc = "store"
  BY <1>0 DEF Store, ReqType
<1>2. UNCHANGED <<kind, db, old, lock, pending, overrun>>
  BY DEF Store
<1>3. FreshInv'
  BY <1>2 DEF FreshInv
<1>4. PathInv'
  BY <1>1, <1>2 DEF PathInv, Coalesced
<1>5. FlightInv' /\ FetchedInv'
  BY <1>1, <1>2 DEF FlightInv, FetchedInv, Winning
<1>6. cache' = cache \/ (cache'.val = req[r].val /\ cache'.ttl = Ttl)
  BY DEF Store
<1>7. ~overrun => old[req[r].val] + lock.ttl <= LockTtl /\ lock.ttl # 0
  <2>1. ~overrun => lock.by = {r}
    BY <1>1 DEF FlightInv, Winning
  <2> QED
    BY <1>1, <2>1, AgeTypes DEF FetchedInv
<1>8. StoredInv'
  <2>1. old[req[r].val] \in Nat /\ lock.ttl \in Nat /\ LockTtl \in Nat /\ Ttl \in Nat
    BY AgeTypes
  <2>2. CASE cache' = cache
    BY <1>2, <2>2 DEF StoredInv, Coalesced, MaxAge
  <2>3. CASE cache'.val = req[r].val /\ cache'.ttl = Ttl
    <3>1. ~overrun => old[req[r].val] + Ttl < Ttl + LockTtl
      BY <1>7, <2>1
    <3> QED
      BY <1>2, <2>3, <3>1 DEF StoredInv, MaxAge
  <2> QED
    BY <1>6, <2>2, <2>3
<1> QED
  BY <1>3, <1>4, <1>5, <1>8

\* A release deletes the releaser's own lock as long as no lock has run out.
LEMMA AgeRelease ==
    ASSUME AgeInv, TypeInv', NEW r \in Requests, release_lock(r)
    PROVE  AgeInv'
<1> USE DEF AgeInv
<1>1. /\ \A q \in Requests \ {r} : req'[q] = req[q]
      /\ req'[r].pc = "idle" /\ req[r].pc = "release"
  BY ReqEffects DEF release_lock
<1>2. UNCHANGED <<kind, db, old, cache, pending, overrun>>
  BY DEF release_lock
<1>3. ~overrun => \A q \in Requests \ {r} : req[q].pc \notin {"fetch", "store", "release"}
  BY <1>1 DEF FlightInv, Winning
<1>4. FreshInv'
  BY <1>2 DEF FreshInv
<1>5. PathInv'
  BY <1>1, <1>2 DEF PathInv, Coalesced
<1>6. FlightInv' /\ FetchedInv'
  BY <1>1, <1>2, <1>3 DEF FlightInv, FetchedInv, Winning
<1>7. StoredInv'
  BY <1>2 DEF StoredInv, Coalesced, MaxAge
<1> QED
  BY <1>4, <1>5, <1>6, <1>7

\* As time passes versions grow older and lifetimes shorter, by the same tick.
LEMMA AgeTick ==
    ASSUME AgeInv, TypeInv', Tick
    PROVE  AgeInv'
<1> USE DEF AgeInv
<1>1. UNCHANGED <<kind, db, req, pending>>
  BY DEF Tick
<1>2. /\ \A v \in Versions : old'[v] <= old[v] + 1 /\ old'[v] \in Nat
      /\ \A v \in Versions : v >= db => old'[v] = old[v]
  BY AgeTypes DEF Tick, Versions
<1>3. FreshInv'
  BY <1>1, <1>2 DEF FreshInv
<1>4. PathInv'
  BY <1>1 DEF PathInv, Coalesced
<1>5. ASSUME ~overrun', NEW r \in Requests, req[r].pc \in {"fetch", "store", "release"}
      PROVE  ~overrun /\ lock'.by = {r} /\ lock'.ttl = lock.ttl - 1
  <2>1. ~overrun /\ ~(lock.ttl = 1 /\ lock.by \cap Winning # {})
    BY <1>5 DEF Tick
  <2>2. r \in Winning /\ lock.by = {r}
    BY <1>5, <2>1 DEF FlightInv, Winning
  <2>3. lock.ttl > 1
    BY <2>1, <2>2, AgeTypes
  <2>4. lock' = [lock EXCEPT !.ttl = lock.ttl - 1]
    BY <2>3, AgeTypes DEF Tick
  <2>5. lock \in [ttl : 0..LockTtl, by : SUBSET Requests]
    BY DEF TypeInv, LockOK
  <2> QED
    BY <2>1, <2>2, <2>4, <2>5
<1>6. FlightInv'
  BY <1>1, <1>5 DEF FlightInv, Winning
<1>7. FetchedInv'
  <2>1. SUFFICES ASSUME ~overrun', NEW r \in Requests, req[r].pc = "store"
                 PROVE  old'[req[r].val] + lock'.ttl <= LockTtl
    BY <1>1 DEF FetchedInv
  <2>2. ~overrun /\ lock'.ttl = lock.ttl - 1
    BY <1>5, <2>1
  <2>3. old[req[r].val] + lock.ttl <= LockTtl
    BY <2>1, <2>2 DEF FetchedInv
  <2>4. old'[req[r].val] <= old[req[r].val] + 1 /\ old'[req[r].val] \in Nat /\ old[req[r].val] \in Nat
    BY <1>2, AgeTypes
  <2> QED
    BY <2>2, <2>3, <2>4, AgeTypes
<1>8. StoredInv'
  <2>1. SUFFICES ASSUME ~overrun', Coalesced, cache'.ttl # 0
                 PROVE  old'[cache'.val] + cache'.ttl < MaxAge
    BY <1>1 DEF StoredInv, Coalesced, MaxAge
  <2>2. cache \in EntryType(db)
    BY DEF TypeInv, EntryOK
  <2>3. ~overrun
    BY <2>1 DEF Tick
  <2>4. cache.ttl # 0 /\ cache' = [cache EXCEPT !.ttl = cache.ttl - 1]
    BY <2>1 DEF Tick, Decay, Nothing
  <2>5. cache'.val = cache.val /\ cache'.ttl = cache.ttl - 1
    BY <2>2, <2>4 DEF EntryType
  <2>6. old[cache.val] + cache.ttl < MaxAge
    BY <2>1, <2>3, <2>4 DEF StoredInv
  <2>7. old'[cache.val] <= old[cache.val] + 1 /\ old'[cache.val] \in Nat /\ old[cache.val] \in Nat
    BY <1>2, AgeTypes
  <2> QED
    BY <2>5, <2>6, <2>7, AgeTypes
<1> QED
  BY <1>3, <1>4, <1>6, <1>7, <1>8

\* Any step.
LEMMA AgeNext == AgeInv /\ [Next]_vars => AgeInv'
<1> SUFFICES ASSUME AgeInv, [Next]_vars PROVE AgeInv'
  OBVIOUS
<1>0. TypeInv /\ TypeInv' /\ db \in Nat
  BY TypeNext, AgeTypes DEF AgeInv
<1>1. CASE UNCHANGED vars
  BY <1>0, <1>1, AgeAside DEF vars
<1>2. CASE Write \/ Invalidate \/ InvalidateFails
  BY <1>0, <1>2, AgeAside DEF Write, Invalidate, InvalidateFails, Nothing
<1>3. CASE Tick
  BY <1>0, <1>3, AgeTick
<1>4. ASSUME NEW r \in Requests, Step(r) \/ Start(r) \/ UpdateMe(r) \/ Abandon(r)
      PROVE  AgeInv'
  <2>0. req \in [Requests -> ReqType(db)]
    BY <1>0 DEF TypeInv, ReqOK
  <2>1. CASE Get(r) \/ GetFails(r) \/ FetchFails(r) \/ Direct(r) \/ Abandon(r)
    BY <1>0, <2>1, ReqEffects, AgeAside DEF Get, GetFails, FetchFails, Direct, Abandon
  <2>2. CASE Wait(r)
    <3>1. \A q \in Requests : req'[q] = req[q] \/ req'[q].pc \in {"idle", "wait", "direct"}
      <4>1. CASE req' = [req EXCEPT ![r].tries = @ + 1]
        BY <2>0, <2>2, <4>1 DEF Wait, ReqType
      <4> QED
        BY <1>0, <2>2, <4>1, ReqEffects DEF Wait
    <3> QED
      BY <1>0, <2>2, <3>1, AgeAside DEF Wait
  <2>3. CASE Start(r)
    <3>1. \A q \in Requests : req'[q] = req[q] \/ req'[q].pc = "get"
      BY <1>0, <2>3, ReqEffects DEF Start
    <3> QED
      BY <1>0, <2>3, <3>1, AgeAside DEF Start
  <2>4. CASE ReadProfile(r)
    <3>1. ~Coalesced
      BY <2>4 DEF ReadProfile, AgeInv, PathInv
    <3>2. \A q \in Requests : req'[q] = req[q] \/ req'[q].pc = "keep"
      BY <2>0, <2>4 DEF ReadProfile, ReqType
    <3>3. /\ kind' = kind /\ old' = old /\ lock' = lock /\ overrun' = overrun
          /\ db' >= db /\ cache' = cache
      BY <1>0, <2>4 DEF ReadProfile
    <3> QED
      BY <1>0, <3>1, <3>2, <3>3, AgeAside
  <2>5. CASE cache_profile(r)
    <3>1. ~Coalesced
      BY <2>5 DEF cache_profile, AgeInv, PathInv
    <3> QED
      BY <1>0, <2>5, <3>1, ReqEffects, AgeAside DEF cache_profile
  <2>6. CASE UpdateMe(r)
    <3>1. \A q \in Requests : req'[q] = req[q] \/ req'[q].pc = "update"
      BY <1>0, <2>6, ReqEffects DEF UpdateMe
    <3> QED
      BY <1>0, <2>6, <3>1, AgeAside DEF UpdateMe, Nothing, Coalesced
  <2>7. CASE UpdateMeWrite(r)
    BY <1>0, <2>7, ReqEffects, AgeAside DEF UpdateMeWrite
  <2>8. CASE try_acquire_lock(r)
    <3>1. CASE lock.ttl = 0 /\ (Goto(r, "fetch") \/ Goto(r, "wait")) /\ lock' = [ttl |-> LockTtl, by |-> {r}]
      BY <1>0, <2>8, <3>1, AgeLock DEF try_acquire_lock
    <3>2. CASE Goto(r, "wait") /\ UNCHANGED lock
      BY <1>0, <2>8, <3>2, ReqEffects, AgeAside DEF try_acquire_lock
    <3> QED
      BY <2>8, <3>1, <3>2 DEF try_acquire_lock
  <2> QED
    BY <1>0, <1>4, <2>1, <2>2, <2>3, <2>4, <2>5, <2>6, <2>7, <2>8, AgeFetch, AgeStore, AgeRelease
       DEF Step
<1> QED
  BY <1>1, <1>2, <1>3, <1>4 DEF Next

\* What a coalesced key holds is gone before LOCK_TTL_SECS and the lifetime of an
\* entry have passed since a write superseded it, however the fetches of winners
\* and of those that gave up waiting, writes, lost deletions and expiries
\* interleave, as long as no lock runs out under its holder.
THEOREM StaleCorrect == Spec => []StaleBounded
<1>1. AgeInv => StaleBounded
  BY DEF AgeInv, StoredInv, StaleBounded
<1> QED
  BY <1>1, AgeInit, AgeNext, PTL DEF Spec
=============================================================================
