----------------------------- MODULE ReadCache -----------------------------
(* Values of the database kept in Redis: coalesce_cache, where the request that *)
(* wins a lock fetches and stores while the others wait for the entry and fetch *)
(* for themselves when it does not come, and the profiles, read and stored      *)
(* without a lock.  One key is modelled; its value is a version number.         *)
EXTENDS Naturals, FiniteSets

CONSTANTS Requests,     \* requests that may read at the same time
          Ttl,          \* ticks an entry lives
          LockTtl,      \* ticks a lock lives (LOCK_TTL_SECS)
          MaxRetries,   \* looks at the cache before giving up (LOCK_MAX_RETRIES)
          MaxWrites     \* bound on the writes of a behaviour

ASSUME ReadCacheAssumption ==
    /\ IsFiniteSet(Requests)
    /\ {Ttl, LockTtl, MaxRetries} \subseteq Nat \ {0} /\ MaxWrites \in Nat

\* A broadcast or a page of messages, whose writers delete the key; a list of
\* broadcasts, whose writers delete keys of other names ("bl:*", "home:*", "pl:*"
\* where the key is "bc:..."); a profile.
Kinds == {"item", "list", "profile"}

VARIABLES kind, db,     \* the kind of the key; the version in the database
          old,          \* ticks since a version was superseded, up to MaxAge
          cache,        \* the entry: version and time to live (0: none)
          lock,         \* the lock: time to live (0: free) and who set it
          req,          \* the requests
          pending,      \* deletions a write has still to make
          overrun       \* a lock has run out under a request that was still fetching

vars == <<kind, db, old, cache, lock, req, pending, overrun>>

Versions == 0..MaxWrites
MaxAge == Ttl + LockTtl

Nothing == [val |-> 0, ttl |-> 0]
Idle == [pc |-> "idle", val |-> 0, tries |-> 0]
Goto(r, pc) == req' = [req EXCEPT ![r].pc = pc]
Done(r) == req' = [req EXCEPT ![r] = Idle]
Coalesced == kind # "profile"

Init ==
    /\ kind \in Kinds /\ db = 0 /\ old = [v \in Versions |-> 0]
    /\ cache = Nothing /\ lock = [ttl |-> 0, by |-> {}]
    /\ req = [r \in Requests |-> Idle]
    /\ pending = 0 /\ overrun = FALSE

-----------------------------------------------------------------------------
(* Reading *)

Start(r) ==
    /\ req[r].pc = "idle" /\ Goto(r, "get")
    /\ UNCHANGED <<kind, db, old, cache, lock, pending, overrun>>

\* A hit ends the request.  One's own profile (get_me) and the public one
\* (get_user_by_id) have the same key and neither decodes as the other: the
\* request that meets the other one fails, and has ended too.
Get(r) ==
    /\ req[r].pc = "get"
    /\ IF cache.ttl # 0 THEN Done(r) ELSE Goto(r, IF Coalesced THEN "lock" ELSE "read")
    /\ UNCHANGED <<kind, db, old, cache, lock, pending, overrun>>

\* A Redis command that fails is a miss to coalesce_cache.
GetFails(r) ==
    /\ req[r].pc = "get" /\ Coalesced /\ Goto(r, "lock")
    /\ UNCHANGED <<kind, db, old, cache, lock, pending, overrun>>

\* SET NX EX; a command that fails counts as a lock held by somebody else, and
\* may have set the lock all the same.
try_acquire_lock(r) ==
    /\ req[r].pc = "lock"
    /\ \/ /\ lock.ttl = 0 /\ lock' = [ttl |-> LockTtl, by |-> {r}]
          /\ Goto(r, "fetch") \/ Goto(r, "wait")
       \/ Goto(r, "wait") /\ UNCHANGED lock
    /\ UNCHANGED <<kind, db, old, cache, pending, overrun>>

FetchReleases(r) ==
    /\ req[r].pc = "fetch" /\ req' = [req EXCEPT ![r].pc = "store", ![r].val = db]
    /\ lock' = [ttl |-> 0, by |-> {}]
    /\ UNCHANGED <<kind, db, old, cache, pending, overrun>>

\* The winner reads the database and answers; a spawned task stores and releases.
Fetch(r) ==
    /\ req[r].pc = "fetch" /\ req' = [req EXCEPT ![r].pc = "store", ![r].val = db]
    /\ UNCHANGED <<kind, db, old, cache, lock, pending, overrun>>

\* The read of the database fails, or the client is gone: the lock stays.
FetchFails(r) ==
    /\ req[r].pc = "fetch" /\ Done(r)
    /\ UNCHANGED <<kind, db, old, cache, lock, pending, overrun>>

\* SET EX, if Redis takes it.
Store(r) ==
    /\ req[r].pc = "store" /\ req' = [req EXCEPT ![r].pc = "release", ![r].val = 0]
    /\ cache' \in {cache, [val |-> req[r].val, ttl |-> Ttl]}
    /\ UNCHANGED <<kind, db, old, lock, pending, overrun>>

\* DEL of the lock, whoever holds it by now.
release_lock(r) ==
    /\ req[r].pc = "release" /\ Done(r)
    /\ lock' \in {lock, [ttl |-> 0, by |-> {}]}
    /\ UNCHANGED <<kind, db, old, cache, pending, overrun>>

WaitForever(r) ==
    /\ req[r].pc = "wait" /\ cache.ttl # 0 /\ Done(r)
    /\ UNCHANGED <<kind, db, old, cache, lock, pending, overrun>>

\* The others look at the cache MaxRetries times; a command that fails is a miss.
Wait(r) ==
    /\ req[r].pc = "wait"
    /\ \/ cache.ttl # 0 /\ Done(r)
       \/ IF req[r].tries + 1 = MaxRetries THEN Goto(r, "direct")
          ELSE req' = [req EXCEPT ![r].tries = @ + 1]
    /\ UNCHANGED <<kind, db, old, cache, lock, pending, overrun>>

\* The fallback: whoever has given up waiting fetches too, beside the winner and
\* the others that gave up, and stores nothing.
Direct(r) ==
    /\ req[r].pc = "direct" /\ Done(r)
    /\ UNCHANGED <<kind, db, old, cache, lock, pending, overrun>>

\* get_me and get_user_by_id after a miss: no lock is taken.
ReadProfile(r) ==
    /\ req[r].pc = "read" /\ req' = [req EXCEPT ![r].pc = "keep", ![r].val = db]
    /\ UNCHANGED <<kind, db, old, cache, lock, pending, overrun>>

\* cache_me and cache_profile; the request fails if Redis does.
cache_profile(r) ==
    /\ req[r].pc = "keep" /\ Done(r)
    /\ cache' \in {cache, [val |-> req[r].val, ttl |-> Ttl]}
    /\ UNCHANGED <<kind, db, old, lock, pending, overrun>>

\* The instance stops, or the client of a request that has not been answered yet
\* goes away.
Abandon(r) ==
    /\ req[r].pc # "idle" /\ Done(r)
    /\ UNCHANGED <<kind, db, old, cache, lock, pending, overrun>>

-----------------------------------------------------------------------------
(* Writing *)

\* A write, and then the deletion of the key: spawned after a write to a broadcast
\* or its messages, awaited in the settings.
Write ==
    /\ db < MaxWrites /\ db' = db + 1 /\ pending' = pending + 1
    /\ UNCHANGED <<kind, old, cache, lock, req, overrun>>

Invalidate ==
    /\ pending > 0 /\ pending' = pending - 1
    /\ cache' = IF kind = "list" THEN cache ELSE Nothing
    /\ UNCHANGED <<kind, db, old, lock, req, overrun>>

\* An error is logged and forgotten.
InvalidateFails ==
    /\ pending > 0 /\ pending' = pending - 1
    /\ UNCHANGED <<kind, db, old, cache, lock, req, overrun>>

\* update_me deletes the key first, writes afterwards, and answers what get_me does.
UpdateMe(r) ==
    /\ req[r].pc = "idle" /\ kind = "profile" /\ db < MaxWrites
    /\ Goto(r, "update") /\ cache' = Nothing
    /\ UNCHANGED <<kind, db, old, lock, pending, overrun>>

\* A write that fails ends it.
UpdateMeWrite(r) ==
    /\ req[r].pc = "update"
    /\ \/ db < MaxWrites /\ db' = db + 1 /\ Goto(r, "get")
       \/ db' = db /\ Done(r)
    /\ UNCHANGED <<kind, old, cache, lock, pending, overrun>>

-----------------------------------------------------------------------------
(* Time *)

DecayNotProfiles(ttl) == IF ttl = 0 \/ ~Coalesced THEN ttl ELSE ttl - 1
Decay(ttl) == IF ttl = 0 THEN 0 ELSE ttl - 1

\* Those that have won the lock and not released it yet; requests that fetch in
\* the fallback are not among them, and hold nothing.
Winning == {r \in Requests : req[r].pc \in {"fetch", "store", "release"}}

Tick ==
    /\ cache' = IF Decay(cache.ttl) = 0 THEN Nothing ELSE [cache EXCEPT !.ttl = Decay(@)]
    /\ lock' = IF lock.ttl <= 1 THEN [ttl |-> 0, by |-> {}] ELSE [lock EXCEPT !.ttl = @ - 1]
    /\ overrun' = (overrun \/ (lock.ttl = 1 /\ lock.by \cap Winning # {}))
    /\ old' = [v \in Versions |-> IF v < db /\ old[v] < MaxAge THEN old[v] + 1 ELSE old[v]]
    /\ UNCHANGED <<kind, db, req, pending>>

Step(r) ==
    \/ Get(r) \/ GetFails(r) \/ try_acquire_lock(r) \/ Fetch(r) \/ FetchFails(r) \/ Store(r)
    \/ release_lock(r) \/ Wait(r) \/ Direct(r) \/ ReadProfile(r) \/ cache_profile(r)
    \/ UpdateMeWrite(r)

Next ==
    \/ \E r \in Requests : Step(r) \/ Start(r) \/ UpdateMe(r) \/ Abandon(r)
    \/ Write \/ Invalidate \/ InvalidateFails \/ Tick

Spec == Init /\ [][Next]_vars

\* A request that has started goes on (Tokio polls it), and time passes.
Fairness == WF_vars(Tick) /\ \A r \in Requests : WF_vars(Step(r))

FairSpec == Spec /\ Fairness

-----------------------------------------------------------------------------
(* Properties *)

\* Types; a lock is set by one request, and what is stored exists.
TypeOK ==
    /\ kind \in Kinds /\ db \in Versions /\ old \in [Versions -> 0..MaxAge]
    /\ cache \in [val : 0..db, ttl : 0..Ttl]
    /\ lock \in [ttl : 0..LockTtl, by : SUBSET Requests] /\ (lock.ttl # 0 <=> lock.by # {})
    /\ req \in [Requests -> [pc : {"idle", "get", "lock", "fetch", "store", "release", "wait",
                                   "direct", "read", "keep", "update"},
                             val : 0..db, tries : 0..(MaxRetries - 1)]]
    /\ pending \in 0..MaxWrites /\ overrun \in BOOLEAN

\* As long as no fetch outlives its lock, what a coalesced key holds will be gone
\* before the lifetime of a lock and that of an entry have passed since a write
\* superseded it: a fetch that started before the write and is stored after the
\* deletion does not stay longer.
StaleBounded ==
    ~overrun /\ Coalesced /\ cache.ttl # 0 => old[cache.val] + cache.ttl < MaxAge

\* A request that waits for another one's fetch is answered, even when that one
\* has stopped and left its lock behind.
Answered == \A r \in Requests : req[r].pc = "wait" ~> req[r].pc # "wait"

\* When the writes have come to an end the cache does too: from some time on it
\* holds the current version or nothing, although deletions are lost, come
\* before the write (update_me) or before an older fetch is stored, or name
\* other keys.
Converges == <>[](cache.ttl # 0 => cache.val = db)
=============================================================================
