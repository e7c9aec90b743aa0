# Verification of the Meno API

Meno is a live audio service. Hosts start broadcasts, listeners join, hosts promote
cohosts, and people keep notes on what they heard. The API (`apps/api`) is an axum
server that runs as several instances over one Postgres database, one Redis and one
LiveKit server; apalis workers run background jobs from Postgres queues, and
WebSocket connections get events that travel between instances over Redis pub/sub.

This directory holds TLA+ models of the API's protocols, the TLC runs that check them
on small instances, and TLAPS proofs for every value of their constants. Paths below are
relative to `apps/api/src`. The repository has no tests and no prose documentation, so
what the code is meant to do comes from doc comments, error texts and the schema.

## Inventory

| part | state | operations | hard because | what makes it correct | module |
|---|---|---|---|---|---|
| broadcast life cycle (`modules/broadcast`) | tables `broadcasts`, `broadcast_participants`, `broadcast_cohosts`; Redis `live_count`; LiveKit room | create, update, delete, start, end, join, leave, add_cohost, remove_cohost | every operation reads, decides, and commits without a lock or a re-check; effects after the commit run in spawned tasks | the host stays the host, roles match tables, an ended broadcast has nobody in it; requests that do not overlap act atomically | `Broadcast`, `Session` |
| host grace period (`shared/services/ws/handlers.rs`, `jobs/broadcast_jobs.rs`) | `host_grace` key with TTL, queued jobs, `is_host` of each connection | handle_reconnect, handle_disconnect, end_broadcast | reconnect, worker, expiry, end and restart race on one key | listeners are told of a return once per period | `HostGrace` |
| circuit breaker (`shared/services/livekit`) | three atomics and a mutex | check, on_success, on_failure | lock-free and shared by all requests | opens when LiveKit stays down, closes when it stays up, counts no success twice | `CircuitBreaker` |
| WebSocket hub and pub/sub bridge (`shared/services/ws`) | connection map, local rooms, subscriptions, channels, message buffers | register, unregister, join_room, leave_room, publish, the subscriber loop, buffer, drain | map guards dropped between check and remove, or kept across an await; three ways for one message | no PUBLISH is seen twice or out of order, no registration outlives its connection | `WsHub`, `Mailbox` |
| tokens (`modules/auth/token.rs`, `shared/middleware/auth.rs`) | `refresh_tokens`, two Redis blocklists, a clock | issue_pair, rotate, revoke, revoke_all_for_user, the middleware, cleanup job | rotation not conditional on its read; blocklist keys must outlive tokens | ended stays ended, nothing else ends a session | `Sessions` |
| accounts (`modules/auth`) | users, identities, codes, counters, OAuth state | register, verify, resend, login, forgot and reset password, Google sign-in | several statements without a transaction; two commands per counter | a code serves only its purpose, "verified" is proved, nobody is locked out for ever | `Accounts` |
| notes (`modules/notes`) | notes and folders with versions, stamps and tombstones | REST writes, sync_push, sync_pull, purge job | optimistic lock, reads outside the transaction, timestamps as cursors | an update is lost only where a device forces an item it made itself, a version names one state, a pull misses nothing but late commits | `Notes`, `Replica` |
| lists (`shared/pagination.rs` and every repository) | rows, cached pages, cursors | every paginated endpoint | cursor condition, order and encoding written apart from each other | a walk shows each row that stays exactly once | `Feeds` |
| read caches (`shared/services/redis/coalescing.rs`, profile and settings services) | one entry, one lock | coalesce_cache, get_me, update_me, invalidation | lock expiry, a fetch overtaken by a write | bounded staleness, nobody waits for ever, the cache converges | `ReadCache` |
| idempotency and rate limits (`shared/middleware`) | Redis keys | per request | concurrent duplicates | | not modelled |
| notifications' unread counter, chat writes, subscribers' writes, avatars | a row and a key each | CRUD, fan-out jobs | | | not modelled (their lists: `Feeds`) |
| Redis wrappers, wiring, telemetry, e-mail, push and Google clients | none of their own | I/O | | | not modelled |

The parts meet in few places. BroadcastService calls LiveKit through the breaker, the
bridge for room membership and events, and Redis for counts. A WebSocket handler calls
BroadcastService to find the hosted broadcast and queues the job that calls
`BroadcastService::end`. AuthService ends a password reset with
`revoke_all_for_user`. Everything else shares only the database and Redis.
`PROJECT.json` lists every component with its status and the hazards at their lines.

## Modules

| module | role |
|---|---|
| `Broadcast`, `MCBroadcast`, `BroadcastProofs` | the nine operations over Postgres, Redis and LiveKit |
| `Session` | what the broadcast API promises clients whose requests do not overlap; `Broadcast` with `Serial` implements it |
| `HostGrace`, `MCHostGrace` | disconnect, reconnect and the job; its theorems are in the last section of `CircuitBreakerProofs` |
| `CircuitBreaker`, `MCCircuitBreaker`, `CircuitBreakerProofs` | the breaker's atomics |
| `WsHub`, `MCWsHub`, `WsHubProofs` | connections, HTTP joins, room, channels, subscriber loop and buffer of one user on one instance, beside other instances |
| `Mailbox` | what the hub promises a connection; `WsHub` implements it |
| `Sessions`, `MCSessions`, `SessionsProofs` | tokens against a clock |
| `Accounts`, `MCAccounts`, `AccountsProofs` | sign-up, codes, login, reset, Google |
| `Notes`, `MCNotes`, `NotesProofs` | rows, devices, pushes, pulls, purge |
| `Replica` | what the notes API promises a user's devices; `Notes` implements it |
| `Feeds`, `MCFeeds`, `FeedsProofs` | every list, walked page by page |
| `ReadCache`, `MCReadCache`, `ReadCacheProofs` | one cached key |

Operators whose names say what was forgotten (`IsCreatorForgotten`, `DrainNewestFirst`,
`WaitForever`, ...) are plausible bugs of the definition below them. No specification
uses them; `PROJECT.json` names, for each checked property, the one that breaks it.

Each module is one user's, one broadcast's or one key's share of the system where the
code separates them by key; the modules compose through the state named in each
other's headers (`HostGrace` takes `end` as one step because `Broadcast` has it in
detail, `Broadcast` leaves the hub's local rooms to `WsHub`, `Accounts` leaves what a
success issues to `Sessions`).

### Broadcast

A request is a process (a slot of `Reqs`). It

1. answers its queries one at a time (`Query`), in any order where the code uses
   `tokio::join!`; `add_cohost` awaits `is_cohost` first, as in the code;
2. is refused (`Refuse`) or commits (`CreateCommit` .. `DemoteCohostCommit`). The
   decision uses only what the queries answered, so it may be stale; the
   transaction is one step, its statements are the operators named after the
   repository functions. `start` creates the LiveKit room between the two;
3. performs its Redis and LiveKit commands one by one (`StartSetCount` ..
   `DeletePurge`). Those that the code `tokio::spawn`s belong to a task: the request is
   answered, and the task runs on in its slot beside whatever comes next.

With `Serial`, clients call only once every earlier request is answered (no slot is `Running`);
the spawned tasks of those requests may still be running.

With `Faults`, any command may fail (`CommandFails`, with the code's reaction to each
error) and a request may be cut short anywhere (`Abandon`: client gone and handler
dropped, query or transaction failed or aborted by Postgres, instance stopped).

Transactions are atomic steps. Under READ COMMITTED two of them may overlap, but each
writes a row of `broadcasts` or of `broadcast_participants` by key with no condition
on rows the other writes, so an overlap ends like one of the two orders; the one that
clears participants while a join is open ends like the join after the end.

Data abstracted away: names, descriptions, times, tokens' contents, permissions.
`left` stands for `left_at IS NOT NULL`, `token` for `broadcast_token IS NOT NULL`. An
absent `live_count` is 0, as for INCR and DECR. Left out: the `started_at` key, the set
`room:{id}:members` (handlers write it too, and nothing reads its members), the column
`total_participants` (see the disagreements), `refresh_token` (it changes no modelled
state), deletion of users, events published to clients, and a Redis command that took
effect but reported an error.

`Session` is the promise for requests that do not overlap: every operation is one step
whose guard speaks of the broadcast as it is (`phase`, `cohosts`, `cast`), without queries,
rows, Redis or LiveKit. It has one oddity of the code: whoever was there when a
broadcast ended (`past`) is not seated by a later start, join or appointment, because the
upsert does not clear `left_at`; only a removal from the room lifts that. The limit of
cohosts is a limit per request (`Invitations`), as in the code. The mapping: a deleted
row is phase "deleted", the cast are the rows without `left_at`, `past` is `left`.

### HostGrace

One host with several connections, one broadcast, the key, and the jobs. `timer`
is a history variable beside the key: "running" from SETEX, "over" at the TTL,
"none" once a reconnect removed the key. `graces` and `notices` count SETEX and
`host_reconnected`. Each Redis command and query of `handle_reconnect`,
`handle_disconnect` and `end_broadcast` is a step; `is_host` is read once per
connection (`Tune`). The tiered length of the period and the disconnect counter are
left out: the model has no clock, only a TTL that runs out at any time. The removal
of the key by `delete` is left out: it applies to broadcasts that are not live.

### CircuitBreaker

Every load, store, fetch_add and lock section of `check`, `on_success` and
`on_failure` is a step, in source order. Counters saturate at their thresholds, the
only values they are compared with. LiveKit is up or down; a call may be
cancelled (its handler dropped) at each of its three awaits: the mutex of `check`, the
request, and the mutex of `on_failure` (`circuit_breaker.rs:106`). The last lies between
counting a failure and comparing the count, so a dropped handler may leave the circuit
Closed on a threshold of failures until the next one; that no such rest occurs is
therefore not claimed. What is: once LiveKit stays down, the circuit opens for good (`Opens`).

### WsHub
The connections of one user on one instance, one broadcast's room, and the HTTP requests
of the user that join and leave it. A connection's `pc` walks through `handle_socket`; an
HTTP request (`http`) calls `join_room` or `leave_room` alone, at any time, the
teardown of the room included. A step ends at an await or where a DashMap guard is
dropped, so the gap between `is_empty` and `remove` in `unregister` (`UnregisterReap`),
`leave_room` (`LeaveReap`) and `remove_local_room_member` (`RemoveLocalReap`) is there for
others to step into. `entry` and `room` tell "no entry" from "an empty one", because
`send_to_user` buffers only in the first case. The loop is a process: it takes a message
(`LoopTake`, which fixes the receivers), sends to one channel at a time (`LoopSend`,
which waits for room), tears the local room down after the end of a broadcast, or
pushes and trims the user's buffer. While it sends it holds read guards, which keep
others from write guards (`ClientsFree`, `RoomsFree`).

What is numbered are PUBLISHes that take effect: `publish` makes up to three attempts, and
an attempt that reported an error may have taken effect, so one call may be several
PUBLISHes (`Publish`). They get lost (`Lose`: a lagging receiver, a lost connection),
come twice (an instance both SUBSCRIBEd and PSUBSCRIBEd), buffers expire, and every Redis
command may fail. Unless the instance is `alone`, the others put any PUBLISH they took
into the same buffer, delivered here or not (`PeerBuffers`), in any order.

`Mailbox` is the promise: what a registered connection sees of the PUBLISHes to its user
is in Redis' order and without repetition. `InOrder` says that `WsHub` implements it, with
`sent` mapped to the number of PUBLISHes and `got` to the history of what the connection
was sent. On a single instance that is channel and replay together; beside other
instances it is the channel only, since nothing can be said of what they buffer. A
connection that `unregister`'s race has dropped from the map is outside the mapping: it
may see a replay after something newer.

Left out: presence keys, the heartbeat (its task never gets the sink's mutex, which
the write task holds for the connection's life), the answers of the read loop to what
clients send, messages to all users, the reconnect rate, several users in a room.

### Sessions

One user; a pair is an access JWT and a refresh JWT. Time is in seconds, as in the JWTs.
Postgres and Redis compare finer, so in the second of an expiry both answers are possible
(`MayBeOver`, `Cleanup`). Reading the clock for a blocklist key and storing the key are two
steps (`ReadRemaining`, `ReadBlockedAt`), between which seconds may pass. Of two resets that
overlap, the one that stores its block last counts, even when it read the clock first;
`resetAt` follows it. `ended`, `out` and `resetAt` record what was ended and what was
answered. `late` marks a refresh that arrived after its pair was ended: two rotations in
flight at once do both succeed in this code, which the model does and no property denies.
The upgrade to a WebSocket (`ws/handlers.rs:36-40`) decodes a token without a look at the
blocklists; it is outside the module. `MayAuthorize` is the middleware. `SessionsAssumption`
says that `access_ttl_secs` is at most `TTL_ACCESS_TOKEN_BLOCK_MAX`, as configured:
otherwise the clamp in `block_access_token` would let a blocked token come back.

### Accounts

One address, its user row and identities, the Redis keys about it, and requests that may be
dropped or fail at every await. Passwords are values, a code is its number; `codes`
remembers the type each was mailed for, and zero is a code never mailed. `lost` records
where a failure cut a pair of statements apart, which `NoStrandedUser` and `LockoutEnds`
name as their only exception. GET and DEL of a code are two steps, either of which may fail:
a code may be taken twice, and no property says otherwise. Hashing, templates and HTTP calls
are left out.

### Notes

Two tables (notes, folders), devices with copies and cursors, one request per device.
Every write endpoint is a statement with its guard. `sync_push` is one transaction over up
to `MaxMutations` mutations (200 in the code), folders first, each in the client's
order; it holds a pool connection and the locks of the rows it has written while its
`owned_folder_ids` and `find`s go through the pool, outside it. Hence a mutation of an
item that the same batch has created fails the batch, and so does one of a deleted row. Pushes
wait for each other's rows; Postgres ends one of a cycle (`DeadlockDetected`), and the pool
ends a wait for a connection (`AcquireTimeout`). Which of two snapshots is the later is
decided against the row read outside the transaction, by the client's clock: either
answer is possible. `updated_at` is the transaction's start, so a row may commit behind a
cursor (`late`). The purge job selects ids, then deletes them. A device's answer may be
lost: the copy is then not updated, and a device that tries to create the item again,
under the id it made up, meets its own row. The rows that an answer names as conflicts
are not taken into the copies.

`Replica` is the promise to the devices: every write moves an item's version on, the
writes of a transaction happen at once, a device changes the content of an item only
where it holds the current version, and what it hears of an item is so. There is one
exception, `Forced`: a device that made the item's id and was never told what became of
it sends it without a base version, and `force_apply_*_snapshot` (`notes/service.rs:486-492`)
writes it over whatever others have made of it meanwhile. `Replicates` says that `Notes`
implements `Replica`, with `store` mapped to the content of the rows, `held` to that of the
copies and `made` to the ids each device made. A write that only moves a note between
folders is allowed to everyone, as in the code; the folder itself is no content, since
the purge of a folder clears it under the same version.

### Feeds

`AllFeeds` has one record per list: sort, direction, how its page is cached. `OrderBy`,
`Compared`, `Encoded` and `Shape` translate the four places in which the code
writes a list's key. A walk is one client reading pages until there is no cursor; pages
come from the database or from any cached page under the key; rows are inserted,
removed or moved in between; `kept` are the rows that stayed put since the pages shown
were read, which is what a walk can be held to.

### ReadCache

One key whose value is a version. Kinds: an item behind `coalesce_cache` whose writers
delete its key; a list, whose writers delete keys of other names; a profile, read and
stored without a lock and deleted before the write. A request that waited in vain
fetches for itself and stores nothing (`Direct`, `coalescing.rs:107-112`): any number may at
once. `overrun` records that a lock ran out under a request that was still fetching: beyond
that the age of an entry has no bound. Ticks are the unit of both lifetimes; `old` counts
ticks since a version was superseded. `StaleBounded`: that age and the entry's remaining
life stay below the sum of the two lifetimes, and the run reaches the bound.

## Runs

Passing runs (states are TLC's distinct states):

| run | instance | states | shows |
|---|---|---|---|
| `broadcast_races` | 1 broadcast, host and one listener, 2 slots, 6 requests, faults | 1,339,431 | every interleaving of two operations, and of one with the task of another, keeps the host role, rows after start and the creator's control |
| `broadcast_serial` | 2 broadcasts of one host, 2 users, `Serial`, 2 slots, 7 requests, faults | 1,485,668 | long sequences (create, start, join, promote, kick, end, restart, delete) with tasks still running leave the tables consistent, and each operation acts like one step of `Session` |
| `host_grace_faults` | 2 connections, 2 breaks, 2 starts, 1 retry, faults | 541,363 | at most one "host is back" per grace period |
| `breaker_races` | 2 calls, thresholds 3 and 2, fair | 36,316 | an Open circuit remembers its failure; successes do not rest on their threshold; once LiveKit stays down the circuit opens for good, once it stays up it closes for good |
| `session_races` | 2 requests at a time, 4 in all, 3 pairs, lifetimes of 2, clock to 4 | 1,180,829 | logged out stays out, a reset refuses earlier tokens, spent stays spent, sessions last, the cleanup is complete |
| `account_races` | 2 requests at a time, 5 in all, 2 passwords, 2 codes, 2 tries, 1 login | 1,757,527 | codes keep their purpose; verified is proved; no user is stranded, no lockout for ever |
| `hub_races` | 2 connections or HTTP requests, 2 PUBLISHes, at most 1 to the room, buffer of 0 (keeps 1), with and without other instances | 2,353,873 | the hub implements `Mailbox` and keeps no connection that is gone |
| `notes_sync` | 2 devices, 1 note, 2 folders, pages of 1, 2 writes, up to 2 mutations a push, pool of 2 | 1,493,840 | rows and copies behave like `Replica`; a version names one state; a pull misses only late commits; open pushes go on when the pool is exhausted or they wait for each other |
| `feed_walks` | 3 rows, 2 times, limits 0 and 3 clamped to 1 and 2, 1 change | 1,257,058 | walks of the lists by creation or count are complete; every cursor but the participants' moves on |
| `cache_races` | 2 requests, lifetimes of 2, 2 retries, 2 writes, fair | 480,190 | bounded staleness, no reader left waiting, a cache that converges |

The type invariants of all modules but `Notes`, and `LeftStaysLeft` of `Broadcast`, are
proved for every instance (see Proofs) and no run repeats them.

Bounds. Six requests are enough for create, start and two more operations followed
by two racing ones; two slots hold two requests, or one and a task of an earlier one. Seven
in a row cover create, start, join, promotion, end and restart, each beside the task
of the one before. One listener suffices there because operations on different users
touch disjoint rows; the second broadcast is there for the guards that look at others
(`is_active_host`, `find_active_participant`). Two breaks and two starts let a job of the
first session meet the second. Two breaker calls let every store of one fall between
any two steps of the other; the proofs cover any number. Four session requests are
an issue, and a refresh against a logout, a reset or another refresh, with one left; a
clock of 4 crosses the expiry of a token issued in the first second and of its
replacement. Five account requests are a registration, a code's use and three others. Two
hub connections are the least for the races of the map guards and two PUBLISHes the
least for an order, which is one of messages to the user: the room's, of which there is at
most one (`MaxToRoom`), only come in between. The others buffer the first PUBLISH
(`MaxPeer`) as long as the list is empty, which is after or before this instance has
delivered it. The
channel's capacity exceeds the copies in flight, so the stall of `hub_stall` is not
reached there; the limit of connections is not reached in `register`. Two mutations on
each of two devices are the least for a cycle of row locks; one device more or one
write more in `notes_sync` is beyond five minutes. Three rows with two times have equal
stamps across a page boundary. With lifetimes of 2 a fetch spans a tick under its lock and
an entry ages before it dies. Symmetry is used between slots, broadcasts, devices and
connections, and never in a liveness run.

## Disagreements

Two runs state what a comment of the repository promises and what does not hold:

| run | promise | what happens |
|---|---|---|
| `join_races_end` | end clears the participants (`broadcast/service.rs:515`) | join read "active", end commits, join inserts a live row in an ended broadcast; its user can then join nowhere |
| `hub_stall` | the loop "runs for the lifetime of the process" (`ws/pubsub.rs:471`) | `send_to_room` holds its guard on the rooms while it awaits room in a full channel; that connection's write task starts only after its handler has joined the room, for which it needs the guard |

There are more of this kind; most are a step or two away in the modules above, and no
run is spent on them:

- `delete` and `start` both read "inactive": the broadcast is live and deleted, and
  nobody can end it. `end`'s spawned cleanup runs after a restart. Two joins both see no
  participation, against "one broadcast at a time". With these, the properties of
  `broadcast_serial` hold between requests and not during two.
- The job that ends an abandoned broadcast is queued without delay and runs within the
  grace period; a host who returns between its EXISTS and its DEL is cut off all the same; and
  as the key's TTL is the period, a job that runs late finds no key and leaves the
  broadcast live.
- `update` adds up to three cohosts to the ones there are (`broadcast/service.rs:1537`
  checks the new list only); `add_cohost` adds a live participant without counting it in
  `live_count`, which `remove_cohost` decrements; a breaker call that found the circuit
  ready to probe may store HalfOpen over a circuit that has closed meanwhile, and
  a handler dropped at `circuit_breaker.rs:106` leaves it Closed on a threshold of failures.
- `broadcast/model.rs:127` calls `total_participants` "All-time participant count from the DB
  (total joins ever)": the trigger of migration 0003 subtracts what a leave or a kick deletes,
  and that migration creates it on a table which only migration 0005 creates.
- What an ended broadcast leaves behind, even for clients who wait for every answer: join's
  spawned INCR or start's SET of `live_count` after the DEL of end's cleanup; the room that a
  late `delete_room` takes from a restarted broadcast; a LiveKit room without a live broadcast
  when start's transaction or end's `delete_room` fails; a local room, when the HTTP join's
  `ws.join_room` (`broadcast/service.rs:672`) runs after the loop has torn the room down.
- Hub: the buffer keeps `MESSAGE_BUFFER_SIZE + 1` messages, since LTRIM includes its end
  (`ws/mod.rs:294`), against "keep only the last `MESSAGE_BUFFER_SIZE`" (`ws/mod.rs:281`) and
  "Maximum number of messages to buffer" (`constants.rs:68`). The drain is atomic "so no
  message is delivered twice" (`ws/mod.rs:301`), yet one is when its PUBLISH is retried after
  it took effect (`ws/pubsub.rs:436-466`), or when an instance without the user buffers
  what another has delivered (`ws/mod.rs:222-231`).
- `coalesce_cache` lets "subsequent requests wait for the first" (`coalescing.rs:9-14`): they
  wait two seconds and the lock lives five, so a fetch of between two and five seconds is
  joined by one of every waiter; and a holder whose lock ran out deletes the lock of the next.
- Accounts: "valid and was deleted" (`auth/cache.rs:60`), yet two requests that overlap
  between GET and DEL both take the code, and a failed DEL leaves it. A login that overlaps
  a reset may succeed with the old password after the reset is answered.
- Tokens: of two resets the older block may replace the newer; `/ws` accepts a token that is
  blocked.
- Lists: by title the cursor compares `created_at` against the comment at
  `broadcast/repository.rs:515`; by start time the statement is not SQL; by end time the
  second page binds one value too many; a participants' cursor is encoded as
  `(joined_at, id)` and decoded by sort, and the key of their cached page has neither
  cursor nor limit; `search_profiles` is not SQL; `get_live_for_you` passes no
  requester, so its filter is dropped; `invalidate_list_caches` deletes `home:*`, `bl:*`
  and `pl:*` where the keys begin with `bc:`; the trigger of migration 0013 compares the
  string `'TG_OP'`, so follow counts never change.
- Notes: `owned_folder_ids` reads outside the transaction, so a folder made by the same
  batch is not found and its note is unfiled without an error, against the comment at
  `notes/service.rs:357`; `delete_folder` ignores `should_delete_notes`; a push onto
  a deleted row fails the batch with NoteNotFound; the purge deletes a row that was
  restored after it was selected; an update without a folder unfiles the note; a forced
  snapshot overwrites what other devices wrote (`Forced` above).
- Profiles: one's own and the public view have one key and do not decode as each
  other; whether the viewer follows the user is cached across viewers.

## Fairness

`CircuitBreaker!FairSpec`: weak fairness of each call's next step and of the clock, strong
fairness of `CheckElapsed`, `Request` and `FailureStamp`. Weak fairness of `Check` means
that requests which use LiveKit keep coming: without traffic a breaker stays Open by design.
Strong fairness is needed because a call may be cancelled at these three awaits: not every
client gives up for ever.

`WsHub!FairSpec` (for `hub_stall`): weak fairness of the loop, of every connection's
handler and of its write task: Tokio polls every task that can go on. The stall is a
state in which none of them can.

`ReadCache!FairSpec`: weak fairness of each request's next step and of the clock. Nothing
is assumed of writers, deletions or clients.

The other modules have no liveness properties. `Broadcast`, `Accounts` and `Sessions`
wait for external services only. That an abandoned broadcast ends (`HostGrace`) is
false under any fairness, see above. `PushesMove` is the absence of a deadlock among
pushes, stated as an invariant.

## Proofs

All proofs are for any sets of users, broadcasts, requests, connections, calls and rows,
and any thresholds, limits and lifetimes, under the named assumptions of the
modules (`BroadcastAssumption`: finitely many users, a creator for each broadcast;
`SessionsAssumption`: the clamp is no shorter than the access lifetime;
`AccountsAssumption`: "none" is no password; the others say that bounds are naturals
and thresholds, capacities, limits and lifetimes positive). TLC evaluates them on every
run.

`BroadcastProofs`
- `TypeCorrect`: type invariant, one lemma per group of actions.
- `SafetyInductive`: `HostIsCreator` and `RowsOnlyAfterStart` are not inductive,
  since a request commits on what it read earlier. `SafetyInv` adds what stale reads still
  guarantee: a request that saw "active" is of a broadcast that has its LiveKit
  token (`ReqInv`, `TokenInv`); a request past its checks satisfies them; creators are
  never cohosts (`CohostInv`), so remove_cohost cannot touch the host's row.
  `HostCorrect` and `RowsCorrect` follow.
- `LeftCorrect`, `ControlCorrect`: the action properties, by cases on the
  commits; `OnlyCommitsWrite` disposes of all other steps at once.
- `ClearsCorrect`, `RolesCorrect` are about clients who wait for every answer (`Serial`;
  without it `join_races_end` has the counterexample), with any number of requests, tasks,
  users and broadcasts, faults included. `OneRuns` says that at most one slot holds a request
  that is not answered, whatever tasks run beside it. Tasks write no table, so a request's
  reads are not stale: `FreshInv` says that what it has read of status and cohosts is what
  the tables hold. Both are part of `SerialInv` (`SerialInductive`), and the two theorems
  follow commit by commit.
- `Refinement`: with `Serial`, `Spec => ActsAtomically`, faults included. `CurrentInv` says of
  the other queries what `FreshInv` says of status and cohosts (a row seen is not deleted,
  "not hosting" and "not taking part elsewhere" are still so), `RowInv` that rows are what a
  client can make sense of (`left_at` and roles only on rows, nothing deleted is live).
  `CommitGuards` turns each operation's checks into facts about the tables its
  transaction finds, `CastStep` says what the participant statements do to the cast, and
  `CommitRefines` goes through the ten transactions. All else leaves the database alone.

`CircuitBreakerProofs`
- `TypeCorrect`; `FailureRemembered` from `FailureInv`: a call about to store Open
  or HalfOpen has seen or stamped a failure.
- `SuccessCorrect` from `SuccessInv`: whenever success_count is at its threshold some
  call is about to clear it.
- `HostGrace`, which shares no state with the breaker and names its specification
  `GraceSpec`: `GraceTypeCorrect`, and `NoticeCorrect` from `NoticeInv`: notices plus the
  key, if present, never exceed the times it was set. The plain bound is not inductive:
  a DEL that publishes needs to know a notice is still owed.

`FeedsProofs`
- `LessPairs`, `AheadOrder`: the row comparison is a strict total order on keys.
- `WalkIsComplete` from `WalkInv`. `WalkComplete` speaks of a walk's end only; the
  invariant says what each page guarantees by itself, so that pages of different ages
  fit: a page under cursor c shows, of the rows kept since it was read, exactly those
  beyond c and not beyond its own next cursor (`PageOK`), and the walk has shown exactly
  the kept rows not beyond its cursor (`WalkOK`).
- `CursorsAdvance` from `OnwardInv`: every page in the cache ends beyond its key.

`SessionsProofs`
- `TypeCorrect`; the rest from `SessionInv`, whose parts are: nothing is signed in
  the future (`PastInv`); rows and ended pairs are disjoint and a late request is of an ended
  pair (`SpentInv`); a request that is about to
  block a token has read the clock no earlier than it was signed (`ReadInv`); the key
  that blocks a token lives at least as long as the token (`BlockInv`, which needs the
  assumption on the clamp and `PastInv`); the key of the last reset has its second and lives
  at least one access lifetime from then (`ResetInv`).
- `LogoutCorrect`, `ResetCorrect`, `SpentCorrect`, `LastsCorrect`, and `CleanupCorrect`:
  a chunk smaller than the batch is all there was.

`AccountsProofs`
- `TypeCorrect`, `PurposeCorrect`, `VerifiedCorrect`, `StrandedCorrect` and `LockoutCorrect`
  from one invariant, `AccountInv`. Its two parts beyond the properties: a stored code was
  mailed for its type (`OtpInv`), and a request carries along what its earlier steps checked
  (`ReqInv`): a code that was taken was mailed for the request's purpose, who is at "verify"
  asked for a verification, who stores a password has one, who verifies by Google was
  vouched for.
- `StepFlow` is the control flow as a lemma: a step ends its request or takes it one edge
  along `Flow`, and changes nothing else of it. `ReqInv` is proved
  edge by edge and not action by action; `OtpInv` over the three things that happen to codes
  (they stay, one is revoked, one is mailed: `StepCodes`, `CodesKept`).
- The remaining parts are each disturbed by few steps, which `OnlyWrites`, `OnlyExpires`
  and `LostGrows` single out. `NoStrandedUser` and `LockoutEnds` are kept because whoever
  leaves the middle of a pair of statements has done the second or is recorded in `lost`.

`WsHubProofs`
- Everything rests on `HubInv`. Sequences (inbox, channels, replays, buffer, histories) are
  treated as what they hold and in which order (`Has`, `Precedes`), with one lemma for each
  of Append, Tail, LPUSH, LTRIM and the reversal; past these lemmas nothing needs an index.
- `ControlInv` says where connections and HTTP requests may be, and who is registered;
  `DataInv` is the argument for order: the inbox ascends (`InboxInv`); whatever is stored
  was published (`PubInv`); the message in the loop's hands is later than everything in play
  (`PlayInv`), and while it is about to be buffered all channels are empty (`LoopInv`), so a
  replay cannot overtake it; what the loop sends is in no buffer of a single instance
  (`SendInv`), and a message waits in one place (`WaitInv`); for a registered connection
  what it got, what it replays, what it will drain and its channel ascend in this order
  (`OrderInv`), and it does not have what the loop has yet to send it (`TodoInv`). Of
  replays and the buffer this is said of an instance that is alone; `PeerKeeps` is the step
  of the others.
- `ShrinkKeeps` does most steps at once: closing, expiry, loss, trimming, teardown and
  the moves of a handler only take messages away. `PublishKeeps`, `TakeKeeps`,
  `SendKeeps`, `PushKeeps`, `DrainKeeps`, `ReplayKeeps` and `WriteKeeps` are the ones that
  carry messages on.
- `TypeCorrect` and `ConnectionCorrect` follow.
- `Refinement`: `Spec => InOrder`, that is, every step of the hub is a step of `Mailbox`
  or leaves what it sees unchanged. A PUBLISH maps to `Publish`, a write or replay to a
  registered connection to `Deliver` (its message is later than all the connection got,
  by `OrderInv`), an end or a lost registration to `Close`.

`ReadCacheProofs`
- `TypeCorrect`; `StaleCorrect` from `AgeInv`: until a lock runs out under its holder,
  whoever fetches in order to store has the lock (`FlightInv`); what was fetched is no
  older than its lock has lived (`FetchedInv`); what is stored is no older than a whole
  lock and the time the entry has lived (`StoredInv`). A tick adds at most one to an age and
  takes one from a lifetime, so both sums stand still.

`NotesProofs`
- Everything rests on `NotesInv`. The properties are not inductive because requests stay
  open: `QueryOK` says that what a waiting statement or an open push claims to hold is what
  its device still holds; `PendingOK` that a row written and not committed has a later
  version than the row that is there, that its device may write it (it holds that version,
  or forces an item it made), and that it names a folder that is there; `LockInv` that no
  row is written by two open pushes; `VersionInv` that devices are behind the rows, never
  ahead; `FolderInv` is the foreign key.
- Two forms cover every step of a request (`Serves`): it commits rows, each of a
  later version than what it replaces (`Committed`, from `ExecuteCommits` for the statements
  of the endpoints and `PushCommits` for a push), or only the request moves on. `CommittedKeeps`
  and `RequestMoves` are the proofs that `NotesInv` survives either; `RequestServes` and
  `StepServes` go through the actions.
- `PullCorrect` needs of `sync_pull` that a changed row which the new cursor has passed is
  in the page (`PageFacts`): keys are totally ordered (`BeforeOrder`), a page that is not
  empty has a last row (`LastRow`, from the well-foundedness of strict inclusion among
  finite sets), and whatever comes before that row has no more rows before it than it has.
- `PurgeKeeps`: the DELETE waits for the rows pushes have written, and for the
  folders those rows name, which keeps `PendingOK`; the notes it unfiles get a
  new stamp, which keeps `PullMissesOnlyLate`.
- `Refinement`: `Spec => Replicates`. A `Committed` step is a `Write` of its device together
  with `Hear`, a device's new id is a `Make` (`MakesMake`), the DELETE of the purge is a
  `Purge`, a pull is a `Hear`; all other steps leave rows and copies alone.

Only model-checked: liveness (`Opens`, `Recovers`, `Answered`, `Converges`, and the violation of
`LoopRuns`), which is out of the prover's reach, as is `PushesMove`, which uses ENABLED.

## Not modelled

- Idempotency (`shared/middleware/idempotency.rs`): one GET before and one SET after the
  handler. Two copies that arrive together both run; there is no lock to model.
- Rate limits: counters of a library (tower-governor) and one INCR script.
- The unread counter of notifications: INCR, DECR and DEL follow the rows without an order
  between operations and the key expires; no relation between it and the rows
  survives two operations, or one expiry.
- Writes of chat and of subscriptions: single statements, with events through the hub.
- E-mail, push, Google, avatars, telemetry, configuration, start-up: I/O.
- `get_live_participants` returns its first page only and takes no cursor.

## Plan

Two instances and two users in `WsHub`, composed with `HostGrace` where handlers meet
the hub.
