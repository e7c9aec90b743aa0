------------------------------ MODULE Sessions ------------------------------
(***************************************************************************)
(* TokenService and auth_middleware: access and refresh tokens of one user *)
(* (every query and key is by token id or user id, so users do not meet).  *)
(* A pair is an access JWT, valid by its signature until it expires unless *)
(* a Redis blocklist key names it, and a refresh JWT that counts only      *)
(* while its row is in refresh_tokens.  Requests interleave between their  *)
(* awaits.  Time is in seconds, as in the JWTs; Redis and Postgres compare *)
(* finer, so in the very second of an expiry either answer is possible.    *)
(***************************************************************************)
EXTENDS Integers, FiniteSets

CONSTANTS
    Requests,    \* slots for concurrent requests
    AccessTTL,   \* access_ttl_secs
    RefreshTTL,  \* refresh_ttl_secs
    BlockMax,    \* TTL_ACCESS_TOKEN_BLOCK_MAX
    Batch,       \* rows per DELETE of the cleanup job (5000)
    MaxPairs,    \* bound: pairs issued
    MaxRequests, \* bound: requests that arrive
    MaxTime      \* bound: the clock

\* block_access_token clamps the TTL of a blocklist key: a configured
\* access_ttl_secs above BlockMax would let a blocked token come back.
ASSUME SessionsAssumption ==
    /\ AccessTTL \in Nat \ {0} /\ RefreshTTL \in Nat \ {0}
    /\ BlockMax \in Nat /\ BlockMax >= AccessTTL
    /\ Batch \in Nat \ {0} /\ MaxPairs \in Nat /\ MaxRequests \in Nat /\ MaxTime \in Nat

Pairs == 1..MaxPairs

VARIABLES
    now,       \* the clock
    issued,    \* pairs issued so far; pair p has the jtis of its two tokens
    iat,       \* when p's access token was signed
    rexp,      \* when p's refresh token and its row expire
    rows,      \* refresh_tokens: the pairs whose row exists
    held,      \* pairs whose answer reached the client
    blocked,   \* ACCESS_TOKEN blocklist: when p's key expires, 0 for no key
    userBlock, \* ALL_USER_ACCESS_TOKENS: its value and when it expires
    req,       \* the requests in flight
    arrived,   \* requests so far
    cleaner,   \* the cleanup job: idle, or when its run started
    ended,     \* history: pairs a rotation, logout or reset has ended
    out,       \* history: access tokens whose logout was answered
    resetAt    \* history: blocked_at of the last reset that was answered

vars == <<now, issued, iat, rexp, rows, held, blocked, userBlock, req,
          arrived, cleaner, ended, out, resetAt>>
tokens == <<issued, iat, rexp>>
client == <<held, out, resetAt>>

\* signed: when the request read the clock, for the tokens or the block it writes
Idle == [pc |-> "idle", pair |-> 0, signed |-> 0, late |-> FALSE]
Pcs  == {"idle", "store", "find", "sign", "commit", "revoke", "block",
         "setBlock", "revokeAll", "blockAll", "setAll"}

Init ==
    /\ now = 1 /\ issued = 0 /\ rows = {} /\ held = {}
    /\ iat = [p \in Pairs |-> 0] /\ rexp = [p \in Pairs |-> 0]
    /\ blocked = [p \in Pairs |-> 0] /\ userBlock = [at |-> 0, until |-> 0]
    /\ req = [r \in Requests |-> Idle] /\ arrived = 0 /\ cleaner = 0
    /\ ended = {} /\ out = {} /\ resetAt = 0

At(r, pc) == req[r].pc = pc
Goto(r, pc) == req' = [req EXCEPT ![r].pc = pc]
Done(r) == req' = [req EXCEPT ![r] = Idle]

\* A request of the client arrives.
Arrive(r, record) ==
    /\ At(r, "idle") /\ req' = [req EXCEPT ![r] = record]
    /\ arrived < MaxRequests /\ arrived' = arrived + 1
    /\ UNCHANGED <<now, tokens, rows, client, blocked, userBlock, cleaner, ended>>

exp(p) == iat[p] + AccessTTL

-----------------------------------------------------------------------------
(* Expiry at the granularity of seconds *)

\* decode_access, decode_refresh: a JWT is expired once exp < now.
Decodes(e) == now <= e
\* A key or a row stamped e may be over; before that second it is not.
MayBeOver(e) == e <= now

-----------------------------------------------------------------------------
(* issue_pair *)

\* Sign both tokens; the row is inserted after an await.
Issue(r) == Arrive(r, [Idle EXCEPT !.pc = "store", !.signed = now])

\* A fresh pair with its row; its answer reaches the client, or the client is
\* gone by then.
NewPair(r, access, gone) ==
    /\ issued < MaxPairs /\ issued' = issued + 1
    /\ iat'  = [iat EXCEPT ![issued + 1] = access]
    /\ rexp' = [rexp EXCEPT ![issued + 1] = req[r].signed + RefreshTTL]
    /\ rows' = (rows \ gone) \cup {issued + 1}
    /\ ended' = ended \cup gone
    /\ held' \in {held, held \cup {issued + 1}}
    /\ Done(r)
    /\ UNCHANGED <<now, blocked, userBlock, cleaner, out, resetAt, arrived>>

store_refresh_token(r) == At(r, "store") /\ NewPair(r, req[r].signed, {})

-----------------------------------------------------------------------------
(* rotate *)

Refresh(r, p) ==
    p \in held /\ Arrive(r, [Idle EXCEPT !.pc = "find", !.pair = p, !.late = p \in ended])

RotateFindAny(r) ==
    /\ At(r, "find")
    /\ Goto(r, IF Decodes(rexp[req[r].pair]) THEN "sign" ELSE "idle")
    /\ UNCHANGED <<now, tokens, rows, client, blocked, userBlock, cleaner, ended, arrived>>

\* decode_refresh, find_refresh_token, then the expiry of the row itself, which
\* revokes it.
RotateFind(r) ==
    LET p == req[r].pair IN
    /\ At(r, "find")
    /\ \/ /\ ~Decodes(rexp[p]) \/ p \notin rows
          /\ Done(r) /\ UNCHANGED <<rows, ended>>
       \/ /\ Decodes(rexp[p]) /\ p \in rows
          /\ Goto(r, "sign") /\ UNCHANGED <<rows, ended>>
       \/ /\ Decodes(rexp[p]) /\ p \in rows /\ MayBeOver(rexp[p])
          /\ rows' = rows \ {p} /\ ended' = ended \cup {p} /\ Done(r)
    /\ UNCHANGED <<now, tokens, client, blocked, userBlock, cleaner, arrived>>

\* find_by_id answers and the new refresh token is signed.
RotateSign(r) ==
    /\ At(r, "sign")
    /\ req' = [req EXCEPT ![r].pc = "commit", ![r].signed = now]
    /\ UNCHANGED <<now, tokens, rows, client, blocked, userBlock, cleaner, ended, arrived>>

\* The transaction deletes the old row, if it is still there, and inserts the
\* new one; the access token is signed after it.
rotate_refresh_token(r) == At(r, "commit") /\ NewPair(r, now, {req[r].pair})

-----------------------------------------------------------------------------
(* revoke: logout *)

Logout(r, p) ==
    p \in held /\ Decodes(rexp[p]) /\ Arrive(r, [Idle EXCEPT !.pc = "revoke", !.pair = p])

RevokeEveryRow(r) ==
    /\ At(r, "revoke")
    /\ rows' = {} /\ ended' = ended \cup {req[r].pair}
    /\ \/ Goto(r, "block") \/ Done(r)
    /\ UNCHANGED <<now, tokens, client, blocked, userBlock, cleaner, arrived>>

\* DELETE by jti; the request goes on only if it carries the access token.
revoke_refresh_token(r) ==
    /\ At(r, "revoke")
    /\ rows' = rows \ {req[r].pair} /\ ended' = ended \cup {req[r].pair}
    /\ \/ Goto(r, "block") \/ Done(r)
    /\ UNCHANGED <<now, tokens, client, blocked, userBlock, cleaner, arrived>>

\* What is left of the access token's life is computed, and then a command sent.
\* A token that has expired, or is in its last second, is not blocked.
ReadRemaining(r) ==
    /\ At(r, "block")
    /\ \/ /\ exp(req[r].pair) > now /\ UNCHANGED out
          /\ req' = [req EXCEPT ![r].pc = "setBlock", ![r].signed = now]
       \/ exp(req[r].pair) <= now /\ Done(r) /\ out' = out \cup {req[r].pair}
    /\ UNCHANGED <<now, tokens, rows, held, blocked, userBlock, cleaner, ended, resetAt, arrived>>

BlockUntilEarly(p, read) == exp(p) - 1

\* When the blocklist key of p is to expire, from a clock read before.
BlockUntil(p, read) ==
    LET remaining == exp(p) - read
    IN  now + (IF remaining < BlockMax THEN remaining ELSE BlockMax)

block_access_token(r) ==
    LET p == req[r].pair IN
    /\ At(r, "setBlock") /\ Done(r)
    /\ blocked' = [blocked EXCEPT ![p] = BlockUntil(p, req[r].signed)]
    /\ out' = out \cup {p}
    /\ UNCHANGED <<now, tokens, rows, held, userBlock, cleaner, ended, resetAt, arrived>>

-----------------------------------------------------------------------------
(* revoke_all_for_user: the end of reset_password *)

Reset(r) == Arrive(r, [Idle EXCEPT !.pc = "revokeAll"])

revoke_all_refresh_tokens(r) ==
    /\ At(r, "revokeAll") /\ Goto(r, "blockAll")
    /\ rows' = {} /\ ended' = ended \cup rows
    /\ UNCHANGED <<now, tokens, client, blocked, userBlock, cleaner, arrived>>

\* blocked_at is read, and then a command sent.
ReadBlockedAt(r) ==
    /\ At(r, "blockAll")
    /\ req' = [req EXCEPT ![r].pc = "setAll", ![r].signed = now]
    /\ UNCHANGED <<now, tokens, rows, client, blocked, userBlock, cleaner, ended, arrived>>

UserBlockShort(at) == [at |-> at, until |-> now + AccessTTL - 1]

\* blocked_at, kept for one access_ttl_secs.
UserBlock(at) == [at |-> at, until |-> now + AccessTTL]

\* The key has the value of whoever writes last, which may be the older one.
block_all_user_tokens(r) ==
    /\ At(r, "setAll") /\ Done(r)
    /\ userBlock' = UserBlock(req[r].signed) /\ resetAt' = req[r].signed
    /\ UNCHANGED <<now, tokens, rows, held, blocked, cleaner, ended, out, arrived>>

-----------------------------------------------------------------------------
(* cleanup_expired_refresh_tokens, a job of its own *)

CleanupStart ==
    /\ cleaner = 0 /\ cleaner' = now
    /\ UNCHANGED <<now, tokens, rows, client, blocked, userBlock, req, ended, arrived>>

\* A chunk of n rows: is another one due?
MoreChunksEager(n) == n > Batch
MoreChunks(n) == n >= Batch

Expired == {p \in rows : rexp[p] < now}

\* One DELETE of at most Batch expired rows.
CleanupChunk(chunk) ==
    /\ cleaner # 0
    /\ rows' = rows \ chunk
    /\ cleaner' = IF MoreChunks(Cardinality(chunk)) THEN cleaner ELSE 0
    /\ UNCHANGED <<now, tokens, client, blocked, userBlock, req, ended, arrived>>

\* In the second it expires a row may or may not be among the expired ones.
Cleanup ==
    \E over \in {o \in SUBSET rows : Expired \subseteq o /\ \A p \in o : MayBeOver(rexp[p])} :
    \E chunk \in SUBSET over :
        /\ \/ chunk = over /\ Cardinality(over) <= Batch
           \/ Cardinality(chunk) = Batch
        /\ CleanupChunk(chunk)

-----------------------------------------------------------------------------
(* The environment *)

\* Requests are shorter than the life of a refresh token.
Tick ==
    /\ now < MaxTime /\ now' = now + 1
    /\ \A r \in Requests : req[r].pc \in {"store", "commit"} => now - req[r].signed < RefreshTTL - 1
    /\ UNCHANGED <<tokens, rows, client, blocked, userBlock, req, cleaner, ended, arrived>>

\* A query or command fails, or the client goes away and axum drops the handler.
Abandon(r) ==
    /\ ~At(r, "idle") /\ Done(r)
    /\ UNCHANGED <<now, tokens, rows, client, blocked, userBlock, cleaner, ended, arrived>>

Step(r) ==
    \/ store_refresh_token(r)
    \/ RotateFind(r) \/ RotateSign(r) \/ rotate_refresh_token(r)
    \/ revoke_refresh_token(r) \/ ReadRemaining(r) \/ block_access_token(r)
    \/ revoke_all_refresh_tokens(r) \/ ReadBlockedAt(r) \/ block_all_user_tokens(r)

Begin(r) ==
    \/ Issue(r) \/ Reset(r)
    \/ \E p \in Pairs : Refresh(r, p) \/ Logout(r, p)

Next ==
    \/ Tick \/ CleanupStart \/ Cleanup
    \/ \E r \in Requests : Begin(r) \/ Step(r) \/ Abandon(r)

Spec == Init /\ [][Next]_vars

-----------------------------------------------------------------------------
(* auth_middleware *)

\* is_access_token_blocked
MayPassBlocklist(p) ==
    /\ MayBeOver(blocked[p])
    /\ MayBeOver(userBlock.until) \/ ~(iat[p] < userBlock.at)

\* The middleware lets a request with p's access token through, at this second.
MayAuthorize(p) == p \in held /\ Decodes(exp(p)) /\ MayPassBlocklist(p)

-----------------------------------------------------------------------------
(* Properties *)

\* Types; rows and history name pairs that were issued.
TypeOK ==
    /\ now \in Nat /\ issued \in 0..MaxPairs /\ cleaner \in Nat /\ arrived \in Nat /\ resetAt \in Nat
    /\ iat \in [Pairs -> Nat] /\ rexp \in [Pairs -> Nat] /\ blocked \in [Pairs -> Int]
    /\ userBlock \in [at: Nat, until: Nat]
    /\ rows \subseteq 1..issued /\ held \subseteq 1..issued
    /\ ended \subseteq 1..issued /\ out \subseteq 1..issued
    /\ req \in [Requests -> [pc: Pcs, pair: 0..MaxPairs, signed: Nat, late: BOOLEAN]]
    /\ \A r \in Requests : req[r].pc \in {"find", "sign", "commit", "revoke", "block", "setBlock"}
                              => req[r].pair \in 1..issued

\* An access token that was logged out is refused until it expires; only its
\* last second, which block_access_token does not cover, may let it through.
LoggedOutStaysOut == \A p \in out : MayAuthorize(p) => now = exp(p)

\* Once a password reset is answered, no access token signed in a second before its
\* blocked_at is let through: the block outlives every one of them, however late
\* it was set.  Of two resets under way at once the one answered last counts: its
\* block replaces the other's.
ResetRefusesEarlier == \A p \in held : MayAuthorize(p) => iat[p] >= resetAt

\* A refresh that arrives after its token was rotated, logged out, reset or found
\* expired never issues a new pair (find_refresh_token before the transaction).
SpentStaysSpent == \A r \in Requests : req[r].pc \in {"sign", "commit"} => ~req[r].late

\* The client is never logged out by itself: whatever refreshes, logouts and
\* cleanups interleave, a refresh token it holds keeps its row until it expires or
\* its own refresh, its own logout or a reset ends it.
SessionLasts == \A p \in held : now < rexp[p] /\ p \notin ended => p \in rows

\* When the cleanup job stops, no row that had expired when it started is left:
\* the loop goes on after every full chunk.
CleanupComplete == [][cleaner # 0 /\ cleaner' = 0 => \A p \in rows' : rexp[p] >= cleaner]_vars
=============================================================================
