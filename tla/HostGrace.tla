----------------------------- MODULE HostGrace -----------------------------
(***************************************************************************)
(* The grace period of a disconnected host: the WebSocket handlers of the  *)
(* host's connections, the host_grace key in Redis with its TTL, and the   *)
(* EndBroadcastJob that a worker runs.  One host and one broadcast, which  *)
(* the host starts and ends over HTTP meanwhile; what start and end do     *)
(* inside is module Broadcast's subject, here each is its transaction      *)
(* followed, for end, by the spawned cleanup.                              *)
(***************************************************************************)
EXTENDS Integers

CONSTANTS
    Conns,       \* the host's WebSocket connections (devices, tabs)
    Retries,     \* RetryPolicy::retries of the meno-broadcast-end worker
    Faults,      \* whether Redis, Postgres and the queue may fail
    MaxStarts,   \* bound: starts of the broadcast
    MaxDrops     \* bound: connections of the live host that break

ASSUME HostGraceAssumption ==
    Retries \in Nat /\ Faults \in BOOLEAN /\ MaxStarts \in Nat /\ MaxDrops \in Nat

\* Ids of the EndBroadcastJobs: each broken connection pushes at most one.
Jobs == 1..MaxDrops

VARIABLES
    live,      \* status = 'active' AND deleted_at IS NULL
    starts,    \* starts so far
    cleanups,  \* ends whose spawned cleanup has not run yet
    grace,     \* the host_grace key exists
    timer,     \* the period itself: "none", "running" or "over"
    conn,      \* each connection's handler
    job,       \* each job
    drops,     \* connections of the live host that broke
    graces,    \* times the key was set
    notices    \* host_reconnected messages published

graceVars == <<live, starts, cleanups, grace, timer, conn, job, drops, graces, notices>>

ConnPcs == {"off", "find", "exists", "clear", "tune", "open", "drop", "set", "push"}
JobPcs  == {"none", "queued", "del", "end", "done"}

GraceInit ==
    /\ live = FALSE /\ starts = 0 /\ cleanups = 0
    /\ grace = FALSE /\ timer = "none"
    /\ conn = [c \in Conns |-> [pc |-> "off", host |-> FALSE]]
    /\ job  = [j \in Jobs |-> [pc |-> "none", tries |-> 0]]
    /\ drops = 0 /\ graces = 0 /\ notices = 0

At(c, pc)   == conn[c].pc = pc
Goto(c, pc) == conn' = [conn EXCEPT ![c].pc = pc]

JobAt(j, pc)   == job[j].pc = pc
JobGoto(j, pc) == job' = [job EXCEPT ![j].pc = pc]

-----------------------------------------------------------------------------
(* HTTP *)

Start ==
    /\ ~live /\ starts < MaxStarts
    /\ live' = TRUE /\ starts' = starts + 1
    /\ UNCHANGED <<cleanups, grace, timer, conn, job, drops, graces, notices>>

End ==
    /\ live
    /\ live' = FALSE /\ cleanups' = cleanups + 1
    /\ UNCHANGED <<starts, grace, timer, conn, job, drops, graces, notices>>

\* The spawned delete_host_grace of an end.
EndCleanup ==
    /\ cleanups > 0
    /\ cleanups' = cleanups - 1 /\ grace' = FALSE
    /\ UNCHANGED <<live, starts, timer, conn, job, drops, graces, notices>>

-----------------------------------------------------------------------------
(* handle_socket *)

\* handle_reconnect: find_active_hosted_by, EXISTS, DEL, and the notice.
Connect(c) ==
    /\ At(c, "off") /\ Goto(c, "find")
    /\ UNCHANGED <<live, starts, cleanups, grace, timer, job, drops, graces, notices>>

ReconnectFind(c) ==
    /\ At(c, "find") /\ Goto(c, IF live THEN "exists" ELSE "tune")
    /\ UNCHANGED <<live, starts, cleanups, grace, timer, job, drops, graces, notices>>

ReconnectExists(c) ==
    /\ At(c, "exists") /\ Goto(c, IF grace THEN "clear" ELSE "tune")
    /\ UNCHANGED <<live, starts, cleanups, grace, timer, job, drops, graces, notices>>

ReconnectClearAlways(c) ==
    /\ At(c, "clear") /\ Goto(c, "tune")
    /\ grace' = FALSE /\ timer' = "none" /\ notices' = notices + 1
    /\ UNCHANGED <<live, starts, cleanups, job, drops, graces>>

\* DEL answers how many keys it removed, 0 when another handler was first;
\* only who removed the key publishes host_reconnected.
ReconnectClear(c) ==
    /\ At(c, "clear") /\ Goto(c, "tune")
    /\ grace' = FALSE
    /\ timer'   = IF grace THEN "none" ELSE timer
    /\ notices' = IF grace THEN notices + 1 ELSE notices
    /\ UNCHANGED <<live, starts, cleanups, job, drops, graces>>

\* is_active_host, read once per connection, before the read loop.
Tune(c) ==
    /\ At(c, "tune")
    /\ conn' = [conn EXCEPT ![c] = [pc |-> "open", host |-> live]]
    /\ UNCHANGED <<live, starts, cleanups, grace, timer, job, drops, graces, notices>>

\* A Close frame or the end of the stream: run_read_loop returns false.
Close(c) ==
    /\ At(c, "open") /\ Goto(c, "off")
    /\ UNCHANGED <<live, starts, cleanups, grace, timer, job, drops, graces, notices>>

\* A socket error or too many missed pongs: run_read_loop returns true and
\* handle_disconnect runs, for a host as of Tune.
Drop(c) ==
    /\ At(c, "open") /\ drops < MaxDrops
    /\ Goto(c, IF conn[c].host THEN "drop" ELSE "off")
    /\ drops' = IF conn[c].host THEN drops + 1 ELSE drops
    /\ UNCHANGED <<live, starts, cleanups, grace, timer, job, graces, notices>>

DisconnectFind(c) ==
    /\ At(c, "drop") /\ Goto(c, IF live THEN "set" ELSE "off")
    /\ UNCHANGED <<live, starts, cleanups, grace, timer, job, drops, graces, notices>>

\* SETEX host_grace
DisconnectSet(c) ==
    /\ At(c, "set") /\ Goto(c, "push")
    /\ grace' = TRUE /\ timer' = "running" /\ graces' = graces + 1
    /\ UNCHANGED <<live, starts, cleanups, job, drops, notices>>

\* The job is pushed to run at once: push_broadcast_end sets no delay.
DisconnectPush(c) ==
    /\ At(c, "push") /\ Goto(c, "off")
    /\ \E j \in Jobs : /\ JobAt(j, "none") /\ \A i \in Jobs : JobAt(i, "none") => j <= i
                        /\ JobGoto(j, "queued")
    /\ UNCHANGED <<live, starts, cleanups, grace, timer, drops, graces, notices>>

\* Redis ends the key when its TTL is up.
Expire ==
    /\ timer = "running"
    /\ timer' = "over" /\ grace' = FALSE
    /\ UNCHANGED <<live, starts, cleanups, conn, job, drops, graces, notices>>

-----------------------------------------------------------------------------
(* end_broadcast, the worker *)

JobCheck(j) ==
    /\ JobAt(j, "queued") /\ JobGoto(j, IF grace THEN "del" ELSE "done")
    /\ UNCHANGED <<live, starts, cleanups, grace, timer, conn, drops, graces, notices>>

JobDel(j) ==
    /\ JobAt(j, "del") /\ JobGoto(j, "end")
    /\ grace' = FALSE
    /\ UNCHANGED <<live, starts, cleanups, timer, conn, drops, graces, notices>>

JobEnd(j) ==
    /\ JobAt(j, "end") /\ live /\ JobGoto(j, "done")
    /\ live' = FALSE /\ cleanups' = cleanups + 1
    /\ UNCHANGED <<starts, grace, timer, conn, drops, graces, notices>>

\* end answers an error (NotLive, or a database fault): the RetryLayer runs
\* the job again from its first line, Retries times.
JobRetry(j) ==
    /\ JobAt(j, "end") /\ (~live \/ Faults)
    /\ job' = [job EXCEPT ![j] =
                 IF job[j].tries < Retries THEN [pc |-> "queued", tries |-> job[j].tries + 1]
                                           ELSE [pc |-> "done", tries |-> job[j].tries]]
    /\ UNCHANGED <<live, starts, cleanups, grace, timer, conn, drops, graces, notices>>

-----------------------------------------------------------------------------
(* Faults *)

\* A query, Redis command or push of a connection's handler fails: it is
\* logged or dropped.
AfterError(pc) ==
    CASE pc \in {"find", "exists", "clear"} -> "tune"
      [] pc = "set" -> "push"
      [] OTHER      -> "off"

HandlerError(c) ==
    /\ Faults
    /\ conn[c].pc \in {"find", "exists", "clear", "drop", "set", "push"}
    /\ Goto(c, AfterError(conn[c].pc))
    /\ UNCHANGED <<live, starts, cleanups, grace, timer, job, drops, graces, notices>>

\* The instance stops: its connections are gone without any cleanup.
Vanish(c) ==
    /\ Faults
    /\ ~At(c, "off") /\ Goto(c, "off")
    /\ UNCHANGED <<live, starts, cleanups, grace, timer, job, drops, graces, notices>>

\* EXISTS fails and reads as "no key"; the error of DEL is dropped.
JobError(j) ==
    /\ Faults
    /\ \/ JobAt(j, "queued") /\ JobGoto(j, "done")
       \/ JobAt(j, "del") /\ JobGoto(j, "end")
    /\ UNCHANGED <<live, starts, cleanups, grace, timer, conn, drops, graces, notices>>

Handler(c) ==
    \/ ReconnectFind(c) \/ ReconnectExists(c) \/ ReconnectClear(c)
    \/ Tune(c) \/ DisconnectFind(c) \/ DisconnectSet(c) \/ DisconnectPush(c)

Worker(j) == JobCheck(j) \/ JobDel(j) \/ JobEnd(j) \/ JobRetry(j)

GraceNext ==
    \/ Start \/ End \/ EndCleanup \/ Expire
    \/ \E c \in Conns : Connect(c) \/ Handler(c) \/ Close(c) \/ Drop(c)
                          \/ HandlerError(c) \/ Vanish(c)
    \/ \E j \in Jobs : Worker(j) \/ JobError(j)

GraceSpec == GraceInit /\ [][GraceNext]_graceVars

-----------------------------------------------------------------------------
(* Properties *)

\* Types; a job is tried Retries times more at most, however often end fails.
GraceTypeOK ==
    /\ live \in BOOLEAN /\ grace \in BOOLEAN
    /\ starts \in Nat /\ cleanups \in Nat /\ drops \in Nat /\ graces \in Nat /\ notices \in Nat
    /\ timer \in {"none", "running", "over"}
    /\ conn \in [Conns -> [pc: ConnPcs, host: BOOLEAN]]
    /\ job  \in [Jobs -> [pc: JobPcs, tries: 0..Retries]]

\* The listeners are told that the host is back at most once per grace period,
\* however many of the host's connections come back at once (handle_reconnect:
\* "In the case of a race condition, where another task cleared the key").
OneNoticePerGrace == notices <= graces
=============================================================================
