------------------------------- MODULE WsHub -------------------------------
(***************************************************************************)
(* One instance's WebSocket hub: the connections of one user (the maps are *)
(* keyed by user) and one broadcast's room.  The actors are the            *)
(* handle_socket task of every connection, its write task, the HTTP        *)
(* requests that join and leave the room, the subscriber loop that takes   *)
(* messages from Redis and puts them into the channels, and the other      *)
(* instances, which buffer for the user what they cannot deliver.          *)
(*                                                                         *)
(* A step ends at an await, or where a DashMap guard is dropped.  The loop *)
(* keeps its guards while it awaits room in a channel: until then nobody   *)
(* else gets a write guard on the same map.                                *)
(***************************************************************************)
EXTENDS Integers, Sequences, FiniteSets

CONSTANTS
    Conns,       \* slots for the user's connections and requests to join and leave
    MaxConns,    \* MAX_WS_CONNECTIONS_PER_USER
    Cap,         \* capacity of a connection's mpsc channel (128)
    BufferSize,  \* MESSAGE_BUFFER_SIZE
    MaxMsgs,     \* bound: PUBLISHes that take effect ..
    MaxToRoom,   \* .. and how many of them may be to the room
    MaxPeer      \* bound: PUBLISHes that other instances buffer, and the buffer's length
                 \* at which they stop

ASSUME WsHubAssumption ==
    /\ MaxConns \in Nat \ {0} /\ Cap \in Nat \ {0} /\ BufferSize \in Nat
    /\ MaxMsgs \in Nat /\ MaxToRoom \in Nat /\ MaxPeer \in Nat

Msgs == 1..MaxMsgs
\* A message to the user, to the room, or to the room that the broadcast is over.
Kinds == {"user", "room", "ended"}

VARIABLES
    conn,      \* connections, or HTTP requests; got: history, what a connection was sent
               \* of what is for the user, without replays if there are other instances
    clients,   \* WsService::clients, the registered connections ..
    entry,     \* .. and whether the map has an entry for the user, perhaps an empty one
    room,      \* WsService::rooms: no local room, an empty one, or one the user is in
    sub,       \* this instance is SUBSCRIBEd to the room, besides its PSUBSCRIBE
    alone,     \* there is no other instance
    kind,      \* the PUBLISHes so far: a retry of one that had taken effect is another
    inbox,     \* what Redis has sent this instance
    loop,      \* the subscriber loop: where it is, its message, and to whom it is still to go
    buffer     \* the user's buffer in Redis, newest first

vars == <<conn, clients, entry, room, sub, alone, kind, inbox, loop, buffer>>
feed == <<alone, kind, inbox>>

Off == [pc |-> "off", http |-> FALSE, room |-> FALSE,
        queue |-> << >>, replay |-> << >>, got |-> << >>]
Pcs == {"off", "upgraded", "join", "local", "subscribe", "drain", "replay", "open",
        "mute", "leave", "leaveReap", "unlocal", "unlocalReap", "unsubscribe",
        "unregister", "reap"}
Quiet == [pc |-> "idle", msg |-> 0, todo |-> {}]

Init ==
    /\ conn = [c \in Conns |-> Off] /\ clients = {}
    /\ entry = FALSE /\ room = "none" /\ sub = FALSE /\ alone \in BOOLEAN
    /\ kind = << >> /\ inbox = << >> /\ loop = Quiet /\ buffer = << >>

ToUser(m) == kind[m] = "user"

At(c, pc) == conn[c].pc = pc
Goto(c, pc) == conn' = [conn EXCEPT ![c].pc = pc]

\* Write guards on the two maps, and on the members of the room, which the loop's
\* read guards keep out.
ClientsFree == ~(loop.pc = "send" /\ loop.todo # {})
RoomsFree   == ~ClientsFree => ToUser(loop.msg)

-----------------------------------------------------------------------------
(* WsPubSubBridge: publishing and the subscriber loop *)

\* A PUBLISH takes effect, the first or a retry after an error that came too late
\* (publish makes three attempts).  An instance that is both SUBSCRIBEd and
\* PSUBSCRIBEd to the room gets a second copy.
Publish(k) ==
    /\ Len(kind) < MaxMsgs /\ kind' = Append(kind, k)
    /\ k = "user" \/ Cardinality({m \in DOMAIN kind : ~ToUser(m)}) < MaxToRoom
    /\ inbox' = inbox \o (IF k # "user" /\ sub THEN <<Len(kind) + 1, Len(kind) + 1>>
                                               ELSE <<Len(kind) + 1>>)
    /\ UNCHANGED <<conn, clients, entry, room, sub, alone, loop, buffer>>

\* The loop lagged behind, or the subscriber's connection was lost.
Lose ==
    /\ inbox # << >> /\ inbox' = Tail(inbox)
    /\ UNCHANGED <<conn, clients, entry, room, sub, alone, kind, loop, buffer>>

\* deliver_locally, send_to_user and send_to_room: to every connection of the
\* user; a message to a user without an entry is buffered, one to a user whose entry
\* is empty goes nowhere.
LoopTake ==
    /\ loop.pc = "idle" /\ inbox # << >> /\ inbox' = Tail(inbox)
    /\ LET m == Head(inbox) IN
       loop' = [pc   |-> IF ToUser(m) /\ ~entry THEN "push" ELSE "send",
                msg  |-> m,
                todo |-> IF ToUser(m) \/ room = "in" THEN clients ELSE {}]
    /\ UNCHANGED <<conn, clients, entry, room, sub, alone, kind, buffer>>

Closing(c) == conn[c].pc \in {"leave", "leaveReap", "unlocal", "unlocalReap",
                              "unsubscribe", "unregister", "reap"}
\* The write task has gone and taken the receiver of the channel with it.
Deaf(c) == At(c, "mute") \/ Closing(c)

\* sender.send().await: waits for room in the channel; fails when nobody receives.
LoopSend(c) ==
    /\ loop.pc = "send" /\ c \in loop.todo
    /\ Deaf(c) \/ Len(conn[c].queue) < Cap
    /\ conn' = IF Deaf(c) THEN conn ELSE [conn EXCEPT ![c].queue = Append(@, loop.msg)]
    /\ loop' = [loop EXCEPT !.todo = @ \ {c}]
    /\ UNCHANGED <<clients, entry, room, sub, feed, buffer>>

\* The end of a broadcast also tears the local room down (clear_local_room) ..
LoopSent ==
    /\ loop.pc = "send" /\ loop.todo = {}
    /\ IF kind[loop.msg] = "ended"
       THEN /\ room' = "none"
            /\ loop' = IF room = "in" THEN [loop EXCEPT !.pc = "unsubscribe"] ELSE Quiet
       ELSE loop' = Quiet /\ UNCHANGED room
    /\ UNCHANGED <<conn, clients, entry, sub, feed, buffer>>

\* .. and unsubscribes, if there was anybody in it.
LoopUnsubscribe ==
    /\ loop.pc = "unsubscribe" /\ loop' = Quiet /\ sub' = FALSE
    /\ UNCHANGED <<conn, clients, entry, room, feed, buffer>>

\* buffer_message: LPUSH, then LTRIM 0 MESSAGE_BUFFER_SIZE, which keeps one more;
\* if either fails the loop goes on.
LoopPush ==
    /\ loop.pc = "push" /\ loop' = [loop EXCEPT !.pc = "trim"]
    /\ buffer' \in {buffer, <<loop.msg>> \o buffer}
    /\ UNCHANGED <<conn, clients, entry, room, sub, feed>>

Trimmed == SubSeq(buffer, 1, IF Len(buffer) < BufferSize + 1 THEN Len(buffer) ELSE BufferSize + 1)

LoopTrim ==
    /\ loop.pc = "trim" /\ loop' = Quiet /\ buffer' \in {buffer, Trimmed}
    /\ UNCHANGED <<conn, clients, entry, room, sub, feed>>

\* The loops of the other instances get every message to the user too, sooner or
\* later than this one, and buffer it, the user not being connected there.
PeerBuffers(m) ==
    /\ ~alone /\ ToUser(m) /\ m <= MaxPeer
    /\ (Len(buffer) < MaxPeer /\ buffer' = <<m>> \o buffer) \/ buffer' = Trimmed
    /\ UNCHANGED <<conn, clients, entry, room, sub, feed, loop>>

-----------------------------------------------------------------------------
(* The room, which connections and HTTP requests join and leave *)

\* BroadcastService::join or leave has committed, perhaps after the room's end.
Call(c) ==
    /\ At(c, "off")
    /\ \E pc \in {"join", "leave"} : conn' = [conn EXCEPT ![c].pc = pc, ![c].http = TRUE]
    /\ UNCHANGED <<clients, entry, room, sub, feed, loop, buffer>>

\* A connection goes on, a request answers.
GoOn(c, pc) == conn' = [conn EXCEPT ![c] = IF @.http THEN Off ELSE [@ EXCEPT !.pc = pc]]

\* WsService::join_room: the local room first, then SADD to its members in Redis
\* (whom nobody reads), whose failure is logged and ends it ..
join_room(c) ==
    /\ At(c, "join") /\ RoomsFree /\ room' = "in" /\ (Goto(c, "local") \/ GoOn(c, "drain"))
    /\ UNCHANGED <<clients, entry, sub, feed, loop, buffer>>

\* .. and the local room again, which subscribes if it was emptied meanwhile.
add_local_room_member(c) ==
    /\ At(c, "local") /\ RoomsFree
    /\ IF room = "in" THEN GoOn(c, "drain") ELSE Goto(c, "subscribe")
    /\ room' = "in"
    /\ UNCHANGED <<clients, entry, sub, feed, loop, buffer>>

JoinSubscribe(c) ==
    /\ At(c, "subscribe") /\ GoOn(c, "drain") /\ sub' = TRUE
    /\ UNCHANGED <<clients, entry, room, feed, loop, buffer>>

\* SREM from its members, whose failure is logged and ends it.
AfterSrem(c) == Goto(c, "unlocal") \/ GoOn(c, "unregister")

\* WsService::leave_room: the user leaves the local room, other connections or
\* not; the emptied room is removed after its guard was dropped ..
leave_room(c) ==
    /\ At(c, "leave") /\ RoomsFree
    /\ IF room = "none" THEN AfterSrem(c) /\ UNCHANGED room
                        ELSE Goto(c, "leaveReap") /\ room' = "empty"
    /\ UNCHANGED <<clients, entry, sub, feed, loop, buffer>>

\* .. with whoever joined in between.
LeaveReap(c) ==
    /\ At(c, "leaveReap") /\ RoomsFree /\ AfterSrem(c) /\ room' = "none"
    /\ UNCHANGED <<clients, entry, sub, feed, loop, buffer>>

\* The local room is gone by now unless somebody came back: only then is it emptied,
\* removed and unsubscribed from, in three steps again.
remove_local_room_member(c) ==
    /\ At(c, "unlocal") /\ RoomsFree
    /\ IF room = "none" THEN GoOn(c, "unregister") /\ UNCHANGED room
                        ELSE Goto(c, "unlocalReap") /\ room' = "empty"
    /\ UNCHANGED <<clients, entry, sub, feed, loop, buffer>>

RemoveLocalReap(c) ==
    /\ At(c, "unlocalReap") /\ RoomsFree /\ Goto(c, "unsubscribe") /\ room' = "none"
    /\ UNCHANGED <<clients, entry, sub, feed, loop, buffer>>

LeaveUnsubscribe(c) ==
    /\ At(c, "unsubscribe") /\ GoOn(c, "unregister") /\ sub' = FALSE
    /\ UNCHANGED <<clients, entry, room, feed, loop, buffer>>

-----------------------------------------------------------------------------
(* handle_socket: a connection opens *)

\* ws_upgrade: the first look at the limit.
Upgrade(c) ==
    /\ At(c, "off") /\ Cardinality(clients) < MaxConns /\ Goto(c, "upgraded")
    /\ UNCHANGED <<clients, entry, room, sub, feed, loop, buffer>>

\* The limit again, under the entry's lock; then find_active_hosted_by and
\* find_active_participant, whose answer is module Broadcast's: room_broadcast_id is
\* kept for the life of the connection.
register(c) ==
    /\ At(c, "upgraded") /\ ClientsFree
    /\ IF Cardinality(clients) < MaxConns
       THEN /\ clients' = clients \cup {c} /\ entry' = TRUE
            /\ \E in \in BOOLEAN :
                  conn' = [conn EXCEPT ![c].pc = IF in THEN "join" ELSE "drain", ![c].room = in]
       ELSE Goto(c, "off") /\ UNCHANGED <<clients, entry>>
    /\ UNCHANGED <<room, sub, feed, loop, buffer>>

\* LPUSHed newest first, replayed oldest first.
OldestFirst(s) == [i \in 1..Len(s) |-> s[Len(s) + 1 - i]]

DrainNewestFirst(c) ==
    /\ At(c, "drain") /\ conn' = [conn EXCEPT ![c].pc = "replay", ![c].replay = buffer]
    /\ buffer' = << >>
    /\ UNCHANGED <<clients, entry, room, sub, feed, loop>>

\* One Lua script, LRANGE and DEL; if it fails nothing is replayed and the buffer stays.
drain_message_buffer(c) ==
    /\ At(c, "drain")
    /\ \/ /\ conn' = [conn EXCEPT ![c].pc = "replay", ![c].replay = OldestFirst(buffer)]
          /\ buffer' = << >>
       \/ Goto(c, "replay") /\ buffer' = buffer
    /\ UNCHANGED <<clients, entry, room, sub, feed, loop>>

Replay(c) ==
    /\ At(c, "replay") /\ conn[c].replay # << >>
    /\ LET m == Head(conn[c].replay) IN
       conn' = [conn EXCEPT ![c].replay = Tail(@), ![c].got = IF alone THEN Append(@, m) ELSE @]
    /\ UNCHANGED <<clients, entry, room, sub, feed, loop, buffer>>

\* The heartbeat and write tasks are spawned and the read loop begins.
Open(c) ==
    /\ At(c, "replay") /\ conn[c].replay = << >> /\ Goto(c, "open")
    /\ UNCHANGED <<clients, entry, room, sub, feed, loop, buffer>>

-----------------------------------------------------------------------------
(* The write task of an open connection *)

\* It takes the sink's mutex when it starts and keeps it: the heartbeat task, which
\* needs the same mutex for a ping, never gets it and is left out.
Write(c) ==
    /\ At(c, "open") /\ conn[c].queue # << >>
    /\ LET m == Head(conn[c].queue) IN
       conn' = [conn EXCEPT ![c].queue = Tail(@), ![c].got = IF ToUser(m) THEN Append(@, m) ELSE @]
    /\ UNCHANGED <<clients, entry, room, sub, feed, loop, buffer>>

\* A send fails and the task ends, while the read loop goes on.
WriteFails(c) ==
    /\ At(c, "open") /\ conn[c].queue # << >>
    /\ conn' = [conn EXCEPT ![c].pc = "mute", ![c].queue = << >>]
    /\ UNCHANGED <<clients, entry, room, sub, feed, loop, buffer>>

-----------------------------------------------------------------------------
(* handle_socket: the connection closes *)

\* run_read_loop returns and the tasks are aborted: the channel is gone with
\* what it held.
Close(c) ==
    /\ At(c, "open") \/ At(c, "mute")
    /\ conn' = [conn EXCEPT ![c] = [Off EXCEPT !.pc = IF conn[c].room THEN "leave" ELSE "unregister"]]
    /\ UNCHANGED <<clients, entry, room, sub, feed, loop, buffer>>

UnregisterForgotten(c) ==
    /\ At(c, "unregister") /\ ClientsFree /\ Goto(c, "off")
    /\ UNCHANGED <<clients, entry, room, sub, feed, loop, buffer>>

unregister(c) ==
    /\ At(c, "unregister") /\ ClientsFree
    /\ clients' = clients \ {c}
    /\ Goto(c, IF entry /\ clients' = {} THEN "reap" ELSE "off")
    /\ UNCHANGED <<entry, room, sub, feed, loop, buffer>>

\* The emptied entry is removed after its guard was dropped, with whoever
\* registered in between.
UnregisterReap(c) ==
    /\ At(c, "reap") /\ ClientsFree /\ Goto(c, "off") /\ clients' = {} /\ entry' = FALSE
    /\ UNCHANGED <<room, sub, feed, loop, buffer>>

\* EXPIRE of the buffer.
Expire ==
    /\ buffer # << >> /\ buffer' = << >>
    /\ UNCHANGED <<conn, clients, entry, room, sub, feed, loop>>

-----------------------------------------------------------------------------

Loop == LoopTake \/ LoopSent \/ LoopUnsubscribe \/ LoopPush \/ LoopTrim \/ \E c \in Conns : LoopSend(c)

Room(c) ==
    \/ join_room(c) \/ add_local_room_member(c) \/ JoinSubscribe(c)
    \/ leave_room(c) \/ LeaveReap(c)
    \/ remove_local_room_member(c) \/ RemoveLocalReap(c) \/ LeaveUnsubscribe(c)

Socket(c) ==
    \/ register(c) \/ drain_message_buffer(c) \/ Replay(c) \/ Open(c)
    \/ unregister(c) \/ UnregisterReap(c)

Next ==
    \/ Loop \/ Lose \/ Expire
    \/ \E k \in Kinds : Publish(k)
    \/ \E m \in 1..Len(kind) : PeerBuffers(m)
    \/ \E c \in Conns :
          Upgrade(c) \/ Call(c) \/ Room(c) \/ Socket(c) \/ Write(c) \/ WriteFails(c) \/ Close(c)

Spec == Init /\ [][Next]_vars

\* tokio runs every task that can run: the loop, the sockets and requests, and the
\* write task of a connection whose client reads.
FairSpec ==
    /\ Spec /\ WF_vars(Loop)
    /\ \A c \in Conns : WF_vars(Room(c)) /\ WF_vars(Socket(c)) /\ WF_vars(Write(c))

-----------------------------------------------------------------------------
(* Properties *)

\* Types; channels stay within their capacity.
TypeOK ==
    /\ clients \subseteq Conns
    /\ room \in {"none", "empty", "in"} /\ entry \in BOOLEAN /\ (clients # {} => entry)
    /\ sub \in BOOLEAN /\ alone \in BOOLEAN
    /\ kind \in Seq(Kinds) /\ Len(kind) <= MaxMsgs
    /\ inbox \in Seq(1..Len(kind)) /\ buffer \in Seq(1..Len(kind))
    /\ loop.pc \in {"idle", "send", "unsubscribe", "push", "trim"} /\ loop.todo \subseteq Conns
    /\ loop.msg \in (IF loop.pc = "idle" THEN {0} ELSE 1..Len(kind))
    /\ \A c \in Conns :
          /\ conn[c].pc \in Pcs /\ conn[c].http \in BOOLEAN /\ conn[c].room \in BOOLEAN
          /\ conn[c].queue \in Seq(1..Len(kind)) /\ Len(conn[c].queue) <= Cap
          /\ conn[c].replay \in Seq(1..Len(kind)) /\ conn[c].got \in Seq(1..Len(kind))

\* What a connection has been sent of the messages to its user, as long as it is
\* registered: the race in unregister may drop the registration of a connection
\* that is open, and what it gets from then on is out of order.
UserGot(c) == IF c \in clients THEN conn[c].got ELSE << >>

Ordered == INSTANCE Mailbox WITH sent <- Len(kind), got <- [c \in Conns |-> UserGot(c)]

\* A connection sees what was published to its user in the order of the PUBLISHes
\* and no PUBLISH twice, although some come by replay and some through the channel,
\* and although the user comes and goes between the loop's look at clients and its
\* LPUSH.  With other instances this is true of the channel only: they put into the
\* buffer what was delivered here.
InOrder == Ordered!Spec

\* A registration does not outlive its connection, whichever of the races between
\* register and unregister happens: the limit counts no connection that is gone.
NoGhostConnection == \A c \in clients : ~At(c, "off") /\ ~At(c, "reap")

\* The loop never waits for ever for one connection ("Runs inside a dedicated
\* Tokio task for the lifetime of the process").
LoopRuns == loop.pc = "send" ~> loop.pc = "idle"
=============================================================================
