----------------------------- MODULE WsHubProofs -----------------------------
(* Theorems about WsHub for any number of connections, messages and any limits: *)
(* what is published to a user reaches a connection in order and no PUBLISH     *)
(* twice, through its channel and, without other instances, by replay too.      *)
EXTENDS WsHub, SequenceTheorems, TLAPS

-----------------------------------------------------------------------------
(* Sequences of messages: what they hold, and in which order *)

Has(s, m) == \E i \in 1..Len(s) : s[i] = m
Precedes(s, x, y) == \E i, j \in 1..Len(s) : i < j /\ s[i] = x /\ s[j] = y

\* t is what is left of s when messages go.
Part(t, s) ==
    /\ \A m \in Msgs : Has(t, m) => Has(s, m)
    /\ \A x, y \in Msgs : Precedes(t, x, y) => Precedes(s, x, y)

-----------------------------------------------------------------------------
(* Types *)

ConnType == [pc: Pcs, http: BOOLEAN, room: BOOLEAN,
             queue: Seq(Msgs), replay: Seq(Msgs), got: Seq(Msgs)]
LoopType == [pc: {"idle", "send", "unsubscribe", "push", "trim"}, msg: 0..MaxMsgs,
             todo: SUBSET Conns]

\* The maps and flags ..
MapsOK ==
    /\ clients \subseteq Conns /\ entry \in BOOLEAN /\ (clients # {} => entry)
    /\ room \in {"none", "empty", "in"} /\ sub \in BOOLEAN /\ alone \in BOOLEAN
\* .. what is published ..
FeedOK ==
    /\ kind \in Seq(Kinds) /\ Len(kind) <= MaxMsgs
    /\ inbox \in Seq(Msgs) /\ \A m \in Msgs : Has(inbox, m) => m <= Len(kind)
\* .. the loop and the buffer ..
LoopOK == loop \in LoopType /\ loop.msg \in IF loop.pc = "idle" THEN {0} ELSE 1..Len(kind)
MailOK == buffer \in Seq(Msgs)
\* .. and the connections.
ConnOK == conn \in [Conns -> ConnType] /\ \A c \in Conns : Len(conn[c].queue) <= Cap

TypeInv == MapsOK /\ FeedOK /\ LoopOK /\ MailOK /\ ConnOK

-----------------------------------------------------------------------------
(* What the operations on sequences do to them *)

\* The empty sequence has nothing, and is the only one.
LEMMA EmptyHas ==
    /\ \A m : ~Has(<< >>, m)
    /\ \A x, y : ~Precedes(<< >>, x, y)
    /\ \A s \in Seq(Msgs) : (\A m \in Msgs : ~Has(s, m)) => s = << >>
<1>1. Len(<< >>) = 0
  BY EmptySeq
<1>2. ASSUME NEW s \in Seq(Msgs), s # << >>
      PROVE  \E m \in Msgs : Has(s, m)
  <2>1. Len(s) \in Nat \ {0}
    BY <1>2, EmptySeq
  <2>2. 1 \in 1..Len(s) /\ s[1] \in Msgs
    BY <2>1, ElementOfSeq
  <2> QED
    BY <2>2 DEF Has
<1> QED
  BY <1>1, <1>2 DEF Has, Precedes

\* A sequence is a part of itself, and nothing is a part of every sequence.
LEMMA PartSelf == \A s : Part(s, s) /\ Part(<< >>, s)
BY EmptyHas DEF Part

\* Taking the head: the rest came after it.
LEMMA TailHas ==
    ASSUME NEW s \in Seq(Msgs), s # << >>
    PROVE  /\ Head(s) \in Msgs /\ Has(s, Head(s)) /\ Tail(s) \in Seq(Msgs)
           /\ Part(Tail(s), s)
           /\ \A m : Has(Tail(s), m) => Precedes(s, Head(s), m)
<1>1. /\ Len(s) \in Nat \ {0} /\ Head(s) = s[1] /\ Head(s) \in Msgs
      /\ Tail(s) \in Seq(Msgs) /\ Len(Tail(s)) = Len(s) - 1
      /\ \A i \in 1..Len(Tail(s)) : Tail(s)[i] = s[i + 1]
  BY EmptySeq, LenProperties, HeadTailProperties
<1>2. \A i \in 1..Len(Tail(s)) : i + 1 \in 1..Len(s) /\ 1 < i + 1
  BY <1>1
<1>3. 1 \in 1..Len(s)
  BY <1>1
<1>4. \A m : Has(Tail(s), m) => Has(s, m) /\ Precedes(s, Head(s), m)
  BY <1>1, <1>2, <1>3 DEF Has, Precedes
<1>5. ASSUME NEW x, NEW y, Precedes(Tail(s), x, y)
      PROVE  Precedes(s, x, y)
  <2>1. PICK i \in 1..Len(Tail(s)), j \in 1..Len(Tail(s)) :
           i < j /\ Tail(s)[i] = x /\ Tail(s)[j] = y
    BY <1>5 DEF Precedes
  <2>2. i + 1 < j + 1 /\ s[i + 1] = x /\ s[j + 1] = y
    BY <1>1, <2>1
  <2> QED
    BY <1>2, <2>2 DEF Precedes
<1> QED
  BY <1>1, <1>3, <1>4, <1>5 DEF Part, Has

\* Appending: the new message comes last.
LEMMA AppendHas ==
    ASSUME NEW s \in Seq(Msgs), NEW e \in Msgs
    PROVE  /\ Append(s, e) \in Seq(Msgs) /\ Len(Append(s, e)) = Len(s) + 1
           /\ \A m : Has(Append(s, e), m) <=> Has(s, m) \/ m = e
           /\ \A x, y : Precedes(Append(s, e), x, y) => Precedes(s, x, y) \/ (Has(s, x) /\ y = e)
<1> DEFINE t == Append(s, e)
<1>1. /\ Len(s) \in Nat /\ t \in Seq(Msgs) /\ Len(t) = Len(s) + 1
      /\ \A i \in 1..Len(s) : t[i] = s[i]
      /\ t[Len(s) + 1] = e
  BY LenProperties, AppendProperties
<1> HIDE DEF t
<1>2. \A i \in 1..Len(t) : i \in 1..Len(s) \/ i = Len(s) + 1
  BY <1>1
<1>3. \A i \in 1..Len(s) : i \in 1..Len(t)
  BY <1>1
<1>4. Len(s) + 1 \in 1..Len(t)
  BY <1>1
<1>5. \A m : Has(t, m) <=> Has(s, m) \/ m = e
  BY <1>1, <1>2, <1>3, <1>4 DEF Has
<1>6. ASSUME NEW x, NEW y, Precedes(t, x, y)
      PROVE  Precedes(s, x, y) \/ (Has(s, x) /\ y = e)
  <2>1. PICK i \in 1..Len(t), j \in 1..Len(t) : i < j /\ t[i] = x /\ t[j] = y
    BY <1>6 DEF Precedes
  <2>2. i \in 1..Len(s)
    BY <1>1, <2>1
  <2> QED
    BY <1>1, <1>2, <2>1, <2>2 DEF Precedes, Has
<1> QED
  BY <1>1, <1>5, <1>6 DEF t

\* Who precedes is there, and so is who is preceded.
LEMMA PrecedesHas == \A s, x, y : Precedes(s, x, y) => Has(s, x) /\ Has(s, y)
BY DEF Precedes, Has

\* Joining two sequences: the first comes before the second.
LEMMA ConcatHas ==
    ASSUME NEW s \in Seq(Msgs), NEW t \in Seq(Msgs)
    PROVE  /\ s \o t \in Seq(Msgs)
           /\ \A m : Has(s \o t, m) <=> Has(s, m) \/ Has(t, m)
           /\ \A x, y : Precedes(s \o t, x, y) =>
                 Precedes(s, x, y) \/ Precedes(t, x, y) \/ (Has(s, x) /\ Has(t, y))
<1> DEFINE u == s \o t
           n == Len(s)
<1>1. /\ n \in Nat /\ Len(t) \in Nat /\ u \in Seq(Msgs) /\ Len(u) = n + Len(t)
      /\ \A i \in 1..(n + Len(t)) : u[i] = IF i <= n THEN s[i] ELSE t[i - n]
  BY LenProperties, ConcatProperties
<1> HIDE DEF u, n
<1>2. \A i \in 1..Len(u) : IF i <= n THEN i \in 1..n /\ u[i] = s[i]
                                     ELSE i - n \in 1..Len(t) /\ u[i] = t[i - n]
  BY <1>1
<1>3. /\ \A i \in 1..n : i \in 1..Len(u) /\ u[i] = s[i]
      /\ \A i \in 1..Len(t) : i + n \in 1..Len(u) /\ u[i + n] = t[i]
  BY <1>1
<1>4. ASSUME NEW m, Has(u, m) PROVE Has(s, m) \/ Has(t, m)
  <2>1. PICK i \in 1..Len(u) : u[i] = m
    BY <1>4 DEF Has
  <2> QED
    BY <1>2, <2>1 DEF Has, n
<1>5. ASSUME NEW m, Has(s, m) \/ Has(t, m) PROVE Has(u, m)
  BY <1>3, <1>5 DEF Has, n
<1>6. ASSUME NEW x, NEW y, Precedes(u, x, y)
      PROVE  Precedes(s, x, y) \/ Precedes(t, x, y) \/ (Has(s, x) /\ Has(t, y))
  <2>1. PICK i \in 1..Len(u), j \in 1..Len(u) : i < j /\ u[i] = x /\ u[j] = y
    BY <1>6 DEF Precedes
  <2>2. CASE j <= n
    <3>1. i \in 1..n /\ j \in 1..n /\ s[i] = x /\ s[j] = y
      BY <1>1, <1>2, <2>1, <2>2
    <3> QED
      BY <2>1, <3>1 DEF Precedes, n
  <2>3. CASE i <= n /\ ~(j <= n)
    <3>1. i \in 1..n /\ s[i] = x /\ j - n \in 1..Len(t) /\ t[j - n] = y
      BY <1>2, <2>1, <2>3
    <3> QED
      BY <3>1 DEF Has, n
  <2>4. CASE ~(i <= n)
    <3>1. /\ i - n \in 1..Len(t) /\ j - n \in 1..Len(t) /\ i - n < j - n
          /\ t[i - n] = x /\ t[j - n] = y
      BY <1>1, <1>2, <2>1, <2>4
    <3> QED
      BY <3>1 DEF Precedes
  <2> QED
    BY <2>2, <2>3, <2>4
<1> QED
  BY <1>1, <1>4, <1>5, <1>6 DEF u

\* LPUSH: the new message comes first.
LEMMA PushHas ==
    ASSUME NEW s \in Seq(Msgs), NEW e \in Msgs
    PROVE  /\ <<e>> \o s \in Seq(Msgs) /\ Len(<<e>> \o s) = Len(s) + 1
           /\ \A m : Has(<<e>> \o s, m) <=> Has(s, m) \/ m = e
           /\ \A x, y : Precedes(<<e>> \o s, x, y) => Precedes(s, x, y) \/ (x = e /\ Has(s, y))
<1> DEFINE t == <<e>>
<1>1. t \in Seq(Msgs) /\ Len(t) = 1 /\ t[1] = e
  OBVIOUS
<1> HIDE DEF t
<1>2. /\ \A m : Has(t, m) <=> m = e
      /\ \A x, y : ~Precedes(t, x, y)
  BY <1>1 DEF Has, Precedes
<1>3. Len(t \o s) = Len(s) + 1
  <2>1. Len(t \o s) = Len(t) + Len(s) /\ Len(s) \in Nat
    BY <1>1, LenProperties, ConcatProperties
  <2> QED
    BY <1>1, <2>1
<1>4. /\ t \o s \in Seq(Msgs)
      /\ \A m : Has(t \o s, m) <=> Has(t, m) \/ Has(s, m)
      /\ \A x, y : Precedes(t \o s, x, y) =>
            Precedes(t, x, y) \/ Precedes(s, x, y) \/ (Has(t, x) /\ Has(s, y))
  BY <1>1, ConcatHas
<1> QED
  BY <1>2, <1>3, <1>4 DEF t

\* LTRIM.
LEMMA TrimHas ==
    ASSUME buffer \in Seq(Msgs)
    PROVE  Trimmed \in Seq(Msgs) /\ Part(Trimmed, buffer)
<1> DEFINE n == IF Len(buffer) < BufferSize + 1 THEN Len(buffer) ELSE BufferSize + 1
<1>1. /\ Len(buffer) \in Nat /\ BufferSize \in Nat /\ n \in Nat
      /\ n <= Len(buffer) /\ n <= BufferSize + 1
  BY WsHubAssumption, LenProperties
<1>2. \A i \in 1..n : buffer[i] \in Msgs /\ i \in 1..Len(buffer)
  BY <1>1, ElementOfSeq
<1>3. Trimmed = SubSeq(buffer, 1, n)
  BY DEF Trimmed
<1> HIDE DEF n
<1>4. /\ Trimmed \in Seq(Msgs) /\ Len(Trimmed) = n
      /\ \A i \in 1..n : Trimmed[i] = buffer[i]
  <2>1. /\ Trimmed \in Seq(Msgs) /\ Len(Trimmed) = IF 1 <= n THEN n - 1 + 1 ELSE 0
        /\ \A i \in 1..(n - 1 + 1) : Trimmed[i] = buffer[1 + i - 1]
    BY <1>1, <1>2, <1>3, SubSeqProperties
  <2> QED
    BY <1>1, <2>1
<1> QED
  BY <1>1, <1>2, <1>4 DEF Part, Has, Precedes

\* What drain_message_buffer returns.
LEMMA OldestHas ==
    ASSUME NEW s \in Seq(Msgs)
    PROVE  /\ OldestFirst(s) \in Seq(Msgs)
           /\ \A m : Has(OldestFirst(s), m) <=> Has(s, m)
           /\ \A x, y : Precedes(OldestFirst(s), x, y) => Precedes(s, y, x)
<1> DEFINE t == OldestFirst(s)
           n == Len(s)
<1>1. n \in Nat /\ \A i \in 1..n : s[i] \in Msgs /\ n + 1 - i \in 1..n /\ n + 1 - (n + 1 - i) = i
  BY LenProperties, ElementOfSeq
<1>2. t \in [1..n -> Msgs] /\ \A i \in 1..n : t[i] = s[n + 1 - i]
  BY <1>1 DEF OldestFirst
<1>3. t \in Seq(Msgs)
  BY <1>1, <1>2, SeqDef
<1>4. Len(t) = n
  BY <1>1, <1>2, <1>3, LenProperties
<1> HIDE DEF t
<1>5. \A m : Has(t, m) => Has(s, m)
  BY <1>1, <1>2, <1>4 DEF Has
<1>6. ASSUME NEW m, Has(s, m) PROVE Has(t, m)
  <2>1. PICK i \in 1..n : s[i] = m
    BY <1>6 DEF Has
  <2>2. n + 1 - i \in 1..n /\ t[n + 1 - i] = m
    BY <1>1, <1>2, <2>1
  <2> QED
    BY <1>4, <2>2 DEF Has
<1>7. ASSUME NEW x, NEW y, Precedes(t, x, y) PROVE Precedes(s, y, x)
  <2>1. PICK i \in 1..n, j \in 1..n : i < j /\ t[i] = x /\ t[j] = y
    BY <1>4, <1>7 DEF Precedes
  <2>2. /\ n + 1 - j \in 1..n /\ n + 1 - i \in 1..n /\ n + 1 - j < n + 1 - i
        /\ s[n + 1 - j] = y /\ s[n + 1 - i] = x
    BY <1>1, <1>2, <2>1
  <2> QED
    BY <2>2 DEF Precedes
<1> QED
  BY <1>3, <1>5, <1>6, <1>7 DEF t

-----------------------------------------------------------------------------
(* The invariant *)

\* Where a connection has not yet drained the buffer.
Undrained == {"join", "local", "subscribe", "drain"}
\* Where it has nothing: it has not begun, or it is closing.
Bare(c) == conn[c].pc \in {"off", "upgraded"} \/ Closing(c)
\* Where a request to join or to leave can be.
HttpPcs == {"join", "local", "subscribe", "leave", "leaveReap", "unlocal", "unlocalReap",
            "unsubscribe"}

\* What a connection holds where; a request has no channel and is not registered,
\* and a registered connection is not gone.
ControlInv ==
    \A c \in Conns :
        /\ Bare(c) => conn[c].queue = << >> /\ conn[c].replay = << >> /\ conn[c].got = << >>
        /\ conn[c].pc \in Undrained => conn[c].replay = << >> /\ conn[c].got = << >>
        /\ conn[c].pc \in {"open", "mute"} => conn[c].replay = << >>
        /\ conn[c].http => conn[c].pc \in HttpPcs /\ conn[c].queue = << >> /\ c \notin clients
        /\ c \in clients => conn[c].pc \notin {"off", "upgraded", "reap"}

\* A message on its way to a replay: in the buffer, or drained from it.  With other
\* instances nothing is known of those.
Waiting(m) == alone /\ (Has(buffer, m) \/ \E c \in Conns : Has(conn[c].replay, m))
\* .. or one that is in a channel or with a connection.
InPlay(m) == Waiting(m) \/ \E c \in Conns : Has(conn[c].queue, m) \/ Has(conn[c].got, m)

\* m came before all of the inbox: a message to the user comes once.
Before(m) == \A x \in Msgs : Has(inbox, x) => m <= x /\ (ToUser(x) => m < x)

InboxInv == \A x, y \in Msgs : Precedes(inbox, x, y) => x <= y /\ (ToUser(y) => x < y)

\* The loop sends to registered connections; while it is about to buffer a message
\* nobody has been sent anything.
LoopInv ==
    /\ loop.pc = "send" => loop.todo \subseteq clients
    /\ loop.pc # "idle" => Before(loop.msg)
    /\ loop.pc \in {"push", "trim"} => ToUser(loop.msg)
    /\ loop.pc = "push" => \A c \in clients : conn[c].queue = << >>

\* Only what has been published is anywhere.
PubInv ==
    \A m \in Msgs :
        /\ Has(buffer, m) => m <= Len(kind)
        /\ \A c \in Conns :
              Has(conn[c].queue, m) \/ Has(conn[c].replay, m) \/ Has(conn[c].got, m) => m <= Len(kind)

\* Messages in play have been taken from the inbox, and before the loop's.
PlayInv ==
    \A m \in Msgs : InPlay(m) =>
        /\ Before(m)
        /\ loop.pc # "idle" => m <= loop.msg
        /\ loop.pc = "push" => m < loop.msg

\* What the loop sends to the user is in no buffer and no replay.
SendInv == loop.pc = "send" /\ ToUser(loop.msg) => ~Waiting(loop.msg)

\* The buffer has the newest first, a replay the oldest.
WaitInv ==
    alone =>
        /\ \A x, y \in Msgs : Precedes(buffer, x, y) => y < x
        /\ \A c \in Conns, x, y \in Msgs : Precedes(conn[c].replay, x, y) => x < y

\* What a registered connection has got, what it replays, what it will drain and
\* what its channel holds come in this order ..
Ahead(c, x) ==
    \/ Has(conn[c].got, x)
    \/ alone /\ (Has(conn[c].replay, x) \/ (conn[c].pc \in Undrained /\ Has(buffer, x)))

OrderInv ==
    \A c \in clients, x, y \in Msgs :
        /\ alone /\ Has(conn[c].got, x) /\ Has(conn[c].replay, y) => x < y
        /\ Ahead(c, x) /\ Has(conn[c].queue, y) /\ ToUser(y) => x < y
        /\ Precedes(conn[c].queue, x, y) /\ ToUser(x) /\ ToUser(y) => x < y

\* .. and before the message that the loop has yet to send to it.
TodoInv ==
    \A c \in clients : loop.pc = "send" /\ c \in loop.todo /\ ToUser(loop.msg) =>
        ~Has(conn[c].queue, loop.msg) /\ ~Has(conn[c].got, loop.msg)

DataInv ==
    /\ InboxInv /\ LoopInv /\ PubInv /\ PlayInv /\ SendInv /\ WaitInv /\ OrderInv /\ TodoInv

HubInv == TypeInv /\ ControlInv /\ DataInv

\* At the start there is nothing.
LEMMA HubInit == Init => HubInv
<1> SUFFICES ASSUME Init PROVE HubInv
  OBVIOUS
<1> USE WsHubAssumption DEF Init
<1>0. << >> \in Seq(Msgs) /\ << >> \in Seq(Kinds) /\ Len(<< >>) = 0
  BY EmptySeq
<1>1. /\ Off \in ConnType /\ Off.pc = "off" /\ Off.http = FALSE
      /\ Off.queue = << >> /\ Off.replay = << >> /\ Off.got = << >>
  BY <1>0 DEF Off, ConnType, Pcs
<1>2. \A c \in Conns : conn[c] = Off
  OBVIOUS
<1>3. /\ loop \in LoopType /\ loop.pc = "idle" /\ loop.msg = 0
  BY DEF Quiet, LoopType
<1>4. TypeInv
  <2>1. MapsOK
    BY DEF MapsOK
  <2>2. FeedOK
    BY <1>0, EmptyHas DEF FeedOK
  <2>3. LoopOK
    BY <1>3 DEF LoopOK
  <2>4. MailOK
    BY <1>0 DEF MailOK
  <2>5. ConnOK
    BY <1>0, <1>1, <1>2 DEF ConnOK
  <2> QED
    BY <2>1, <2>2, <2>3, <2>4, <2>5 DEF TypeInv
<1>5. ControlInv
  BY <1>1, <1>2 DEF ControlInv, Bare, Closing, At, Undrained
<1>6. \A m \in Msgs : ~InPlay(m) /\ ~Waiting(m)
  BY <1>1, <1>2, EmptyHas DEF InPlay, Waiting
<1>7. DataInv
  <2>1. InboxInv /\ LoopInv /\ PlayInv /\ SendInv
    BY <1>3, <1>6, EmptyHas DEF InboxInv, LoopInv, PlayInv, SendInv
  <2>2. PubInv
    BY <1>1, <1>2, EmptyHas DEF PubInv
  <2>3. WaitInv
    BY <1>1, <1>2, EmptyHas DEF WaitInv
  <2>4. OrderInv /\ TodoInv
    BY DEF OrderInv, TodoInv
  <2> QED
    BY <2>1, <2>2, <2>3, <2>4 DEF DataInv
<1> QED
  BY <1>4, <1>5, <1>7 DEF HubInv

-----------------------------------------------------------------------------
(* Steps that lose messages, or none, keep the order of the others *)

\* Nothing is published, sequences lose messages, the loop stays where it is
\* or finishes, and whoever registers has nothing yet.
Shrinks ==
    /\ UNCHANGED <<kind, alone>> /\ Part(inbox', inbox) /\ Part(buffer', buffer)
    /\ \A c \in Conns :
          /\ Part(conn'[c].queue, conn[c].queue) /\ Part(conn'[c].replay, conn[c].replay)
          /\ Part(conn'[c].got, conn[c].got)
          /\ conn'[c].pc \in Undrained => conn[c].pc \in Undrained \/ conn'[c].queue = << >>
          /\ c \in clients' /\ c \notin clients =>
                conn'[c].queue = << >> /\ conn'[c].got = << >> /\ conn'[c].replay = << >>
    /\ \/ /\ loop'.pc = loop.pc /\ loop'.msg = loop.msg /\ loop'.todo \subseteq loop.todo
          /\ loop.pc = "send" /\ loop.todo # {} => UNCHANGED clients
       \/ loop'.pc = "idle"
       \/ loop'.pc = "unsubscribe" /\ loop.pc = "send" /\ loop'.msg = loop.msg

\* Such a step keeps every order.
LEMMA ShrinkKeeps ==
    ASSUME TypeInv, TypeInv', DataInv, Shrinks
    PROVE  DataInv'
<1>0. /\ \A c \in Conns : conn'[c].queue \in Seq(Msgs)
      /\ clients \subseteq Conns /\ clients' \subseteq Conns
      /\ loop.pc # "idle" => loop.msg \in Msgs
  <2>1. loop.pc # "idle" => loop.msg \in 1..Len(kind) /\ Len(kind) \in Nat /\ Len(kind) <= MaxMsgs
    BY LenProperties DEF TypeInv, LoopOK, FeedOK
  <2> QED
    BY <2>1, WsHubAssumption DEF TypeInv, ConnOK, ConnType, MapsOK, Msgs
<1>1. /\ InboxInv /\ LoopInv /\ PubInv /\ PlayInv /\ SendInv /\ WaitInv /\ OrderInv /\ TodoInv
      /\ kind' = kind /\ alone' = alone
  BY DEF DataInv, Shrinks
<1>2. \A m : ToUser(m)' <=> ToUser(m)
  BY <1>1 DEF ToUser
\* What each sequence has left.
<1>3. /\ \A m \in Msgs : (Has(inbox, m)' => Has(inbox, m)) /\ (Has(buffer, m)' => Has(buffer, m))
      /\ \A c \in Conns, m \in Msgs :
            /\ Has(conn'[c].queue, m) => Has(conn[c].queue, m)
            /\ Has(conn'[c].replay, m) => Has(conn[c].replay, m)
            /\ Has(conn'[c].got, m) => Has(conn[c].got, m)
      /\ \A x, y \in Msgs : /\ Precedes(inbox, x, y)' => Precedes(inbox, x, y)
                            /\ Precedes(buffer, x, y)' => Precedes(buffer, x, y)
      /\ \A c \in Conns, x, y \in Msgs :
            /\ Precedes(conn'[c].queue, x, y) => Precedes(conn[c].queue, x, y)
            /\ Precedes(conn'[c].replay, x, y) => Precedes(conn[c].replay, x, y)
  BY DEF Shrinks, Part
<1>4. \A m \in Msgs : (Waiting(m)' => Waiting(m)) /\ (InPlay(m)' => InPlay(m))
  BY <1>1, <1>3 DEF Waiting, InPlay
<1>5. \A m \in Msgs : Before(m) => Before(m)'
  BY <1>2, <1>3 DEF Before
<1>6. /\ loop'.pc = "send" => /\ loop.pc = "send" /\ loop'.todo \subseteq loop.todo
                              /\ loop'.todo # {} => clients' = clients
      /\ loop'.pc # "idle" => loop.pc # "idle" /\ loop'.msg = loop.msg
      /\ loop'.pc \in {"push", "trim"} => loop'.pc = loop.pc
  BY DEF Shrinks
<1>7. \A c \in clients' :
         c \notin clients => conn'[c].queue = << >> /\ conn'[c].got = << >> /\ conn'[c].replay = << >>
  BY <1>0 DEF Shrinks
<1>8. InboxInv' /\ PlayInv'
  BY <1>1, <1>2, <1>3, <1>4, <1>5, <1>6 DEF InboxInv, PlayInv
<1>9. LoopInv'
  <2>1. ASSUME loop'.pc = "push", NEW c \in clients'
        PROVE  conn'[c].queue = << >>
    <3>1. CASE c \notin clients
      BY <1>7, <3>1
    <3>2. CASE c \in clients
      <4>1. conn[c].queue = << >>
        BY <1>1, <1>6, <2>1, <3>2 DEF LoopInv
      <4>2. \A m \in Msgs : ~Has(conn'[c].queue, m)
        BY <1>0, <1>3, <4>1, EmptyHas
      <4> QED
        BY <1>0, <4>2, EmptyHas
    <3> QED
      BY <3>1, <3>2
  <2>2. loop'.pc # "idle" => Before(loop.msg)'
    BY <1>0, <1>1, <1>5, <1>6 DEF LoopInv
  <2> QED
    BY <1>1, <1>2, <1>6, <2>1, <2>2 DEF LoopInv
<1>10. SendInv'
  BY <1>0, <1>1, <1>2, <1>4, <1>6 DEF SendInv
<1>11. WaitInv'
  BY <1>1, <1>3 DEF WaitInv
<1>12. PubInv'
  BY <1>1, <1>3 DEF PubInv
<1>13. TodoInv'
  BY <1>0, <1>1, <1>2, <1>3, <1>6 DEF TodoInv
<1>14. OrderInv'
  <2>1. ASSUME NEW c \in clients', NEW x \in Msgs, NEW y \in Msgs
        PROVE  OrderInv!(c, x, y)'
    <3>1. CASE c \notin clients
      BY <1>7, <3>1, EmptyHas
    <3>2. CASE c \in clients
      <4>1. /\ Has(conn'[c].queue, y) => conn'[c].queue # << >>
            /\ conn'[c].pc \in Undrained => conn[c].pc \in Undrained \/ conn'[c].queue = << >>
        BY <1>0, EmptyHas DEF Shrinks
      <4>2. Ahead(c, x)' /\ Has(conn'[c].queue, y) => Ahead(c, x)
        BY <1>0, <1>1, <1>3, <4>1 DEF Ahead
      <4> QED
        BY <1>0, <1>1, <1>2, <1>3, <3>2, <4>2 DEF OrderInv
    <3> QED
      BY <3>1, <3>2
  <2> QED
    BY <2>1 DEF OrderInv
<1> QED
  BY <1>8, <1>9, <1>10, <1>11, <1>12, <1>13, <1>14 DEF DataInv

-----------------------------------------------------------------------------
(* Steps of a connection that only move it *)

Rest(c) == \A d \in Conns \ {c} : conn'[d] = conn[d]
SameData(c) ==
    /\ conn'[c].queue = conn[c].queue /\ conn'[c].replay = conn[c].replay
    /\ conn'[c].got = conn[c].got

\* One connection changes, and stays within its capacity.
LEMMA ConnUpdate ==
    ASSUME ConnOK, NEW c \in Conns, NEW v \in ConnType, Len(v.queue) <= Cap,
           conn' = [conn EXCEPT ![c] = v]
    PROVE  ConnOK' /\ Rest(c) /\ conn'[c] = v
BY DEF ConnOK, Rest

\* Moving on, or becoming a request, touches no message.
LEMMA GotoEffect ==
    ASSUME ConnOK, NEW c \in Conns
    PROVE  /\ \A pc \in Pcs : Goto(c, pc) =>
                 ConnOK' /\ Rest(c) /\ SameData(c) /\ conn'[c].pc = pc /\ conn'[c].http = conn[c].http
           /\ \A pc \in Pcs, in \in BOOLEAN :
                 conn' = [conn EXCEPT ![c].pc = pc, ![c].room = in] =>
                    ConnOK' /\ Rest(c) /\ SameData(c) /\ conn'[c].pc = pc /\ conn'[c].http = conn[c].http
           /\ \A pc \in Pcs :
                 conn' = [conn EXCEPT ![c].pc = pc, ![c].http = TRUE] =>
                    ConnOK' /\ Rest(c) /\ SameData(c) /\ conn'[c].pc = pc /\ conn'[c].http
<1>0. conn \in [Conns -> ConnType] /\ conn[c] \in ConnType /\ \A d \in Conns : Len(conn[d].queue) <= Cap
  BY DEF ConnOK
<1>1. ASSUME NEW pc \in Pcs, Goto(c, pc)
      PROVE  ConnOK' /\ Rest(c) /\ SameData(c) /\ conn'[c].pc = pc /\ conn'[c].http = conn[c].http
  <2> DEFINE v == [conn[c] EXCEPT !.pc = pc]
  <2>1. /\ v \in ConnType /\ v.pc = pc /\ v.http = conn[c].http /\ v.queue = conn[c].queue
        /\ v.replay = conn[c].replay /\ v.got = conn[c].got
    BY <1>0 DEF ConnType
  <2>2. conn' = [conn EXCEPT ![c] = v]
    BY <1>1 DEF Goto
  <2> HIDE DEF v
  <2> QED
    BY <1>0, <2>1, <2>2 DEF ConnOK, Rest, SameData
<1>2. ASSUME NEW pc \in Pcs, NEW in \in BOOLEAN, conn' = [conn EXCEPT ![c].pc = pc, ![c].room = in]
      PROVE  ConnOK' /\ Rest(c) /\ SameData(c) /\ conn'[c].pc = pc /\ conn'[c].http = conn[c].http
  <2> DEFINE v == [conn[c] EXCEPT !.pc = pc, !.room = in]
  <2>1. /\ v \in ConnType /\ v.pc = pc /\ v.http = conn[c].http /\ v.queue = conn[c].queue
        /\ v.replay = conn[c].replay /\ v.got = conn[c].got
    BY <1>0 DEF ConnType
  <2>2. conn' = [conn EXCEPT ![c] = v]
    BY <1>0, <1>2
  <2> HIDE DEF v
  <2> QED
    BY <1>0, <2>1, <2>2 DEF ConnOK, Rest, SameData
<1>3. ASSUME NEW pc \in Pcs, conn' = [conn EXCEPT ![c].pc = pc, ![c].http = TRUE]
      PROVE  ConnOK' /\ Rest(c) /\ SameData(c) /\ conn'[c].pc = pc /\ conn'[c].http
  <2> DEFINE v == [conn[c] EXCEPT !.pc = pc, !.http = TRUE]
  <2>1. /\ v \in ConnType /\ v.pc = pc /\ v.http = TRUE /\ v.queue = conn[c].queue
        /\ v.replay = conn[c].replay /\ v.got = conn[c].got
    BY <1>0 DEF ConnType
  <2>2. conn' = [conn EXCEPT ![c] = v]
    BY <1>0, <1>3
  <2> HIDE DEF v
  <2> QED
    BY <1>0, <2>1, <2>2 DEF ConnOK, Rest, SameData
<1> QED
  BY <1>1, <1>2, <1>3

ClosingPcs == {"leave", "leaveReap", "unlocal", "unlocalReap", "unsubscribe", "unregister", "reap"}

\* Where such a step may take a connection ..
Moves(c, pc) ==
    \/ At(c, "off") /\ pc = "upgraded"
    \/ At(c, "upgraded") /\ pc \in {"join", "drain", "off"}
    \/ At(c, "join") /\ pc \in {"local", "drain"}
    \/ At(c, "local") /\ pc \in {"subscribe", "drain"}
    \/ At(c, "subscribe") /\ pc = "drain"
    \/ At(c, "replay") /\ conn[c].replay = << >> /\ pc = "open"
    \/ Closing(c) /\ pc \in ClosingPcs \ {"leave", "reap"}
    \/ At(c, "unregister") /\ pc \in {"reap", "off"}
    \/ At(c, "reap") /\ pc = "off"

\* .. or a request, which begins and answers besides.
Edge(c, pc, http) ==
    \/ http = conn[c].http /\ Moves(c, pc) /\ (http => pc \in HttpPcs)
    \/ At(c, "off") /\ pc \in {"join", "leave"} /\ http
    \/ conn[c].http /\ pc = "off" /\ ~http

Control(c) ==
    \/ Upgrade(c) \/ Call(c) \/ Room(c) \/ register(c) \/ Open(c)
    \/ unregister(c) \/ UnregisterReap(c)

\* Its connection.
LEMMA ControlConn ==
    ASSUME TypeInv, ControlInv, NEW c \in Conns, Control(c)
    PROVE  ConnOK' /\ Rest(c) /\ SameData(c) /\ Edge(c, conn'[c].pc, conn'[c].http)
<1>0. /\ ConnOK /\ conn[c].http \in BOOLEAN /\ conn \in [Conns -> ConnType]
      /\ conn[c].http => conn[c].pc \in HttpPcs
  BY DEF TypeInv, ConnOK, ConnType, ControlInv
<1> DEFINE Goal == ConnOK' /\ Rest(c) /\ SameData(c) /\ Edge(c, conn'[c].pc, conn'[c].http)
<1> SUFFICES Goal
  OBVIOUS
<1>1. ASSUME NEW pc \in Pcs, Goto(c, pc), Moves(c, pc), conn[c].http => pc \in HttpPcs
      PROVE  Goal
  <2>1. ConnOK' /\ Rest(c) /\ SameData(c) /\ conn'[c].pc = pc /\ conn'[c].http = conn[c].http
    BY <1>0, <1>1, GotoEffect
  <2> QED
    BY <1>1, <2>1 DEF Edge
<1>2. ASSUME NEW pc \in Pcs, GoOn(c, pc), Moves(c, pc)
      PROVE  Goal
  <2>1. CASE ~conn[c].http
    BY <1>1, <1>2, <2>1 DEF GoOn, Goto
  <2>2. CASE conn[c].http
    <3>1. conn' = [conn EXCEPT ![c] = Off]
      BY <1>2, <2>2 DEF GoOn
    <3>2. << >> \in Seq(Msgs) /\ Len(<< >>) = 0 /\ 0 <= Cap
      BY EmptySeq, WsHubAssumption
    <3>3. /\ Off \in ConnType /\ Off.pc = "off" /\ Off.http = FALSE
          /\ Off.queue = << >> /\ Off.replay = << >> /\ Off.got = << >>
      BY <3>2 DEF Off, ConnType, Pcs
    <3>4. conn[c].queue = << >> /\ conn[c].replay = << >> /\ conn[c].got = << >>
      BY <1>0, <2>2 DEF ControlInv, Bare, Closing, Undrained, HttpPcs
    <3> HIDE DEF Goal
    <3>5. ConnOK' /\ Rest(c) /\ conn'[c] = Off
      BY <1>0, <3>1, <3>2, <3>3, ConnUpdate
    <3> QED
      BY <2>2, <3>3, <3>4, <3>5 DEF Goal, SameData, Edge
  <2> QED
    BY <1>0, <2>1, <2>2
<1>3. CASE Call(c)
  <2>1. PICK pc \in {"join", "leave"} : conn' = [conn EXCEPT ![c].pc = pc, ![c].http = TRUE]
    BY <1>3 DEF Call
  <2>2. ConnOK' /\ Rest(c) /\ SameData(c) /\ conn'[c].pc = pc /\ conn'[c].http
    BY <1>0, <2>1, GotoEffect DEF Pcs
  <2> QED
    BY <1>3, <2>1, <2>2 DEF Edge, Call
<1> HIDE DEF Goal
<1> USE DEF Moves, At, Pcs, HttpPcs
<1>4. CASE Upgrade(c) \/ Open(c)
  BY <1>0, <1>1, <1>4 DEF Upgrade, Open
<1>5. CASE register(c)
  <2>1. CASE Goto(c, "off")
    BY <1>0, <1>1, <1>5, <2>1 DEF register
  <2>2. CASE ~Goto(c, "off")
    <3>1. PICK in \in BOOLEAN :
             conn' = [conn EXCEPT ![c].pc = IF in THEN "join" ELSE "drain", ![c].room = in]
      BY <1>5, <2>2 DEF register
    <3>2. PICK pc \in {"join", "drain"} : pc = IF in THEN "join" ELSE "drain"
      OBVIOUS
    <3>3. conn' = [conn EXCEPT ![c].pc = pc, ![c].room = in]
      BY <3>1, <3>2
    <3>4. ConnOK' /\ Rest(c) /\ SameData(c) /\ conn'[c].pc = pc /\ conn'[c].http = conn[c].http
      <4>1. pc \in Pcs
        BY <3>2
      <4> QED
        BY <1>0, <3>3, <4>1, GotoEffect
    <3> QED
      BY <1>0, <1>5, <3>2, <3>4 DEF Goal, Edge, register
  <2> QED
    BY <2>1, <2>2
<1>6. CASE join_room(c) \/ add_local_room_member(c) \/ JoinSubscribe(c)
  BY <1>0, <1>1, <1>2, <1>6 DEF join_room, add_local_room_member, JoinSubscribe
<1> USE DEF Closing, ClosingPcs
<1>7. CASE leave_room(c) \/ LeaveReap(c)
  BY <1>0, <1>1, <1>2, <1>7 DEF leave_room, LeaveReap, AfterSrem
<1>8. CASE remove_local_room_member(c) \/ RemoveLocalReap(c) \/ LeaveUnsubscribe(c)
  BY <1>0, <1>1, <1>2, <1>8 DEF remove_local_room_member, RemoveLocalReap, LeaveUnsubscribe
<1>9. CASE unregister(c) \/ UnregisterReap(c)
  BY <1>0, <1>1, <1>9 DEF unregister, UnregisterReap
<1> QED
  BY <1>3, <1>4, <1>5, <1>6, <1>7, <1>8, <1>9 DEF Control, Room

\* The maps: who registers had nothing, and nobody does, or leaves, while the loop
\* has somebody to send to.
LEMMA ControlMaps ==
    ASSUME TypeInv, NEW c \in Conns, Control(c)
    PROVE  /\ MapsOK' /\ UNCHANGED <<alone, kind, inbox, loop, buffer>>
           /\ loop.pc = "send" /\ loop.todo # {} => clients' = clients
           /\ clients' \subseteq clients \cup {c}
           /\ c \in clients' \ clients => At(c, "upgraded") /\ conn'[c].pc # "off"
           /\ conn[c].pc \in {"unregister", "reap"} => c \notin clients'
<1>0. MapsOK /\ conn \in [Conns -> ConnType]
  BY DEF TypeInv, ConnOK
<1> USE DEF MapsOK, feed, At
<1>1. CASE Upgrade(c) \/ Call(c) \/ Open(c)
  BY <1>0, <1>1 DEF Upgrade, Call, Open
<1>2. CASE register(c)
  <2>1. CASE UNCHANGED clients
    BY <1>0, <1>2, <2>1 DEF register
  <2>2. CASE ~UNCHANGED clients
    <3>1. PICK in \in BOOLEAN :
             conn' = [conn EXCEPT ![c].pc = IF in THEN "join" ELSE "drain", ![c].room = in]
      BY <1>2, <2>2 DEF register
    <3>2. conn'[c].pc # "off"
      BY <1>0, <3>1 DEF ConnType
    <3> QED
      BY <1>0, <1>2, <2>2, <3>2 DEF register, ClientsFree
  <2> QED
    BY <2>1, <2>2
<1>3. CASE join_room(c) \/ add_local_room_member(c)
  BY <1>0, <1>3 DEF join_room, add_local_room_member
<1>4. CASE JoinSubscribe(c) \/ LeaveUnsubscribe(c)
  BY <1>0, <1>4 DEF JoinSubscribe, LeaveUnsubscribe
<1>5. CASE leave_room(c) \/ remove_local_room_member(c)
  BY <1>0, <1>5 DEF leave_room, remove_local_room_member
<1>6. CASE LeaveReap(c) \/ RemoveLocalReap(c)
  BY <1>0, <1>6 DEF LeaveReap, RemoveLocalReap
<1>7. CASE unregister(c) \/ UnregisterReap(c)
  BY <1>0, <1>7 DEF unregister, UnregisterReap, ClientsFree
<1> QED
  BY <1>1, <1>2, <1>3, <1>4, <1>5, <1>6, <1>7 DEF Control, Room

\* A handler's steps through rooms and maps keep the invariant.
LEMMA ControlKeeps ==
    ASSUME HubInv, NEW c \in Conns, Control(c)
    PROVE  HubInv'
<1>0. TypeInv /\ ControlInv /\ DataInv /\ conn[c].http \in BOOLEAN
  BY DEF HubInv, TypeInv, ConnOK, ConnType
<1>1. ConnOK' /\ Rest(c) /\ SameData(c) /\ Edge(c, conn'[c].pc, conn'[c].http)
  BY <1>0, ControlConn
<1>2. /\ MapsOK' /\ UNCHANGED <<alone, kind, inbox, loop, buffer>>
      /\ loop.pc = "send" /\ loop.todo # {} => clients' = clients
      /\ clients' \subseteq clients \cup {c}
      /\ c \in clients' \ clients => At(c, "upgraded") /\ conn'[c].pc # "off"
      /\ conn[c].pc \in {"unregister", "reap"} => c \notin clients'
  BY <1>0, ControlMaps
<1>3. TypeInv'
  <2>1. FeedOK' /\ LoopOK' /\ MailOK'
    BY <1>0, <1>2 DEF TypeInv, FeedOK, LoopOK, MailOK
  <2> QED
    BY <1>1, <1>2, <2>1 DEF TypeInv
<1>4. /\ Bare(c)' => Bare(c) \/ conn[c].http
      /\ conn'[c].pc \in Undrained => conn[c].pc \in Undrained \/ Bare(c)
      /\ conn'[c].pc \in {"open", "mute"} => conn[c].replay = << >>
  BY <1>1 DEF Edge, Moves, At, Closing, ClosingPcs, Bare, Undrained
<1>5. ControlInv'
  <2>1. ASSUME NEW d \in Conns \ {c} PROVE ControlInv!(d)'
    <3>1. conn'[d] = conn[d] /\ (d \in clients' => d \in clients)
      BY <1>1, <1>2 DEF Rest
    <3> QED
      BY <1>0, <3>1 DEF ControlInv, Bare, Closing, At
  <2>2. conn[c].http => /\ conn[c].pc \in HttpPcs /\ c \notin clients
                        /\ conn[c].queue = << >> /\ conn[c].replay = << >> /\ conn[c].got = << >>
    BY <1>0 DEF ControlInv, Bare, Closing, Undrained, HttpPcs
  <2>3. c \in clients' => conn'[c].pc \notin {"off", "upgraded", "reap"}
    <3>1. c \in clients => conn[c].pc \notin {"off", "upgraded", "reap"}
      BY <1>0 DEF ControlInv
    <3>2. CASE c \in clients
      BY <1>1, <1>2, <2>2, <3>1, <3>2 DEF Edge, Moves, At, Closing, ClosingPcs
    <3>3. CASE c \notin clients
      BY <1>1, <1>2, <2>2, <3>3 DEF Edge, Moves, At, Closing, HttpPcs
    <3> QED
      BY <3>2, <3>3
  <2>4. /\ Bare(c)' => conn'[c].queue = << >> /\ conn'[c].replay = << >> /\ conn'[c].got = << >>
        /\ conn'[c].pc \in Undrained => conn'[c].replay = << >> /\ conn'[c].got = << >>
        /\ conn'[c].pc \in {"open", "mute"} => conn'[c].replay = << >>
    BY <1>0, <1>1, <1>4, <2>2 DEF ControlInv, SameData
  <2>5. ASSUME conn'[c].http
        PROVE  conn'[c].pc \in HttpPcs /\ conn'[c].queue = << >> /\ c \notin clients'
    <3>1. CASE conn[c].http
      <4>1. c \notin clients'
        BY <1>2, <2>2, <3>1 DEF At, HttpPcs
      <4> QED
        BY <1>1, <2>2, <2>5, <3>1, <4>1 DEF Edge, SameData, HttpPcs
    <3>2. CASE ~conn[c].http
      <4>1. At(c, "off") /\ conn'[c].pc \in {"join", "leave"}
        BY <1>1, <2>5, <3>2 DEF Edge
      <4>2. c \notin clients /\ conn[c].queue = << >>
        BY <1>0, <4>1 DEF ControlInv, Bare, At
      <4> QED
        BY <1>1, <1>2, <4>1, <4>2 DEF SameData, At, HttpPcs
    <3> QED
      BY <3>1, <3>2
  <2> QED
    BY <2>1, <2>3, <2>4, <2>5 DEF ControlInv
<1>6. Shrinks
  <2>1. ASSUME NEW d \in Conns
        PROVE  /\ conn'[d].queue = conn[d].queue /\ conn'[d].replay = conn[d].replay
               /\ conn'[d].got = conn[d].got
    BY <1>1 DEF Rest, SameData
  <2>2. ASSUME NEW d \in Conns, conn'[d].pc \in Undrained
        PROVE  conn[d].pc \in Undrained \/ conn'[d].queue = << >>
    <3>1. conn[d].pc \in Undrained \/ Bare(d)
      BY <1>1, <1>4, <2>2 DEF Rest
    <3> QED
      BY <1>0, <2>1, <3>1 DEF ControlInv
  <2>3. ASSUME NEW d \in Conns, d \in clients' \ clients
        PROVE  conn'[d].queue = << >> /\ conn'[d].got = << >> /\ conn'[d].replay = << >>
    <3>1. d = c /\ Bare(c)
      BY <1>2, <2>3 DEF Bare, At
    <3> QED
      BY <1>0, <2>1, <3>1 DEF ControlInv
  <2> QED
    BY <1>2, <2>1, <2>2, <2>3, PartSelf DEF Shrinks
<1>7. DataInv'
  BY <1>0, <1>3, <1>6, ShrinkKeeps
<1> QED
  BY <1>3, <1>5, <1>7 DEF HubInv

-----------------------------------------------------------------------------
(* Other steps that lose messages *)

\* The connections stay as they are.
LEMMA IdleKeeps ==
    ASSUME HubInv, UNCHANGED <<conn, clients, kind, alone>>, TypeInv',
           Part(inbox', inbox), Part(buffer', buffer),
           \/ UNCHANGED loop
           \/ loop'.pc = "idle"
           \/ loop'.pc = "unsubscribe" /\ loop.pc = "send" /\ loop'.msg = loop.msg
    PROVE  HubInv'
<1>1. TypeInv /\ ControlInv /\ DataInv
  BY DEF HubInv
<1>2. ControlInv'
  BY <1>1 DEF ControlInv, Bare, Closing, At
<1>3. Shrinks
  BY PartSelf DEF Shrinks
<1> QED
  BY <1>1, <1>2, <1>3, ShrinkKeeps DEF HubInv

\* A lost message and an expired buffer do too ..
LEMMA LoseKeeps ==
    ASSUME HubInv, Lose \/ Expire
    PROVE  HubInv'
<1>0. TypeInv
  BY DEF HubInv
<1> USE DEF feed
<1>1. CASE Lose
  <2>1. /\ inbox # << >> /\ inbox' = Tail(inbox)
        /\ UNCHANGED <<conn, clients, entry, room, sub, alone, kind, loop, buffer>>
    BY <1>1 DEF Lose
  <2>2. Tail(inbox) \in Seq(Msgs) /\ Part(Tail(inbox), inbox)
    BY <1>0, <2>1, TailHas DEF TypeInv, FeedOK
  <2>3. FeedOK'
    BY <1>0, <2>1, <2>2 DEF TypeInv, FeedOK, Part
  <2>4. TypeInv'
    BY <1>0, <2>1, <2>3 DEF TypeInv, MapsOK, LoopOK, MailOK, ConnOK
  <2> QED
    BY <2>1, <2>2, <2>4, PartSelf, IdleKeeps
<1>2. CASE Expire
  <2>1. /\ buffer' = << >>
        /\ UNCHANGED <<conn, clients, entry, room, sub, alone, kind, inbox, loop>>
    BY <1>2 DEF Expire
  <2>2. << >> \in Seq(Msgs) /\ Len(<< >>) = 0
    BY EmptySeq
  <2>3. TypeInv'
    BY <1>0, <2>1, <2>2 DEF TypeInv, MapsOK, FeedOK, LoopOK, MailOK, ConnOK
  <2> QED
    BY <2>1, <2>3, PartSelf, IdleKeeps
<1> QED
  BY <1>1, <1>2

\* .. and the loop when it is done with a message ..
LEMMA LoopEnds ==
    ASSUME HubInv, LoopSent \/ LoopUnsubscribe \/ LoopTrim
    PROVE  HubInv'
<1>0. TypeInv /\ loop \in LoopType
  BY DEF HubInv, TypeInv, LoopOK
<1>1. Quiet \in LoopType /\ Quiet.pc = "idle" /\ Quiet.msg = 0
  BY WsHubAssumption DEF Quiet, LoopType
<1> USE DEF feed
<1>2. CASE LoopSent
  <2>1. /\ loop.pc = "send"
        /\ UNCHANGED <<conn, clients, entry, sub, alone, kind, inbox, buffer>>
        /\ loop' = Quiet \/ loop' = [loop EXCEPT !.pc = "unsubscribe"]
        /\ room' = "none" \/ UNCHANGED room
    BY <1>2 DEF LoopSent
  <2>2. /\ loop' \in LoopType
        /\ \/ loop'.pc = "idle" /\ loop'.msg = 0
           \/ loop'.pc = "unsubscribe" /\ loop'.msg = loop.msg
    BY <1>0, <1>1, <2>1 DEF LoopType
  <2>3. LoopOK'
    BY <1>0, <2>1, <2>2 DEF TypeInv, LoopOK
  <2>4. MapsOK'
    BY <1>0, <2>1 DEF TypeInv, MapsOK
  <2>5. TypeInv'
    BY <1>0, <2>1, <2>3, <2>4 DEF TypeInv, FeedOK, MailOK, ConnOK
  <2> QED
    BY <2>1, <2>2, <2>5, PartSelf, IdleKeeps
<1>3. CASE LoopUnsubscribe
  <2>1. /\ loop.pc = "unsubscribe" /\ loop' = Quiet /\ sub' = FALSE
        /\ UNCHANGED <<conn, clients, entry, room, alone, kind, inbox, buffer>>
    BY <1>3 DEF LoopUnsubscribe
  <2>2. LoopOK'
    BY <1>1, <2>1 DEF LoopOK
  <2>3. TypeInv'
    BY <1>0, <2>1, <2>2 DEF TypeInv, MapsOK, FeedOK, MailOK, ConnOK
  <2> QED
    BY <1>1, <2>1, <2>3, PartSelf, IdleKeeps
<1>4. CASE LoopTrim
  <2>1. /\ loop.pc = "trim" /\ loop' = Quiet /\ buffer' \in {buffer, Trimmed}
        /\ UNCHANGED <<conn, clients, entry, room, sub, alone, kind, inbox>>
    BY <1>4 DEF LoopTrim
  <2>2. buffer \in Seq(Msgs)
    BY <1>0 DEF TypeInv, MailOK
  <2>3. Part(buffer', buffer) /\ buffer' \in Seq(Msgs)
    BY <2>1, <2>2, PartSelf, TrimHas
  <2>4. LoopOK'
    BY <1>1, <2>1 DEF LoopOK
  <2>5. TypeInv'
    BY <1>0, <2>1, <2>3, <2>4 DEF TypeInv, MapsOK, FeedOK, MailOK, ConnOK
  <2> QED
    BY <1>1, <2>1, <2>3, <2>5, PartSelf, IdleKeeps
<1> QED
  BY <1>2, <1>3, <1>4

\* .. and a connection whose channel goes.
LEMMA FailsKeeps ==
    ASSUME HubInv, NEW c \in Conns, WriteFails(c) \/ Close(c)
    PROVE  HubInv'
<1>0. /\ TypeInv /\ ControlInv /\ DataInv
      /\ ConnOK /\ conn[c] \in ConnType /\ conn \in [Conns -> ConnType]
  BY DEF HubInv, TypeInv, ConnOK
<1>1. << >> \in Seq(Msgs) /\ Len(<< >>) = 0 /\ 0 <= Cap
  BY EmptySeq, WsHubAssumption
<1>2. UNCHANGED <<clients, entry, room, sub, alone, kind, inbox, loop, buffer>>
  BY DEF WriteFails, Close, feed
<1>3. /\ ConnOK' /\ Rest(c) /\ conn'[c].queue = << >> /\ conn[c].pc \in {"open", "mute"}
      /\ \/ /\ conn'[c].pc = "mute" /\ conn'[c].http = conn[c].http
            /\ conn'[c].replay = conn[c].replay /\ conn'[c].got = conn[c].got
         \/ /\ conn'[c].pc \in {"leave", "unregister"} /\ conn'[c].http = FALSE
            /\ conn'[c].replay = << >> /\ conn'[c].got = << >>
  <2>1. CASE WriteFails(c)
    <3> DEFINE v == [conn[c] EXCEPT !.pc = "mute", !.queue = << >>]
    <3>1. /\ v \in ConnType /\ v.pc = "mute" /\ v.http = conn[c].http /\ v.queue = << >>
          /\ v.replay = conn[c].replay /\ v.got = conn[c].got
      BY <1>0, <1>1 DEF ConnType, Pcs
    <3>2. conn' = [conn EXCEPT ![c] = v] /\ conn[c].pc = "open"
      BY <1>0, <2>1 DEF WriteFails, At
    <3> HIDE DEF v
    <3>3. ConnOK' /\ Rest(c) /\ conn'[c] = v
      BY <1>0, <1>1, <3>1, <3>2, ConnUpdate
    <3> QED
      BY <3>1, <3>2, <3>3
  <2>2. CASE Close(c)
    <3> DEFINE to == IF conn[c].room THEN "leave" ELSE "unregister"
               v == [Off EXCEPT !.pc = to]
    <3>1. /\ v \in ConnType /\ v.pc = to /\ v.http = FALSE /\ v.queue = << >>
          /\ v.replay = << >> /\ v.got = << >>
      BY <1>1 DEF ConnType, Pcs, Off
    <3>2. conn' = [conn EXCEPT ![c] = v] /\ conn[c].pc \in {"open", "mute"}
      BY <2>2 DEF Close, At
    <3> HIDE DEF v
    <3>3. ConnOK' /\ Rest(c) /\ conn'[c] = v
      BY <1>0, <1>1, <3>1, <3>2, ConnUpdate
    <3> QED
      BY <3>1, <3>2, <3>3
  <2> QED
    BY <2>1, <2>2
<1>4. TypeInv'
  BY <1>0, <1>2, <1>3 DEF TypeInv, MapsOK, FeedOK, LoopOK, MailOK
<1>5. ControlInv'
  <2>1. ASSUME NEW d \in Conns \ {c} PROVE ControlInv!(d)'
    <3>1. conn'[d] = conn[d] /\ clients' = clients
      BY <1>2, <1>3 DEF Rest
    <3> QED
      BY <1>0, <3>1 DEF ControlInv, Bare, Closing, At
  <2>2. ~conn[c].http
    BY <1>0, <1>3 DEF ControlInv, HttpPcs
  <2>3. ControlInv!(c)'
    BY <1>0, <1>2, <1>3, <2>2 DEF ControlInv, Bare, Closing, At, Undrained
  <2> QED
    BY <2>1, <2>3 DEF ControlInv
<1>8. Shrinks
  <2>1. ASSUME NEW d \in Conns
        PROVE  /\ Part(conn'[d].queue, conn[d].queue) /\ Part(conn'[d].replay, conn[d].replay)
               /\ Part(conn'[d].got, conn[d].got)
               /\ conn'[d].pc \in Undrained => conn[d].pc \in Undrained
    <3>1. CASE d = c
      BY <1>3, <3>1, PartSelf DEF Undrained
    <3>2. CASE d # c
      BY <1>3, <3>2, PartSelf DEF Rest
    <3> QED
      BY <3>1, <3>2
  <2> QED
    BY <1>2, <2>1, PartSelf DEF Shrinks
<1> QED
  BY <1>0, <1>4, <1>5, <1>8, ShrinkKeeps DEF HubInv

-----------------------------------------------------------------------------
(* Steps that carry messages on *)

\* Messages are numbers, and the loop holds a published one.
LEMMA KindLength ==
    ASSUME TypeInv
    PROVE  /\ Len(kind) \in Nat /\ MaxMsgs \in Nat
           /\ \A m : m \in Msgs <=> m \in Nat /\ 1 <= m /\ m <= MaxMsgs
           /\ loop.pc # "idle" => loop.msg \in Msgs /\ loop.msg <= Len(kind)
<1>1. Len(kind) \in Nat /\ Len(kind) <= MaxMsgs /\ MaxMsgs \in Nat
  BY WsHubAssumption, LenProperties DEF TypeInv, FeedOK
<1>2. \A m : m \in Msgs <=> m \in Nat /\ 1 <= m /\ m <= MaxMsgs
  BY <1>1 DEF Msgs
<1>3. loop.pc # "idle" => loop.msg \in Msgs /\ loop.msg <= Len(kind)
  <2>1. loop.pc # "idle" => loop.msg \in 1..Len(kind)
    BY DEF TypeInv, LoopOK
  <2>2. \A m \in 1..Len(kind) : m \in Msgs /\ m <= Len(kind)
    BY <1>1 DEF Msgs
  <2> QED
    BY <2>1, <2>2
<1> QED
  BY <1>1, <1>2, <1>3

\* The new message is later than all others.
LEMMA PublishKeeps ==
    ASSUME HubInv, NEW k \in Kinds, Publish(k)
    PROVE  HubInv'
<1> DEFINE n == Len(kind) + 1
           t == IF k # "user" /\ sub THEN <<n, n>> ELSE <<n>>
<1>0. TypeInv /\ ControlInv /\ DataInv /\ kind \in Seq(Kinds)
  BY DEF HubInv, TypeInv, FeedOK
<1>1. /\ Len(kind) < MaxMsgs /\ kind' = Append(kind, k) 
      /\ inbox' = inbox \o t
      /\ UNCHANGED <<conn, clients, entry, room, sub, alone, loop, buffer>>
  BY DEF Publish
<1>2. /\ Len(kind) \in Nat /\ MaxMsgs \in Nat
      /\ \A m : m \in Msgs <=> m \in Nat /\ 1 <= m /\ m <= MaxMsgs
      /\ loop.pc # "idle" => loop.msg \in Msgs /\ loop.msg <= Len(kind)
  BY <1>0, KindLength
<1>3. n \in Msgs
  BY <1>1, <1>2
<1>4. /\ t \in Seq(Msgs)
      /\ \A m : Has(t, m) => m = n
      /\ \A x, y : Precedes(t, x, y) => k # "user"
  <2>1. CASE k # "user" /\ sub
    <3>1. t = <<n, n>>
      BY <2>1
    <3>2. t \in Seq(Msgs) /\ Len(t) = 2 /\ t[1] = n /\ t[2] = n
      BY <1>3, <3>1
    <3> QED
      BY <2>1, <3>2 DEF Has
  <2>2. CASE ~(k # "user" /\ sub)
    <3>1. t = <<n>>
      BY <2>2
    <3>2. t \in Seq(Msgs) /\ Len(t) = 1 /\ t[1] = n
      BY <1>3, <3>1
    <3> QED
      BY <3>2 DEF Has, Precedes
  <2> QED
    BY <2>1, <2>2
<1>5. /\ inbox' \in Seq(Msgs)
      /\ \A m \in Msgs : Has(inbox, m)' => Has(inbox, m) \/ m = n
      /\ \A x, y \in Msgs : Precedes(inbox, x, y)' =>
            \/ Precedes(inbox, x, y)
            \/ x = n /\ y = n /\ k # "user"
            \/ Has(inbox, x) /\ y = n
  <2>1. inbox \in Seq(Msgs)
    BY <1>0 DEF TypeInv, FeedOK
  <2> HIDE DEF t
  <2>2. /\ inbox \o t \in Seq(Msgs)
        /\ \A m : Has(inbox \o t, m) <=> Has(inbox, m) \/ Has(t, m)
        /\ \A x, y : Precedes(inbox \o t, x, y) =>
              Precedes(inbox, x, y) \/ Precedes(t, x, y) \/ (Has(inbox, x) /\ Has(t, y))
    BY <1>4, <2>1, ConcatHas
  <2> QED
    BY <1>1, <1>4, <2>2, PrecedesHas
<1>6. /\ kind' \in Seq(Kinds) /\ Len(kind') = n /\ kind'[n] = k
      /\ \A m \in Msgs : m <= Len(kind) => kind'[m] = kind[m]
  BY <1>0, <1>1, <1>2, AppendProperties
<1> HIDE DEF n, t
<1>7. \A m \in Msgs : Has(inbox, m) => m <= Len(kind)
  BY <1>0 DEF TypeInv, FeedOK
<1>8. \A m \in Msgs : InPlay(m) => m <= Len(kind)
  BY <1>0 DEF DataInv, PubInv, InPlay, Waiting
<1>9. \A m \in Msgs : m <= Len(kind) => m < n /\ m <= n /\ (ToUser(m)' <=> ToUser(m))
  <2> SUFFICES ASSUME NEW m \in Msgs, m <= Len(kind)
               PROVE  m < n /\ m <= n /\ (ToUser(m)' <=> ToUser(m))
    OBVIOUS
  <2>1. m \in Nat
    BY <1>2
  <2>2. ToUser(m)' <=> ToUser(m)
    BY <1>6 DEF ToUser
  <2> QED
    BY <1>2, <2>1, <2>2 DEF n
<1>10. n <= n /\ \A m \in Msgs : m = n /\ k # "user" => ~ToUser(m)'
  BY <1>2, <1>6 DEF ToUser, n
<1>11. TypeInv'
  <2>1. MapsOK'
    BY <1>0, <1>1 DEF TypeInv, MapsOK
  <2>2. FeedOK'
    BY <1>1, <1>2, <1>5, <1>6, <1>7, <1>9, <1>10 DEF FeedOK, n
  <2>3. LoopOK'
    <3>1. loop.pc # "idle" => loop.msg \in 1..n
      BY <1>2 DEF n
    <3> QED
      BY <1>0, <1>1, <1>6, <3>1 DEF TypeInv, LoopOK
  <2> QED
    BY <1>0, <1>1, <2>1, <2>2, <2>3 DEF TypeInv, MailOK, ConnOK
<1>12. ControlInv'
  BY <1>0, <1>1 DEF ControlInv, Bare, Closing, At
<1>13. \A m \in Msgs : (Waiting(m)' <=> Waiting(m)) /\ (InPlay(m)' <=> InPlay(m))
  BY <1>1 DEF Waiting, InPlay
<1>14. \A m \in Msgs : m <= Len(kind) /\ Before(m) => Before(m)'
  BY <1>5, <1>7, <1>9, <1>10 DEF Before
<1>15. DataInv'
  <2>0. /\ InboxInv /\ LoopInv /\ PubInv /\ PlayInv /\ SendInv /\ WaitInv /\ OrderInv /\ TodoInv
        /\ clients \subseteq Conns
    BY <1>0 DEF DataInv, TypeInv, MapsOK
  <2>1. InboxInv'
    <3> SUFFICES ASSUME NEW x \in Msgs, NEW y \in Msgs, Precedes(inbox, x, y)'
                 PROVE  x <= y /\ (ToUser(y)' => x < y)
      BY DEF InboxInv
    <3>1. CASE Precedes(inbox, x, y)
      <4>1. ToUser(y)' <=> ToUser(y)
        BY <1>7, <1>9, <3>1, PrecedesHas
      <4> QED
        BY <2>0, <3>1, <4>1 DEF InboxInv
    <3>2. CASE x = n /\ y = n /\ k # "user"
      BY <1>10, <3>2
    <3>3. CASE Has(inbox, x) /\ y = n
      BY <1>7, <1>9, <3>3
    <3> QED
      BY <1>5, <3>1, <3>2, <3>3
  <2>2. LoopInv'
    BY <1>1, <1>2, <1>9, <1>14, <2>0 DEF LoopInv
  <2>3. PlayInv'
    BY <1>1, <1>6, <1>8, <1>9, <1>13, <1>14, <2>0 DEF PlayInv
  <2>4. SendInv'
    BY <1>1, <1>2, <1>9, <1>13, <2>0 DEF SendInv
  <2>5. WaitInv'
    BY <1>1, <2>0 DEF WaitInv
  <2>6. \A c \in Conns, m \in Msgs : Has(conn[c].queue, m) \/ Has(conn[c].got, m) => InPlay(m)
    BY DEF InPlay
  <2>7. PubInv'
    <3>1. \A m \in Msgs : m <= Len(kind) => m <= Len(kind')
      BY <1>6, <1>9
    <3> QED
      BY <1>1, <2>0, <3>1 DEF PubInv
  <2>8. OrderInv'
    <3>1. ASSUME NEW c \in clients', NEW x \in Msgs, NEW y \in Msgs
          PROVE  OrderInv!(c, x, y)'
      <4>1. Ahead(c, x)' <=> Ahead(c, x)
        BY <1>1 DEF Ahead
      <4>2. /\ Has(conn[c].queue, y) => (ToUser(y)' <=> ToUser(y))
            /\ Precedes(conn[c].queue, x, y) => (ToUser(x)' <=> ToUser(x)) /\ (ToUser(y)' <=> ToUser(y))
        BY <1>1, <1>8, <1>9, <2>0, <2>6, PrecedesHas
      <4> QED
        BY <1>1, <2>0, <4>1, <4>2 DEF OrderInv
    <3> QED
      BY <3>1 DEF OrderInv
  <2>9. TodoInv'
    BY <1>1, <1>2, <1>9, <2>0 DEF TodoInv
  <2> QED
    BY <2>1, <2>2, <2>3, <2>4, <2>5, <2>7, <2>8, <2>9 DEF DataInv
<1> QED
  BY <1>11, <1>12, <1>15 DEF HubInv

\* The loop takes a message: one to the user is later than all that are in play.
LEMMA TakeKeeps ==
    ASSUME HubInv, LoopTake
    PROVE  HubInv'
<1> DEFINE h == Head(inbox)
<1>0. TypeInv /\ ControlInv /\ DataInv
  BY DEF HubInv
<1>1. PICK m : m = h
  OBVIOUS
<1>2. /\ loop.pc = "idle" /\ inbox # << >> /\ inbox' = Tail(inbox)
      /\ loop' = [pc |-> IF ToUser(m) /\ ~entry THEN "push" ELSE "send", msg |-> m,
                  todo |-> IF ToUser(m) \/ room = "in" THEN clients ELSE {}]
      /\ UNCHANGED <<conn, clients, entry, room, sub, alone, kind, buffer>>
  BY <1>1 DEF LoopTake
<1>3. /\ m \in Msgs /\ Has(inbox, m) /\ inbox' \in Seq(Msgs) /\ Part(inbox', inbox)
      /\ \A x \in Msgs : Has(inbox, x)' => Precedes(inbox, m, x)
  <2>1. inbox \in Seq(Msgs)
    BY <1>0 DEF TypeInv, FeedOK
  <2> QED
    BY <1>1, <1>2, <2>1, TailHas
<1> HIDE DEF h
<1>4. /\ \A x \in Msgs : Has(inbox, x)' => Has(inbox, x)
      /\ \A x, y \in Msgs : Precedes(inbox, x, y)' => Precedes(inbox, x, y)
  BY <1>3 DEF Part
<1>5. /\ loop'.pc \in {"push", "send"} /\ loop'.msg = m
      /\ loop'.todo \subseteq clients
      /\ loop'.pc = "push" => ToUser(m) /\ ~entry
  BY <1>2
<1>6. m \in 1..Len(kind) /\ m \in 0..MaxMsgs
  <2>1. m <= Len(kind)
    BY <1>0, <1>3 DEF TypeInv, FeedOK
  <2> QED
    BY <1>0, <1>3, <2>1, KindLength
<1>7. TypeInv'
  <2>1. clients \subseteq Conns
    BY <1>0 DEF TypeInv, MapsOK
  <2>2. loop' \in LoopType
    BY <1>2, <1>6, <2>1 DEF LoopType
  <2>3. LoopOK'
    BY <1>2, <1>5, <1>6, <2>2 DEF LoopOK
  <2>4. FeedOK'
    BY <1>0, <1>2, <1>3, <1>4 DEF TypeInv, FeedOK
  <2> QED
    BY <1>0, <1>2, <2>3, <2>4 DEF TypeInv, MapsOK, MailOK, ConnOK
<1>8. ControlInv'
  BY <1>0, <1>2 DEF ControlInv, Bare, Closing, At
<1>10. DataInv'
  <2>0. /\ InboxInv /\ PubInv /\ PlayInv /\ WaitInv /\ OrderInv
        /\ clients \subseteq Conns /\ (clients # {} => entry)
    BY <1>0 DEF DataInv, TypeInv, MapsOK
  <2>1. \A x : ToUser(x)' <=> ToUser(x)
    BY <1>2 DEF ToUser
  <2>2. \A x \in Msgs : (Waiting(x)' <=> Waiting(x)) /\ (InPlay(x)' <=> InPlay(x))
    BY <1>2 DEF Waiting, InPlay
  <2>3. \A x \in Msgs : Before(x) => Before(x)'
    BY <1>4, <2>1 DEF Before
  <2>4. \A x \in Msgs : x = m => Before(x)'
    BY <1>3, <2>0, <2>1 DEF Before, InboxInv
  <2>5. \A x \in Msgs : InPlay(x) => x <= m /\ (ToUser(m) => x < m)
    BY <1>3, <2>0 DEF PlayInv, Before
  <2>6. ToUser(m) => ~InPlay(m)
    <3>1. ~(m < m)
      BY <1>6
    <3> QED
      BY <1>3, <2>5, <3>1
  <2>7. InboxInv'
    BY <1>4, <2>0, <2>1 DEF InboxInv
  <2>8. LoopInv'
    BY <1>2, <1>3, <1>5, <2>0, <2>1, <2>4 DEF LoopInv
  <2>9. PlayInv'
    BY <1>2, <1>5, <2>0, <2>2, <2>3, <2>5 DEF PlayInv
  <2>10. SendInv'
    BY <1>3, <1>5, <2>1, <2>2, <2>6 DEF SendInv, InPlay
  <2>11. WaitInv'
    BY <1>2, <2>0 DEF WaitInv
  <2>12. PubInv'
    BY <1>2, <2>0 DEF PubInv
  <2>13. OrderInv'
    <3>1. \A c \in Conns, x \in Msgs : Ahead(c, x)' <=> Ahead(c, x)
      BY <1>2 DEF Ahead
    <3> QED
      BY <1>2, <2>0, <2>1, <3>1 DEF OrderInv
  <2>14. TodoInv'
    <3>1. \A c \in Conns : Has(conn[c].queue, m) \/ Has(conn[c].got, m) => InPlay(m)
      BY DEF InPlay
    <3> QED
      BY <1>2, <1>5, <2>0, <2>1, <2>6, <3>1 DEF TodoInv
  <2> QED
    BY <2>7, <2>8, <2>9, <2>10, <2>11, <2>12, <2>13, <2>14 DEF DataInv
<1> QED
  BY <1>7, <1>8, <1>10 DEF HubInv

\* The loop buffers its message, the latest: no channel holds one that it would pass.
LEMMA PushKeeps ==
    ASSUME HubInv, LoopPush
    PROVE  HubInv'
<1>0. TypeInv /\ ControlInv /\ DataInv
  BY DEF HubInv
<1>1. PICK m : m = loop.msg
  OBVIOUS
<1>2. /\ loop.pc = "push" /\ loop' = [loop EXCEPT !.pc = "trim"]
      /\ buffer' = buffer \/ buffer' = <<m>> \o buffer
      /\ UNCHANGED <<conn, clients, entry, room, sub, alone, kind, inbox>>
  BY <1>1 DEF LoopPush, feed
<1>3. m \in Msgs /\ m <= Len(kind) /\ m \in Nat
  BY <1>0, <1>1, <1>2, KindLength
<1>4. loop \in LoopType /\ buffer \in Seq(Msgs)
  BY <1>0 DEF TypeInv, LoopOK, MailOK
<1>5. loop' \in LoopType /\ loop'.pc = "trim" /\ loop'.msg = m
  BY <1>1, <1>2, <1>4 DEF LoopType
<1>6. /\ buffer' \in Seq(Msgs)
      /\ \A x \in Msgs : Has(buffer, x)' => Has(buffer, x) \/ x = m
      /\ \A x, y \in Msgs : Precedes(buffer, x, y)' => Precedes(buffer, x, y) \/ (x = m /\ Has(buffer, y))
  <2>1. CASE buffer' = buffer
    BY <1>4, <2>1
  <2>2. CASE buffer' = <<m>> \o buffer
    <3>1. /\ <<m>> \o buffer \in Seq(Msgs)
          /\ \A x : Has(<<m>> \o buffer, x) <=> Has(buffer, x) \/ x = m
          /\ \A x, y : Precedes(<<m>> \o buffer, x, y) => Precedes(buffer, x, y) \/ (x = m /\ Has(buffer, y))
      BY <1>3, <1>4, PushHas
    <3> QED
      BY <1>4, <2>2, <3>1
  <2> QED
    BY <1>2, <2>1, <2>2
<1>7. TypeInv'
  <2>1. LoopOK'
    BY <1>0, <1>1, <1>2, <1>5 DEF TypeInv, LoopOK
  <2> QED
    BY <1>0, <1>2, <1>6, <2>1 DEF TypeInv, MapsOK, FeedOK, MailOK, ConnOK
<1>8. ControlInv'
  BY <1>0, <1>2 DEF ControlInv, Bare, Closing, At
<1>10. DataInv'
  <2>0. /\ InboxInv /\ LoopInv /\ PubInv /\ PlayInv /\ WaitInv /\ OrderInv
        /\ clients \subseteq Conns
    BY <1>0 DEF DataInv, TypeInv, MapsOK
  <2>1. ToUser(m) /\ Before(m) /\ \A x : ToUser(x)' <=> ToUser(x)
    BY <1>1, <1>2, <2>0 DEF ToUser, LoopInv
  <2>2. \A x \in Msgs : (Waiting(x)' => Waiting(x) \/ x = m) /\ (InPlay(x)' => InPlay(x) \/ x = m)
    BY <1>2, <1>6 DEF Waiting, InPlay
  <2>3. \A x : Before(x) <=> Before(x)'
    BY <1>2 DEF Before, ToUser
  <2>4. \A x \in Msgs : InPlay(x) => x < m /\ x <= m
    BY <1>1, <1>2, <2>0 DEF PlayInv
  <2>5. ~InPlay(m)
    <3>1. ~(m < m)
      BY <1>3
    <3> QED
      BY <1>3, <2>4, <3>1
  <2>6. InboxInv'
    BY <1>2, <2>0, <2>1 DEF InboxInv
  <2>7. LoopInv'
    BY <1>2, <1>5, <2>0, <2>1, <2>3 DEF LoopInv
  <2>8. PlayInv'
    <3>1. m <= m
      BY <1>3
    <3> QED
      BY <1>2, <1>3, <1>5, <2>0, <2>1, <2>2, <2>3, <2>4, <3>1 DEF PlayInv
  <2>9. SendInv'
    BY <1>5 DEF SendInv
  <2>10. WaitInv'
    <3>1. alone => \A x \in Msgs : Has(buffer, x) => x < m
      BY <2>4 DEF InPlay, Waiting
    <3> QED
      BY <1>2, <1>6, <2>0, <3>1 DEF WaitInv
  <2>11. PubInv'
    BY <1>2, <1>3, <1>6, <2>0 DEF PubInv
  <2>12. OrderInv'
    <3>1. \A c \in clients : conn[c].queue = << >>
      BY <1>2, <2>0 DEF LoopInv
    <3>2. \A c \in clients, x, y \in Msgs : ~Has(conn[c].queue, x) /\ ~Precedes(conn[c].queue, x, y)
      BY <3>1, EmptyHas
    <3> QED
      BY <1>2, <2>0, <3>2 DEF OrderInv
  <2>13. TodoInv'
    BY <1>5 DEF TodoInv
  <2> QED
    BY <2>6, <2>7, <2>8, <2>9, <2>10, <2>11, <2>12, <2>13 DEF DataInv
<1> QED
  BY <1>7, <1>8, <1>10 DEF HubInv

\* What other instances buffer is published, and nothing rests on its order.
LEMMA PeerKeeps ==
    ASSUME HubInv, NEW m \in 1..Len(kind), PeerBuffers(m)
    PROVE  HubInv'
<1>0. TypeInv /\ ControlInv /\ DataInv /\ buffer \in Seq(Msgs)
  BY DEF HubInv, TypeInv, MailOK
<1>1. /\ ~alone /\ (buffer' = <<m>> \o buffer \/ buffer' = Trimmed)
      /\ UNCHANGED <<conn, clients, entry, room, sub, alone, kind, inbox, loop>>
  BY DEF PeerBuffers, feed
<1>2. m \in Msgs /\ m <= Len(kind)
  <2>1. Len(kind) \in Nat /\ Len(kind) <= MaxMsgs /\ MaxMsgs \in Nat
    BY <1>0, KindLength DEF TypeInv, FeedOK
  <2> QED
    BY <2>1 DEF Msgs
<1>3. buffer' \in Seq(Msgs) /\ \A x \in Msgs : Has(buffer, x)' => Has(buffer, x) \/ x = m
  <2>1. CASE buffer' = <<m>> \o buffer
    BY <1>0, <1>2, <2>1, PushHas
  <2>2. CASE buffer' = Trimmed
    BY <1>0, <2>2, TrimHas DEF Part
  <2> QED
    BY <1>1, <2>1, <2>2
<1>4. TypeInv'
  BY <1>0, <1>1, <1>3 DEF TypeInv, MapsOK, FeedOK, LoopOK, MailOK, ConnOK
<1>5. ControlInv'
  BY <1>0, <1>1 DEF ControlInv, Bare, Closing, At
<1>6. DataInv'
  <2>0. /\ InboxInv /\ LoopInv /\ PubInv /\ PlayInv /\ OrderInv /\ TodoInv
        /\ clients \subseteq Conns
    BY <1>0 DEF DataInv, TypeInv, MapsOK
  <2>1. \A x : (ToUser(x)' <=> ToUser(x)) /\ (Before(x)' <=> Before(x))
    BY <1>1 DEF ToUser, Before
  <2>2. \A x \in Msgs : ~Waiting(x)' /\ (InPlay(x)' => InPlay(x))
    BY <1>1 DEF Waiting, InPlay
  <2>3. InboxInv' /\ LoopInv' /\ PlayInv'
    BY <1>1, <2>0, <2>1, <2>2 DEF InboxInv, LoopInv, PlayInv
  <2>4. PubInv'
    BY <1>1, <1>2, <1>3, <2>0 DEF PubInv
  <2>5. SendInv' /\ WaitInv'
    BY <1>1 DEF SendInv, WaitInv, Waiting
  <2>6. OrderInv'
    BY <1>1, <2>0, <2>1 DEF OrderInv, Ahead
  <2>7. TodoInv'
    BY <1>1, <2>0, <2>1 DEF TodoInv
  <2> QED
    BY <2>3, <2>4, <2>5, <2>6, <2>7 DEF DataInv
<1> QED
  BY <1>4, <1>5, <1>6 DEF HubInv

\* The loop sends its message, the latest, to a connection that has not had it.
LEMMA SendKeeps ==
    ASSUME HubInv, NEW c \in Conns, LoopSend(c)
    PROVE  HubInv'
<1>0. /\ TypeInv /\ ControlInv /\ DataInv
      /\ ConnOK /\ conn[c] \in ConnType /\ conn \in [Conns -> ConnType]
      /\ loop \in LoopType
  BY DEF HubInv, TypeInv, ConnOK, LoopOK
<1>1. PICK m : m = loop.msg
  OBVIOUS
<1>2. /\ loop.pc = "send" /\ c \in loop.todo /\ loop' = [loop EXCEPT !.todo = @ \ {c}]
      /\ UNCHANGED <<clients, entry, room, sub, alone, kind, inbox, buffer>>
  BY DEF LoopSend, feed
<1>3. /\ loop' \in LoopType /\ loop'.pc = "send" /\ loop'.msg = m
      /\ loop'.todo \subseteq loop.todo /\ c \notin loop'.todo
  BY <1>0, <1>1, <1>2 DEF LoopType
<1>4. LoopOK' /\ MapsOK' /\ FeedOK' /\ MailOK'
  BY <1>0, <1>1, <1>2, <1>3 DEF TypeInv, LoopOK, MapsOK, FeedOK, MailOK
<1>5. CASE Deaf(c)
  <2>1. conn' = conn
    BY <1>5 DEF LoopSend
  <2>2. TypeInv'
    BY <1>0, <1>2, <1>4, <2>1 DEF TypeInv, ConnOK
  <2>3. ControlInv'
    BY <1>0, <1>2, <2>1 DEF ControlInv, Bare, Closing, At
  <2>4. Shrinks
    BY <1>1, <1>2, <1>3, <2>1, PartSelf DEF Shrinks
  <2> QED
    BY <1>0, <1>4, <2>2, <2>3, <2>4, ShrinkKeeps DEF HubInv
<1>6. CASE ~Deaf(c)
  <2> DEFINE v == [conn[c] EXCEPT !.queue = Append(@, m)]
             q == conn[c].queue
  <2>1. /\ m \in Msgs /\ m <= Len(kind) /\ m \in Nat /\ q \in Seq(Msgs) /\ Len(q) \in Nat
        /\ Len(q) < Cap /\ Cap \in Nat
    <3>1. q \in Seq(Msgs)
      BY <1>0 DEF ConnType
    <3> QED
      BY <1>0, <1>1, <1>2, <1>6, <3>1, KindLength, LenProperties, WsHubAssumption DEF LoopSend
  <2>2. /\ Append(q, m) \in Seq(Msgs) /\ Len(Append(q, m)) = Len(q) + 1
        /\ \A x : Has(Append(q, m), x) <=> Has(q, x) \/ x = m
        /\ \A x, y : Precedes(Append(q, m), x, y) => Precedes(q, x, y) \/ (Has(q, x) /\ y = m)
    BY <2>1, AppendHas
  <2>3. /\ v \in ConnType /\ v.pc = conn[c].pc /\ v.http = conn[c].http /\ v.queue = Append(q, m)
        /\ v.replay = conn[c].replay /\ v.got = conn[c].got
    BY <1>0, <2>2 DEF ConnType
  <2>4. conn' = [conn EXCEPT ![c] = v]
    BY <1>1, <1>6 DEF LoopSend
  <2> HIDE DEF v
  <2>7. ConnOK' /\ Rest(c) /\ conn'[c] = v
    <3>1. Len(v.queue) <= Cap
      BY <2>1, <2>2, <2>3
    <3> QED
      BY <1>0, <2>3, <2>4, <3>1, ConnUpdate
  <2>9. \A d \in Conns : /\ conn'[d].pc = conn[d].pc /\ conn'[d].http = conn[d].http
                         /\ conn'[d].replay = conn[d].replay /\ conn'[d].got = conn[d].got
                         /\ d # c => conn'[d].queue = conn[d].queue
    BY <2>3, <2>7 DEF Rest
  <2>10. /\ \A x \in Msgs : Has(conn'[c].queue, x) => Has(q, x) \/ x = m
         /\ \A x, y \in Msgs : Precedes(conn'[c].queue, x, y) => Precedes(q, x, y) \/ (Has(q, x) /\ y = m)
    BY <2>2, <2>3, <2>7
  <2>11. TypeInv'
    BY <1>4, <2>7 DEF TypeInv
  <2>12. DataInv /\ clients \subseteq Conns /\ c \in clients
    BY <1>0, <1>2 DEF TypeInv, MapsOK, DataInv, LoopInv
  <2>13. ControlInv'
    <3>1. ~Bare(c)
      BY <1>0, <1>6, <2>12 DEF Bare, Deaf, ControlInv
    <3>2. \A d \in Conns : Bare(d)' <=> Bare(d)
      BY <2>9 DEF Bare, Closing, At
    <3> QED
      BY <1>0, <1>2, <2>9, <2>12, <3>1, <3>2 DEF ControlInv
  <2>15. DataInv'
    <3>0. InboxInv /\ LoopInv /\ PubInv /\ PlayInv /\ SendInv /\ WaitInv /\ OrderInv /\ TodoInv
      BY <2>12 DEF DataInv
    <3>1. Before(m) /\ \A x : (ToUser(x)' <=> ToUser(x)) /\ (Before(x)' <=> Before(x))
      BY <1>1, <1>2, <3>0 DEF ToUser, Before, LoopInv
    <3>2. \A x \in Msgs : (Waiting(x)' <=> Waiting(x)) /\ (InPlay(x)' => InPlay(x) \/ x = m)
      BY <1>2, <2>9, <2>10 DEF Waiting, InPlay
    <3>3. \A x \in Msgs : InPlay(x) => x <= m
      BY <1>1, <1>2, <3>0 DEF PlayInv
    <3>4. ToUser(m) => ~Waiting(m)
      BY <1>1, <1>2, <3>0 DEF SendInv
    <3>5. \A x \in Msgs : Ahead(c, x) \/ Has(q, x) => InPlay(x)
      BY DEF Ahead, InPlay, Waiting
    <3>6. ToUser(m) => ~Ahead(c, m) /\ ~Has(q, m)
      BY <1>1, <1>2, <2>12, <3>0, <3>4 DEF Ahead, Waiting, TodoInv
    <3>7. ToUser(m) => \A x \in Msgs : Ahead(c, x) \/ Has(q, x) => x < m
      <4>1. ASSUME NEW x \in Msgs, Ahead(c, x) \/ Has(q, x), ToUser(m) PROVE x < m
        <5>1. x <= m /\ x # m
          BY <3>3, <3>5, <3>6, <4>1
        <5>2. x \in Nat
          BY <1>0, KindLength
        <5> QED
          BY <2>1, <5>1, <5>2
      <4> QED
        BY <4>1
    <3>8. InboxInv'
      BY <1>2, <3>0, <3>1 DEF InboxInv
    <3>9. LoopInv'
      BY <1>1, <1>2, <1>3, <3>0, <3>1 DEF LoopInv
    <3>10. PlayInv'
      <4>1. m <= m
        BY <2>1
      <4> QED
        BY <1>1, <1>2, <1>3, <2>1, <3>0, <3>1, <3>2, <3>3, <4>1 DEF PlayInv
    <3>11. SendInv'
      BY <1>3, <2>1, <3>1, <3>2, <3>4 DEF SendInv
    <3>12. WaitInv'
      BY <1>2, <2>9, <3>0 DEF WaitInv
    <3>13. PubInv'
      <4>1. \A d \in Conns, x \in Msgs : Has(conn'[d].queue, x) => Has(conn[d].queue, x) \/ x = m
        BY <2>9, <2>10
      <4> QED
        BY <1>2, <2>1, <2>9, <3>0, <4>1 DEF PubInv
    <3>14. OrderInv'
      <4>1. ASSUME NEW d \in clients, NEW x \in Msgs, NEW y \in Msgs
            PROVE  OrderInv!(d, x, y)'
        <5>1. Ahead(d, x)' <=> Ahead(d, x)
          BY <1>2, <2>9, <2>12 DEF Ahead
        <5>2. CASE d # c
          <6>1. conn'[d].queue = conn[d].queue /\ conn'[d].got = conn[d].got /\ conn'[d].replay = conn[d].replay
            BY <2>9, <2>12, <5>2
          <6> QED
            BY <1>2, <3>0, <3>1, <5>1, <6>1 DEF OrderInv
        <5>3. CASE d = c
          BY <1>2, <2>9, <2>10, <2>12, <3>0, <3>1, <3>7, <5>1, <5>3 DEF OrderInv
        <5> QED
          BY <5>2, <5>3
      <4> QED
        BY <1>2, <4>1 DEF OrderInv
    <3>15. TodoInv'
      BY <1>1, <1>2, <1>3, <2>9, <2>12, <3>0, <3>1 DEF TodoInv
    <3> QED
      BY <3>8, <3>9, <3>10, <3>11, <3>12, <3>13, <3>14, <3>15 DEF DataInv
  <2> QED
    BY <2>11, <2>13, <2>15 DEF HubInv
<1> QED
  BY <1>5, <1>6

\* What a connection drains comes oldest first, ahead of its channel.
LEMMA DrainKeeps ==
    ASSUME HubInv, NEW c \in Conns, drain_message_buffer(c)
    PROVE  HubInv'
<1>0. /\ TypeInv /\ ControlInv /\ DataInv
      /\ ConnOK /\ conn[c] \in ConnType /\ conn \in [Conns -> ConnType] /\ buffer \in Seq(Msgs)
      /\ Len(conn[c].queue) <= Cap
  BY DEF HubInv, TypeInv, ConnOK, MailOK
<1>1. /\ At(c, "drain")
      /\ UNCHANGED <<clients, entry, room, sub, alone, kind, inbox, loop>>
  BY DEF drain_message_buffer, feed
<1>2. /\ ConnOK' /\ Rest(c) /\ conn'[c].pc = "replay" /\ conn'[c].http = conn[c].http
      /\ conn'[c].queue = conn[c].queue /\ conn'[c].got = conn[c].got
      /\ \/ conn'[c].replay = conn[c].replay /\ buffer' = buffer
         \/ conn'[c].replay = OldestFirst(buffer) /\ buffer' = << >>
  <2>1. CASE Goto(c, "replay") /\ buffer' = buffer
    BY <1>0, <2>1, GotoEffect DEF SameData, Pcs
  <2>2. CASE /\ conn' = [conn EXCEPT ![c].pc = "replay", ![c].replay = OldestFirst(buffer)]
             /\ buffer' = << >>
    <3> DEFINE v == [conn[c] EXCEPT !.pc = "replay", !.replay = OldestFirst(buffer)]
    <3>0. OldestFirst(buffer) \in Seq(Msgs)
      BY <1>0, OldestHas
    <3>1. /\ v \in ConnType /\ v.pc = "replay" /\ v.http = conn[c].http /\ v.queue = conn[c].queue
          /\ v.replay = OldestFirst(buffer) /\ v.got = conn[c].got
      BY <1>0, <3>0 DEF ConnType, Pcs
    <3>2. conn' = [conn EXCEPT ![c] = v]
      BY <1>0, <2>2
    <3> HIDE DEF v
    <3>3. ConnOK' /\ Rest(c) /\ conn'[c] = v
      BY <1>0, <3>1, <3>2, ConnUpdate
    <3> QED
      BY <2>2, <3>1, <3>3
  <2> QED
    BY <2>1, <2>2 DEF drain_message_buffer
<1>3. conn[c].replay = << >> /\ conn[c].got = << >> /\ conn[c].pc = "drain"
  BY <1>0, <1>1 DEF ControlInv, Undrained, At
<1>4. << >> \in Seq(Msgs)
  BY EmptySeq
<1>5. TypeInv'
  BY <1>0, <1>1, <1>2, <1>4 DEF TypeInv, MapsOK, FeedOK, LoopOK, MailOK
<1>6. ControlInv'
  <2>1. ASSUME NEW d \in Conns \ {c} PROVE ControlInv!(d)'
    <3>1. conn'[d] = conn[d] /\ clients' = clients
      BY <1>1, <1>2 DEF Rest
    <3> QED
      BY <1>0, <3>1 DEF ControlInv, Bare, Closing, At
  <2>2. ControlInv!(c)'
    BY <1>0, <1>2, <1>3 DEF ControlInv, HttpPcs, Bare, Closing, At, Undrained
  <2> QED
    BY <2>1, <2>2 DEF ControlInv
<1>9. DataInv'
  <2>0. /\ InboxInv /\ LoopInv /\ PubInv /\ PlayInv /\ SendInv /\ WaitInv /\ OrderInv /\ TodoInv
        /\ clients \subseteq Conns
    BY <1>0 DEF DataInv, TypeInv, MapsOK
  <2>1. \A d \in Conns : /\ conn'[d].queue = conn[d].queue /\ conn'[d].got = conn[d].got
                         /\ d # c => conn'[d].pc = conn[d].pc /\ conn'[d].replay = conn[d].replay
    BY <1>2 DEF Rest
  <2>2. /\ \A x \in Msgs : Has(buffer, x)' => Has(buffer, x)
        /\ \A x, y \in Msgs : Precedes(buffer, x, y)' => Precedes(buffer, x, y)
        /\ \A x \in Msgs : Has(conn'[c].replay, x) => Has(buffer, x)
        /\ \A x, y \in Msgs : Precedes(conn'[c].replay, x, y) => Precedes(buffer, y, x)
    <3>1. CASE conn'[c].replay = conn[c].replay /\ buffer' = buffer
      BY <1>3, <3>1, EmptyHas
    <3>2. CASE conn'[c].replay = OldestFirst(buffer) /\ buffer' = << >>
      BY <1>0, <3>2, EmptyHas, OldestHas
    <3> QED
      BY <1>2, <3>1, <3>2
  <2>3. \A x \in Msgs : (Waiting(x)' => Waiting(x)) /\ (InPlay(x)' => InPlay(x))
    <3>1. \A x \in Msgs : Waiting(x)' => Waiting(x)
      BY <1>1, <2>1, <2>2 DEF Waiting
    <3> QED
      BY <2>1, <3>1 DEF InPlay
  <2>4. \A x : (ToUser(x)' <=> ToUser(x)) /\ (Before(x)' <=> Before(x))
    BY <1>1 DEF ToUser, Before
  <2>5. InboxInv'
    BY <1>1, <2>0, <2>4 DEF InboxInv
  <2>6. LoopInv'
    BY <1>1, <2>0, <2>1, <2>4 DEF LoopInv
  <2>7. PlayInv'
    BY <1>1, <2>0, <2>3, <2>4 DEF PlayInv
  <2>8. SendInv'
    <3>1. loop.pc = "send" => loop.msg \in Msgs
      BY <1>0, KindLength
    <3> QED
      BY <1>1, <2>0, <2>3, <2>4, <3>1 DEF SendInv
  <2>9. WaitInv'
    <3>1. alone => \A x, y \in Msgs : Precedes(conn'[c].replay, x, y) => x < y
      BY <2>0, <2>2 DEF WaitInv
    <3> QED
      BY <1>1, <2>0, <2>1, <2>2, <3>1 DEF WaitInv
  <2>10. PubInv'
    <3>1. \A d \in Conns, x \in Msgs :
             Has(conn'[d].replay, x) => Has(conn[d].replay, x) \/ Has(buffer, x)
      BY <2>1, <2>2
    <3> QED
      BY <1>1, <2>0, <2>1, <2>2, <3>1 DEF PubInv
  <2>11. OrderInv'
    <3>1. ASSUME NEW d \in clients, NEW x \in Msgs, NEW y \in Msgs
          PROVE  OrderInv!(d, x, y)'
      <4>1. Ahead(d, x)' => Ahead(d, x)
        BY <1>1, <1>2, <1>3, <2>0, <2>1, <2>2 DEF Ahead, Undrained
      <4>2. Has(conn'[d].got, x) /\ Has(conn'[d].replay, y) =>
               Has(conn[d].got, x) /\ Has(conn[d].replay, y)
        BY <1>3, <2>0, <2>1, EmptyHas
      <4> QED
        BY <1>1, <2>0, <2>1, <2>4, <4>1, <4>2 DEF OrderInv
    <3> QED
      BY <1>1, <3>1 DEF OrderInv
  <2>12. TodoInv'
    BY <1>1, <2>0, <2>1, <2>4 DEF TodoInv
  <2> QED
    BY <2>5, <2>6, <2>7, <2>8, <2>9, <2>10, <2>11, <2>12 DEF DataInv
<1> QED
  BY <1>5, <1>6, <1>9 DEF HubInv

\* A replayed message is later than what was replayed before it.
LEMMA ReplayKeeps ==
    ASSUME HubInv, NEW c \in Conns, Replay(c)
    PROVE  HubInv'
<1> DEFINE r == conn[c].replay
           g == conn[c].got
<1>0. /\ TypeInv /\ ControlInv /\ DataInv
      /\ ConnOK /\ conn[c] \in ConnType /\ conn \in [Conns -> ConnType]
      /\ Len(conn[c].queue) <= Cap /\ r \in Seq(Msgs) /\ g \in Seq(Msgs)
  BY DEF HubInv, TypeInv, ConnOK, ConnType
<1>1. /\ At(c, "replay") /\ r # << >>
      /\ UNCHANGED <<clients, entry, room, sub, alone, kind, inbox, loop, buffer>>
  BY DEF Replay, feed
<1>2. PICK m : m = Head(r)
  OBVIOUS
<1>3. /\ m \in Msgs /\ Has(r, m) /\ Tail(r) \in Seq(Msgs) /\ Part(Tail(r), r)
      /\ \A x : Has(Tail(r), x) => Precedes(r, m, x)
  BY <1>0, <1>1, <1>2, TailHas
<1>4. /\ Append(g, m) \in Seq(Msgs)
      /\ \A x : Has(Append(g, m), x) <=> Has(g, x) \/ x = m
  BY <1>0, <1>3, AppendHas
<1>5. PICK a : a = IF alone THEN Append(g, m) ELSE g
  OBVIOUS
<1>6. /\ ConnOK' /\ Rest(c)
      /\ conn'[c].pc = conn[c].pc /\ conn'[c].http = conn[c].http
      /\ conn'[c].queue = conn[c].queue
      /\ conn'[c].replay = Tail(r) /\ conn'[c].got = a
  <2> DEFINE v == [conn[c] EXCEPT !.replay = Tail(r), !.got = a]
  <2>1. /\ v \in ConnType /\ v.pc = conn[c].pc /\ v.http = conn[c].http /\ v.queue = conn[c].queue
        /\ v.replay = Tail(r) /\ v.got = a
    BY <1>0, <1>3, <1>4, <1>5 DEF ConnType
  <2>2. conn' = [conn EXCEPT ![c] = v]
    BY <1>0, <1>2, <1>5 DEF Replay
  <2> HIDE DEF v
  <2>3. ConnOK' /\ Rest(c) /\ conn'[c] = v
    BY <1>0, <2>1, <2>2, ConnUpdate
  <2> QED
    BY <2>1, <2>3
<1>7. TypeInv'
  BY <1>0, <1>1, <1>6 DEF TypeInv, MapsOK, FeedOK, LoopOK, MailOK
<1>8. \A d \in Conns :
         /\ conn'[d].pc = conn[d].pc /\ conn'[d].http = conn[d].http /\ conn'[d].queue = conn[d].queue
         /\ d # c => conn'[d].replay = conn[d].replay /\ conn'[d].got = conn[d].got
  BY <1>6 DEF Rest
<1>9. ControlInv'
  <2>1. conn[c].pc = "replay"
    BY <1>1 DEF At
  <2>2. \A d \in Conns : Bare(d)' <=> Bare(d)
    BY <1>8 DEF Bare, Closing, At
  <2>3. ~Bare(c) /\ conn[c].pc \notin Undrained \cup {"open", "mute"}
    BY <2>1 DEF Bare, Closing, Undrained
  <2> QED
    BY <1>0, <1>1, <1>8, <2>2, <2>3 DEF ControlInv
<1>10. DataInv'
  <2>0. /\ InboxInv /\ LoopInv /\ PubInv /\ PlayInv /\ SendInv /\ WaitInv /\ OrderInv /\ TodoInv
        /\ clients \subseteq Conns
    BY <1>0 DEF DataInv, TypeInv, MapsOK
  <2>1. /\ \A x \in Msgs : Has(conn'[c].replay, x) => Has(r, x) /\ Precedes(r, m, x)
        /\ \A x, y \in Msgs : Precedes(conn'[c].replay, x, y) => Precedes(r, x, y)
        /\ \A x \in Msgs : Has(conn'[c].got, x) => Has(g, x) \/ (x = m /\ alone)
    BY <1>3, <1>4, <1>5, <1>6 DEF Part
  <2>2. alone => \A x \in Msgs : Has(conn'[c].replay, x) => m < x
    BY <1>3, <2>0, <2>1 DEF WaitInv
  <2>3. alone => Waiting(m)
    BY <1>3 DEF Waiting
  <2>4. \A d \in Conns, x \in Msgs :
           /\ Has(conn'[d].replay, x) => Has(conn[d].replay, x)
           /\ Has(conn'[d].got, x) => Has(conn[d].got, x) \/ (d = c /\ x = m /\ alone)
    BY <1>8, <2>1
  <2>5. \A x \in Msgs : (Waiting(x)' => Waiting(x)) /\ (InPlay(x)' => InPlay(x))
    <3>1. \A x \in Msgs : Waiting(x)' => Waiting(x)
      BY <1>1, <2>4 DEF Waiting
    <3> QED
      BY <1>8, <2>3, <2>4, <3>1 DEF InPlay
  <2>6. \A x : (ToUser(x)' <=> ToUser(x)) /\ (Before(x)' <=> Before(x))
    BY <1>1 DEF ToUser, Before
  <2>7. loop.pc = "send" => loop.msg \in Msgs
    BY <1>0, KindLength
  <2>8. InboxInv'
    BY <1>1, <2>0, <2>6 DEF InboxInv
  <2>9. LoopInv'
    BY <1>1, <1>8, <2>0, <2>6 DEF LoopInv
  <2>10. PlayInv'
    BY <1>1, <2>0, <2>5, <2>6 DEF PlayInv
  <2>11. SendInv'
    BY <1>1, <2>0, <2>5, <2>6, <2>7 DEF SendInv
  <2>12. WaitInv'
    <3>1. ASSUME NEW d \in Conns
          PROVE  \A x, y \in Msgs : Precedes(conn'[d].replay, x, y) => Precedes(conn[d].replay, x, y)
      BY <1>8, <2>1
    <3> QED
      BY <1>1, <2>0, <3>1 DEF WaitInv
  <2>13. PubInv'
    BY <1>1, <1>3, <1>8, <2>0, <2>4 DEF PubInv
  <2>14. OrderInv'
    <3>1. ASSUME NEW d \in clients, NEW x \in Msgs, NEW y \in Msgs
          PROVE  OrderInv!(d, x, y)'
      <4>1. Ahead(d, x)' => Ahead(d, x)
        BY <1>1, <1>3, <1>8, <2>0, <2>4 DEF Ahead
      <4>2. alone /\ Has(conn'[d].got, x) /\ Has(conn'[d].replay, y) => x < y
        <5>1. CASE d # c
          BY <1>8, <2>0, <5>1 DEF OrderInv
        <5>2. CASE d = c
          BY <2>0, <2>1, <2>2, <5>2 DEF OrderInv
        <5> QED
          BY <5>1, <5>2
      <4> QED
        BY <1>1, <1>8, <2>0, <2>6, <4>1, <4>2 DEF OrderInv
    <3> QED
      BY <1>1, <3>1 DEF OrderInv
  <2>15. TodoInv'
    <3>1. loop.pc = "send" /\ ToUser(loop.msg) => ~(alone /\ loop.msg = m)
      BY <2>0, <2>3 DEF SendInv
    <3> QED
      BY <1>1, <1>8, <2>0, <2>4, <2>6, <2>7, <3>1 DEF TodoInv
  <2> QED
    BY <2>8, <2>9, <2>10, <2>11, <2>12, <2>13, <2>14, <2>15 DEF DataInv
<1> QED
  BY <1>7, <1>9, <1>10 DEF HubInv

\* The write task passes the head of the channel on.
LEMMA WriteKeeps ==
    ASSUME HubInv, NEW c \in Conns, Write(c)
    PROVE  HubInv'
<1> DEFINE q == conn[c].queue
           g == conn[c].got
<1>0. /\ TypeInv /\ ControlInv /\ DataInv
      /\ ConnOK /\ conn[c] \in ConnType /\ conn \in [Conns -> ConnType]
      /\ Len(q) <= Cap /\ q \in Seq(Msgs) /\ g \in Seq(Msgs)
  BY DEF HubInv, TypeInv, ConnOK, ConnType
<1>1. /\ At(c, "open") /\ q # << >>
      /\ UNCHANGED <<clients, entry, room, sub, alone, kind, inbox, loop, buffer>>
  BY DEF Write, feed
<1>2. PICK m : m = Head(q)
  OBVIOUS
<1>3. /\ m \in Msgs /\ Has(q, m) /\ Tail(q) \in Seq(Msgs) /\ Part(Tail(q), q)
      /\ \A x : Has(Tail(q), x) => Precedes(q, m, x)
  BY <1>0, <1>1, <1>2, TailHas
<1>4. /\ Append(g, m) \in Seq(Msgs)
      /\ \A x : Has(Append(g, m), x) <=> Has(g, x) \/ x = m
  BY <1>0, <1>3, AppendHas
<1>5. PICK a : a = IF ToUser(m) THEN Append(g, m) ELSE g
  OBVIOUS
<1>6. /\ ConnOK' /\ Rest(c)
      /\ conn'[c].pc = conn[c].pc /\ conn'[c].http = conn[c].http
      /\ conn'[c].replay = conn[c].replay
      /\ conn'[c].queue = Tail(q) /\ conn'[c].got = a
  <2> DEFINE v == [conn[c] EXCEPT !.queue = Tail(q), !.got = a]
  <2>1. /\ v \in ConnType /\ v.pc = conn[c].pc /\ v.http = conn[c].http /\ v.queue = Tail(q)
        /\ v.replay = conn[c].replay /\ v.got = a
    BY <1>0, <1>3, <1>4, <1>5 DEF ConnType
  <2>2. conn' = [conn EXCEPT ![c] = v]
    BY <1>0, <1>2, <1>5 DEF Write
  <2>3. Len(Tail(q)) <= Cap
    <3>1. Len(q) \in Nat \ {0} /\ Len(Tail(q)) = Len(q) - 1
      BY <1>0, <1>1, EmptySeq, LenProperties, HeadTailProperties
    <3> QED
      BY <1>0, <3>1, WsHubAssumption
  <2> HIDE DEF v
  <2>4. ConnOK' /\ Rest(c) /\ conn'[c] = v
    BY <1>0, <2>1, <2>2, <2>3, ConnUpdate
  <2> QED
    BY <2>1, <2>4
<1>7. TypeInv'
  BY <1>0, <1>1, <1>6 DEF TypeInv, MapsOK, FeedOK, LoopOK, MailOK
<1>8. \A d \in Conns :
         /\ conn'[d].pc = conn[d].pc /\ conn'[d].http = conn[d].http /\ conn'[d].replay = conn[d].replay
         /\ d # c => conn'[d].queue = conn[d].queue /\ conn'[d].got = conn[d].got
  BY <1>6 DEF Rest
<1>9. ControlInv'
  <2>1. conn[c].pc = "open"
    BY <1>1 DEF At
  <2>2. \A d \in Conns : Bare(d)' <=> Bare(d)
    BY <1>8 DEF Bare, Closing, At
  <2>3. ~Bare(c) /\ conn[c].pc \notin Undrained \cup HttpPcs
    BY <2>1 DEF Bare, Closing, Undrained, HttpPcs
  <2> QED
    BY <1>0, <1>1, <1>8, <2>2, <2>3 DEF ControlInv
<1>10. DataInv'
  <2>0. /\ InboxInv /\ LoopInv /\ PubInv /\ PlayInv /\ SendInv /\ WaitInv /\ OrderInv /\ TodoInv
        /\ clients \subseteq Conns
    BY <1>0 DEF DataInv, TypeInv, MapsOK
  <2>1. /\ \A x \in Msgs : Has(conn'[c].queue, x) => Has(q, x) /\ Precedes(q, m, x)
        /\ \A x, y \in Msgs : Precedes(conn'[c].queue, x, y) => Precedes(q, x, y)
        /\ \A x \in Msgs : Has(conn'[c].got, x) => Has(g, x) \/ (x = m /\ ToUser(m))
    BY <1>3, <1>4, <1>5, <1>6 DEF Part
  <2>2. \A d \in Conns, x \in Msgs :
           /\ Has(conn'[d].queue, x) => Has(conn[d].queue, x)
           /\ Has(conn'[d].got, x) =>
                 Has(conn[d].got, x) \/ (d = c /\ x = m /\ ToUser(m))
    BY <1>8, <2>1
  <2>3. \A x \in Msgs : (Waiting(x)' <=> Waiting(x)) /\ (InPlay(x)' => InPlay(x))
    BY <1>1, <1>3, <1>8, <2>2 DEF Waiting, InPlay
  <2>4. \A x : (ToUser(x)' <=> ToUser(x)) /\ (Before(x)' <=> Before(x))
    BY <1>1 DEF ToUser, Before
  <2>5. InboxInv' /\ PlayInv'
    BY <1>1, <2>0, <2>3, <2>4 DEF InboxInv, PlayInv
  <2>6. LoopInv'
    <3>1. ASSUME loop.pc = "push", NEW d \in clients PROVE conn'[d].queue = << >>
      <4>1. conn[d].queue = << >>
        BY <2>0, <3>1 DEF LoopInv
      <4>2. d # c
        BY <1>1, <4>1
      <4> QED
        BY <1>8, <2>0, <4>1, <4>2
    <3> QED
      BY <1>1, <2>0, <2>4, <3>1 DEF LoopInv
  <2>7. loop.pc = "send" => loop.msg \in Msgs
    BY <1>0, KindLength
  <2>8. SendInv'
    BY <1>1, <2>0, <2>3, <2>4, <2>7 DEF SendInv
  <2>9. WaitInv'
    BY <1>1, <1>8, <2>0 DEF WaitInv
  <2>10. PubInv'
    BY <1>1, <1>3, <1>8, <2>0, <2>2 DEF PubInv
  <2>11. OrderInv'
    <3>1. ASSUME NEW d \in clients, NEW x \in Msgs, NEW y \in Msgs
          PROVE  OrderInv!(d, x, y)'
      <4>1. CASE d # c
        <5>1. conn'[d].queue = conn[d].queue /\ conn'[d].got = conn[d].got /\ (Ahead(d, x)' <=> Ahead(d, x))
          BY <1>1, <1>8, <2>0, <4>1 DEF Ahead
        <5> QED
          BY <1>1, <1>8, <2>0, <2>4, <5>1 DEF OrderInv
      <4>2. CASE d = c
        <5>1. ~Has(conn'[c].replay, y)
          BY <1>0, <1>1, <1>8, EmptyHas DEF ControlInv, At
        <5>2. Ahead(c, x)' => Ahead(c, x) \/ (x = m /\ ToUser(m))
          BY <1>1, <1>8, <2>1 DEF Ahead
        <5>3. Has(conn'[c].queue, y) /\ ToUser(m) /\ ToUser(y) => m < y
          BY <1>3, <2>0, <2>1, <4>2 DEF OrderInv
        <5> QED
          BY <1>8, <2>0, <2>1, <2>4, <4>2, <5>1, <5>2, <5>3 DEF OrderInv
      <4> QED
        BY <4>1, <4>2
    <3> QED
      BY <1>1, <3>1 DEF OrderInv
  <2>12. TodoInv'
    BY <1>1, <1>3, <2>0, <2>2, <2>4, <2>7 DEF TodoInv
  <2> QED
    BY <2>5, <2>6, <2>8, <2>9, <2>10, <2>11, <2>12 DEF DataInv
<1> QED
  BY <1>7, <1>9, <1>10 DEF HubInv

-----------------------------------------------------------------------------
(* Every step, and what follows *)

\* Every step keeps the invariant ..
LEMMA HubNext ==
    ASSUME HubInv, [Next]_vars
    PROVE  HubInv'
<1>1. CASE UNCHANGED vars
  BY <1>1 DEF vars, HubInv, TypeInv, MapsOK, FeedOK, LoopOK, MailOK, ConnOK, ControlInv, Bare,
     Closing, At, DataInv, InboxInv, LoopInv, PubInv, PlayInv, SendInv, WaitInv,
     OrderInv, TodoInv, ToUser, Before, Waiting, InPlay, Ahead
<1>2. CASE Loop
  BY <1>2, TakeKeeps, LoopEnds, PushKeeps, SendKeeps DEF Loop
<1>3. CASE Lose \/ Expire
  BY <1>3, LoseKeeps
<1>4. CASE \E k \in Kinds : Publish(k)
  BY <1>4, PublishKeeps
<1>5. CASE \E c \in Conns :
             Upgrade(c) \/ Call(c) \/ Room(c) \/ Socket(c) \/ Write(c) \/ WriteFails(c) \/ Close(c)
  <2>1. PICK c \in Conns :
           Upgrade(c) \/ Call(c) \/ Room(c) \/ Socket(c) \/ Write(c) \/ WriteFails(c) \/ Close(c)
    BY <1>5
  <2>2. \/ Control(c) \/ drain_message_buffer(c) \/ Replay(c)
        \/ Write(c) \/ WriteFails(c) \/ Close(c)
    BY <2>1 DEF Socket, Control
  <2> QED
    BY <2>2, ControlKeeps, DrainKeeps, ReplayKeeps, WriteKeeps, FailsKeeps
<1>6. CASE \E m \in 1..Len(kind) : PeerBuffers(m)
  BY <1>6, PeerKeeps
<1> QED
  BY <1>1, <1>2, <1>3, <1>4, <1>5, <1>6 DEF Next

\* .. so it holds in every state.
LEMMA HubCorrect == Spec => []HubInv
BY HubInit, HubNext, PTL DEF Spec

\* A sequence of messages that are not later than n.
LEMMA SeqBound ==
    ASSUME NEW s \in Seq(Msgs), NEW n \in Nat, \A m \in Msgs : Has(s, m) => m <= n
    PROVE  s \in Seq(1..n)
<1>1. Len(s) \in Nat /\ s \in [1..Len(s) -> Msgs] /\ Msgs \subseteq Nat \ {0}
  BY LenProperties, WsHubAssumption DEF Msgs
<1>2. ASSUME NEW i \in 1..Len(s) PROVE s[i] \in 1..n
  <2>1. s[i] \in Msgs /\ Has(s, s[i])
    BY <1>1 DEF Has
  <2>2. s[i] <= n /\ s[i] \in Nat \ {0}
    BY <1>1, <2>1
  <2> QED
    BY <2>2
<1>3. s \in [1..Len(s) -> 1..n]
  BY <1>1, <1>2
<1> QED
  BY <1>1, <1>3, SeqDef

\* TypeOK holds in every state: what the inbox, the channels, the buffer and the
\* connections hold has been published, and no channel exceeds its capacity.
THEOREM TypeCorrect == Spec => []TypeOK
<1>1. ASSUME HubInv PROVE TypeOK
  <2>0. TypeInv /\ DataInv /\ Len(kind) \in Nat
    BY <1>1, KindLength DEF HubInv
  <2>1. PubInv
    BY <2>0 DEF DataInv
  <2>2. inbox \in Seq(1..Len(kind))
    BY <2>0, SeqBound DEF TypeInv, FeedOK
  <2>3. buffer \in Seq(1..Len(kind))
    BY <2>0, <2>1, SeqBound DEF TypeInv, MailOK, PubInv
  <2>4. ASSUME NEW c \in Conns
        PROVE  /\ conn[c].pc \in Pcs /\ conn[c].http \in BOOLEAN /\ conn[c].room \in BOOLEAN
               /\ conn[c].queue \in Seq(1..Len(kind)) /\ Len(conn[c].queue) <= Cap
               /\ conn[c].replay \in Seq(1..Len(kind)) /\ conn[c].got \in Seq(1..Len(kind))
    <3>1. /\ conn[c].pc \in Pcs /\ conn[c].http \in BOOLEAN /\ conn[c].room \in BOOLEAN
          /\ Len(conn[c].queue) <= Cap
          /\ conn[c].queue \in Seq(Msgs) /\ conn[c].replay \in Seq(Msgs) /\ conn[c].got \in Seq(Msgs)
      BY <2>0 DEF TypeInv, ConnOK, ConnType
    <3> QED
      BY <2>0, <2>1, <3>1, SeqBound DEF PubInv
  <2>5. /\ loop.pc \in {"idle", "send", "unsubscribe", "push", "trim"} /\ loop.todo \subseteq Conns
        /\ loop.msg \in (IF loop.pc = "idle" THEN {0} ELSE 1..Len(kind))
    BY <2>0 DEF TypeInv, LoopOK, LoopType
  <2> QED
    BY <2>0, <2>2, <2>3, <2>4, <2>5 DEF TypeOK, TypeInv, MapsOK, FeedOK
<1> QED
  BY <1>1, HubCorrect, PTL

\* NoGhostConnection holds in every state: unregister forgets the connection that
\* ends, although the removal of the emptied entry races with register.
THEOREM ConnectionCorrect == Spec => []NoGhostConnection
<1>1. HubInv => NoGhostConnection
  BY DEF HubInv, TypeInv, MapsOK, ControlInv, NoGhostConnection, At
<1> QED
  BY <1>1, HubCorrect, PTL

-----------------------------------------------------------------------------
(* The hub implements Mailbox *)

View == [c \in Conns |-> UserGot(c)]

\* Connections that keep what they got, or lose it, close in the abstract.
LEMMA CloseRefines ==
    ASSUME kind' = kind, \A c \in Conns : UserGot(c)' \in {UserGot(c), << >>}
    PROVE  Ordered!Next
<1> DEFINE gone == {c \in Conns : UserGot(c)' = << >>}
<1>1. View' = [c \in Conns |-> IF c \in gone THEN << >> ELSE View[c]]
  BY DEF View
<1>2. Ordered!Close(gone)
  BY <1>1 DEF Ordered!Close, View
<1> QED
  BY <1>2 DEF Ordered!Next

\* A registered connection gets a message later than all it has got.
LEMMA DeliverRefines ==
    ASSUME HubInv, kind' = kind, clients' = clients, NEW c \in Conns, NEW m \in Msgs,
           \A d \in Conns \ {c} : conn'[d].got = conn[d].got,
           conn'[c].got = Append(conn[c].got, m),
           m <= Len(kind), c \in clients => \A x \in Msgs : Has(conn[c].got, x) => x < m
    PROVE  Ordered!Next
<1>1. CASE c \notin clients
  <2>1. \A d \in Conns : UserGot(d)' = UserGot(d)
    BY <1>1 DEF UserGot
  <2> QED
    BY <2>1, CloseRefines
<1>2. CASE c \in clients
  <2> DEFINE g == conn[c].got
  <2>1. /\ g \in Seq(Msgs) /\ Len(kind) \in Nat /\ m \in Nat \ {0} /\ Msgs \subseteq Nat
    <3>1. g \in Seq(Msgs) /\ TypeInv
      BY DEF HubInv, TypeInv, ConnOK, ConnType
    <3> QED
      BY <3>1, KindLength
  <2>2. View[c] = g
    BY <1>2 DEF View, UserGot
  <2>3. View' = [View EXCEPT ![c] = Append(@, m)]
    BY <1>2, <2>2 DEF View, UserGot
  <2>4. Ordered!Latest(c) = IF g = << >> THEN 0 ELSE g[Len(g)]
    BY <2>2 DEF Ordered!Latest, View
  <2>5. Ordered!Latest(c) \in Nat /\ Ordered!Latest(c) < m
    <3>1. CASE g = << >>
      BY <2>1, <2>4, <3>1
    <3>2. CASE g # << >>
      <4>1. Len(g) \in 1..Len(g) /\ g[Len(g)] \in Msgs
        BY <2>1, <3>2, EmptySeq, LenProperties, ElementOfSeq
      <4>2. Has(g, g[Len(g)])
        BY <4>1 DEF Has
      <4> QED
        BY <1>2, <2>1, <2>4, <3>2, <4>1, <4>2
    <3> QED
      BY <3>1, <3>2
  <2>6. m \in (Ordered!Latest(c) + 1)..Len(kind)
    BY <2>1, <2>5
  <2>7. Ordered!Deliver(c)
    BY <2>3, <2>6 DEF Ordered!Deliver, View
  <2> QED
    BY <2>7 DEF Ordered!Next
<1> QED
  BY <1>1, <1>2

\* What the write task or the replay sends is a Deliver of Mailbox, or a step
\* Mailbox does not see.
LEMMA WriteRefines ==
    ASSUME HubInv, NEW c \in Conns, Write(c) \/ Replay(c)
    PROVE  Ordered!Next
<1>0. /\ TypeInv /\ ControlInv /\ conn \in [Conns -> ConnType] /\ conn[c] \in ConnType
      /\ conn[c].queue \in Seq(Msgs) /\ conn[c].replay \in Seq(Msgs)
      /\ PubInv /\ OrderInv
  BY DEF HubInv, TypeInv, ConnOK, ConnType, DataInv
<1>1. UNCHANGED <<kind, clients>>
  BY DEF Write, Replay, feed
<1>2. CASE Write(c)
  <2>1. PICK m : m = Head(conn[c].queue)
    OBVIOUS
  <2>2. m \in Msgs /\ Has(conn[c].queue, m)
    BY <1>0, <1>2, <2>1, TailHas DEF Write
  <2>3. /\ \A d \in Conns \ {c} : conn'[d] = conn[d]
        /\ conn'[c].got = IF ToUser(m) THEN Append(conn[c].got, m) ELSE conn[c].got
    BY <1>0, <1>2, <2>1 DEF Write, ConnType
  <2>4. CASE ToUser(m)
    <3>1. m <= Len(kind)
      BY <1>0, <2>2 DEF PubInv
    <3>2. c \in clients => \A x \in Msgs : Has(conn[c].got, x) => x < m
      BY <1>0, <2>2, <2>4 DEF OrderInv, Ahead
    <3> QED
      BY <1>1, <2>2, <2>3, <2>4, <3>1, <3>2, DeliverRefines
  <2>5. CASE ~ToUser(m)
    <3>1. \A d \in Conns : UserGot(d)' = UserGot(d)
      BY <1>1, <2>3, <2>5 DEF UserGot
    <3> QED
      BY <1>1, <3>1, CloseRefines
  <2> QED
    BY <2>4, <2>5
<1>3. CASE Replay(c)
  <2>1. PICK m : m = Head(conn[c].replay)
    OBVIOUS
  <2>2. m \in Msgs /\ Has(conn[c].replay, m)
    BY <1>0, <1>3, <2>1, TailHas DEF Replay
  <2>3. /\ \A d \in Conns \ {c} : conn'[d] = conn[d]
        /\ conn'[c].got = IF alone THEN Append(conn[c].got, m) ELSE conn[c].got
    BY <1>0, <1>3, <2>1 DEF Replay, ConnType
  <2>4. CASE alone
    <3>1. m <= Len(kind)
      BY <1>0, <2>2 DEF PubInv
    <3>2. c \in clients => \A x \in Msgs : Has(conn[c].got, x) => x < m
      BY <1>0, <2>2, <2>4 DEF OrderInv
    <3> QED
      BY <1>1, <2>2, <2>3, <2>4, <3>1, <3>2, DeliverRefines
  <2>5. CASE ~alone
    <3>1. \A d \in Conns : UserGot(d)' = UserGot(d)
      BY <1>1, <2>3, <2>5 DEF UserGot
    <3> QED
      BY <1>1, <3>1, CloseRefines
  <2> QED
    BY <2>4, <2>5
<1> QED
  BY <1>2, <1>3

\* Every step of the hub is one of Mailbox, or one it does not see.
LEMMA StepRefines ==
    ASSUME HubInv, Next
    PROVE  Ordered!Next
<1>0. TypeInv /\ ControlInv /\ conn \in [Conns -> ConnType] /\ ConnOK
  BY DEF HubInv, TypeInv, ConnOK
<1>1. CASE \E k \in Kinds : Publish(k)
  <2>1. PICK k \in Kinds : Publish(k)
    BY <1>1
  <2>2. Len(kind') = Len(kind) + 1 /\ UNCHANGED <<conn, clients>>
    BY <1>0, <2>1, AppendProperties DEF Publish, TypeInv, FeedOK
  <2>3. View' = View
    BY <2>2 DEF View, UserGot
  <2>4. Ordered!Publish
    BY <2>2, <2>3 DEF Ordered!Publish, View
  <2> QED
    BY <2>4 DEF Ordered!Next
<1>2. ASSUME kind' = kind, clients' = clients, \A d \in Conns : conn'[d].got \in {conn[d].got, << >>}
      PROVE  Ordered!Next
  BY <1>2, CloseRefines DEF UserGot
<1>3. CASE \/ Lose \/ Expire \/ LoopTake \/ LoopSent \/ LoopUnsubscribe \/ LoopPush \/ LoopTrim
           \/ \E m \in 1..Len(kind) : PeerBuffers(m)
  <2>1. UNCHANGED <<kind, clients, conn>>
    BY <1>3 DEF Lose, Expire, LoopTake, LoopSent, LoopUnsubscribe, LoopPush, LoopTrim, PeerBuffers, feed
  <2> QED
    BY <1>2, <2>1
<1>4. ASSUME NEW c \in Conns, \/ LoopSend(c) \/ drain_message_buffer(c) \/ WriteFails(c) \/ Close(c)
      PROVE  Ordered!Next
  <2>1. UNCHANGED <<kind, clients>>
    BY <1>4 DEF LoopSend, drain_message_buffer, WriteFails, Close, feed
  <2>2. ASSUME NEW v, conn' = [conn EXCEPT ![c] = v], v.got = conn[c].got
        PROVE  Ordered!Next
    <3>1. \A d \in Conns : conn'[d].got = conn[d].got
      BY <1>0, <2>2
    <3> QED
      BY <1>2, <2>1, <3>1
  <2>3. CASE LoopSend(c) \/ WriteFails(c) \/ drain_message_buffer(c)
    <3>0. conn[c] \in ConnType
      BY <1>0
    <3>1. CASE conn' = conn
      BY <1>2, <2>1, <3>1
    <3>2. CASE conn' = [conn EXCEPT ![c].queue = Append(@, loop.msg)]
      <4>1. [conn[c] EXCEPT !.queue = Append(@, loop.msg)].got = conn[c].got
        BY <3>0 DEF ConnType
      <4> QED
        BY <2>2, <3>2, <4>1
    <3>3. CASE conn' = [conn EXCEPT ![c].pc = "mute", ![c].queue = << >>]
      <4>1. [conn[c] EXCEPT !.pc = "mute", !.queue = << >>].got = conn[c].got
        BY <3>0 DEF ConnType
      <4>2. conn' = [conn EXCEPT ![c] = [conn[c] EXCEPT !.pc = "mute", !.queue = << >>]]
        BY <1>0, <3>3
      <4> QED
        BY <2>2, <4>1, <4>2
    <3>4. CASE conn' = [conn EXCEPT ![c].pc = "replay", ![c].replay = OldestFirst(buffer)]
      <4>1. [conn[c] EXCEPT !.pc = "replay", !.replay = OldestFirst(buffer)].got = conn[c].got
        BY <3>0 DEF ConnType
      <4>2. conn' = [conn EXCEPT ![c] = [conn[c] EXCEPT !.pc = "replay", !.replay = OldestFirst(buffer)]]
        BY <1>0, <3>4
      <4> QED
        BY <2>2, <4>1, <4>2
    <3>5. CASE Goto(c, "replay")
      <4>1. [conn[c] EXCEPT !.pc = "replay"].got = conn[c].got
        BY <3>0 DEF ConnType
      <4> QED
        BY <2>2, <3>5, <4>1 DEF Goto
    <3> QED
      BY <2>3, <3>1, <3>2, <3>3, <3>4, <3>5 DEF LoopSend, WriteFails, drain_message_buffer
  <2>4. CASE Close(c)
    <3>1. conn'[c].got = << >>
      BY <1>0, <2>4 DEF Close, Off
    <3>2. \A d \in Conns : d # c => conn'[d] = conn[d]
      BY <1>0, <2>4 DEF Close
    <3> QED
      BY <1>2, <2>1, <3>1, <3>2
  <2> QED
    BY <1>4, <2>3, <2>4
<1>5. ASSUME NEW c \in Conns, Control(c) PROVE Ordered!Next
  <2>1. Rest(c) /\ SameData(c)
    BY <1>0, <1>5, ControlConn
  <2>2. /\ kind' = kind /\ clients' \subseteq clients \cup {c}
        /\ c \in clients' \ clients => At(c, "upgraded")
    BY <1>0, <1>5, ControlMaps
  <2>3. c \in clients' \ clients => conn[c].got = << >>
    BY <1>0, <2>2 DEF ControlInv, Bare, At
  <2>4. \A d \in Conns : UserGot(d)' \in {UserGot(d), << >>}
    BY <2>1, <2>2, <2>3 DEF UserGot, Rest, SameData
  <2> QED
    BY <2>2, <2>4, CloseRefines
<1>6. CASE \E c \in Conns :
             Upgrade(c) \/ Call(c) \/ Room(c) \/ Socket(c) \/ Write(c) \/ WriteFails(c) \/ Close(c)
  <2>1. PICK c \in Conns :
           Upgrade(c) \/ Call(c) \/ Room(c) \/ Socket(c) \/ Write(c) \/ WriteFails(c) \/ Close(c)
    BY <1>6
  <2>2. \/ Control(c) \/ drain_message_buffer(c) \/ Replay(c)
        \/ Write(c) \/ WriteFails(c) \/ Close(c)
    BY <2>1 DEF Socket, Control
  <2> QED
    BY <1>4, <1>5, <2>2, WriteRefines
<1> QED
  BY <1>1, <1>3, <1>4, <1>6 DEF Next, Loop

\* InOrder, the hub implements Mailbox: a registered connection sees what is published
\* to its user in that order and no PUBLISH twice, the replayed ones before those that
\* deliver_locally puts into its channel.  With other instances it is so of the channel.
THEOREM Refinement == Spec => InOrder
<1>1. Init => Ordered!Init
  <2> SUFFICES ASSUME Init PROVE Ordered!Init
    OBVIOUS
  <2>1. Len(kind) = 0
    BY EmptySeq DEF Init
  <2>2. \A c \in Conns : UserGot(c) = << >>
    BY DEF Init, UserGot
  <2> QED
    BY <2>1, <2>2 DEF Ordered!Init
<1>2. HubInv /\ [Next]_vars => [Ordered!Next]_<<Len(kind), View>>
  <2>1. CASE UNCHANGED vars
    BY <2>1 DEF vars, View, UserGot
  <2> QED
    BY <2>1, StepRefines
<1>3. HubInv /\ [Next]_vars => [Ordered!Next]_<<Len(kind), [c \in Conns |-> UserGot(c)]>>
  BY <1>2 DEF View
<1> QED
  BY <1>1, <1>3, HubCorrect, PTL DEF Spec, InOrder, Ordered!Spec
=============================================================================
