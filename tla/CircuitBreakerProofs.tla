------------------------ MODULE CircuitBreakerProofs ------------------------
(***************************************************************************)
(* Proofs about CircuitBreaker for any thresholds and any number of        *)
(* concurrent calls.  Neither of the properties is inductive: each is      *)
(* strengthened by saying which call in flight is about to repair it.      *)
(*                                                                         *)
(* The last section is about HostGrace, the other component that guards    *)
(* against an outage by waiting; the two share no state.                   *)
(***************************************************************************)
EXTENDS CircuitBreaker, HostGrace, TLAPS

\* Who is about to leave Closed, or is about to probe, has seen a failure.
FailureInv ==
    /\ state # "Closed" => last # "none"
    /\ \A c \in Calls : pc[c] \in {"probe", "trip", "open"} => last # "none"

\* Call c is going to reset success_count.
Closes(c) == pc[c] \in {"close", "clearF", "clearS"}

SuccessInv == successes >= SuccessThreshold => \E c \in Calls : Closes(c)

-----------------------------------------------------------------------------

\* Every step keeps the types.
LEMMA NextType ==
    ASSUME TypeOK, [Next]_vars
    PROVE  TypeOK'
<1>. USE BreakerAssumption DEF TypeOK
<1>1. CASE UNCHANGED vars
  BY <1>1 DEF vars
<1>2. CASE Flip
  BY <1>2 DEF Flip
<1>3. CASE Elapse
  BY <1>3 DEF Elapse
<1>4. ASSUME NEW c \in Calls, Step(c) \/ Cancel(c)
      PROVE  TypeOK'
  <2>. USE DEF Pcs
  <2>1. pc' \in [Calls -> Pcs]
    BY <1>4 DEF Step, OnSuccess, OnFailure, Check, CheckElapsed, CheckHalfOpen, Request,
       Success, SuccessReset, SuccessBump, SuccessClose, SuccessClearFailures,
       SuccessClearSuccesses, Failure, FailureStamp, FailureTrip,
       FailureOpen, FailureClearSuccesses, Cancel, Move
  <2>2. CASE Check(c) \/ CheckElapsed(c) \/ Request(c) \/ Success(c) \/ FailureTrip(c)
             \/ Cancel(c)
    BY <2>1, <2>2 DEF Check, CheckElapsed, Request, Success, FailureTrip, Cancel
  <2>3. CASE CheckHalfOpen(c) \/ SuccessClose(c) \/ FailureOpen(c)
    BY <2>1, <2>3 DEF CheckHalfOpen, SuccessClose, FailureOpen
  <2>4. CASE SuccessReset(c) \/ SuccessClearFailures(c) \/ SuccessClearSuccesses(c)
             \/ FailureClearSuccesses(c)
    BY <2>1, <2>4 DEF SuccessReset, SuccessClearFailures, SuccessClearSuccesses,
       FailureClearSuccesses
  <2>5. CASE SuccessBump(c)
    BY <2>1, <2>5 DEF SuccessBump
  <2>6. CASE Failure(c)
    <3>1. failures' \in 0..FailureThreshold
      BY <2>6 DEF Failure
    <3>2. tripped' \in [Calls -> BOOLEAN]
      BY <2>6 DEF Failure
    <3>. QED
      BY <2>1, <2>6, <3>1, <3>2 DEF Failure
  <2>7. CASE FailureStamp(c)
    BY <2>1, <2>7 DEF FailureStamp
  <2>. QED
    BY <1>4, <2>2, <2>3, <2>4, <2>5, <2>6, <2>7 DEF Step, OnSuccess, OnFailure
<1>. QED
  BY <1>1, <1>2, <1>3, <1>4 DEF Next

\* The breaker's atomics and every call keep their types.
THEOREM TypeCorrect == Spec => []TypeOK
<1>1. Init => TypeOK
  BY BreakerAssumption DEF Init, TypeOK, Pcs
<1>2. TypeOK /\ [Next]_vars => TypeOK'
  BY NextType
<1>. QED
  BY <1>1, <1>2, PTL DEF Spec

\* A circuit that is not Closed remembers its last failure, so it can be left.
THEOREM FailureRemembered == Spec => []OpenRemembersFailure
<1>1. Init => FailureInv
  BY DEF Init, FailureInv
<1>2. TypeOK /\ FailureInv /\ [Next]_vars => FailureInv'
  <2>. SUFFICES ASSUME TypeOK, FailureInv, [Next]_vars
                PROVE  FailureInv'
    OBVIOUS
  <2>. USE DEF TypeOK, FailureInv
  <2>1. CASE UNCHANGED vars
    BY <2>1 DEF vars
  <2>2. CASE Flip \/ Elapse
    BY <2>2 DEF Flip, Elapse
  <2>3. ASSUME NEW c \in Calls, Step(c) \/ Cancel(c)
        PROVE  FailureInv'
    <3>1. CASE FailureStamp(c)
      BY <3>1 DEF FailureStamp
    <3>2. CASE ~FailureStamp(c)
      <4>1. last' = last
        BY <2>3, <3>2 DEF Step, OnSuccess, OnFailure, Check, CheckElapsed, CheckHalfOpen,
           Request, Success, SuccessReset, SuccessBump, SuccessClose,
           SuccessClearFailures, SuccessClearSuccesses, Failure,
           FailureTrip, FailureOpen, FailureClearSuccesses, Cancel
      <4>2. /\ state' \in {"Closed", state} \/ pc[c] \in {"probe", "open"}
            /\ pc'[c] \in {"probe", "open"} => last # "none" \/ state = "HalfOpen"
            /\ pc'[c] # "trip"
            /\ \A d \in Calls \ {c} : pc'[d] = pc[d]
        BY <2>3, <3>2 DEF Step, OnSuccess, OnFailure, Check, CheckElapsed, CheckHalfOpen,
           Request, Success, SuccessReset, SuccessBump, SuccessClose,
           SuccessClearFailures, SuccessClearSuccesses, Failure,
           FailureTrip, FailureOpen, FailureClearSuccesses, Cancel, Move
      <4>. QED
        BY <4>1, <4>2
    <3>. QED
      BY <3>1, <3>2
  <2>. QED
    BY <2>1, <2>2, <2>3 DEF Next
<1>3. FailureInv => OpenRemembersFailure
  BY DEF FailureInv, OpenRemembersFailure
<1>. QED
  BY <1>1, <1>2, <1>3, TypeCorrect, PTL DEF Spec

\* The successes that closed the circuit are gone once calls are done.
THEOREM SuccessCorrect == Spec => []NoStaleSuccesses
<1>1. Init => SuccessInv
  BY BreakerAssumption DEF Init, SuccessInv
<1>2. TypeOK /\ SuccessInv /\ [Next]_vars => SuccessInv'
  <2>. SUFFICES ASSUME TypeOK, SuccessInv, [Next]_vars
                PROVE  SuccessInv'
    OBVIOUS
  <2>. SUFFICES ASSUME successes' >= SuccessThreshold
                PROVE  \E d \in Calls : Closes(d)'
    BY DEF SuccessInv
  <2>. USE BreakerAssumption DEF TypeOK, Closes
  <2>1. CASE UNCHANGED vars \/ Flip \/ Elapse
    BY <2>1 DEF vars, Flip, Elapse, SuccessInv
  <2>2. ASSUME NEW c \in Calls, Step(c) \/ Cancel(c)
        PROVE  \E d \in Calls : Closes(d)'
    <3>1. CASE SuccessBump(c)
      BY <3>1 DEF SuccessBump, Move
    <3>2. CASE ~SuccessBump(c)
      <4>1. /\ successes >= SuccessThreshold
            /\ \A d \in Calls \ {c} : pc'[d] = pc[d]
        BY <2>2, <3>2 DEF Step, OnSuccess, OnFailure, Check, CheckElapsed, CheckHalfOpen,
           Request, Success, SuccessReset, SuccessClose, SuccessClearFailures,
           SuccessClearSuccesses, Failure, FailureStamp, FailureTrip,
           FailureOpen, FailureClearSuccesses, Cancel, Move
      <4>2. PICK d \in Calls : Closes(d)
        BY <4>1 DEF SuccessInv
      <4>3. CASE d # c
        BY <4>1, <4>2, <4>3
      <4>4. CASE d = c
        BY <2>2, <3>2, <4>1, <4>2, <4>4 DEF Step, OnSuccess, OnFailure, Check,
           CheckElapsed, CheckHalfOpen, Request, Success, SuccessReset, SuccessClose,
           SuccessClearFailures, SuccessClearSuccesses, Failure,
           FailureStamp, FailureTrip, FailureOpen, FailureClearSuccesses, Cancel, Move
      <4>. QED
        BY <4>3, <4>4
    <3>. QED
      BY <3>1, <3>2
  <2>. QED
    BY <2>1, <2>2 DEF Next
<1>3. TypeOK /\ SuccessInv => NoStaleSuccesses
  BY BreakerAssumption DEF TypeOK, SuccessInv, NoStaleSuccesses, AllIdle, Closes
<1>. QED
  BY <1>1, <1>2, <1>3, TypeCorrect, PTL DEF Spec

-----------------------------------------------------------------------------
(* The grace period of a host, for any number of connections, retries,     *)
(* starts and disconnects                                                  *)

\* A grace key that still exists is one that no notice has been sent for: the
\* part of the argument that OneNoticePerGrace leaves out.
NoticeInv == notices + (IF grace THEN 1 ELSE 0) <= graces

\* The next-state relation keeps the types.
LEMMA GraceNextType ==
    ASSUME GraceTypeOK, [GraceNext]_graceVars
    PROVE  GraceTypeOK'
<1>. USE HostGraceAssumption DEF GraceTypeOK, ConnPcs, JobPcs
<1>1. CASE UNCHANGED graceVars
  BY <1>1 DEF graceVars
<1>2. CASE Start \/ End \/ EndCleanup \/ Expire
  <2>1. CASE Start
    BY <2>1 DEF Start
  <2>2. CASE End
    <3>1. live' \in BOOLEAN /\ grace' \in BOOLEAN
      BY <2>2 DEF End
    <3>2. /\ starts' \in Nat /\ cleanups' \in Nat /\ drops' \in Nat
          /\ graces' \in Nat /\ notices' \in Nat
      BY <2>2 DEF End
    <3>3. conn' \in [Conns -> [pc: ConnPcs, host: BOOLEAN]]
      BY <2>2 DEF End
    <3>4. job' \in [Jobs -> [pc: JobPcs, tries: 0..Retries]]
      BY <2>2 DEF End
    <3>5. timer' \in {"none", "running", "over"}
      BY <2>2 DEF End
    <3>. QED
      BY <3>1, <3>2, <3>3, <3>4, <3>5
  <2>3. CASE EndCleanup
    <3>1. live' \in BOOLEAN /\ grace' \in BOOLEAN
      BY <2>3 DEF EndCleanup
    <3>2. /\ starts' \in Nat /\ cleanups' \in Nat /\ drops' \in Nat
          /\ graces' \in Nat /\ notices' \in Nat
      BY <2>3 DEF EndCleanup
    <3>3. conn' \in [Conns -> [pc: ConnPcs, host: BOOLEAN]]
      BY <2>3 DEF EndCleanup
    <3>4. job' \in [Jobs -> [pc: JobPcs, tries: 0..Retries]]
      BY <2>3 DEF EndCleanup
    <3>5. timer' \in {"none", "running", "over"}
      BY <2>3 DEF EndCleanup
    <3>. QED
      BY <3>1, <3>2, <3>3, <3>4, <3>5
  <2>4. CASE Expire
    BY <2>4 DEF Expire
  <2>. QED
    BY <1>2, <2>1, <2>2, <2>3, <2>4
<1>3. ASSUME NEW c \in Conns, Connect(c) \/ Handler(c) \/ Close(c) \/ Drop(c)
                               \/ HandlerError(c) \/ Vanish(c)
      PROVE  GraceTypeOK'
  <2>1. \A p \in ConnPcs : Goto(c, p) => conn' \in [Conns -> [pc: ConnPcs, host: BOOLEAN]]
    BY DEF Goto
  <2>2. CASE Connect(c) \/ ReconnectFind(c) \/ ReconnectExists(c) \/ Close(c)
             \/ DisconnectFind(c) \/ Vanish(c)
    <3>1. UNCHANGED <<live, starts, cleanups, grace, timer, job, drops, graces, notices>>
      BY <2>2 DEF Connect, ReconnectFind, ReconnectExists, Close, DisconnectFind, Vanish
    <3>2. \E p \in ConnPcs : Goto(c, p)
      BY <2>2 DEF Connect, ReconnectFind, ReconnectExists, Close, DisconnectFind, Vanish
    <3>. QED
      BY <2>1, <3>1, <3>2
  <2>3. CASE ReconnectClear(c)
    <3>1. live' \in BOOLEAN /\ grace' \in BOOLEAN
      BY <2>1, <2>3 DEF ReconnectClear
    <3>2. /\ starts' \in Nat /\ cleanups' \in Nat /\ drops' \in Nat
          /\ graces' \in Nat /\ notices' \in Nat
      BY <2>1, <2>3 DEF ReconnectClear
    <3>3. conn' \in [Conns -> [pc: ConnPcs, host: BOOLEAN]]
      BY <2>1, <2>3 DEF ReconnectClear
    <3>4. job' \in [Jobs -> [pc: JobPcs, tries: 0..Retries]]
      BY <2>1, <2>3 DEF ReconnectClear
    <3>5. timer' \in {"none", "running", "over"}
      BY <2>1, <2>3 DEF ReconnectClear
    <3>. QED
      BY <3>1, <3>2, <3>3, <3>4, <3>5
  <2>4. CASE Tune(c)
    BY <2>4 DEF Tune
  <2>5. CASE Drop(c)
    BY <2>1, <2>5 DEF Drop
  <2>6. CASE DisconnectSet(c)
    BY <2>1, <2>6 DEF DisconnectSet
  <2>7. CASE DisconnectPush(c)
    <3>1. UNCHANGED <<live, starts, cleanups, grace, timer, drops, graces, notices>>
      BY <2>7 DEF DisconnectPush
    <3>2. conn' \in [Conns -> [pc: ConnPcs, host: BOOLEAN]]
      BY <2>1, <2>7 DEF DisconnectPush
    <3>3. PICK j \in Jobs : JobGoto(j, "queued")
      BY <2>7 DEF DisconnectPush
    <3>4. job' \in [Jobs -> [pc: JobPcs, tries: 0..Retries]]
      BY <3>3 DEF JobGoto
    <3>. QED
      BY <3>1, <3>2, <3>4
  <2>8. CASE HandlerError(c)
    BY <2>1, <2>8 DEF HandlerError, AfterError
  <2>. QED
    BY <1>3, <2>2, <2>3, <2>4, <2>5, <2>6, <2>7, <2>8 DEF Handler
<1>4. ASSUME NEW j \in Jobs, Worker(j) \/ JobError(j)
      PROVE  GraceTypeOK'
  <2>1. \A p \in JobPcs : JobGoto(j, p) => job' \in [Jobs -> [pc: JobPcs, tries: 0..Retries]]
    BY DEF JobGoto
  <2>2. CASE JobCheck(j) \/ JobDel(j) \/ JobEnd(j) \/ JobError(j)
    <3>1. live' \in BOOLEAN /\ grace' \in BOOLEAN
      BY <2>1, <2>2 DEF JobCheck, JobDel, JobEnd, JobError
    <3>2. /\ starts' \in Nat /\ cleanups' \in Nat /\ drops' \in Nat
          /\ graces' \in Nat /\ notices' \in Nat
      BY <2>1, <2>2 DEF JobCheck, JobDel, JobEnd, JobError
    <3>3. conn' \in [Conns -> [pc: ConnPcs, host: BOOLEAN]]
      BY <2>1, <2>2 DEF JobCheck, JobDel, JobEnd, JobError
    <3>4. job' \in [Jobs -> [pc: JobPcs, tries: 0..Retries]]
      BY <2>1, <2>2 DEF JobCheck, JobDel, JobEnd, JobError
    <3>5. timer' \in {"none", "running", "over"}
      BY <2>1, <2>2 DEF JobCheck, JobDel, JobEnd, JobError
    <3>. QED
      BY <3>1, <3>2, <3>3, <3>4, <3>5
  <2>3. CASE JobRetry(j)
    BY <2>3 DEF JobRetry
  <2>. QED
    BY <1>4, <2>2, <2>3 DEF Worker
<1>. QED
  BY <1>1, <1>2, <1>3, <1>4 DEF GraceNext

\* The key, the handlers, the jobs and the counters keep their types.
THEOREM GraceTypeCorrect == GraceSpec => []GraceTypeOK
<1>1. GraceInit => GraceTypeOK
  <2>. SUFFICES ASSUME GraceInit
                PROVE  GraceTypeOK
    OBVIOUS
  <2>1. live \in BOOLEAN /\ grace \in BOOLEAN
    BY HostGraceAssumption DEF GraceInit, ConnPcs, JobPcs
  <2>2. /\ starts \in Nat /\ cleanups \in Nat /\ drops \in Nat
        /\ graces \in Nat /\ notices \in Nat
    BY HostGraceAssumption DEF GraceInit, ConnPcs, JobPcs
  <2>3. conn \in [Conns -> [pc: ConnPcs, host: BOOLEAN]]
    BY HostGraceAssumption DEF GraceInit, ConnPcs, JobPcs
  <2>4. job \in [Jobs -> [pc: JobPcs, tries: 0..Retries]]
    BY HostGraceAssumption DEF GraceInit, ConnPcs, JobPcs
  <2>5. timer \in {"none", "running", "over"}
    BY HostGraceAssumption DEF GraceInit, ConnPcs, JobPcs
  <2>. QED
    BY <2>1, <2>2, <2>3, <2>4, <2>5 DEF GraceTypeOK
<1>2. GraceTypeOK /\ [GraceNext]_graceVars => GraceTypeOK'
  BY GraceNextType
<1>. QED
  BY <1>1, <1>2, PTL DEF GraceSpec

\* Only SETEX creates the key and only the handler whose DEL removed it sends a
\* notice, so every notice uses up a grace period.
LEMMA NoticeStep ==
    ASSUME GraceTypeOK, NoticeInv, [GraceNext]_graceVars
    PROVE  NoticeInv'
<1>. USE DEF GraceTypeOK, NoticeInv
<1>1. CASE UNCHANGED <<grace, graces, notices>>
  BY <1>1
<1>2. CASE grace' = FALSE /\ UNCHANGED <<graces, notices>>
  BY <1>2
<1>3. ASSUME NEW c \in Conns, DisconnectSet(c)
      PROVE  NoticeInv'
  BY <1>3 DEF DisconnectSet
<1>4. ASSUME NEW c \in Conns, ReconnectClear(c)
      PROVE  NoticeInv'
  BY <1>4 DEF ReconnectClear
<1>5. CASE Start \/ End \/ EndCleanup \/ Expire \/ UNCHANGED graceVars
  BY <1>1, <1>2, <1>5 DEF Start, End, EndCleanup, Expire, graceVars
<1>6. ASSUME NEW c \in Conns, Connect(c) \/ Handler(c) \/ Close(c) \/ Drop(c)
                               \/ HandlerError(c) \/ Vanish(c)
      PROVE  NoticeInv'
  BY <1>1, <1>3, <1>4, <1>6
  DEF Handler, Connect, ReconnectFind, ReconnectExists, Tune, Close, Drop,
      DisconnectFind, DisconnectPush, HandlerError, Vanish
<1>7. ASSUME NEW j \in Jobs, Worker(j) \/ JobError(j)
      PROVE  NoticeInv'
  BY <1>1, <1>2, <1>7 DEF Worker, JobCheck, JobDel, JobEnd, JobRetry, JobError
<1>. QED
  BY <1>5, <1>6, <1>7 DEF GraceNext

\* Listeners hear of the host's return at most once per grace period, for any
\* number of connections that come back at the same time.
THEOREM NoticeCorrect == GraceSpec => []OneNoticePerGrace
<1>1. GraceInit => NoticeInv
  BY DEF GraceInit, NoticeInv
<1>2. GraceTypeOK /\ NoticeInv /\ [GraceNext]_graceVars => NoticeInv'
  BY NoticeStep
<1>3. GraceTypeOK /\ NoticeInv => OneNoticePerGrace
  BY DEF GraceTypeOK, NoticeInv, OneNoticePerGrace
<1>. QED
  BY <1>1, <1>2, <1>3, GraceTypeCorrect, PTL DEF GraceSpec
=============================================================================
