-------------------------- MODULE BroadcastProofs --------------------------
(***************************************************************************)
(* Proofs about Broadcast for any number of users, broadcasts and          *)
(* concurrent requests.  HostIsCreator and RowsOnlyAfterStart are not      *)
(* inductive: a commit relies on what its request read earlier, so the     *)
(* strengthening says of every request in flight which of its stale reads  *)
(* are still safe to act on.  The last sections are about clients who wait *)
(* for every answer: there a read is never stale, and every operation acts *)
(* like one step of Session, whatever tasks earlier requests left running. *)
(***************************************************************************)
EXTENDS Broadcast, TLAPS

\* What a request in flight knows that no later commit can falsify.
SafeReads(q) ==
    /\ q.op = "create" => q.u = Creator[q.b]
    /\ q.pc = "commit" => q.u = Creator[q.b]
    /\ "cohost" \in q.hit => q.t # Creator[q.b]
    /\ q.seen = "active" => token[q.b]

ReqInv == \A r \in Reqs : req[r] # Idle => SafeReads(req[r])

\* The creator is never a cohost, and a live broadcast has its token.
CohostInv == \A b \in Broadcasts : Creator[b] \notin cohosts[b]
TokenInv  == \A b \in Broadcasts : status[b] = "active" => token[b]

SafetyInv == ReqInv /\ CohostInv /\ TokenInv /\ HostIsCreator /\ RowsOnlyAfterStart

-----------------------------------------------------------------------------
(* Moving a request keeps it well formed. *)

\* A request that stops frees its slot.
LEMMA DoneType ==
    ASSUME TypeOK, NEW r \in Reqs, Done(r)
    PROVE  req' \in [Reqs -> Request \cup {Idle}]
BY DEF TypeOK, Done

\* A request that moves to another program point is still a request.
LEMMA GotoType ==
    ASSUME TypeOK, NEW r \in Reqs, req[r] # Idle, NEW pc \in Pcs, Goto(r, pc)
    PROVE  req' \in [Reqs -> Request \cup {Idle}]
<1>1. req[r] \in Request
  BY DEF TypeOK
<1>2. [req[r] EXCEPT !.pc = pc] \in Request
  BY <1>1 DEF Request
<1>. QED
  BY <1>2 DEF TypeOK, Goto

\* Issuing, querying, refusing, faults and effects leave the database alone.
LEMMA OnlyCommitsWrite ==
    ASSUME NEW r \in Reqs, Call(r) \/ Query(r) \/ Refuse(r) \/ Effect(r) \/ Fault(r)
    PROVE  UNCHANGED dbVars
BY DEF Call, Query, Refuse, Effect, Fault, StartCreateRoom, StartSetCount, EndDeleteRoom, EndDeleteCount, JoinCount, LeaveDecr,
       LeaveDeleteCount, KickDecr, DeletePurge, CountCohostsFails, CommandFails,
       Abandon

-----------------------------------------------------------------------------
(* Type correctness *)

\* A fresh request is a request.
LEMMA CallType ==
    ASSUME TypeOK, NEW r \in Reqs, Call(r)
    PROVE  TypeOK'
<1>1. PICK op \in Ops, b \in Broadcasts, u \in Users :
        \E t \in Targets(op, u) : req' = [req EXCEPT ![r] = NewRequest(op, b, u, t)]
  BY DEF Call
<1>2. PICK t \in Targets(op, u) : req' = [req EXCEPT ![r] = NewRequest(op, b, u, t)]
  BY <1>1
<1>3. t \in Users /\ op \in AllOps
  BY BroadcastAssumption DEF Targets
<1>4. Reads(op) \in SUBSET Queries
  BY <1>3 DEF Reads, Queries, AllOps
<1>5. NewRequest(op, b, u, t) \in Request
  BY <1>3, <1>4 DEF NewRequest, Request, Pcs, Handling, Statuses
<1>6. req' \in [Reqs -> Request \cup {Idle}]
  BY <1>2, <1>5 DEF TypeOK
<1>. QED
  BY <1>6 DEF Call, TypeOK, dbVars, bcVars, partVars, cacheVars

\* A query records an answer of the right kind.
LEMMA QueryType ==
    ASSUME TypeOK, NEW r \in Reqs, Query(r)
    PROVE  TypeOK'
<1>1. PICK query \in Askable(req[r]) : req' = [req EXCEPT ![r] = Answered(req[r], query)]
  BY DEF Query
<1>2. req[r] \in Request
  BY DEF Query, TypeOK
<1>3. query \in Queries
  BY <1>2 DEF Askable, Request
<1>4. /\ find_by_id(req[r].b) \in Statuses
      /\ find_participant(req[r].b, req[r].u) \in {"absent", "live", "left"}
  BY <1>2 DEF TypeOK, Request, find_by_id, find_participant, Statuses
<1>5. Answered(req[r], query) \in Request
  BY <1>2, <1>3, <1>4, ZenonT(30) DEF Answered, Request
<1>6. req' \in [Reqs -> Request \cup {Idle}]
  BY <1>1, <1>5 DEF TypeOK
<1>. QED
  BY <1>6 DEF Query, TypeOK, dbVars, bcVars, partVars, cacheVars

\* The participant statements keep the tables well formed.
LEMMA ParticipantTypes ==
    ASSUME TypeOK, NEW b \in Broadcasts, NEW u \in Users
    PROVE  /\ \A ro \in Roles : upsert_participant(b, u, ro) =>
                /\ rows' \in [Broadcasts -> SUBSET Users]
                /\ left' \in [Broadcasts -> SUBSET Users]
                /\ role' \in [Broadcasts -> [Users -> Roles]]
           /\ remove_participant(b, u) =>
                /\ rows' \in [Broadcasts -> SUBSET Users]
                /\ left' \in [Broadcasts -> SUBSET Users]
                /\ role' \in [Broadcasts -> [Users -> Roles]]
           /\ clear_participants(b) =>
                /\ rows' \in [Broadcasts -> SUBSET Users]
                /\ left' \in [Broadcasts -> SUBSET Users]
                /\ role' \in [Broadcasts -> [Users -> Roles]]
<1>1. ASSUME NEW ro \in Roles, upsert_participant(b, u, ro)
      PROVE  /\ rows' \in [Broadcasts -> SUBSET Users]
             /\ left' \in [Broadcasts -> SUBSET Users]
             /\ role' \in [Broadcasts -> [Users -> Roles]]
  BY <1>1 DEF TypeOK, upsert_participant
<1>2. ASSUME remove_participant(b, u)
      PROVE  /\ rows' \in [Broadcasts -> SUBSET Users]
             /\ left' \in [Broadcasts -> SUBSET Users]
             /\ role' \in [Broadcasts -> [Users -> Roles]]
  BY <1>2 DEF TypeOK, remove_participant, Roles
<1>3. ASSUME clear_participants(b)
      PROVE  /\ rows' \in [Broadcasts -> SUBSET Users]
             /\ left' \in [Broadcasts -> SUBSET Users]
             /\ role' \in [Broadcasts -> [Users -> Roles]]
  BY <1>3 DEF TypeOK, clear_participants
<1>. QED
  BY <1>1, <1>2, <1>3

\* Every transaction keeps the tables and the request well formed.
LEMMA CommitType ==
    ASSUME TypeOK, NEW r \in Reqs, Commit(r)
    PROVE  TypeOK'
<1>1. req[r] # Idle /\ req[r] \in Request
  BY DEF Commit, CreateCommit, UpdateCommit, DeleteCommit, StartCommit, EndCommit,
         JoinCommit, LeaveCommit, AddCohostCommit, RemoveCohostCommit,
         DemoteCohostCommit, Ready, At, TypeOK
<1>2. /\ req[r].b \in Broadcasts /\ req[r].u \in Users /\ req[r].t \in Users
      /\ Creator[req[r].b] \in Users
  BY <1>1, BroadcastAssumption DEF Request
<1>3. {"host", "cohost", "participant", "none"} \subseteq Roles
  BY DEF Roles
<1>4. CASE CreateCommit(r)
  <2>1. req' \in [Reqs -> Request \cup {Idle}]
    BY <1>4, DoneType DEF CreateCommit
  <2>2. cohosts' \in [Broadcasts -> SUBSET Users]
    BY <1>4, <1>2 DEF CreateCommit, add_cohosts, Invitees, TypeOK
  <2>. QED
    BY <1>4, <1>2, <2>1, <2>2
    DEF CreateCommit, create, TypeOK, partVars, cacheVars, Statuses
<1>5. CASE UpdateCommit(r)
  <2>1. req' \in [Reqs -> Request \cup {Idle}]
    BY <1>5, DoneType DEF UpdateCommit
  <2>2. cohosts' \in [Broadcasts -> SUBSET Users]
    BY <1>5, <1>2 DEF UpdateCommit, add_cohosts, Invitees, TypeOK
  <2>. QED
    BY <1>5, <2>1, <2>2 DEF UpdateCommit, TypeOK, bcVars, partVars, cacheVars
<1>6. CASE DeleteCommit(r)
  <2>1. req' \in [Reqs -> Request \cup {Idle}]
    BY <1>6, <1>1, GotoType DEF DeleteCommit, Pcs, Handling
  <2>. QED
    BY <1>6, <1>2, <2>1 DEF DeleteCommit, delete, TypeOK, partVars, cacheVars
<1>7. CASE StartCommit(r)
  <2>1. req' \in [Reqs -> Request \cup {Idle}]
    BY <1>7, <1>1, GotoType DEF StartCommit, Pcs, Handling
  <2>. QED
    BY <1>7, <1>2, <1>3, <2>1, ParticipantTypes
    DEF StartCommit, set_active, TypeOK, Statuses, cacheVars
<1>8. CASE EndCommit(r)
  <2>1. req' \in [Reqs -> Request \cup {Idle}]
    BY <1>8, <1>1, GotoType DEF EndCommit, Pcs, Handling
  <2>. QED
    BY <1>8, <1>2, <2>1, ParticipantTypes
    DEF EndCommit, set_inactive, TypeOK, Statuses, cacheVars
<1>9. CASE JoinCommit(r)
  <2>1. req' \in [Reqs -> Request \cup {Idle}]
    BY <1>9, <1>1, GotoType DEF JoinCommit, Pcs, Handling
  <2>2. JoinRole(req[r]) \in Roles
    BY <1>3 DEF JoinRole
  <2>. QED
    BY <1>9, <1>2, <2>1, <2>2, ParticipantTypes DEF JoinCommit, TypeOK, bcVars, cacheVars
<1>10. CASE LeaveCommit(r)
  <2>1. req' \in [Reqs -> Request \cup {Idle}]
    BY <1>10, <1>1, GotoType DEF LeaveCommit, Pcs, Handling
  <2>. QED
    BY <1>10, <1>2, <2>1, ParticipantTypes DEF LeaveCommit, TypeOK, bcVars, cacheVars
<1>11. CASE AddCohostCommit(r)
  <2>1. req' \in [Reqs -> Request \cup {Idle}]
    BY <1>11, DoneType DEF AddCohostCommit
  <2>2. cohosts' \in [Broadcasts -> SUBSET Users]
    BY <1>11, <1>2 DEF AddCohostCommit, add_cohosts, TypeOK
  <2>. QED
    BY <1>11, <1>2, <1>3, <2>1, <2>2, ParticipantTypes
    DEF AddCohostCommit, TypeOK, bcVars, cacheVars
<1>12. CASE RemoveCohostCommit(r)
  <2>1. req' \in [Reqs -> Request \cup {Idle}]
    BY <1>12, <1>1, GotoType DEF RemoveCohostCommit, Pcs, Handling
  <2>2. cohosts' \in [Broadcasts -> SUBSET Users]
    BY <1>12, <1>2 DEF RemoveCohostCommit, remove_cohost, TypeOK
  <2>. QED
    BY <1>12, <1>2, <2>1, <2>2, ParticipantTypes
    DEF RemoveCohostCommit, TypeOK, bcVars, cacheVars
<1>13. CASE DemoteCohostCommit(r)
  <2>1. req' \in [Reqs -> Request \cup {Idle}]
    BY <1>13, DoneType DEF DemoteCohostCommit
  <2>2. cohosts' \in [Broadcasts -> SUBSET Users]
    BY <1>13, <1>2 DEF DemoteCohostCommit, remove_cohost, TypeOK
  <2>. QED
    BY <1>13, <1>2, <1>3, <2>1, <2>2, ParticipantTypes
    DEF DemoteCohostCommit, TypeOK, bcVars, cacheVars
<1>. QED
  BY <1>4, <1>5, <1>6, <1>7, <1>8, <1>9, <1>10, <1>11, <1>12, <1>13 DEF Commit

\* Every effect on Redis or LiveKit keeps the caches and the request well formed.
LEMMA EffectType ==
    ASSUME TypeOK, NEW r \in Reqs, Effect(r)
    PROVE  TypeOK'
<1>1. req[r] # Idle /\ req[r] \in Request
  BY DEF Effect, StartCreateRoom, StartSetCount, EndDeleteRoom,
         EndDeleteCount, JoinCount, LeaveDecr, LeaveDeleteCount, KickDecr, DeletePurge,
         Ready, At, TypeOK
<1>2. req[r].b \in Broadcasts /\ req[r].u \in Users
  BY <1>1 DEF Request
<1>3. \A pc \in Pcs : Goto(r, pc) => req' \in [Reqs -> Request \cup {Idle}]
  BY <1>1, GotoType
<1>4. Done(r) => req' \in [Reqs -> Request \cup {Idle}]
  BY DoneType
<1>5. req' \in [Reqs -> Request \cup {Idle}]
  BY <1>3, <1>4
  DEF Effect, StartCreateRoom, StartSetCount, EndDeleteRoom,
      EndDeleteCount, JoinCount, LeaveDecr, LeaveDeleteCount, KickDecr, DeletePurge, Pcs, Handling
<1>6. Count(r) \in Int
  BY <1>2 DEF Count, TypeOK
<1>7. \A n \in Int : SetCount(r, n) => liveCount' \in [Broadcasts -> Int]
  BY <1>2 DEF SetCount, TypeOK
<1>8. CASE StartSetCount(r) \/ EndDeleteCount(r) \/ JoinCount(r) \/ LeaveDecr(r)
           \/ LeaveDeleteCount(r) \/ KickDecr(r) \/ DeletePurge(r)
  <2>1. liveCount' \in [Broadcasts -> Int] /\ UNCHANGED <<lkRoom, issued>>
    BY <1>8, <1>6, <1>7
    DEF StartSetCount, EndDeleteCount, JoinCount, LeaveDecr, LeaveDeleteCount, KickDecr,
        DeletePurge
  <2>. QED
    BY <1>5, <2>1, OnlyCommitsWrite DEF TypeOK, dbVars, bcVars, partVars
<1>9. CASE StartCreateRoom(r) \/ EndDeleteRoom(r)
  <2>1. lkRoom' \in [Broadcasts -> BOOLEAN] /\ UNCHANGED <<liveCount, issued>>
    BY <1>9, <1>2 DEF StartCreateRoom, EndDeleteRoom, TypeOK
  <2>. QED
    BY <1>5, <2>1, OnlyCommitsWrite DEF TypeOK, dbVars, bcVars, partVars
<1>. QED
  BY <1>8, <1>9 DEF Effect

\* Refusals and faults only move the request.
LEMMA StopType ==
    ASSUME TypeOK, NEW r \in Reqs, Refuse(r) \/ Fault(r)
    PROVE  TypeOK'
<1>1. UNCHANGED <<dbVars, cacheVars, issued>>
  BY DEF Refuse, Fault, CountCohostsFails, CommandFails, Abandon
<1>2. CASE Refuse(r) \/ Abandon(r)
  BY <1>1, <1>2, DoneType
  DEF Refuse, Abandon, TypeOK, dbVars, bcVars, partVars, cacheVars
<1>3. CASE CommandFails(r)
  <2>1. AfterError(req[r].pc) # "done" => AfterError(req[r].pc) \in Pcs
    BY DEF AfterError, Pcs, Handling
  <2>2. req' \in [Reqs -> Request \cup {Idle}]
    BY <1>3, <2>1, DoneType, GotoType DEF CommandFails
  <2>. QED
    BY <1>1, <2>2 DEF TypeOK, dbVars, bcVars, partVars, cacheVars
<1>4. CASE CountCohostsFails(r)
  <2>1. req[r] \in Request
    BY <1>4 DEF CountCohostsFails, TypeOK
  <2>2. [req[r] EXCEPT !.todo = req[r].todo \ {"full"}] \in Request
    BY <2>1 DEF Request
  <2>3. req' \in [Reqs -> Request \cup {Idle}]
    BY <1>4, <2>2 DEF CountCohostsFails, TypeOK
  <2>. QED
    BY <1>1, <2>3 DEF TypeOK, dbVars, bcVars, partVars, cacheVars
<1>. QED
  BY <1>2, <1>3, <1>4 DEF Fault

\* Every step keeps the types.
LEMMA NextType ==
    ASSUME TypeOK, [Next]_vars
    PROVE  TypeOK'
<1>1. CASE UNCHANGED vars
  BY <1>1 DEF vars, dbVars, bcVars, partVars, cacheVars, TypeOK
<1>2. ASSUME NEW r \in Reqs, Call(r) \/ Step(r) \/ Fault(r)
      PROVE  TypeOK'
  BY <1>2, CallType, QueryType, CommitType, EffectType, StopType DEF Step
<1>. QED
  BY <1>1, <1>2 DEF Next

\* The tables, the caches and every request in flight keep their types, for any
\* number of users, broadcasts and concurrent requests.
THEOREM TypeCorrect == Spec => []TypeOK
<1>1. Init => TypeOK
  BY DEF Init, TypeOK, Statuses, Roles
<1>2. TypeOK /\ [Next]_vars => TypeOK'
  BY NextType
<1>. QED
  BY <1>1, <1>2, PTL DEF Spec

-----------------------------------------------------------------------------
(* The host role and the token *)

\* A step is of one slot.
LEMMA Frame ==
    ASSUME TypeOK, NEW r \in Reqs, Call(r) \/ Step(r) \/ Fault(r), NEW s \in Reqs, s # r
    PROVE  req'[s] = req[s]
BY DEF Call, Step, Query, Refuse, Commit, Effect, Fault, CreateCommit, UpdateCommit,
       DeleteCommit, StartCommit, EndCommit, JoinCommit, LeaveCommit, AddCohostCommit,
       RemoveCohostCommit, DemoteCohostCommit, StartCreateRoom, StartSetCount,
       EndDeleteRoom, EndDeleteCount, JoinCount, LeaveDecr, LeaveDeleteCount, KickDecr,
       DeletePurge, CountCohostsFails, CommandFails, Abandon, Done, Goto, TypeOK

\* What a step may do to the requests: issue one, move one on, or stop one.
LEMMA ReqStep ==
    ASSUME TypeOK, SafetyInv, NEW r \in Reqs, Call(r) \/ Step(r) \/ Fault(r),
           \A b \in Broadcasts : token[b] => token'[b]
    PROVE  ReqInv'
<1>. SUFFICES ASSUME NEW s \in Reqs, req'[s] # Idle
              PROVE  SafeReads(req[s])'
  BY DEF ReqInv
<1>0. \A q \in Request : SafeReads(q) => SafeReads(q)'
  BY DEF SafeReads, Request
<1>1. CASE s # r
  <2>1. req'[s] = req[s] /\ req[s] \in Request
    BY <1>1, Frame DEF TypeOK
  <2>. QED
    BY <2>1, <1>0 DEF SafetyInv, ReqInv, SafeReads
<1>2. CASE s = r /\ Call(r)
  <2>1. PICK op \in Ops, b \in Broadcasts, u \in Users : \E t \in Targets(op, u) :
          /\ op = "create" => u = Creator[b]
          /\ req' = [req EXCEPT ![r] = NewRequest(op, b, u, t)]
    BY <1>2, ZenonT(30) DEF Call
  <2>2. PICK t \in Targets(op, u) : req' = [req EXCEPT ![r] = NewRequest(op, b, u, t)]
    BY <2>1
  <2>3. req'[s] = NewRequest(op, b, u, t)
    BY <2>2, <1>2 DEF TypeOK
  <2>. QED
    BY <2>1, <2>3 DEF SafeReads, NewRequest
<1>3. CASE s = r /\ Query(r)
  <2>1. PICK query \in Askable(req[r]) : req' = [req EXCEPT ![r] = Answered(req[r], query)]
    BY <1>3 DEF Query
  <2>2. req[r] \in Request /\ SafeReads(req[r])
    BY <1>3 DEF Query, TypeOK, SafetyInv, ReqInv
  <2>3. UNCHANGED <<token, status, cohosts>>
    BY <1>3, OnlyCommitsWrite DEF dbVars, bcVars
  <2>4. Answer("cohost", req[r]) => req[r].t # Creator[req[r].b]
    BY <2>2 DEF Answer, is_cohost, SafetyInv, CohostInv, Request
  <2>5. find_by_id(req[r].b) = "active" => token[req[r].b]
    BY <2>2 DEF find_by_id, SafetyInv, TokenInv, Request
  <2>6. SafeReads(Answered(req[r], query))
    BY <2>2, <2>4, <2>5 DEF SafeReads, Answered, Request
  <2>7. req'[s] = Answered(req[r], query)
    BY <2>1, <1>3 DEF TypeOK
  <2>. QED
    BY <2>3, <2>6, <2>7 DEF SafeReads
<1>4. CASE s = r /\ ~Call(r) /\ ~Query(r)
  <2>1. req[r] # Idle /\ req[r] \in Request
    BY <1>4 DEF Step, Refuse, Commit, Effect, Fault, CreateCommit,
         UpdateCommit, DeleteCommit, StartCommit, EndCommit, JoinCommit, LeaveCommit,
         AddCohostCommit, RemoveCohostCommit, DemoteCohostCommit, StartCreateRoom,
         StartSetCount, EndDeleteRoom, EndDeleteCount, JoinCount, LeaveDecr,
         LeaveDeleteCount, KickDecr, DeletePurge, CountCohostsFails, CommandFails,
         Abandon, Ready, At, TypeOK
  <2>2. SafeReads(req[r])
    BY <2>1 DEF SafetyInv, ReqInv
  <2>3. CASE StartCreateRoom(r)
    <3>1. req[r].u = Creator[req[r].b]
      BY <2>3 DEF StartCreateRoom, Ready, Accepted, IsCreator
    <3>2. req'[s] = [req[r] EXCEPT !.pc = "commit"]
      BY <2>3, <1>4 DEF StartCreateRoom, Goto, TypeOK
    <3>. QED
      BY <2>1, <2>2, <3>1, <3>2 DEF SafeReads, Request
  <2>4. CASE CountCohostsFails(r)
    <3>1. req'[s] = [req[r] EXCEPT !.todo = req[r].todo \ {"full"}]
      BY <2>4, <1>4 DEF CountCohostsFails, TypeOK
    <3>. QED
      BY <2>1, <2>2, <3>1 DEF SafeReads, Request
  <2>5. CASE ~StartCreateRoom(r) /\ ~CountCohostsFails(r)
    <3>1. Done(r) \/ \E pc \in Pcs \ {"commit"} : Goto(r, pc)
      BY <1>4, <2>5 DEF Step, Refuse, Commit, Effect, Fault, CreateCommit,
           UpdateCommit, DeleteCommit, StartCommit, EndCommit, JoinCommit, LeaveCommit,
           AddCohostCommit, RemoveCohostCommit, DemoteCohostCommit,
           StartSetCount, EndDeleteRoom, EndDeleteCount, JoinCount, LeaveDecr,
           LeaveDeleteCount, KickDecr, DeletePurge, CommandFails, AfterError,
           Abandon, Pcs, Handling
    <3>2. ~Done(r)
      BY <1>4 DEF Done, TypeOK
    <3>3. PICK pc \in Pcs \ {"commit"} : Goto(r, pc)
      BY <3>1, <3>2
    <3>4. req'[s] = [req[r] EXCEPT !.pc = pc]
      BY <3>3, <1>4 DEF Goto, TypeOK
    <3>. QED
      BY <2>1, <2>2, <3>4 DEF SafeReads, Request
  <2>. QED
    BY <2>3, <2>4, <2>5
<1>. QED
  BY <1>1, <1>2, <1>3, <1>4

\* Cohost rows: create and update invite nobody but others, add_cohost refuses
\* the creator, so the creator never becomes a cohost.
LEMMA CohostStep ==
    ASSUME TypeOK, SafetyInv, NEW r \in Reqs, Commit(r)
    PROVE  CohostInv'
<1>1. req[r] # Idle /\ req[r] \in Request
  BY DEF Commit, CreateCommit, UpdateCommit, DeleteCommit, StartCommit, EndCommit,
         JoinCommit, LeaveCommit, AddCohostCommit, RemoveCohostCommit,
         DemoteCohostCommit, Ready, At, TypeOK
<1>2. req[r].b \in Broadcasts /\ SafeReads(req[r])
  BY <1>1 DEF SafetyInv, ReqInv, Request
<1>3. ASSUME NEW cs \in Invitees(req[r]), req[r].u = Creator[req[r].b],
             add_cohosts(req[r].b, cs)
      PROVE  CohostInv'
  BY <1>2, <1>3 DEF add_cohosts, Invitees, CohostInv, SafetyInv, TypeOK
<1>4. CASE CreateCommit(r)
  BY <1>2, <1>3, <1>4 DEF CreateCommit, Ready, SafeReads
<1>5. CASE UpdateCommit(r)
  BY <1>3, <1>5 DEF UpdateCommit, Ready, Accepted, IsCreator
<1>6. CASE AddCohostCommit(r)
  <2>1. req[r].t # Creator[req[r].b]
    BY <1>6 DEF AddCohostCommit, Ready, Accepted, NotSelf
  <2>. QED
    BY <1>2, <1>6, <2>1 DEF AddCohostCommit, add_cohosts, CohostInv, SafetyInv, TypeOK
<1>7. CASE RemoveCohostCommit(r) \/ DemoteCohostCommit(r)
  <2>1. remove_cohost(req[r].b, req[r].t)
    BY <1>7 DEF RemoveCohostCommit, DemoteCohostCommit
  <2>. QED
    BY <1>2, <2>1 DEF remove_cohost, CohostInv, SafetyInv, TypeOK
<1>8. CASE DeleteCommit(r) \/ StartCommit(r) \/ EndCommit(r) \/ JoinCommit(r) \/ LeaveCommit(r)
  BY <1>8 DEF DeleteCommit, StartCommit, EndCommit, JoinCommit, LeaveCommit,
     CohostInv, SafetyInv
<1>. QED
  BY <1>4, <1>5, <1>6, <1>7, <1>8 DEF Commit

\* set_active writes status and token together, and nothing clears the token.
LEMMA TokenStep ==
    ASSUME TypeOK, SafetyInv, NEW r \in Reqs, Commit(r)
    PROVE  /\ TokenInv'
           /\ \A b \in Broadcasts : token[b] => token'[b]
<1>1. req[r] # Idle /\ req[r] \in Request
  BY DEF Commit, CreateCommit, UpdateCommit, DeleteCommit, StartCommit, EndCommit,
         JoinCommit, LeaveCommit, AddCohostCommit, RemoveCohostCommit,
         DemoteCohostCommit, Ready, At, TypeOK
<1>2. req[r].b \in Broadcasts
  BY <1>1 DEF Request
<1>3. CASE CreateCommit(r) \/ DeleteCommit(r)
  BY <1>2, <1>3 DEF CreateCommit, DeleteCommit, create, TokenInv, SafetyInv, TypeOK
<1>4. CASE StartCommit(r)
  BY <1>2, <1>4 DEF StartCommit, set_active, TokenInv, SafetyInv, TypeOK
<1>5. CASE EndCommit(r)
  BY <1>2, <1>5 DEF EndCommit, set_inactive, TokenInv, SafetyInv, TypeOK
<1>6. CASE UpdateCommit(r) \/ JoinCommit(r) \/ LeaveCommit(r) \/ AddCohostCommit(r)
           \/ RemoveCohostCommit(r) \/ DemoteCohostCommit(r)
  BY <1>6 DEF UpdateCommit, JoinCommit, LeaveCommit, AddCohostCommit,
     RemoveCohostCommit, DemoteCohostCommit, bcVars, TokenInv, SafetyInv
<1>. QED
  BY <1>3, <1>4, <1>5, <1>6 DEF Commit

\* An upsert of the right role into a broadcast with a token is safe, and so is
\* a delete.
LEMMA RowStep ==
    ASSUME TypeOK, SafetyInv, NEW b \in Broadcasts, NEW u \in Users,
           \A c \in Broadcasts : token[c] => token'[c]
    PROVE  /\ \A ro \in Roles : (/\ upsert_participant(b, u, ro)
                                 /\ ro = "host" <=> u = Creator[b]
                                 /\ token'[b])
                => HostIsCreator' /\ RowsOnlyAfterStart'
           /\ remove_participant(b, u) => HostIsCreator' /\ RowsOnlyAfterStart'
           /\ UNCHANGED <<rows, role>> => HostIsCreator' /\ RowsOnlyAfterStart'
<1>1. ASSUME NEW ro \in Roles, upsert_participant(b, u, ro),
             ro = "host" <=> u = Creator[b], token'[b]
      PROVE  HostIsCreator' /\ RowsOnlyAfterStart'
  <2>1. ASSUME NEW c \in Broadcasts, NEW v \in rows'[c]
        PROVE  role'[c][v] = "host" <=> v = Creator[c]
    <3>1. CASE c = b /\ v = u
      BY <1>1, <3>1 DEF upsert_participant, TypeOK
    <3>2. CASE ~(c = b /\ v = u)
      <4>1. v \in rows[c] /\ role'[c][v] = role[c][v]
        BY <1>1, <2>1, <3>2 DEF upsert_participant, TypeOK
      <4>. QED
        BY <4>1 DEF SafetyInv, HostIsCreator
    <3>. QED
      BY <3>1, <3>2
  <2>2. RowsOnlyAfterStart'
    BY <1>1 DEF upsert_participant, TypeOK, SafetyInv, RowsOnlyAfterStart
  <2>. QED
    BY <2>1, <2>2 DEF HostIsCreator
<1>2. ASSUME remove_participant(b, u)
      PROVE  HostIsCreator' /\ RowsOnlyAfterStart'
  <2>1. ASSUME NEW c \in Broadcasts, NEW v \in rows'[c]
        PROVE  v \in rows[c] /\ role'[c][v] = role[c][v]
    BY <1>2, <2>1 DEF remove_participant, TypeOK
  <2>. QED
    BY <2>1 DEF HostIsCreator, RowsOnlyAfterStart, SafetyInv
<1>3. UNCHANGED <<rows, role>> => HostIsCreator' /\ RowsOnlyAfterStart'
  BY DEF HostIsCreator, RowsOnlyAfterStart, SafetyInv
<1>. QED
  BY <1>1, <1>2, <1>3

\* Every transaction keeps the host role with the creator and rows with a token.
LEMMA HostStep ==
    ASSUME TypeOK, SafetyInv, NEW r \in Reqs, Commit(r)
    PROVE  HostIsCreator' /\ RowsOnlyAfterStart'
<1>1. req[r] # Idle /\ req[r] \in Request
  BY DEF Commit, CreateCommit, UpdateCommit, DeleteCommit, StartCommit, EndCommit,
         JoinCommit, LeaveCommit, AddCohostCommit, RemoveCohostCommit,
         DemoteCohostCommit, Ready, At, TypeOK
<1>2. /\ req[r].b \in Broadcasts /\ req[r].u \in Users /\ req[r].t \in Users
      /\ SafeReads(req[r])
  BY <1>1 DEF SafetyInv, ReqInv, Request
<1>3. \A c \in Broadcasts : token[c] => token'[c]
  BY TokenStep
<1>4. {"host", "cohost", "participant"} \subseteq Roles /\ JoinRole(req[r]) \in Roles
  BY DEF Roles, JoinRole
<1>5. CASE CreateCommit(r) \/ UpdateCommit(r) \/ DeleteCommit(r) \/ EndCommit(r)
  BY <1>2, <1>3, <1>5, RowStep
  DEF CreateCommit, UpdateCommit, DeleteCommit, EndCommit, clear_participants, partVars
<1>6. CASE StartCommit(r)
  <2>1. req[r].u = Creator[req[r].b] /\ token'[req[r].b]
    BY <1>2, <1>6 DEF StartCommit, At, SafeReads, set_active, TypeOK
  <2>. QED
    BY <1>2, <1>3, <1>4, <1>6, <2>1, RowStep DEF StartCommit
<1>7. CASE JoinCommit(r)
  <2>1. req[r].u # Creator[req[r].b] /\ token'[req[r].b]
    BY <1>2, <1>3, <1>7 DEF JoinCommit, Ready, Accepted, IsLive, SafeReads
  <2>2. JoinRole(req[r]) # "host"
    BY DEF JoinRole
  <2>. QED
    BY <1>2, <1>3, <1>4, <1>7, <2>1, <2>2, RowStep DEF JoinCommit
<1>8. CASE LeaveCommit(r) \/ RemoveCohostCommit(r)
  BY <1>2, <1>3, <1>8, RowStep DEF LeaveCommit, RemoveCohostCommit
<1>9. CASE AddCohostCommit(r)
  <2>1. req[r].t # Creator[req[r].b] /\ token'[req[r].b]
    BY <1>2, <1>3, <1>9 DEF AddCohostCommit, Ready, Accepted, NotSelf, IsLive, SafeReads
  <2>. QED
    BY <1>2, <1>3, <1>4, <1>9, <2>1, RowStep DEF AddCohostCommit
<1>10. CASE DemoteCohostCommit(r)
  <2>1. req[r].t # Creator[req[r].b] /\ token'[req[r].b]
    BY <1>2, <1>3, <1>10 DEF DemoteCohostCommit, Ready, Accepted, IsLive, SafeReads
  <2>. QED
    BY <1>2, <1>3, <1>4, <1>10, <2>1, RowStep DEF DemoteCohostCommit
<1>. QED
  BY <1>5, <1>6, <1>7, <1>8, <1>9, <1>10 DEF Commit

\* The strengthened invariant holds in every reachable state.
THEOREM SafetyInductive == Spec => []SafetyInv
<1>1. Init => SafetyInv
  BY DEF Init, SafetyInv, ReqInv, CohostInv, TokenInv, HostIsCreator, RowsOnlyAfterStart
<1>2. TypeOK /\ SafetyInv /\ [Next]_vars => SafetyInv'
  <2>. SUFFICES ASSUME TypeOK, SafetyInv, [Next]_vars
                PROVE  SafetyInv'
    OBVIOUS
  <2>1. CASE UNCHANGED vars
    BY <2>1 DEF vars, dbVars, bcVars, partVars, SafetyInv, ReqInv, SafeReads, CohostInv,
       TokenInv, HostIsCreator, RowsOnlyAfterStart
  <2>2. ASSUME NEW r \in Reqs, Call(r) \/ Query(r) \/ Refuse(r) \/ Effect(r) \/ Fault(r)
        PROVE  SafetyInv'
    <3>1. UNCHANGED <<bcVars, partVars, cohosts>>
      BY <2>2, OnlyCommitsWrite DEF dbVars
    <3>2. ReqInv'
      BY <2>2, <3>1, ReqStep DEF Step, bcVars
    <3>. QED
      BY <3>1, <3>2 DEF SafetyInv, bcVars, partVars, CohostInv, TokenInv, HostIsCreator,
         RowsOnlyAfterStart
  <2>3. ASSUME NEW r \in Reqs, Commit(r)
        PROVE  SafetyInv'
    <3>1. ReqInv'
      BY <2>3, TokenStep, ReqStep DEF Step
    <3>. QED
      BY <2>3, <3>1, CohostStep, TokenStep, HostStep DEF SafetyInv
  <2>. QED
    BY <2>1, <2>2, <2>3 DEF Next, Step
<1>. QED
  BY <1>1, <1>2, TypeCorrect, PTL DEF Spec

\* The host role is the creator's and nobody else's, however requests interleave.
THEOREM HostCorrect == Spec => []HostIsCreator
BY SafetyInductive, PTL DEF SafetyInv

\* No participant row precedes the first start of its broadcast.
THEOREM RowsCorrect == Spec => []RowsOnlyAfterStart
BY SafetyInductive, PTL DEF SafetyInv

-----------------------------------------------------------------------------
(* Action properties *)

\* No statement clears left_at on a row that stays.
THEOREM LeftCorrect == Spec => LeftStaysLeft
<1>1. TypeOK /\ [Next]_vars
        => [\A b \in Broadcasts : left[b] \cap rows'[b] \subseteq left'[b]]_vars
  <2>. SUFFICES ASSUME TypeOK, Next, NEW b \in Broadcasts
                PROVE  left[b] \cap rows'[b] \subseteq left'[b]
    OBVIOUS
  <2>1. CASE UNCHANGED vars
    BY <2>1 DEF vars, dbVars, partVars
  <2>2. ASSUME NEW r \in Reqs, Call(r) \/ Query(r) \/ Refuse(r) \/ Effect(r) \/ Fault(r)
        PROVE  left[b] \cap rows'[b] \subseteq left'[b]
    BY <2>2, OnlyCommitsWrite DEF dbVars, partVars
  <2>3. ASSUME NEW r \in Reqs, Commit(r)
        PROVE  left[b] \cap rows'[b] \subseteq left'[b]
    <3>1. CASE UNCHANGED partVars
      BY <3>1 DEF partVars
    <3>2. ASSUME NEW c, NEW u, NEW ro, upsert_participant(c, u, ro)
          PROVE  left[b] \cap rows'[b] \subseteq left'[b]
      BY <3>2 DEF upsert_participant
    <3>3. ASSUME NEW c, NEW u, remove_participant(c, u)
          PROVE  left[b] \cap rows'[b] \subseteq left'[b]
      BY <3>3 DEF remove_participant, TypeOK
    <3>4. ASSUME NEW c, clear_participants(c)
          PROVE  left[b] \cap rows'[b] \subseteq left'[b]
      BY <3>4 DEF clear_participants, TypeOK
    <3>. QED
      BY <2>3, <3>1, <3>2, <3>3, <3>4
      DEF Commit, CreateCommit, UpdateCommit, DeleteCommit, StartCommit, EndCommit,
          JoinCommit, LeaveCommit, AddCohostCommit, RemoveCohostCommit,
          DemoteCohostCommit
  <2>. QED
    BY <2>1, <2>2, <2>3 DEF Next, Step
<1>. QED
  BY <1>1, TypeCorrect, PTL DEF Spec, LeftStaysLeft

\* A commit that touches the broadcast row or its cohosts is the creator's own.
THEOREM ControlCorrect == Spec => OnlyCreatorControls
<1>1. TypeOK /\ SafetyInv /\ [Next]_vars
        => [\A b \in Broadcasts :
              \/ /\ status'[b] = status[b]
                 /\ deleted'[b] = deleted[b]
                 /\ cohosts'[b] = cohosts[b]
              \/ \E r \in Reqs : /\ req[r] # Idle
                                  /\ req[r].b = b /\ req[r].u = Creator[b]
                                  /\ req'[r] # req[r]]_vars
  <2>. SUFFICES ASSUME TypeOK, SafetyInv, Next, NEW b \in Broadcasts,
                       ~(/\ status'[b] = status[b]
                         /\ deleted'[b] = deleted[b]
                         /\ cohosts'[b] = cohosts[b])
                PROVE  \E r \in Reqs : /\ req[r] # Idle
                                        /\ req[r].b = b /\ req[r].u = Creator[b]
                                        /\ req'[r] # req[r]
    OBVIOUS
  <2>1. PICK r \in Reqs : Commit(r)
    BY OnlyCommitsWrite DEF Next, Step, vars, dbVars, bcVars
  <2>2. req[r] # Idle /\ req[r] \in Request
    BY <2>1 DEF Commit, CreateCommit, UpdateCommit, DeleteCommit, StartCommit,
       EndCommit, JoinCommit, LeaveCommit, AddCohostCommit, RemoveCohostCommit,
       DemoteCohostCommit, Ready, At, TypeOK
  <2>3. SafeReads(req[r])
    BY <2>2 DEF SafetyInv, ReqInv
  <2>4. ~JoinCommit(r) /\ ~LeaveCommit(r)
    <3>1. JoinCommit(r) \/ LeaveCommit(r) => UNCHANGED <<status, deleted, cohosts>>
      BY Zenon DEF JoinCommit, LeaveCommit, bcVars
    <3>. QED
      BY <3>1
  <2>5. req[r].u = Creator[req[r].b]
    BY <2>1, <2>3, <2>4 DEF Commit, CreateCommit, UpdateCommit, DeleteCommit, StartCommit,
       EndCommit, AddCohostCommit, RemoveCohostCommit, DemoteCohostCommit, Ready, At,
       Accepted, IsCreator, SafeReads
  <2>6. req[r].b = b
    BY <2>1 DEF Commit, CreateCommit, UpdateCommit, DeleteCommit, StartCommit,
       EndCommit, JoinCommit, LeaveCommit, AddCohostCommit, RemoveCohostCommit,
       DemoteCohostCommit, create, delete, add_cohosts, remove_cohost,
       set_active, set_inactive, bcVars, TypeOK
  <2>7. req'[r] # req[r]
    <3>1. CASE Done(r)
      BY <2>2, <3>1 DEF Done, TypeOK
    <3>2. ASSUME NEW pc \in Pcs, Goto(r, pc), pc # req[r].pc
          PROVE  req'[r] # req[r]
      <4>1. req'[r] = [req[r] EXCEPT !.pc = pc]
        BY <3>2 DEF Goto, TypeOK
      <4>. QED
        BY <2>2, <3>2, <4>1 DEF Request
    <3>. QED
      BY <2>1, <3>1, <3>2 DEF Commit, CreateCommit, UpdateCommit, DeleteCommit,
         StartCommit, EndCommit, JoinCommit, LeaveCommit, AddCohostCommit,
         RemoveCohostCommit, DemoteCohostCommit, Ready, At, Pcs, Handling
  <2>. QED
    BY <2>2, <2>5, <2>6, <2>7
<1>. QED
  BY <1>1, TypeCorrect, SafetyInductive, PTL DEF Spec, OnlyCreatorControls

-----------------------------------------------------------------------------
(***************************************************************************)
(* Clients who wait for every answer.  What a request has read is then     *)
(* still so when it commits, as spawned tasks leave the tables alone.      *)
(* Without Serial the first invariant below fails (run join_races_end).    *)
(***************************************************************************)

\* At most one request is in its handler.
OneRuns == \A r, s \in Reqs : Running(r) /\ Running(s) => r = s

FreshReads(q) ==
    /\ q.pc = "read" =>
         /\ q.op = "create" => status[q.b] = "none"
         /\ q.seen # "none" => q.seen = status[q.b]
         /\ "cohost" \in q.todo => "cohost" \notin q.hit
         /\ "cohost" \in Reads(q.op) \ q.todo => ("cohost" \in q.hit <=> q.t \in cohosts[q.b])
         /\ q.op = "join" => q.t = q.u
    /\ q.pc = "commit" => status[q.b] = "inactive"

FreshInv == \A r \in Reqs : req[r] # Idle => FreshReads(req[r])

\* Calls and commits happen while no other handler runs.
LEMMA Alone ==
    ASSUME TypeOK, Serial, OneRuns, NEW r \in Reqs, Call(r) \/ Commit(r),
           NEW s \in Reqs, s # r
    PROVE  ~Running(s)
<1>1. CASE Call(r)
  BY <1>1 DEF Call
<1>2. CASE Commit(r)
  <2>1. Running(r)
    BY <1>2 DEF Commit, CreateCommit, UpdateCommit, DeleteCommit, StartCommit, EndCommit,
       JoinCommit, LeaveCommit, AddCohostCommit, RemoveCohostCommit, DemoteCohostCommit,
       Ready, At, Running, Handling
  <2>. QED
    BY <2>1 DEF OneRuns
<1>. QED
  BY <1>1, <1>2

\* Only a call brings a request into its handler.
LEMMA OneRunsStep ==
    ASSUME TypeOK, Serial, OneRuns, NEW r \in Reqs, Call(r) \/ Step(r) \/ Fault(r)
    PROVE  OneRuns'
<1>1. \A s \in Reqs : s # r => Running(s)' = Running(s)
  BY Frame DEF Running
<1>2. CASE Call(r)
  <2>1. \A s \in Reqs : s # r => ~Running(s)
    BY <1>2, Alone
  <2>. QED
    BY <1>1, <2>1 DEF OneRuns
<1>3. CASE ~Call(r)
  <2>1. Running(r)' => Running(r)
    <3>1. ASSUME req'[r] # Idle PROVE req[r] # Idle /\ req[r] \in Request
      BY <1>3, <3>1 DEF Step, Query, Refuse, Commit, Effect, Fault, CreateCommit,
         UpdateCommit, DeleteCommit, StartCommit, EndCommit, JoinCommit, LeaveCommit,
         AddCohostCommit, RemoveCohostCommit, DemoteCohostCommit, StartCreateRoom,
         StartSetCount, EndDeleteRoom, EndDeleteCount, JoinCount, LeaveDecr,
         LeaveDeleteCount, KickDecr, DeletePurge, CountCohostsFails, CommandFails,
         Abandon, Ready, At, TypeOK
    <3>2. CASE Query(r) \/ CountCohostsFails(r) \/ StartCreateRoom(r)
      BY <3>1, <3>2 DEF Query, CountCohostsFails, StartCreateRoom, Ready, Running, Handling
    <3>3. CASE ~(Query(r) \/ CountCohostsFails(r) \/ StartCreateRoom(r))
      <4>1. Done(r) \/ \E pc \in Pcs \ Handling : Goto(r, pc)
        BY <1>3, <3>3 DEF Step, Refuse, Commit, Effect, Fault, CreateCommit, UpdateCommit,
           DeleteCommit, StartCommit, EndCommit, JoinCommit, LeaveCommit, AddCohostCommit,
           RemoveCohostCommit, DemoteCohostCommit, StartSetCount, EndDeleteRoom,
           EndDeleteCount, JoinCount, LeaveDecr, LeaveDeleteCount, KickDecr, DeletePurge,
           CommandFails, AfterError, Abandon, Pcs, Handling
      <4>2. CASE Done(r)
        BY <4>2 DEF Done, Running, TypeOK
      <4>3. CASE ~Done(r)
        <5>1. PICK pc \in Pcs \ Handling : Goto(r, pc)
          BY <4>1, <4>3
        <5>2. CASE req'[r] = Idle
          BY <5>2 DEF Running
        <5>3. CASE req'[r] # Idle
          <6>1. req'[r] = [req[r] EXCEPT !.pc = pc]
            BY <5>1 DEF Goto, TypeOK
          <6>2. req'[r].pc = pc
            BY <3>1, <5>3, <6>1 DEF Request
          <6>. QED
            BY <5>1, <6>2 DEF Running
        <5>. QED
          BY <5>2, <5>3
      <4>. QED
        BY <4>2, <4>3
    <3>. QED
      BY <3>2, <3>3
  <2>. QED
    BY <1>1, <2>1 DEF OneRuns
<1>. QED
  BY <1>2, <1>3

\* A request that moves on keeps what it read.
LEMMA MoveEffect ==
    ASSUME TypeOK, NEW r \in Reqs, req[r] # Idle, NEW pc \in Pcs, Goto(r, pc)
    PROVE  /\ req'[r].pc = pc /\ req'[r].b = req[r].b /\ req'[r] # Idle
<1>1. req[r] \in Request
  BY DEF TypeOK
<1>2. req'[r] = [req[r] EXCEPT !.pc = pc]
  BY DEF Goto, TypeOK
<1>3. [req[r] EXCEPT !.pc = pc].pc = pc /\ [req[r] EXCEPT !.pc = pc].b = req[r].b
  BY <1>1 DEF Request
<1>4. req'[r] \in Request
  BY <1>1, <1>2 DEF Request
<1>5. Idle \notin Request
  BY DEF Idle, Request
<1> QED
  BY <1>2, <1>3, <1>4, <1>5

\* What each transaction relies on, when nothing else runs.
LEMMA CommitReads ==
    ASSUME TypeOK, FreshInv, NEW r \in Reqs, Commit(r)
    PROVE  /\ req[r] # Idle /\ req[r] \in Request /\ req[r].b \in Broadcasts
           /\ req[r].u \in Users /\ req[r].t \in Users
           /\ CreateCommit(r) => status[req[r].b] = "none"
           /\ UpdateCommit(r) => status[req[r].b] = "inactive"
           /\ StartCommit(r) => status[req[r].b] = "inactive"
           /\ JoinCommit(r) \/ LeaveCommit(r) \/ AddCohostCommit(r)
                \/ RemoveCohostCommit(r) \/ DemoteCohostCommit(r) => status[req[r].b] = "active"
           /\ JoinCommit(r) => /\ req[r].t = req[r].u
                               /\ "cohost" \in req[r].hit <=> req[r].u \in cohosts[req[r].b]
<1>1. req[r] # Idle /\ req[r] \in Request
  BY DEF Commit, CreateCommit, UpdateCommit, DeleteCommit, StartCommit, EndCommit,
         JoinCommit, LeaveCommit, AddCohostCommit, RemoveCohostCommit,
         DemoteCohostCommit, Ready, At, TypeOK
<1>2. req[r].b \in Broadcasts /\ req[r].u \in Users /\ req[r].t \in Users
  BY <1>1 DEF Request
<1>3. FreshReads(req[r])
  BY <1>1 DEF FreshInv
<1>4. CreateCommit(r) => status[req[r].b] = "none"
  BY <1>3 DEF CreateCommit, Ready, FreshReads
<1>5. UpdateCommit(r) => status[req[r].b] = "inactive"
  BY <1>3 DEF UpdateCommit, Ready, Accepted, NotLive, FreshReads
<1>6. StartCommit(r) => status[req[r].b] = "inactive"
  BY <1>3 DEF StartCommit, At, FreshReads
<1>7. JoinCommit(r) \/ LeaveCommit(r) \/ AddCohostCommit(r)
         \/ RemoveCohostCommit(r) \/ DemoteCohostCommit(r) => status[req[r].b] = "active"
  BY <1>3 DEF JoinCommit, LeaveCommit, AddCohostCommit, RemoveCohostCommit, DemoteCohostCommit,
     Ready, Accepted, IsLive, FreshReads
<1>8. JoinCommit(r) => /\ req[r].t = req[r].u
                       /\ "cohost" \in req[r].hit <=> req[r].u \in cohosts[req[r].b]
  BY <1>3 DEF JoinCommit, Ready, Reads, FreshReads
<1> QED
  BY <1>1, <1>2, <1>4, <1>5, <1>6, <1>7, <1>8

\* Where a request goes: after its commit, and from effect to effect.
LEMMA Moves ==
    ASSUME TypeOK, FreshInv, NEW r \in Reqs, ~Done(r), ~CountCohostsFails(r),
           Refuse(r) \/ Commit(r) \/ Effect(r) \/ Fault(r)
    PROVE  \E pc \in Pcs \ {"read"} :
             /\ Goto(r, pc) /\ req[r] # Idle
             /\ pc = "commit" => status'[req[r].b] = "inactive"
<1> DEFINE Goal == \E pc \in Pcs \ {"read"} :
             /\ Goto(r, pc) /\ req[r] # Idle
             /\ pc = "commit" => status'[req[r].b] = "inactive"
<1> SUFFICES Goal
  OBVIOUS
<1>1. ASSUME NEW pc \in Pcs \ {"read"}, Goto(r, pc), req[r] # Idle,
             pc = "commit" => status'[req[r].b] = "inactive"
      PROVE  Goal
  BY <1>1
<1> HIDE DEF Goal
<1>2. CASE Commit(r)
  <2>1. /\ req[r] # Idle /\ req[r].b \in Broadcasts
        /\ JoinCommit(r) \/ LeaveCommit(r) \/ AddCohostCommit(r)
                \/ RemoveCohostCommit(r) \/ DemoteCohostCommit(r) => status[req[r].b] = "active"
    BY <1>2, CommitReads
  <2>2. CASE DeleteCommit(r)
    BY <1>1, <2>1, <2>2 DEF DeleteCommit, Pcs, Handling
  <2>3. CASE StartCommit(r)
    BY <1>1, <2>1, <2>3 DEF StartCommit, set_active, Pcs, Handling, TypeOK
  <2>4. CASE EndCommit(r)
    BY <1>1, <2>1, <2>4 DEF EndCommit, Pcs, Handling
  <2>5. CASE JoinCommit(r) \/ LeaveCommit(r) \/ RemoveCohostCommit(r)
    BY <1>1, <2>1, <2>5 DEF JoinCommit, LeaveCommit, RemoveCohostCommit, bcVars, Pcs, Handling
  <2>6. ~CreateCommit(r) /\ ~UpdateCommit(r) /\ ~AddCohostCommit(r) /\ ~DemoteCohostCommit(r)
    BY DEF CreateCommit, UpdateCommit, AddCohostCommit, DemoteCohostCommit
  <2> QED
    BY <1>2, <2>2, <2>3, <2>4, <2>5, <2>6 DEF Commit
<1>3. CASE StartCreateRoom(r)
  <2>1. req[r] # Idle /\ status[req[r].b] = "inactive"
    BY <1>3 DEF StartCreateRoom, Ready, Accepted, NotLive, FreshInv, FreshReads
  <2> QED
    BY <1>1, <1>3, <2>1 DEF StartCreateRoom, dbVars, bcVars, Pcs, Handling
<1>4. CASE Effect(r) /\ ~StartCreateRoom(r)
  <2>1. /\ req[r] # Idle /\ UNCHANGED status
        /\ \E pc \in Pcs \ {"read", "commit"} : Goto(r, pc)
    BY <1>4 DEF Effect, StartSetCount, EndDeleteRoom, EndDeleteCount, JoinCount, LeaveDecr, LeaveDeleteCount,
       KickDecr, DeletePurge, At, Pcs, Handling, dbVars, bcVars
  <2> QED
    BY <1>1, <2>1
<1>5. CASE CommandFails(r)
  <2>1. /\ req[r] # Idle /\ UNCHANGED status
        /\ \E pc \in Pcs \ {"read", "commit"} : Goto(r, pc)
    BY <1>5 DEF CommandFails, AfterError, Pcs, Handling, dbVars, bcVars
  <2> QED
    BY <1>1, <2>1
<1>6. ~Refuse(r) /\ ~Abandon(r)
  BY DEF Refuse, Abandon
<1> QED
  BY <1>2, <1>3, <1>4, <1>5, <1>6 DEF Fault

\* Nothing changes under a request while it reads.
LEMMA FreshStep ==
    ASSUME TypeOK, Serial, OneRuns, FreshInv, NEW r \in Reqs, Call(r) \/ Step(r) \/ Fault(r)
    PROVE  FreshInv'
<1>0. ASSUME NEW s \in Reqs, s # r, req'[s] # Idle PROVE FreshReads(req[s])'
  <2>1. req'[s] = req[s] /\ FreshReads(req[s])
    BY <1>0, Frame DEF FreshInv
  <2>2. CASE Commit(r)
    BY <1>0, <2>1, <2>2, Alone DEF FreshReads, Running, Handling
  <2>3. CASE ~Commit(r)
    <3>1. UNCHANGED <<status, cohosts>>
      BY <2>3, OnlyCommitsWrite DEF Step, dbVars, bcVars
    <3> QED
      BY <2>1, <3>1 DEF FreshReads
  <2> QED
    BY <2>2, <2>3
<1> SUFFICES ASSUME req'[r] # Idle PROVE FreshReads(req[r])'
  BY <1>0 DEF FreshInv
<1>1. CASE Call(r)
  <2>1. PICK op \in Ops, b \in Broadcasts, u \in Users : \E t \in Targets(op, u) :
          /\ op = "create" => status[b] = "none"
          /\ req' = [req EXCEPT ![r] = NewRequest(op, b, u, t)]
    BY <1>1, ZenonT(30) DEF Call
  <2>2. PICK t \in Targets(op, u) : req' = [req EXCEPT ![r] = NewRequest(op, b, u, t)]
    BY <2>1
  <2>3. req'[r] = NewRequest(op, b, u, t) /\ UNCHANGED status
    BY <1>1, <2>2 DEF TypeOK, Call, dbVars, bcVars
  <2>4. op = "join" => t = u
    BY DEF Targets
  <2> QED
    BY <2>1, <2>3, <2>4 DEF FreshReads, NewRequest
<1>2. CASE Query(r)
  <2>1. PICK query \in Askable(req[r]) : req' = [req EXCEPT ![r] = Answered(req[r], query)]
    BY <1>2 DEF Query
  <2>2. req[r] \in Request /\ FreshReads(req[r]) /\ req[r].pc = "read"
    BY <1>2 DEF Query, TypeOK, FreshInv
  <2>3. UNCHANGED <<status, cohosts>>
    BY <1>2, OnlyCommitsWrite DEF dbVars, bcVars
  <2>4. query \in req[r].todo
    BY <2>1 DEF Askable
  <2>5. find_by_id(req[r].b) # "none" => find_by_id(req[r].b) = status[req[r].b]
    BY DEF find_by_id
  <2>6. Answer("cohost", req[r]) <=> req[r].t \in cohosts[req[r].b]
    BY DEF Answer, is_cohost
  <2>7. PICK q : q = Answered(req[r], query)
    OBVIOUS
  <2>8. /\ q.pc = "read" /\ q.op = req[r].op /\ q.b = req[r].b /\ q.t = req[r].t /\ q.u = req[r].u
        /\ q.todo = req[r].todo \ {query}
        /\ q.seen = IF query = "bc" THEN find_by_id(req[r].b) ELSE req[r].seen
        /\ q.hit = IF Answer(query, req[r]) THEN req[r].hit \cup {query} ELSE req[r].hit
    BY <2>2, <2>7 DEF Answered, Request
  <2>9. req'[r] = q
    BY <2>1, <2>7 DEF TypeOK
  <2>10. /\ q.op = "create" => status[q.b] = "none"
         /\ q.seen # "none" => q.seen = status[q.b]
         /\ q.op = "join" => q.t = q.u
    BY <2>2, <2>5, <2>8 DEF FreshReads
  <2>11. /\ "cohost" \in q.todo => "cohost" \notin q.hit
         /\ "cohost" \in Reads(q.op) \ q.todo => ("cohost" \in q.hit <=> q.t \in cohosts[q.b])
    <3>1. CASE query = "cohost"
      BY <2>2, <2>4, <2>6, <2>8, <3>1 DEF FreshReads
    <3>2. CASE query # "cohost"
      <4>1. /\ "cohost" \in q.hit <=> "cohost" \in req[r].hit
            /\ "cohost" \in q.todo <=> "cohost" \in req[r].todo
        BY <2>8, <3>2
      <4> QED
        BY <2>2, <2>8, <4>1 DEF FreshReads
    <3> QED
      BY <3>1, <3>2
  <2> QED
    BY <2>3, <2>8, <2>9, <2>10, <2>11 DEF FreshReads
<1>3. CASE CountCohostsFails(r)
  <2>1. req[r] \in Request /\ FreshReads(req[r]) /\ req[r].pc = "read"
    BY <1>3 DEF CountCohostsFails, TypeOK, FreshInv
  <2>2. UNCHANGED <<status, cohosts>>
    BY <1>3 DEF CountCohostsFails, dbVars, bcVars
  <2>3. PICK q : q = [req[r] EXCEPT !.todo = req[r].todo \ {"full"}]
    OBVIOUS
  <2>4. /\ q.pc = "read" /\ q.op = req[r].op /\ q.b = req[r].b /\ q.t = req[r].t /\ q.u = req[r].u
        /\ q.todo = req[r].todo \ {"full"} /\ q.seen = req[r].seen /\ q.hit = req[r].hit
    BY <2>1, <2>3 DEF Request
  <2>5. req'[r] = q
    BY <1>3, <2>3 DEF CountCohostsFails, TypeOK
  <2>6. "cohost" \in q.todo <=> "cohost" \in req[r].todo
    BY <2>4
  <2> QED
    BY <2>1, <2>2, <2>4, <2>5, <2>6 DEF FreshReads
<1>4. CASE ~Call(r) /\ ~Query(r) /\ ~CountCohostsFails(r)
  <2>1. ~Done(r)
    BY DEF Done, TypeOK
  <2>2. PICK pc \in Pcs \ {"read"} :
             /\ Goto(r, pc) /\ req[r] # Idle
             /\ pc = "commit" => status'[req[r].b] = "inactive"
    BY <1>4, <2>1, Moves DEF Step
  <2>3. req'[r].pc = pc /\ req'[r].b = req[r].b
    BY <2>2, MoveEffect
  <2> QED
    BY <2>2, <2>3 DEF FreshReads
<1> QED
  BY <1>1, <1>2, <1>3, <1>4

\* What the participant statements do to the live participants and their roles.
LEMMA LiveStep ==
    ASSUME TypeOK, NEW b \in Broadcasts, NEW u \in Users
    PROVE  /\ \A ro \in Roles : upsert_participant(b, u, ro) =>
                /\ \A c \in Broadcasts : c # b => Live(c)' = Live(c) /\ role'[c] = role[c]
                /\ Live(b)' \subseteq Live(b) \cup {u} /\ role'[b][u] = ro
                /\ \A v \in Users : v # u => role'[b][v] = role[b][v]
           /\ remove_participant(b, u) =>
                /\ \A c \in Broadcasts : c # b => Live(c)' = Live(c) /\ role'[c] = role[c]
                /\ Live(b)' \subseteq Live(b) \ {u}
                /\ \A v \in Users : v # u => role'[b][v] = role[b][v]
           /\ clear_participants(b) =>
                /\ \A c \in Broadcasts : c # b => Live(c)' = Live(c)
                /\ Live(b)' = {} /\ role' = role
<1>1. ASSUME NEW ro \in Roles, upsert_participant(b, u, ro)
      PROVE  /\ \A c \in Broadcasts : c # b => Live(c)' = Live(c) /\ role'[c] = role[c]
             /\ Live(b)' \subseteq Live(b) \cup {u} /\ role'[b][u] = ro
             /\ \A v \in Users : v # u => role'[b][v] = role[b][v]
  BY <1>1 DEF upsert_participant, Live, TypeOK
<1>2. ASSUME remove_participant(b, u)
      PROVE  /\ \A c \in Broadcasts : c # b => Live(c)' = Live(c) /\ role'[c] = role[c]
             /\ Live(b)' \subseteq Live(b) \ {u}
             /\ \A v \in Users : v # u => role'[b][v] = role[b][v]
  BY <1>2 DEF remove_participant, Live, TypeOK
<1>3. ASSUME clear_participants(b)
      PROVE  /\ \A c \in Broadcasts : c # b => Live(c)' = Live(c)
             /\ Live(b)' = {} /\ role' = role
  BY <1>3 DEF clear_participants, Live, TypeOK
<1> QED
  BY <1>1, <1>2, <1>3

\* A commit whose reads are fresh leaves nobody live in a broadcast that is not, and
\* roles that agree with the cohost table.
LEMMA ClearsStep ==
    ASSUME TypeOK, FreshInv, SafetyInv, EndClearsParticipants, CohostRolesAgree,
           NEW r \in Reqs, Commit(r)
    PROVE  EndClearsParticipants' /\ CohostRolesAgree'
<1>0. PICK b, u, t : b = req[r].b /\ u = req[r].u /\ t = req[r].t
  OBVIOUS
<1>1. /\ req[r] # Idle /\ req[r] \in Request /\ b \in Broadcasts /\ u \in Users /\ t \in Users
      /\ CreateCommit(r) => status[b] = "none"
      /\ UpdateCommit(r) => status[b] = "inactive"
      /\ StartCommit(r) => status[b] = "inactive"
      /\ JoinCommit(r) \/ LeaveCommit(r) \/ AddCohostCommit(r)
           \/ RemoveCohostCommit(r) \/ DemoteCohostCommit(r) => status[b] = "active"
      /\ JoinCommit(r) => t = u /\ ("cohost" \in req[r].hit <=> u \in cohosts[b])
  BY <1>0, CommitReads
<1>2. {"host", "cohost", "participant"} \subseteq Roles /\ JoinRole(req[r]) \in Roles
  BY DEF Roles, JoinRole
<1>3. \A c \in Broadcasts : Live(c) \subseteq Users
  BY DEF Live, TypeOK
\* It is enough to look at the broadcast of the request.
<1>4. ASSUME \A c \in Broadcasts : c # b =>
                /\ Live(c)' = Live(c) /\ role'[c] = role[c] /\ status'[c] = status[c]
                /\ cohosts'[c] = cohosts[c],
             status'[b] # "active" => Live(b)' = {},
             \A v \in Live(b)' : role'[b][v] = "cohost" <=> v \in cohosts'[b]
      PROVE  EndClearsParticipants' /\ CohostRolesAgree'
  <2>1. EndClearsParticipants'
    BY <1>4 DEF EndClearsParticipants
  <2>2. CohostRolesAgree'
    BY <1>4 DEF CohostRolesAgree
  <2> QED
    BY <2>1, <2>2
<1>5. CASE CreateCommit(r) \/ UpdateCommit(r)
  <2>1. Live(b) = {}
    BY <1>1, <1>5 DEF EndClearsParticipants
  <2>2. /\ UNCHANGED <<rows, left, role>> /\ \A c \in Broadcasts : Live(c)' = Live(c)
        /\ \A c \in Broadcasts : c # b => status'[c] = status[c] /\ cohosts'[c] = cohosts[c]
    BY <1>0, <1>1, <1>5 DEF CreateCommit, UpdateCommit, create, add_cohosts, partVars, bcVars, Live,
       TypeOK
  <2> QED
    BY <1>1, <1>4, <2>1, <2>2
<1>6. CASE DeleteCommit(r)
  <2>1. UNCHANGED <<status, rows, left, role, cohosts>>
    BY <1>6 DEF DeleteCommit, partVars
  <2> QED
    BY <2>1 DEF EndClearsParticipants, CohostRolesAgree, Live
<1>7. CASE StartCommit(r)
  <2>1. Live(b) = {} /\ u = Creator[b] /\ u \notin cohosts[b]
    BY <1>0, <1>1, <1>7 DEF EndClearsParticipants, StartCommit, At, SafetyInv, ReqInv, SafeReads,
       CohostInv
  <2>2. /\ upsert_participant(b, u, "host") /\ cohosts' = cohosts
        /\ status' = [status EXCEPT ![b] = "active"]
    BY <1>0, <1>7 DEF StartCommit, set_active
  <2>3. /\ \A c \in Broadcasts : c # b => Live(c)' = Live(c) /\ role'[c] = role[c]
        /\ Live(b)' \subseteq Live(b) \cup {u} /\ role'[b][u] = "host"
    BY <1>1, <1>2, <2>2, LiveStep
  <2>4. status'[b] = "active" /\ \A c \in Broadcasts : c # b => status'[c] = status[c]
    BY <1>1, <2>2 DEF TypeOK
  <2>5. \A v \in Live(b)' : role'[b][v] = "cohost" <=> v \in cohosts'[b]
    BY <2>1, <2>2, <2>3
  <2> QED
    BY <1>4, <2>2, <2>3, <2>4, <2>5
<1>8. CASE EndCommit(r)
  <2>1. /\ clear_participants(b) /\ cohosts' = cohosts
        /\ \A c \in Broadcasts : c # b => status'[c] = status[c]
    BY <1>0, <1>1, <1>8 DEF EndCommit, set_inactive, TypeOK
  <2>2. /\ \A c \in Broadcasts : c # b => Live(c)' = Live(c)
        /\ Live(b)' = {} /\ role' = role
    BY <1>1, <2>1, LiveStep
  <2> QED
    BY <1>4, <2>1, <2>2
\* The others find the broadcast live and leave it so.
<1>9. ASSUME status[b] = "active", status' = status,
             \A c \in Broadcasts : c # b =>
                Live(c)' = Live(c) /\ role'[c] = role[c] /\ cohosts'[c] = cohosts[c],
             NEW w \in Users, Live(b)' \subseteq Live(b) \cup {w},
             w \in Live(b)' => (role'[b][w] = "cohost" <=> w \in cohosts'[b]),
             \A v \in Users : v # w =>
                role'[b][v] = role[b][v] /\ (v \in cohosts'[b] <=> v \in cohosts[b])
      PROVE  EndClearsParticipants' /\ CohostRolesAgree'
  <2>1. \A v \in Live(b)' : role'[b][v] = "cohost" <=> v \in cohosts'[b]
    <3>1. ASSUME NEW v \in Live(b)', v # w PROVE role'[b][v] = "cohost" <=> v \in cohosts'[b]
      <4>1. v \in Live(b) /\ v \in Users
        BY <1>1, <1>3, <1>9, <3>1
      <4>2. role[b][v] = "cohost" <=> v \in cohosts[b]
        BY <1>1, <4>1 DEF CohostRolesAgree
      <4>3. role'[b][v] = role[b][v] /\ (v \in cohosts'[b] <=> v \in cohosts[b])
        BY <1>9, <3>1, <4>1
      <4> QED
        BY <4>2, <4>3
    <3> QED
      BY <1>9, <3>1
  <2> QED
    BY <1>4, <1>9, <2>1
<1>10. CASE JoinCommit(r)
  <2>1. /\ upsert_participant(b, u, JoinRole(req[r])) /\ UNCHANGED <<status, cohosts>>
    BY <1>0, <1>10 DEF JoinCommit, bcVars
  <2>2. /\ \A c \in Broadcasts : c # b => Live(c)' = Live(c) /\ role'[c] = role[c]
        /\ Live(b)' \subseteq Live(b) \cup {u} /\ role'[b][u] = JoinRole(req[r])
        /\ \A v \in Users : v # u => role'[b][v] = role[b][v]
    BY <1>1, <1>2, <2>1, LiveStep
  <2>3. JoinRole(req[r]) = "cohost" <=> u \in cohosts[b]
    BY <1>1, <1>10 DEF JoinRole
  <2> QED
    BY <1>1, <1>9, <1>10, <2>1, <2>2, <2>3
<1>11. CASE LeaveCommit(r)
  <2>1. /\ remove_participant(b, u) /\ UNCHANGED <<status, cohosts>>
    BY <1>0, <1>11 DEF LeaveCommit, bcVars
  <2>2. /\ \A c \in Broadcasts : c # b => Live(c)' = Live(c) /\ role'[c] = role[c]
        /\ Live(b)' \subseteq Live(b) \ {u}
        /\ \A v \in Users : v # u => role'[b][v] = role[b][v]
    BY <1>1, <2>1, LiveStep
  <2>3. u \notin Live(b)' /\ Live(b)' \subseteq Live(b) \cup {u}
    BY <2>2
  <2> QED
    BY <1>1, <1>9, <1>11, <2>1, <2>2, <2>3
\* Both tables change for the same user.
<1>12. ASSUME cohosts' = [cohosts EXCEPT ![b] = cohosts[b] \cup {t}]
              \/ cohosts' = [cohosts EXCEPT ![b] = cohosts[b] \ {t}]
       PROVE  /\ \A c \in Broadcasts : c # b => cohosts'[c] = cohosts[c]
              /\ \A v \in Users : v # t => (v \in cohosts'[b] <=> v \in cohosts[b])
  BY <1>1, <1>12 DEF TypeOK
<1>13. CASE AddCohostCommit(r)
  <2>1. /\ upsert_participant(b, t, "cohost") /\ status' = status
        /\ cohosts' = [cohosts EXCEPT ![b] = cohosts[b] \cup {t}]
    BY <1>0, <1>13 DEF AddCohostCommit, bcVars, add_cohosts
  <2>2. /\ \A c \in Broadcasts : c # b => Live(c)' = Live(c) /\ role'[c] = role[c]
        /\ Live(b)' \subseteq Live(b) \cup {t} /\ role'[b][t] = "cohost"
        /\ \A v \in Users : v # t => role'[b][v] = role[b][v]
    BY <1>1, <1>2, <2>1, LiveStep
  <2>3. t \in cohosts'[b]
    BY <1>1, <2>1 DEF TypeOK
  <2> QED
    BY <1>1, <1>9, <1>12, <1>13, <2>1, <2>2, <2>3
<1>14. CASE RemoveCohostCommit(r)
  <2>1. /\ remove_participant(b, t) /\ status' = status
        /\ cohosts' = [cohosts EXCEPT ![b] = cohosts[b] \ {t}]
    BY <1>0, <1>14 DEF RemoveCohostCommit, bcVars, remove_cohost
  <2>2. /\ \A c \in Broadcasts : c # b => Live(c)' = Live(c) /\ role'[c] = role[c]
        /\ Live(b)' \subseteq Live(b) \ {t}
        /\ \A v \in Users : v # t => role'[b][v] = role[b][v]
    BY <1>1, <2>1, LiveStep
  <2>3. t \notin Live(b)' /\ Live(b)' \subseteq Live(b) \cup {t}
    BY <2>2
  <2> QED
    BY <1>1, <1>9, <1>12, <1>14, <2>1, <2>2, <2>3
<1>15. CASE DemoteCohostCommit(r)
  <2>1. /\ upsert_participant(b, t, "participant") /\ status' = status
        /\ cohosts' = [cohosts EXCEPT ![b] = cohosts[b] \ {t}]
    BY <1>0, <1>15 DEF DemoteCohostCommit, bcVars, remove_cohost
  <2>2. /\ \A c \in Broadcasts : c # b => Live(c)' = Live(c) /\ role'[c] = role[c]
        /\ Live(b)' \subseteq Live(b) \cup {t} /\ role'[b][t] = "participant"
        /\ \A v \in Users : v # t => role'[b][v] = role[b][v]
    BY <1>1, <1>2, <2>1, LiveStep
  <2>3. t \notin cohosts'[b]
    BY <1>1, <2>1 DEF TypeOK
  <2> QED
    BY <1>1, <1>9, <1>12, <1>15, <2>1, <2>2, <2>3
<1> QED
  BY <1>5, <1>6, <1>7, <1>8, <1>10, <1>11, <1>13, <1>14, <1>15 DEF Commit

SerialInv == OneRuns /\ FreshInv /\ EndClearsParticipants /\ CohostRolesAgree

\* Answer by answer this holds in every state.
LEMMA SerialInductive ==
    ASSUME Serial
    PROVE  Spec => []SerialInv
<1>1. Init => SerialInv
  BY DEF Init, SerialInv, OneRuns, Running, FreshInv, EndClearsParticipants, CohostRolesAgree, Live
<1>2. ASSUME TypeOK, SafetyInv, SerialInv, [Next]_vars
      PROVE  SerialInv'
  <2>1. CASE UNCHANGED vars
    BY <1>2, <2>1 DEF vars, dbVars, bcVars, partVars, cacheVars, SerialInv, OneRuns, Running, FreshInv, FreshReads,
       EndClearsParticipants, CohostRolesAgree, Live
  <2>2. ASSUME NEW r \in Reqs, Call(r) \/ Step(r) \/ Fault(r)
        PROVE  SerialInv'
    <3>1. FreshInv'
      BY <1>2, <2>2, FreshStep DEF SerialInv
    <3>2. OneRuns'
      BY <1>2, <2>2, OneRunsStep DEF SerialInv
    <3>3. EndClearsParticipants' /\ CohostRolesAgree'
      <4>1. CASE Commit(r)
        BY <1>2, <4>1, ClearsStep DEF SerialInv
      <4>2. CASE ~Commit(r)
        <5>1. UNCHANGED dbVars
          BY <2>2, <4>2, OnlyCommitsWrite DEF Step
        <5> QED
          BY <1>2, <5>1 DEF SerialInv, dbVars, bcVars, partVars, EndClearsParticipants,
             CohostRolesAgree, Live
      <4> QED
        BY <4>1, <4>2
    <3> QED
      BY <3>1, <3>2, <3>3 DEF SerialInv
  <2> QED
    BY <1>2, <2>1, <2>2 DEF Next
<1> QED
  BY <1>1, <1>2, TypeCorrect, SafetyInductive, PTL DEF Spec

\* Answer by answer, end leaves no live participant: get_participant_ids_and_clear
\* meets no join, add_cohost or remove_cohost that read "active" before it.
THEOREM ClearsCorrect ==
    ASSUME Serial
    PROVE  Spec => []EndClearsParticipants
<1>1. SerialInv => EndClearsParticipants
  BY DEF SerialInv
<1> QED
  BY <1>1, SerialInductive, PTL

\* Answer by answer, the role that refresh_token reads from the participant row is
\* the one that join takes from the cohost row.
THEOREM RolesCorrect ==
    ASSUME Serial
    PROVE  Spec => []CohostRolesAgree
<1>1. SerialInv => CohostRolesAgree
  BY DEF SerialInv
<1> QED
  BY <1>1, SerialInductive, PTL

-----------------------------------------------------------------------------
(***************************************************************************)
(* Broadcast implements Session to clients who wait for answers.  Besides  *)
(* SerialInv this needs what the guards read beyond the status and the     *)
(* cohost table, and that the rows make sense to a client.                 *)
(***************************************************************************)

\* What a request read is so until its transaction.
CurrentReads(q) ==
    /\ q.pc = "read" =>
         /\ q.seen # "none" => ~deleted[q.b]
         /\ q.op = "create" /\ "active_host" \notin q.todo \cup q.hit => ~is_active_host(q.u)
         /\ q.op = "join" /\ "busy" \notin q.todo \cup q.hit => ~find_active_participant(q.u)
         /\ q.mine = "live" => q.u \in Live(q.b)
    /\ q.pc = "commit" => ~deleted[q.b]

CurrentInv == \A r \in Reqs : req[r] # Idle => CurrentReads(req[r])

\* Only rows have left_at set, every row has a role, and what is deleted is offline.
RowInv ==
    \A b \in Broadcasts :
        /\ left[b] \subseteq rows[b]
        /\ \A u \in rows[b] : role[b][u] # "none"
        /\ deleted[b] => status[b] = "inactive"

\* Reading, moving on and stopping change no row, and a request that has read is
\* never back at its queries.
LEMMA CurrentStep ==
    ASSUME TypeOK, Serial, OneRuns, FreshInv, CurrentInv, NEW r \in Reqs,
           Call(r) \/ Step(r) \/ Fault(r)
    PROVE  CurrentInv'
<1>1. ASSUME UNCHANGED dbVars
      PROVE  /\ UNCHANGED <<status, deleted, rows, left>>
             /\ \A b : Live(b)' = Live(b)
             /\ \A u : is_active_host(u)' <=> is_active_host(u)
             /\ \A u : find_active_participant(u)' <=> find_active_participant(u)
  BY <1>1 DEF dbVars, bcVars, partVars, Live, is_active_host, find_active_participant
<1>0. ASSUME NEW s \in Reqs, s # r, req'[s] # Idle PROVE CurrentReads(req[s])'
  <2>1. req'[s] = req[s] /\ CurrentReads(req[s])
    BY <1>0, Frame DEF CurrentInv
  <2>2. CASE Commit(r)
    BY <1>0, <2>1, <2>2, Alone DEF CurrentReads, Running, Handling
  <2>3. CASE ~Commit(r)
    <3>1. UNCHANGED dbVars
      BY <2>3, OnlyCommitsWrite DEF Step
    <3> QED
      BY <1>1, <2>1, <3>1 DEF CurrentReads
  <2> QED
    BY <2>2, <2>3
<1> SUFFICES ASSUME req'[r] # Idle PROVE CurrentReads(req[r])'
  BY <1>0 DEF CurrentInv
<1>2. CASE Call(r)
  <2>1. PICK op \in Ops, b \in Broadcasts, u \in Users : \E t \in Targets(op, u) :
          req' = [req EXCEPT ![r] = NewRequest(op, b, u, t)]
    BY <1>2, ZenonT(30) DEF Call
  <2>2. PICK t : req' = [req EXCEPT ![r] = NewRequest(op, b, u, t)]
    BY <2>1
  <2>3. req'[r] = NewRequest(op, b, u, t)
    BY <2>2 DEF TypeOK
  <2> QED
    BY <2>3 DEF CurrentReads, NewRequest, Reads
<1>3. CASE Query(r)
  <2>1. PICK query \in Askable(req[r]) : req' = [req EXCEPT ![r] = Answered(req[r], query)]
    BY <1>3 DEF Query
  <2>2. req[r] \in Request /\ CurrentReads(req[r]) /\ req[r].pc = "read"
    BY <1>3 DEF Query, TypeOK, CurrentInv
  <2>3. PICK q : q = Answered(req[r], query)
    OBVIOUS
  <2>4. /\ q.pc = "read" /\ q.op = req[r].op /\ q.b = req[r].b /\ q.u = req[r].u
        /\ q.todo = req[r].todo \ {query}
        /\ q.seen = IF query = "bc" THEN find_by_id(req[r].b) ELSE req[r].seen
        /\ q.mine = IF query = "row" THEN find_participant(req[r].b, req[r].u) ELSE req[r].mine
        /\ q.hit = IF Answer(query, req[r]) THEN req[r].hit \cup {query} ELSE req[r].hit
    BY <2>2, <2>3 DEF Answered, Request
  <2>5. q.seen # "none" => ~deleted[q.b]
    BY <2>2, <2>4 DEF CurrentReads, find_by_id
  <2>6. q.mine = "live" => q.u \in Live(q.b)
    BY <2>2, <2>4 DEF CurrentReads, find_participant, Live
  <2>7. q.op = "create" /\ "active_host" \notin q.todo \cup q.hit => ~is_active_host(q.u)
    <3>1. Answer("active_host", req[r]) <=> is_active_host(req[r].u)
      BY DEF Answer
    <3> QED
      BY <2>2, <2>4, <3>1 DEF CurrentReads
  <2>8. q.op = "join" /\ "busy" \notin q.todo \cup q.hit => ~find_active_participant(q.u)
    <3>1. Answer("busy", req[r]) <=> find_active_participant(req[r].u)
      BY DEF Answer
    <3> QED
      BY <2>2, <2>4, <3>1 DEF CurrentReads
  <2>9. req'[r] = q
    BY <2>1, <2>3 DEF TypeOK
  <2>10. UNCHANGED dbVars
    BY <1>3, OnlyCommitsWrite
  <2> QED
    BY <1>1, <2>4, <2>5, <2>6, <2>7, <2>8, <2>9, <2>10 DEF CurrentReads
<1>4. CASE CountCohostsFails(r)
  <2>1. req[r] \in Request /\ CurrentReads(req[r]) /\ req[r].pc = "read"
    BY <1>4 DEF CountCohostsFails, TypeOK, CurrentInv
  <2>2. PICK q : q = [req[r] EXCEPT !.todo = req[r].todo \ {"full"}]
    OBVIOUS
  <2>3. /\ q.pc = "read" /\ q.op = req[r].op /\ q.b = req[r].b /\ q.u = req[r].u
        /\ q.todo = req[r].todo \ {"full"} /\ q.seen = req[r].seen /\ q.mine = req[r].mine
        /\ q.hit = req[r].hit
    BY <2>1, <2>2 DEF Request
  <2>4. req'[r] = q
    BY <1>4, <2>2 DEF CountCohostsFails, TypeOK
  <2>5. UNCHANGED dbVars
    BY <1>4 DEF CountCohostsFails
  <2>6. \A query \in {"active_host", "busy"} : query \in q.todo <=> query \in req[r].todo
    BY <2>3
  <2> QED
    BY <1>1, <2>1, <2>3, <2>4, <2>5, <2>6 DEF CurrentReads
<1>5. CASE ~Call(r) /\ ~Query(r) /\ ~CountCohostsFails(r)
  <2>1. ~Done(r)
    BY DEF Done, TypeOK
  <2>2. PICK pc \in Pcs \ {"read"} : Goto(r, pc) /\ req[r] # Idle
    BY <1>5, <2>1, Moves DEF Step
  <2>3. req'[r].pc = pc /\ req'[r].b = req[r].b
    BY <2>2, MoveEffect
  <2>4. ASSUME pc = "commit"
        PROVE  ~deleted'[req[r].b]
    <3>1. StartCreateRoom(r)
      <4>1. \A p \in Pcs : Goto(r, p) => p = pc
        BY <2>2, <2>3, MoveEffect
      <4> QED
        BY <1>5, <2>1, <2>4, <4>1
        DEF Step, Fault, Refuse, Commit, Effect, CreateCommit, UpdateCommit, DeleteCommit, StartCommit,
            EndCommit, JoinCommit, LeaveCommit, AddCohostCommit, RemoveCohostCommit, DemoteCohostCommit,
            StartSetCount, EndDeleteRoom, EndDeleteCount, JoinCount, LeaveDecr, LeaveDeleteCount, KickDecr,
            DeletePurge, CommandFails, AfterError, Abandon, Pcs, Handling
    <3>2. ~deleted[req[r].b] /\ UNCHANGED deleted
      BY <2>2, <3>1 DEF StartCreateRoom, Ready, Accepted, NotLive, CurrentInv, CurrentReads, dbVars, bcVars
    <3> QED
      BY <3>2
  <2> QED
    BY <2>2, <2>3, <2>4 DEF CurrentReads
<1> QED
  BY <1>2, <1>3, <1>4, <1>5

\* What the guards of each operation come to, when nothing else runs: they hold of
\* the tables the transaction finds.
LEMMA CommitGuards ==
    ASSUME TypeOK, SafetyInv, FreshInv, CurrentInv, RowInv, NEW r \in Reqs, Commit(r),
           NEW b, NEW u, NEW t, b = req[r].b, u = req[r].u, t = req[r].t
    PROVE  /\ b \in Broadcasts /\ u \in Users /\ t \in Users
           /\ CreateCommit(r) => status[b] = "none" /\ u = Creator[b] /\ ~is_active_host(u)
           /\ UpdateCommit(r) \/ DeleteCommit(r) \/ StartCommit(r) =>
                status[b] = "inactive" /\ u = Creator[b]
           /\ \/ EndCommit(r) \/ JoinCommit(r) \/ LeaveCommit(r)
              \/ AddCohostCommit(r) \/ RemoveCohostCommit(r) \/ DemoteCohostCommit(r)
              => status[b] = "active"
           /\ ~deleted[b]
           /\ JoinCommit(r) => /\ u # Creator[b] /\ ~find_active_participant(u)
                               /\ "cohost" \in req[r].hit <=> u \in cohosts[b]
           /\ LeaveCommit(r) => u \in Live(b)
           /\ AddCohostCommit(r) => t # Creator[b] /\ t \notin cohosts[b]
           /\ RemoveCohostCommit(r) \/ DemoteCohostCommit(r) => t \in cohosts[b]
<1>1. /\ req[r] # Idle /\ req[r] \in Request /\ b \in Broadcasts /\ u \in Users /\ t \in Users
      /\ CreateCommit(r) => status[b] = "none"
      /\ UpdateCommit(r) \/ StartCommit(r) => status[b] = "inactive"
      /\ JoinCommit(r) \/ LeaveCommit(r) \/ AddCohostCommit(r)
           \/ RemoveCohostCommit(r) \/ DemoteCohostCommit(r) => status[b] = "active"
      /\ JoinCommit(r) => ("cohost" \in req[r].hit <=> u \in cohosts[b])
  BY CommitReads
<1>2. FreshReads(req[r]) /\ CurrentReads(req[r]) /\ SafeReads(req[r])
  BY <1>1 DEF FreshInv, CurrentInv, SafetyInv, ReqInv
<1>3. CreateCommit(r) => u = Creator[b] /\ ~is_active_host(u) /\ ~deleted[b]
  BY <1>1, <1>2 DEF CreateCommit, Ready, Accepted, CurrentReads, SafeReads, RowInv
<1>4. UpdateCommit(r) \/ DeleteCommit(r) => u = Creator[b] /\ status[b] = "inactive" /\ ~deleted[b]
  BY <1>2 DEF UpdateCommit, DeleteCommit, Ready, Accepted, NotLive, IsCreator, FreshReads, CurrentReads
<1>5. StartCommit(r) => u = Creator[b] /\ ~deleted[b]
  BY <1>2 DEF StartCommit, At, CurrentReads, SafeReads
<1>6. EndCommit(r) => status[b] = "active"
  BY <1>2 DEF EndCommit, Ready, Accepted, IsLive, FreshReads
<1>7. status[b] = "active" => ~deleted[b]
  BY <1>1 DEF RowInv
<1>8. JoinCommit(r) => u # Creator[b] /\ ~find_active_participant(u)
  BY <1>2 DEF JoinCommit, Ready, Accepted, CurrentReads
<1>9. LeaveCommit(r) => u \in Live(b)
  BY <1>2 DEF LeaveCommit, Ready, Accepted, CurrentReads
<1>10. AddCohostCommit(r) => t # Creator[b] /\ t \notin cohosts[b]
  BY <1>2 DEF AddCohostCommit, Ready, Accepted, NotSelf, FreshReads, Reads
<1>11. RemoveCohostCommit(r) \/ DemoteCohostCommit(r) => t \in cohosts[b]
  BY <1>2 DEF RemoveCohostCommit, DemoteCohostCommit, Ready, Accepted, FreshReads, Reads
<1> QED
  BY <1>1, <1>3, <1>4, <1>5, <1>6, <1>7, <1>8, <1>9, <1>10, <1>11 DEF Commit

\* What the participant statements do to what clients see.
LEMMA CastStep ==
    ASSUME TypeOK, RowInv, NEW b \in Broadcasts, NEW u \in Users
    PROVE  /\ \A ro \in Roles \ {"none"} : upsert_participant(b, u, ro) =>
                Api!Seat(b, u, ro)
           /\ remove_participant(b, u) =>
                Api!Place(b, u, "none") /\ left' = [left EXCEPT ![b] = left[b] \ {u}]
           /\ clear_participants(b) =>
                /\ Cast' = [Cast EXCEPT ![b] = Api!Nobody]
                /\ left' = [left EXCEPT ![b] = left[b] \cup Api!Audience(b)]
<1> DEFINE Sees(c, v) == IF v \in Live(c) THEN role[c][v] ELSE "none"
<1>1. /\ DOMAIN Cast = Broadcasts /\ \A c \in Broadcasts : DOMAIN Cast[c] = Users
      /\ \A c \in Broadcasts, v \in Users : Cast[c][v] = Sees(c, v)
  BY DEF Cast
<1>2. ASSUME NEW ro \in Roles, \A c \in Broadcasts, v \in Users :
               Sees(c, v)' = IF c = b /\ v = u THEN ro ELSE Sees(c, v)
      PROVE  Api!Place(b, u, ro)
  <2>1. Cast' = [c \in Broadcasts |-> [v \in Users |-> Sees(c, v)']]
    BY DEF Cast
  <2>2. Cast' = [c \in Broadcasts |-> [v \in Users |-> IF c = b /\ v = u THEN ro ELSE Cast[c][v]]]
    BY <1>1, <1>2, <2>1
  <2>3. [Cast EXCEPT ![b][u] = ro]
          = [c \in Broadcasts |-> [v \in Users |-> IF c = b /\ v = u THEN ro ELSE Cast[c][v]]]
    BY DEF Cast
  <2> QED
    BY <2>2, <2>3 DEF Api!Place
<1>3. ASSUME NEW ro \in Roles \ {"none"}, upsert_participant(b, u, ro)
      PROVE  Api!Seat(b, u, ro)
  <2>1. left' = left
    BY <1>3 DEF upsert_participant
  <2>2. \A c \in Broadcasts, v \in Users :
          Sees(c, v)' = IF c = b /\ v = u THEN (IF u \in left[b] THEN Sees(b, u) ELSE ro) ELSE Sees(c, v)
    BY <1>3 DEF upsert_participant, Live, TypeOK
  <2>3. (IF u \in left[b] THEN Sees(b, u) ELSE ro) \in Roles
    BY DEF TypeOK, Roles
  <2>4. Api!Place(b, u, IF u \in left[b] THEN Cast[b][u] ELSE ro)
    BY <1>1, <1>2, <2>2, <2>3
  <2> QED
    BY <2>1, <2>4 DEF Api!Seat
<1>4. ASSUME remove_participant(b, u)
      PROVE  Api!Place(b, u, "none") /\ left' = [left EXCEPT ![b] = left[b] \ {u}]
  <2>1. \A c \in Broadcasts, v \in Users :
          Sees(c, v)' = IF c = b /\ v = u THEN "none" ELSE Sees(c, v)
    BY <1>4 DEF remove_participant, Live, TypeOK
  <2> QED
    BY <1>2, <1>4, <2>1 DEF remove_participant, Roles
<1>5. ASSUME clear_participants(b)
      PROVE  /\ Cast' = [Cast EXCEPT ![b] = Api!Nobody]
             /\ left' = [left EXCEPT ![b] = left[b] \cup Api!Audience(b)]
  <2>1. \A c \in Broadcasts, v \in Users : Sees(c, v)' = IF c = b THEN "none" ELSE Sees(c, v)
    BY <1>5 DEF clear_participants, Live, TypeOK
  <2>2. Cast' = [c \in Broadcasts |-> [v \in Users |-> Sees(c, v)']]
    BY DEF Cast
  <2>3. Cast' = [c \in Broadcasts |-> IF c = b THEN Api!Nobody ELSE Cast[c]]
    <3>1. \A c \in Broadcasts : c # b => [v \in Users |-> Sees(c, v)'] = Cast[c]
      BY <2>1 DEF Cast
    <3>2. [v \in Users |-> Sees(b, v)'] = Api!Nobody
      BY <2>1 DEF Api!Nobody
    <3> QED
      BY <2>2, <3>1, <3>2
  <2>4. Cast' = [Cast EXCEPT ![b] = Api!Nobody]
    BY <2>3 DEF Cast
  <2>5. Api!Audience(b) = Live(b)
    BY <1>1 DEF Api!Audience, Live, RowInv, TypeOK
  <2>6. left[b] \cup Live(b) = rows[b]
    BY DEF Live, RowInv, TypeOK
  <2> QED
    BY <1>5, <2>4, <2>5, <2>6 DEF clear_participants
<1> QED
  BY <1>3, <1>4, <1>5

\* A commit whose reads are fresh keeps the rows sensible.
LEMMA RowInvStep ==
    ASSUME TypeOK, SafetyInv, FreshInv, CurrentInv, RowInv, NEW r \in Reqs, Commit(r)
    PROVE  RowInv'
<1>0. PICK b, u, t : b = req[r].b /\ u = req[r].u /\ t = req[r].t
  OBVIOUS
<1>1. /\ b \in Broadcasts /\ u \in Users /\ t \in Users
      /\ CreateCommit(r) => status[b] = "none"
      /\ DeleteCommit(r) => status[b] = "inactive"
      /\ ~deleted[b]
  BY <1>0, CommitGuards
<1>2. ASSUME \A c \in Broadcasts : deleted'[c] => status'[c] = "inactive",
             \A c \in Broadcasts : left'[c] \subseteq rows'[c],
             \A c \in Broadcasts : \A v \in rows'[c] : role'[c][v] # "none"
      PROVE  RowInv'
  BY <1>2 DEF RowInv
<1>3. \A c \in Broadcasts : deleted'[c] => status'[c] = "inactive"
  BY <1>0, <1>1 DEF Commit, CreateCommit, UpdateCommit, DeleteCommit, StartCommit, EndCommit,
     JoinCommit, LeaveCommit, AddCohostCommit, RemoveCohostCommit, DemoteCohostCommit, create, delete,
     set_active, set_inactive, bcVars, RowInv, TypeOK
<1>4. \/ UNCHANGED partVars \/ clear_participants(b)
      \/ \E w \in Users : \/ remove_participant(b, w)
                          \/ \E ro \in Roles \ {"none"} : upsert_participant(b, w, ro)
  BY <1>0, <1>1 DEF Commit, CreateCommit, UpdateCommit, DeleteCommit, StartCommit, EndCommit,
     JoinCommit, LeaveCommit, AddCohostCommit, RemoveCohostCommit, DemoteCohostCommit, JoinRole, Roles
<1>5. ASSUME NEW w \in Users, NEW ro \in Roles \ {"none"}, upsert_participant(b, w, ro)
      PROVE  /\ \A c \in Broadcasts : left'[c] \subseteq rows'[c]
             /\ \A c \in Broadcasts : \A v \in rows'[c] : role'[c][v] # "none"
  BY <1>1, <1>5 DEF upsert_participant, RowInv, TypeOK
<1>6. ASSUME NEW w \in Users, remove_participant(b, w)
      PROVE  /\ \A c \in Broadcasts : left'[c] \subseteq rows'[c]
             /\ \A c \in Broadcasts : \A v \in rows'[c] : role'[c][v] # "none"
  BY <1>1, <1>6 DEF remove_participant, RowInv, TypeOK
<1>7. ASSUME UNCHANGED partVars \/ clear_participants(b)
      PROVE  /\ \A c \in Broadcasts : left'[c] \subseteq rows'[c]
             /\ \A c \in Broadcasts : \A v \in rows'[c] : role'[c][v] # "none"
  BY <1>1, <1>7 DEF partVars, clear_participants, RowInv, TypeOK
<1> QED
  BY <1>2, <1>3, <1>4, <1>5, <1>6, <1>7

\* Every transaction is the step of Session named after it.
LEMMA CommitRefines ==
    ASSUME TypeOK, SafetyInv, FreshInv, CurrentInv, RowInv, NEW r \in Reqs, Commit(r)
    PROVE  Api!Next
<1>0. PICK b, u, t : b = req[r].b /\ u = req[r].u /\ t = req[r].t
  OBVIOUS
<1>1. /\ b \in Broadcasts /\ u \in Users /\ t \in Users
      /\ CreateCommit(r) => status[b] = "none" /\ u = Creator[b] /\ ~is_active_host(u)
      /\ UpdateCommit(r) \/ DeleteCommit(r) \/ StartCommit(r) =>
           status[b] = "inactive" /\ u = Creator[b]
      /\ \/ EndCommit(r) \/ JoinCommit(r) \/ LeaveCommit(r)
         \/ AddCohostCommit(r) \/ RemoveCohostCommit(r) \/ DemoteCohostCommit(r)
         => status[b] = "active"
      /\ ~deleted[b]
      /\ JoinCommit(r) => /\ u # Creator[b] /\ ~find_active_participant(u)
                          /\ "cohost" \in req[r].hit <=> u \in cohosts[b]
      /\ LeaveCommit(r) => u \in Live(b)
      /\ AddCohostCommit(r) => t # Creator[b] /\ t \notin cohosts[b]
      /\ RemoveCohostCommit(r) \/ DemoteCohostCommit(r) => t \in cohosts[b]
  BY <1>0, CommitGuards
<1>2. /\ \A w \in Users, ro \in Roles \ {"none"} : upsert_participant(b, w, ro) => Api!Seat(b, w, ro)
      /\ \A w \in Users : remove_participant(b, w) =>
           Api!Place(b, w, "none") /\ left' = [left EXCEPT ![b] = left[b] \ {w}]
      /\ clear_participants(b) =>
           /\ Cast' = [Cast EXCEPT ![b] = Api!Nobody]
           /\ left' = [left EXCEPT ![b] = left[b] \cup Api!Audience(b)]
  BY <1>1, CastStep
<1>3. UNCHANGED partVars => UNCHANGED <<Cast, left>>
  BY DEF partVars, Cast, Live
<1>4. /\ Phase[b] = status[b]
      /\ \A c \in Broadcasts : Phase[c] = "active" => status[c] = "active" /\ ~deleted[c]
      /\ UNCHANGED bcVars => UNCHANGED Phase
  BY <1>1 DEF Phase, bcVars
\* A transaction that writes the status only, or deletes.
<1>5. ASSUME NEW to, UNCHANGED deleted, status' = [status EXCEPT ![b] = to]
      PROVE  Phase' = [Phase EXCEPT ![b] = to]
  BY <1>1, <1>5 DEF Phase, TypeOK
<1>6. ASSUME UNCHANGED status, deleted' = [deleted EXCEPT ![b] = TRUE]
      PROVE  Phase' = [Phase EXCEPT ![b] = "deleted"]
  BY <1>1, <1>6 DEF Phase, TypeOK
<1>7. ASSUME NEW cs \in Invitees(req[r]), u = Creator[b], add_cohosts(b, cs)
      PROVE  \E is \in Invitations : Api!Appointed(b, is)
  BY <1>0, <1>7 DEF Invitees, Invitations, add_cohosts, Api!Appointed
<1>8. \A c \in Broadcasts : Api!Audience(c) = Live(c)
  BY DEF Api!Audience, Cast, Live, RowInv, TypeOK
<1>9. {"host", "cohost", "participant"} \subseteq Roles \ {"none"}
  BY DEF Roles
<1>10. CASE CreateCommit(r)
  <2>1. Api!Becomes(b, "none", "inactive")
    BY <1>0, <1>1, <1>4, <1>5, <1>10 DEF CreateCommit, create, Api!Becomes
  <2>2. \A c \in Broadcasts : Creator[c] = Creator[b] => Phase[c] # "active"
    BY <1>1, <1>4, <1>10 DEF is_active_host
  <2>3. \E cs \in Invitations : Api!Appointed(b, cs)
    BY <1>0, <1>1, <1>7, <1>10 DEF CreateCommit
  <2>4. UNCHANGED <<Cast, left>>
    BY <1>3, <1>10 DEF CreateCommit
  <2> QED
    BY <1>1, <2>1, <2>2, <2>3, <2>4 DEF Api!Create, Api!Next
<1>11. CASE UpdateCommit(r)
  <2>1. \E cs \in Invitations : Api!Appointed(b, cs)
    BY <1>0, <1>1, <1>7, <1>11 DEF UpdateCommit
  <2>2. UNCHANGED <<Phase, Cast, left>>
    BY <1>3, <1>4, <1>11 DEF UpdateCommit
  <2> QED
    BY <1>1, <1>4, <1>11, <2>1, <2>2 DEF Api!Update, Api!Next
<1>12. CASE DeleteCommit(r)
  <2>1. Api!Becomes(b, "inactive", "deleted")
    BY <1>0, <1>1, <1>4, <1>6, <1>12 DEF DeleteCommit, delete, Api!Becomes
  <2>2. UNCHANGED <<cohosts, Cast, left>>
    BY <1>3, <1>12 DEF DeleteCommit
  <2> QED
    BY <1>1, <2>1, <2>2 DEF Api!Delete, Api!Next
<1>13. CASE StartCommit(r)
  <2>1. Api!Becomes(b, "inactive", "active")
    BY <1>0, <1>1, <1>4, <1>5, <1>13 DEF StartCommit, set_active, Api!Becomes
  <2>2. Api!Seat(b, Creator[b], "host") /\ UNCHANGED cohosts
    BY <1>0, <1>1, <1>2, <1>9, <1>13 DEF StartCommit
  <2> QED
    BY <1>1, <2>1, <2>2 DEF Api!Start, Api!Next
<1>14. CASE EndCommit(r)
  <2>1. Api!Becomes(b, "active", "inactive")
    BY <1>0, <1>1, <1>4, <1>5, <1>14 DEF EndCommit, set_inactive, Api!Becomes
  <2>2. clear_participants(b) /\ UNCHANGED cohosts
    BY <1>0, <1>14 DEF EndCommit
  <2> QED
    BY <1>1, <1>2, <2>1, <2>2 DEF Api!End, Api!Next
\* The others leave the broadcast live.
<1>15. CASE JoinCommit(r)
  <2>1. Api!IsLive(b) /\ UNCHANGED cohosts
    BY <1>1, <1>4, <1>15 DEF JoinCommit, Api!IsLive
  <2>2. \A c \in Broadcasts : u \notin Api!Audience(c)
    BY <1>1, <1>8, <1>15 DEF find_active_participant, Live
  <2>3. JoinRole(req[r]) = IF u \in cohosts[b] THEN "cohost" ELSE "participant"
    BY <1>1, <1>15 DEF JoinRole
  <2>4. Api!Seat(b, u, IF u \in cohosts[b] THEN "cohost" ELSE "participant")
    BY <1>0, <1>1, <1>2, <1>9, <1>15, <2>3 DEF JoinCommit
  <2> QED
    BY <1>1, <1>15, <2>1, <2>2, <2>4 DEF Api!Join, Api!Next
<1>16. CASE LeaveCommit(r)
  <2>1. Api!IsLive(b) /\ UNCHANGED cohosts
    BY <1>1, <1>4, <1>16 DEF LeaveCommit, Api!IsLive
  <2>2. Api!Place(b, u, "none") /\ left' = [left EXCEPT ![b] = left[b] \ {u}]
    BY <1>0, <1>1, <1>2, <1>16 DEF LeaveCommit
  <2>3. left' = left
    BY <1>1, <1>16, <2>2 DEF Live, TypeOK
  <2> QED
    BY <1>1, <1>8, <1>16, <2>1, <2>2, <2>3 DEF Api!Leave, Api!Next
<1>17. CASE AddCohostCommit(r)
  <2>1. Api!IsLive(b)
    BY <1>1, <1>4, <1>17 DEF AddCohostCommit, Api!IsLive
  <2>2. Api!Seat(b, t, "cohost") /\ cohosts' = [cohosts EXCEPT ![b] = cohosts[b] \cup {t}]
    BY <1>0, <1>1, <1>2, <1>9, <1>17 DEF AddCohostCommit, add_cohosts
  <2> QED
    BY <1>1, <1>17, <2>1, <2>2 DEF Api!AddCohost, Api!Next
<1>18. CASE RemoveCohostCommit(r)
  <2>1. Api!IsLive(b)
    BY <1>1, <1>4, <1>18 DEF RemoveCohostCommit, Api!IsLive
  <2>2. /\ Api!Place(b, t, "none") /\ left' = [left EXCEPT ![b] = left[b] \ {t}]
        /\ cohosts' = [cohosts EXCEPT ![b] = cohosts[b] \ {t}]
    BY <1>0, <1>1, <1>2, <1>18 DEF RemoveCohostCommit, remove_cohost
  <2> QED
    BY <1>1, <1>18, <2>1, <2>2 DEF Api!RemoveCohost, Api!Next
<1>19. CASE DemoteCohostCommit(r)
  <2>1. Api!IsLive(b)
    BY <1>1, <1>4, <1>19 DEF DemoteCohostCommit, Api!IsLive
  <2>2. Api!Seat(b, t, "participant") /\ cohosts' = [cohosts EXCEPT ![b] = cohosts[b] \ {t}]
    BY <1>0, <1>1, <1>2, <1>9, <1>19 DEF DemoteCohostCommit, remove_cohost
  <2> QED
    BY <1>1, <1>19, <2>1, <2>2 DEF Api!RemoveCohost, Api!Next
<1> QED
  BY <1>10, <1>11, <1>12, <1>13, <1>14, <1>15, <1>16, <1>17, <1>18, <1>19 DEF Commit

\* Answer by answer, the operations are the atomic steps of Session: each guard
\* holds of the rows its transaction finds, and no effect outside the transaction
\* shows in what clients see.  Faults are allowed: a request cut short either has
\* committed or has done nothing.
THEOREM Refinement ==
    ASSUME Serial
    PROVE  Spec => ActsAtomically
<1>1. Init => CurrentInv /\ RowInv
  BY DEF Init, CurrentInv, RowInv
<1>2. ASSUME TypeOK, SafetyInv, SerialInv, CurrentInv, RowInv, [Next]_vars
      PROVE  /\ CurrentInv' /\ RowInv'
             /\ Api!Next \/ UNCHANGED <<Phase, cohosts, Cast, left>>
  <2>1. OneRuns /\ FreshInv
    BY <1>2 DEF SerialInv
  <2>2. ASSUME UNCHANGED dbVars
        PROVE  RowInv' /\ UNCHANGED <<Phase, cohosts, Cast, left>>
    BY <1>2, <2>2 DEF dbVars, bcVars, partVars, RowInv, Phase, Cast, Live
  <2>3. CASE UNCHANGED vars
    <3>1. CurrentInv'
      BY <1>2, <2>3 DEF vars, dbVars, bcVars, partVars, CurrentInv, CurrentReads, Live,
         is_active_host, find_active_participant
    <3> QED
      BY <2>2, <2>3, <3>1 DEF vars
  <2>4. ASSUME NEW r \in Reqs, Call(r) \/ Step(r) \/ Fault(r)
        PROVE  /\ CurrentInv' /\ RowInv'
               /\ Api!Next \/ UNCHANGED <<Phase, cohosts, Cast, left>>
    <3>1. CurrentInv'
      BY <1>2, <2>1, <2>4, CurrentStep
    <3>2. CASE Commit(r)
      BY <1>2, <2>1, <3>1, <3>2, RowInvStep, CommitRefines
    <3>3. CASE ~Commit(r)
      <4>1. UNCHANGED dbVars
        BY <2>4, <3>3, OnlyCommitsWrite DEF Step
      <4> QED
        BY <2>2, <3>1, <4>1
    <3> QED
      BY <3>2, <3>3
  <2> QED
    BY <1>2, <2>3, <2>4 DEF Next
<1>3. Init => Api!Init
  BY DEF Init, Api!Init, Api!Nobody, Phase, Cast, Live
<1>4. TypeOK /\ SafetyInv /\ SerialInv /\ CurrentInv /\ RowInv /\ [Next]_vars
        => CurrentInv' /\ RowInv' /\ [Api!Next]_<<Phase, cohosts, Cast, left>>
  BY <1>2
<1> QED
  BY <1>1, <1>3, <1>4, TypeCorrect, SafetyInductive, SerialInductive, PTL DEF Spec, ActsAtomically, Api!Spec
=============================================================================
