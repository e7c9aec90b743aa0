--------------------------- MODULE SessionsProofs ---------------------------
(* Theorems about Sessions for any lifetimes, any number of tokens and any     *)
(* number of concurrent requests: what was ended stays ended, and nothing else *)
(* ends a session.                                                             *)
EXTENDS Sessions, TLAPS

-----------------------------------------------------------------------------
(* The type invariant, part by part *)

ReqType == [pc : Pcs, pair : 0..MaxPairs, signed : Nat, late : BOOLEAN]
Holding == {"find", "sign", "commit", "revoke", "block", "setBlock"}

ClockOK == now \in Nat \ {0} /\ cleaner \in Nat /\ arrived \in Nat /\ resetAt \in Nat
TokensOK ==
    /\ issued \in 0..MaxPairs
    /\ iat \in [Pairs -> Nat] /\ rexp \in [Pairs -> Nat] /\ blocked \in [Pairs -> Int]
    /\ userBlock \in [at: Nat, until: Nat]
SetsOK ==
    /\ rows \subseteq 1..issued /\ held \subseteq 1..issued
    /\ ended \subseteq 1..issued /\ out \subseteq 1..issued
ReqOK == req \in [Requests -> ReqType]
PairOK == \A r \in Requests : req[r].pc \in Holding => req[r].pair \in 1..issued

TypeInv == ClockOK /\ TokensOK /\ SetsOK /\ ReqOK /\ PairOK

\* The parts make the whole.
LEMMA TypeParts == TypeInv => TypeOK
<1> SUFFICES ASSUME TypeInv PROVE TypeOK
  OBVIOUS
<1>1. ReqOK /\ PairOK
  BY DEF TypeInv
<1> QED
  BY <1>1 DEF TypeInv, TypeOK, ClockOK, TokensOK, SetsOK, ReqOK, PairOK, ReqType, Holding

\* At the start there are no tokens.
LEMMA TypeInit == Init => TypeInv
<1> SUFFICES ASSUME Init PROVE TypeInv
  OBVIOUS
<1> USE SessionsAssumption DEF Init
<1>1. ClockOK
  BY DEF ClockOK
<1>2. TokensOK /\ SetsOK
  BY DEF TokensOK, SetsOK
<1>3. Idle \in ReqType /\ Idle.pc \notin Holding
  BY DEF Idle, ReqType, Pcs, Holding
<1> QED
  BY <1>1, <1>2, <1>3 DEF TypeInv, ReqOK, PairOK

\* What a step of request r does to the requests: it arrives, moves on or is done.
Moves(r) ==
    \/ \E record \in ReqType :
          /\ record.pc \in Holding => record.pair \in 1..issued
          /\ req' = [req EXCEPT ![r] = record]
    \/ \E pc \in Pcs : Goto(r, pc) /\ (pc \in Holding => req[r].pc \in Holding)
    \/ \E pc \in Pcs : /\ req' = [req EXCEPT ![r].pc = pc, ![r].signed = now]
                       /\ pc \in Holding => req[r].pc \in Holding
    \/ Done(r)

\* Whichever, requests stay well typed and name pairs that were issued.
LEMMA MovesType ==
    ASSUME TypeInv, NEW r \in Requests, Moves(r), issued' \in Nat, issued' >= issued
    PROVE  ReqOK' /\ PairOK'
<1>0. /\ req \in [Requests -> ReqType] /\ req[r] \in ReqType
      /\ issued \in Nat /\ now \in Nat /\ PairOK
  BY SessionsAssumption DEF TypeInv, ReqOK, TokensOK, ClockOK
<1>1. 1..issued \subseteq 1..issued'
  BY <1>0
<1>2. Idle \in ReqType /\ Idle.pc \notin Holding
  BY SessionsAssumption DEF Idle, ReqType, Pcs, Holding
<1>3. \A pc \in Pcs : /\ [req[r] EXCEPT !.pc = pc] \in ReqType
                      /\ [req[r] EXCEPT !.pc = pc].pc = pc
                      /\ [req[r] EXCEPT !.pc = pc].pair = req[r].pair
  BY <1>0 DEF ReqType
<1>4. \A pc \in Pcs : /\ [[req[r] EXCEPT !.pc = pc] EXCEPT !.signed = now] \in ReqType
                      /\ [[req[r] EXCEPT !.pc = pc] EXCEPT !.signed = now].pc = pc
                      /\ [[req[r] EXCEPT !.pc = pc] EXCEPT !.signed = now].pair = req[r].pair
  BY <1>0 DEF ReqType
<1>5. \E record \in ReqType : /\ record.pc \in Holding => record.pair \in 1..issued
                              /\ req' = [req EXCEPT ![r] = record]
  <2>1. CASE \E pc \in Pcs : Goto(r, pc) /\ (pc \in Holding => req[r].pc \in Holding)
    BY <1>0, <1>3, <2>1 DEF Goto, PairOK
  <2>2. CASE \E pc \in Pcs : /\ req' = [req EXCEPT ![r].pc = pc, ![r].signed = now]
                             /\ pc \in Holding => req[r].pc \in Holding
    BY <1>0, <1>4, <2>2 DEF PairOK
  <2>3. CASE Done(r)
    BY <1>2, <2>3 DEF Done
  <2> QED
    BY <2>1, <2>2, <2>3 DEF Moves
<1> QED
  BY <1>0, <1>1, <1>5 DEF ReqOK, PairOK

\* Requests that arrive.
LEMMA TypeBegin ==
    ASSUME TypeInv, NEW r \in Requests, Begin(r)
    PROVE  TypeInv'
<1>0. issued \in Nat /\ now \in Nat /\ arrived \in Nat /\ 1..issued \subseteq 0..MaxPairs
  BY SessionsAssumption DEF TypeInv, TokensOK, ClockOK
<1>1. /\ arrived' = arrived + 1
      /\ UNCHANGED <<now, tokens, rows, client, blocked, userBlock, cleaner, ended>>
  BY ZenonT(30) DEF Begin, Issue, Reset, Refresh, Logout, Arrive
<1>2. Moves(r)
  <2>1. CASE Issue(r) \/ Reset(r)
    <3>0. Idle \in ReqType
      BY SessionsAssumption DEF Idle, ReqType, Pcs
    <3>1. /\ [Idle EXCEPT !.pc = "store", !.signed = now] \in ReqType
          /\ [Idle EXCEPT !.pc = "store", !.signed = now].pc = "store"
      BY <1>0, <3>0 DEF ReqType, Pcs
    <3>2. /\ [Idle EXCEPT !.pc = "revokeAll"] \in ReqType
          /\ [Idle EXCEPT !.pc = "revokeAll"].pc = "revokeAll"
      BY <3>0 DEF ReqType, Pcs
    <3>3. "store" \notin Holding /\ "revokeAll" \notin Holding
      BY DEF Holding
    <3> QED
      BY <2>1, <3>1, <3>2, <3>3 DEF Issue, Reset, Arrive, Moves
  <2>2. ASSUME NEW p \in Pairs, Refresh(r, p) \/ Logout(r, p)
        PROVE  Moves(r)
    <3>1. p \in 1..issued /\ p \in 0..MaxPairs /\ (p \in ended) \in BOOLEAN
      BY <1>0, <2>2 DEF Refresh, Logout, TypeInv, SetsOK
    <3>2. \A late \in BOOLEAN : /\ [Idle EXCEPT !.pc = "find", !.pair = p, !.late = late] \in ReqType
                                /\ [Idle EXCEPT !.pc = "find", !.pair = p, !.late = late].pair = p
      BY <3>1 DEF Idle, ReqType, Pcs
    <3>3. /\ [Idle EXCEPT !.pc = "revoke", !.pair = p] \in ReqType
          /\ [Idle EXCEPT !.pc = "revoke", !.pair = p].pair = p
      BY <3>1 DEF Idle, ReqType, Pcs
    <3> QED
      BY <2>2, <3>1, <3>2, <3>3, ZenonT(30) DEF Refresh, Logout, Arrive, Moves
  <2> QED
    BY <2>1, <2>2 DEF Begin
<1>3. ReqOK' /\ PairOK'
  BY <1>0, <1>1, <1>2, MovesType DEF tokens
<1> QED
  BY <1>0, <1>1, <1>3 DEF TypeInv, ClockOK, TokensOK, SetsOK, tokens, client

\* A new pair.
LEMMA TypeNewPair ==
    ASSUME TypeInv, NEW r \in Requests, NEW access \in Nat, NEW gone \in SUBSET (1..issued),
           NewPair(r, access, gone)
    PROVE  TypeInv'
<1>0. /\ issued \in Nat /\ now \in Nat /\ req[r] \in ReqType /\ issued + 1 \in Pairs
      /\ issued' = issued + 1
  BY SessionsAssumption DEF TypeInv, TokensOK, ClockOK, ReqOK, NewPair, Pairs
<1>1. req[r].signed + RefreshTTL \in Nat
  BY <1>0, SessionsAssumption DEF ReqType
<1>2. TokensOK'
  <2>1. issued' \in 0..MaxPairs
    BY <1>0, SessionsAssumption DEF Pairs
  <2> QED
    BY <1>0, <1>1, <2>1 DEF NewPair, TypeInv, TokensOK
<1>3. SetsOK'
  BY <1>0 DEF NewPair, TypeInv, SetsOK
<1>4. Moves(r)
  BY DEF NewPair, Moves
<1>5. ReqOK' /\ PairOK'
  BY <1>0, <1>4, MovesType
<1>6. ClockOK'
  BY DEF NewPair, TypeInv, ClockOK
<1> QED
  BY <1>2, <1>3, <1>5, <1>6 DEF TypeInv

\* The steps of a request.
LEMMA TypeStep ==
    ASSUME TypeInv, NEW r \in Requests, Step(r) \/ Abandon(r)
    PROVE  TypeInv'
<1>0. /\ issued \in Nat /\ now \in Nat /\ req[r] \in ReqType
      /\ req[r].pc \in Holding => req[r].pair \in 1..issued
  BY SessionsAssumption DEF TypeInv, TokensOK, ClockOK, ReqOK, PairOK
<1>1. CASE store_refresh_token(r)
  BY <1>0, <1>1, TypeNewPair DEF store_refresh_token, ReqType
<1>2. CASE rotate_refresh_token(r)
  <2>1. {req[r].pair} \in SUBSET (1..issued)
    BY <1>0, <1>2 DEF rotate_refresh_token, At, Holding
  <2> QED
    BY <1>0, <1>2, <2>1, TypeNewPair DEF rotate_refresh_token
<1>3. CASE \/ RotateFind(r) \/ RotateSign(r) \/ revoke_refresh_token(r)
           \/ ReadRemaining(r) \/ block_access_token(r) \/ revoke_all_refresh_tokens(r)
           \/ ReadBlockedAt(r) \/ block_all_user_tokens(r) \/ Abandon(r)
  <2>1. Moves(r)
    <3>1. CASE RotateFind(r)
      BY <3>1 DEF RotateFind, At, Holding, Pcs, Moves
    <3>2. CASE RotateSign(r)
      BY <3>2 DEF RotateSign, At, Holding, Pcs, Moves
    <3>3. CASE revoke_refresh_token(r)
      BY <3>3 DEF revoke_refresh_token, At, Holding, Pcs, Moves
    <3>4. CASE revoke_all_refresh_tokens(r)
      BY <3>4 DEF revoke_all_refresh_tokens, Holding, Pcs, Moves
    <3>5. CASE block_access_token(r) \/ block_all_user_tokens(r) \/ Abandon(r)
      BY <3>5 DEF block_access_token, block_all_user_tokens, Abandon, Moves
    <3>6. CASE ReadRemaining(r) \/ ReadBlockedAt(r)
      BY <3>6 DEF ReadRemaining, ReadBlockedAt, At, Holding, Pcs, Moves
    <3> QED
      BY <1>3, <3>1, <3>2, <3>3, <3>4, <3>5, <3>6
  <2>2. UNCHANGED <<now, tokens, cleaner, arrived, held>>
    BY <1>3 DEF RotateFind, RotateSign, revoke_refresh_token, ReadRemaining, block_access_token,
                revoke_all_refresh_tokens, ReadBlockedAt, block_all_user_tokens, Abandon, client
  <2>3. ReqOK' /\ PairOK'
    BY <1>0, <2>1, <2>2, MovesType DEF tokens
  <2>4. SetsOK'
    <3>1. \/ RotateFind(r) \/ revoke_refresh_token(r) \/ ReadRemaining(r) \/ block_access_token(r)
             => req[r].pair \in 1..issued
      BY <1>0 DEF RotateFind, revoke_refresh_token, ReadRemaining, block_access_token, At, Holding
    <3> QED
      BY <1>3, <2>2, <3>1 DEF RotateFind, RotateSign, revoke_refresh_token, ReadRemaining,
            block_access_token, revoke_all_refresh_tokens, ReadBlockedAt, block_all_user_tokens,
            Abandon, client, tokens, TypeInv, SetsOK
  <2>5. CASE block_access_token(r)
    <3>1. req[r].pair \in 1..issued
      BY <1>0, <2>5 DEF block_access_token, At, Holding
    <3>2. req[r].pair \in Pairs /\ iat[req[r].pair] \in Nat
      <4>1. issued \in 0..MaxPairs /\ iat \in [Pairs -> Nat]
        BY DEF TypeInv, TokensOK
      <4>2. req[r].pair \in Pairs
        BY <3>1, <4>1, SessionsAssumption DEF Pairs
      <4> QED
        BY <4>1, <4>2
    <3>3. BlockUntil(req[r].pair, req[r].signed) \in Int
      BY <1>0, <3>2, SessionsAssumption DEF exp, BlockUntil, ReqType
    <3>4. TokensOK'
      BY <2>2, <2>5, <3>2, <3>3 DEF block_access_token, TypeInv, TokensOK, tokens
    <3>5. ClockOK'
      BY <2>2, <2>5 DEF block_access_token, TypeInv, ClockOK
    <3> QED
      BY <2>3, <2>4, <3>4, <3>5 DEF TypeInv
  <2>6. CASE block_all_user_tokens(r)
    <3>1. userBlock' \in [at : Nat, until : Nat] /\ resetAt' \in Nat /\ blocked' = blocked
      BY <1>0, <2>6, SessionsAssumption DEF block_all_user_tokens, UserBlock, ReqType
    <3>2. TokensOK' /\ ClockOK'
      BY <2>2, <3>1 DEF TypeInv, TokensOK, ClockOK, tokens
    <3> QED
      BY <2>3, <2>4, <3>2 DEF TypeInv
  <2>7. CASE ~block_access_token(r) /\ ~block_all_user_tokens(r)
    <3>1. UNCHANGED <<blocked, userBlock, resetAt>>
      BY <1>3, <2>7 DEF RotateFind, RotateSign, revoke_refresh_token, ReadRemaining,
                        revoke_all_refresh_tokens, ReadBlockedAt, Abandon, client
    <3>2. TokensOK' /\ ClockOK'
      BY <2>2, <3>1 DEF TypeInv, TokensOK, ClockOK, tokens
    <3> QED
      BY <2>3, <2>4, <3>2 DEF TypeInv
  <2> QED
    BY <2>5, <2>6, <2>7
<1> QED
  BY <1>1, <1>2, <1>3 DEF Step

\* The clock and the cleanup job.
LEMMA TypeJob ==
    ASSUME TypeInv, Tick \/ CleanupStart \/ Cleanup
    PROVE  TypeInv'
<1>1. CASE Tick
  BY <1>1 DEF Tick, TypeInv, ClockOK, TokensOK, SetsOK, ReqOK, PairOK, tokens, client
<1>2. CASE CleanupStart
  BY <1>2 DEF CleanupStart, TypeInv, ClockOK, TokensOK, SetsOK, ReqOK, PairOK, tokens, client
<1>3. CASE Cleanup
  <2>1. PICK chunk : CleanupChunk(chunk)
    BY <1>3 DEF Cleanup
  <2> QED
    BY <2>1 DEF CleanupChunk, TypeInv, ClockOK, TokensOK, SetsOK, ReqOK, PairOK, tokens, client
<1> QED
  BY <1>1, <1>2, <1>3

\* Any step.
LEMMA TypeNext == TypeInv /\ [Next]_vars => TypeInv'
<1> SUFFICES ASSUME TypeInv, [Next]_vars PROVE TypeInv'
  OBVIOUS
<1>1. CASE UNCHANGED vars
  BY <1>1 DEF vars, TypeInv, ClockOK, TokensOK, SetsOK, ReqOK, PairOK
<1>2. CASE Next
  BY <1>2, TypeBegin, TypeStep, TypeJob DEF Next
<1> QED
  BY <1>1, <1>2

\* Tokens, blocklists and requests keep their types: no row, history or request
\* names a pair that was not issued.
THEOREM TypeCorrect == Spec => []TypeOK
BY TypeParts, TypeInit, TypeNext, PTL DEF Spec

-----------------------------------------------------------------------------
(* What was ended stays ended *)

\* Nothing is signed in the future, and the cleanup job started in the past.
PastInv ==
    /\ cleaner <= now
    /\ \A r \in Requests : req[r].signed <= now
    /\ \A p \in 1..issued : iat[p] <= now

\* A pair that was ended has no row, and a request that came late is of such a pair.
SpentInv ==
    /\ rows \cap ended = {}
    /\ \A r \in Requests : req[r].late => req[r].pair \in ended
    /\ SpentStaysSpent

\* The rest of a token's life was computed after the token was signed.
ReadInv == \A r \in Requests : req[r].pc = "setBlock" => iat[req[r].pair] <= req[r].signed

\* The key that blocks a token lives at least as long as the token.
BlockInv == \A p \in out : blocked[p] >= exp(p) \/ exp(p) <= now

\* The key of the last reset has its blocked_at and lives at least one access_ttl_secs
\* from then.
ResetInv ==
    resetAt = 0 \/ (userBlock.at = resetAt /\ userBlock.until >= resetAt + AccessTTL)

SessionInv ==
    TypeInv /\ PastInv /\ SpentInv /\ ReadInv /\ SessionLasts /\ BlockInv /\ ResetInv

\* At the start there is nothing to end.
LEMMA SessionInit == Init => SessionInv
<1> SUFFICES ASSUME Init PROVE SessionInv
  OBVIOUS
<1>1. \A r \in Requests : req[r].pc = "idle" /\ req[r].signed = 0 /\ req[r].late = FALSE
  BY DEF Init, Idle
<1>2. PastInv
  BY <1>1 DEF Init, PastInv
<1>3. SpentInv
  BY <1>1 DEF Init, SpentInv, SpentStaysSpent
<1>4. SessionLasts /\ BlockInv /\ ResetInv
  BY DEF Init, SessionLasts, BlockInv, ResetInv
<1>5. ReadInv
  BY <1>1 DEF ReadInv
<1> QED
  BY <1>2, <1>3, <1>4, <1>5, TypeInit DEF SessionInv

\* The types in the terms of the argument.
LEMMA SessionTypes ==
    ASSUME TypeInv
    PROVE  /\ now \in Nat \ {0} /\ issued \in Nat /\ cleaner \in Nat /\ resetAt \in Nat
           /\ 1..issued \subseteq Pairs
           /\ \A p \in Pairs : iat[p] \in Nat /\ rexp[p] \in Nat /\ blocked[p] \in Int
           /\ \A r \in Requests : req[r].signed \in Nat /\ req[r].late \in BOOLEAN
           /\ \A r \in Requests : req[r].pc \in Holding => req[r].pair \in 1..issued
           /\ rows \subseteq 1..issued /\ held \subseteq 1..issued
           /\ ended \subseteq 1..issued /\ out \subseteq 1..issued
           /\ AccessTTL \in Nat \ {0}
<1>1. \A r \in Requests : req[r].signed \in Nat /\ req[r].late \in BOOLEAN
  BY DEF TypeInv, ReqOK, ReqType
<1>2. now \in Nat \ {0} /\ issued \in Nat /\ cleaner \in Nat /\ resetAt \in Nat
  BY SessionsAssumption DEF TypeInv, ClockOK, TokensOK
<1>3. 1..issued \subseteq Pairs
  BY SessionsAssumption DEF TypeInv, TokensOK, Pairs
<1>4. \A p \in Pairs : iat[p] \in Nat /\ rexp[p] \in Nat /\ blocked[p] \in Int
  BY DEF TypeInv, TokensOK
<1>5. /\ rows \subseteq 1..issued /\ held \subseteq 1..issued
      /\ ended \subseteq 1..issued /\ out \subseteq 1..issued
  BY DEF TypeInv, SetsOK
<1>6. \A r \in Requests : req[r].pc \in Holding => req[r].pair \in 1..issued
  BY DEF TypeInv, PairOK
<1>7. AccessTTL \in Nat \ {0}
  BY SessionsAssumption
<1> QED
  BY <1>1, <1>2, <1>3, <1>4, <1>5, <1>6, <1>7

\* What Goto, Done and Arrive do to the requests.
LEMMA ReqEffects ==
    ASSUME TypeInv, NEW r \in Requests
    PROVE  /\ \A pc : Goto(r, pc) =>
                 /\ \A q \in Requests \ {r} : req'[q] = req[q]
                 /\ req'[r].pc = pc /\ req'[r].pair = req[r].pair
                 /\ req'[r].signed = req[r].signed /\ req'[r].late = req[r].late
           /\ Done(r) =>
                 /\ \A q \in Requests \ {r} : req'[q] = req[q]
                 /\ req'[r].pc = "idle" /\ req'[r].signed = 0 /\ req'[r].late = FALSE
<1>1. req \in [Requests -> ReqType] /\ req[r] \in ReqType
  BY DEF TypeInv, ReqOK
<1>2. ASSUME NEW pc, Goto(r, pc)
      PROVE  /\ \A q \in Requests \ {r} : req'[q] = req[q]
             /\ req'[r].pc = pc /\ req'[r].pair = req[r].pair
             /\ req'[r].signed = req[r].signed /\ req'[r].late = req[r].late
  BY <1>1, <1>2 DEF Goto, ReqType
<1>3. ASSUME Done(r)
      PROVE  /\ \A q \in Requests \ {r} : req'[q] = req[q]
             /\ req'[r].pc = "idle" /\ req'[r].signed = 0 /\ req'[r].late = FALSE
  BY <1>1, <1>3 DEF Done, Idle
<1> QED
  BY <1>2, <1>3

\* A step that only moves requests, none of them late or into a rotation.
LEMMA SessionAside ==
    ASSUME SessionInv, TypeInv',
           UNCHANGED <<now, tokens, rows, client, blocked, userBlock, cleaner, ended>>,
           \A q \in Requests :
              \/ req'[q] = req[q]
              \/ /\ req'[q].signed \in {0, now, req[q].signed}
                 /\ req'[q].late => req'[q].pair \in ended
                 /\ req'[q].pc \in {"sign", "commit"} => ~req'[q].late
                 /\ req'[q].pc = "setBlock" => iat[req'[q].pair] <= req'[q].signed
    PROVE  SessionInv'
<1> USE SessionTypes DEF SessionInv, tokens, client
<1>1. PastInv'
  BY DEF PastInv
<1>2. SpentInv'
  BY DEF SpentInv, SpentStaysSpent
<1>3. SessionLasts'
  BY DEF SessionLasts
<1>4. BlockInv'
  BY DEF BlockInv, exp
<1>5. ResetInv'
  BY DEF ResetInv
<1>6. ReadInv'
  BY DEF ReadInv
<1> QED
  BY <1>1, <1>2, <1>3, <1>4, <1>5, <1>6

\* A new pair: it is in no history yet, and what it replaces is ended.
LEMMA SessionNewPair ==
    ASSUME SessionInv, TypeInv', NEW r \in Requests, NEW access \in Nat, access <= now,
           NEW gone \in SUBSET (1..issued), NewPair(r, access, gone)
    PROVE  SessionInv'
<1> USE DEF SessionInv
<1>0. /\ issued' = issued + 1 /\ issued + 1 \in Pairs /\ issued + 1 \notin 1..issued
      /\ issued + 1 \in rows'
  BY SessionTypes, SessionsAssumption DEF NewPair, Pairs
<1>1. \A p \in 1..issued : iat'[p] = iat[p] /\ rexp'[p] = rexp[p]
  BY <1>0, SessionTypes DEF NewPair, TypeInv, TokensOK
<1>2. iat'[issued + 1] = access
  BY <1>0, SessionTypes DEF NewPair, TypeInv, TokensOK
<1>3. /\ \A q \in Requests \ {r} : req'[q] = req[q]
      /\ req'[r].pc = "idle" /\ req'[r].signed = 0 /\ req'[r].late = FALSE
  BY ReqEffects DEF NewPair
<1>4. PastInv'
  BY <1>0, <1>1, <1>2, <1>3, SessionTypes DEF NewPair, PastInv
<1>5. SpentInv'
  <2>1. rows' \cap ended' = {}
    BY <1>0, SessionTypes DEF NewPair, SpentInv
  <2> QED
    BY <1>3, <2>1 DEF NewPair, SpentInv, SpentStaysSpent
<1>6. SessionLasts'
  BY <1>0, <1>1, SessionTypes DEF NewPair, SessionLasts
<1>7. BlockInv'
  BY <1>1, SessionTypes DEF NewPair, BlockInv, exp
<1>8. ResetInv'
  BY DEF NewPair, ResetInv
<1>9. ReadInv'
  BY <1>1, <1>3, SessionTypes DEF ReadInv, Holding
<1> QED
  BY <1>4, <1>5, <1>6, <1>7, <1>8, <1>9

\* Rows that are deleted are ended as well.
LEMMA SessionRevoke ==
    ASSUME SessionInv, TypeInv', NEW r \in Requests, NEW gone,
           rows' = rows \ gone, ended \subseteq ended', rows \cap gone \subseteq ended',
           ended' \subseteq ended \cup gone,
           UNCHANGED <<now, tokens, client, blocked, userBlock, cleaner>>,
           (\E pc : Goto(r, pc) /\ pc \notin {"sign", "commit", "setBlock"}) \/ Done(r)
    PROVE  SessionInv'
<1> USE DEF SessionInv, tokens, client
<1>1. /\ \A q \in Requests \ {r} : req'[q] = req[q]
      /\ req'[r].pc \notin {"sign", "commit", "setBlock"}
      /\ req'[r].signed \in {0, req[r].signed}
      /\ req'[r].late => req[r].late /\ req'[r].pair = req[r].pair
  BY ReqEffects
<1>2. PastInv'
  BY <1>1, SessionTypes DEF PastInv
<1>3. SpentInv'
  BY <1>1 DEF SpentInv, SpentStaysSpent
<1>4. SessionLasts'
  BY DEF SessionLasts
<1>5. BlockInv' /\ ResetInv'
  BY DEF BlockInv, ResetInv, exp
<1>6. ReadInv'
  BY <1>1 DEF ReadInv
<1> QED
  BY <1>2, <1>3, <1>4, <1>5, <1>6

\* A token with nothing left of its life is not blocked.
LEMMA SessionRead ==
    ASSUME SessionInv, TypeInv', NEW r \in Requests, ReadRemaining(r)
    PROVE  SessionInv'
<1> USE DEF SessionInv, tokens
<1> DEFINE p == req[r].pair
<1>0. req \in [Requests -> ReqType] /\ req[r] \in ReqType
  BY DEF TypeInv, ReqOK
<1>1. req[r].pc = "block" /\ p \in 1..issued /\ p \in Pairs /\ iat[p] <= now
  BY SessionTypes DEF ReadRemaining, At, Holding, PastInv
<1>2. UNCHANGED <<now, issued, iat, rexp, rows, held, blocked, userBlock, cleaner, ended, resetAt>>
  BY DEF ReadRemaining
<1>3. CASE UNCHANGED out /\ req' = [req EXCEPT ![r].pc = "setBlock", ![r].signed = now]
  <2>1. /\ \A q \in Requests \ {r} : req'[q] = req[q]
        /\ req'[r].pc = "setBlock" /\ req'[r].signed = now
        /\ req'[r].pair = p /\ req'[r].late = req[r].late
    BY <1>0, <1>3 DEF ReqType
  <2>2. req'[r].late => req'[r].pair \in ended
    BY <2>1 DEF SpentInv
  <2> QED
    BY <1>1, <1>2, <1>3, <2>1, <2>2, SessionAside DEF client
<1>4. CASE exp(p) <= now /\ Done(r) /\ out' = out \cup {p}
  <2>1. /\ \A q \in Requests \ {r} : req'[q] = req[q]
        /\ req'[r].pc = "idle" /\ req'[r].signed = 0 /\ req'[r].late = FALSE
    BY <1>4, ReqEffects
  <2>2. PastInv' /\ ReadInv'
    BY <1>2, <2>1, SessionTypes DEF PastInv, ReadInv
  <2>3. SpentInv'
    BY <1>2, <2>1 DEF SpentInv, SpentStaysSpent
  <2>4. SessionLasts' /\ ResetInv'
    BY <1>2 DEF SessionLasts, ResetInv
  <2>5. BlockInv'
    BY <1>2, <1>4 DEF BlockInv, exp
  <2> QED
    BY <2>2, <2>3, <2>4, <2>5
<1> QED
  BY <1>3, <1>4 DEF ReadRemaining

\* Logout blocks the access token for the rest of its life: the clamp of the key's
\* lifetime never bites because the token lives no longer than AccessTTL, and a
\* command that comes late only makes the key live longer.
LEMMA SessionBlock ==
    ASSUME SessionInv, TypeInv', NEW r \in Requests, block_access_token(r)
    PROVE  SessionInv'
<1> USE DEF SessionInv, tokens
<1> DEFINE p == req[r].pair
           read == req[r].signed
<1>1. /\ p \in 1..issued /\ p \in Pairs
      /\ read \in Nat /\ iat[p] <= read /\ read <= now
  BY SessionTypes DEF block_access_token, At, Holding, PastInv, ReadInv
<1>2. exp(p) \in Nat /\ exp(p) - read <= AccessTTL /\ AccessTTL <= BlockMax
  BY <1>1, SessionTypes, SessionsAssumption DEF exp
<1>3. BlockUntil(p, read) >= exp(p) /\ BlockUntil(p, read) \in Int
  BY <1>1, <1>2, SessionTypes, SessionsAssumption DEF BlockUntil
<1>4. /\ \A q \in Requests \ {r} : req'[q] = req[q]
      /\ req'[r].pc = "idle" /\ req'[r].signed = 0 /\ req'[r].late = FALSE
  BY ReqEffects DEF block_access_token
<1>5. UNCHANGED <<now, issued, iat, rexp, rows, held, userBlock, cleaner, ended, resetAt>>
  BY DEF block_access_token
<1>6. PastInv' /\ ReadInv'
  BY <1>4, <1>5, SessionTypes DEF PastInv, ReadInv
<1>7. SpentInv'
  BY <1>4, <1>5 DEF SpentInv, SpentStaysSpent
<1>8. SessionLasts' /\ ResetInv'
  BY <1>5 DEF SessionLasts, ResetInv
<1>9. BlockInv'
  <2>1. out' = out \cup {p}
    BY DEF block_access_token
  <2>2. \A q \in out' : exp(q)' = exp(q)
    BY <1>5 DEF exp
  <2>3. blocked' = [blocked EXCEPT ![p] = BlockUntil(p, read)]
    BY DEF block_access_token
  <2>4. \A q \in out' : blocked'[q] = IF q = p THEN BlockUntil(p, read) ELSE blocked[q]
    BY <1>1, <2>1, <2>3, SessionTypes DEF TypeInv, TokensOK
  <2> QED
    BY <1>3, <1>5, <2>1, <2>2, <2>4 DEF BlockInv
<1> QED
  BY <1>6, <1>7, <1>8, <1>9

\* The end of a reset.
LEMMA SessionBlockAll ==
    ASSUME SessionInv, TypeInv', NEW r \in Requests, block_all_user_tokens(r)
    PROVE  SessionInv'
<1> USE DEF SessionInv, tokens
<1>1. /\ \A q \in Requests \ {r} : req'[q] = req[q]
      /\ req'[r].pc = "idle" /\ req'[r].signed = 0 /\ req'[r].late = FALSE
  BY ReqEffects DEF block_all_user_tokens
<1>2. UNCHANGED <<now, issued, iat, rexp, rows, held, blocked, cleaner, ended, out>>
  BY DEF block_all_user_tokens
<1>3. PastInv' /\ ReadInv'
  BY <1>1, <1>2, SessionTypes DEF PastInv, ReadInv
<1>4. SpentInv'
  BY <1>1, <1>2 DEF SpentInv, SpentStaysSpent
<1>5. SessionLasts' /\ BlockInv'
  BY <1>2 DEF SessionLasts, BlockInv, exp
<1>6. ResetInv'
  <2>1. resetAt' = req[r].signed /\ userBlock' = [at |-> req[r].signed, until |-> now + AccessTTL]
    BY DEF block_all_user_tokens, UserBlock
  <2>2. req[r].signed <= now /\ req[r].signed \in Nat /\ now \in Nat /\ AccessTTL \in Nat
    BY SessionTypes DEF PastInv
  <2> QED
    BY <2>1, <2>2 DEF ResetInv
<1> QED
  BY <1>3, <1>4, <1>5, <1>6

\* The clock and the cleanup job, which deletes rows that have expired.
LEMMA SessionJob ==
    ASSUME SessionInv, TypeInv', Tick \/ CleanupStart \/ Cleanup
    PROVE  SessionInv'
<1> USE DEF SessionInv, tokens, client
<1>1. CASE Tick
  <2>1. now' = now + 1 /\ UNCHANGED <<issued, iat, rexp, rows, held, out, resetAt, blocked,
                                      userBlock, req, cleaner, ended>>
    BY <1>1 DEF Tick
  <2>2. PastInv'
    BY <2>1, SessionTypes DEF PastInv
  <2>3. SpentInv' /\ ResetInv' /\ ReadInv'
    BY <2>1 DEF SpentInv, SpentStaysSpent, ResetInv, ReadInv
  <2>4. SessionLasts'
    BY <2>1, SessionTypes DEF SessionLasts
  <2>5. BlockInv'
    BY <2>1, SessionTypes DEF BlockInv, exp
  <2> QED
    BY <2>2, <2>3, <2>4, <2>5
<1>2. CASE CleanupStart
  BY <1>2, SessionTypes DEF CleanupStart, PastInv, SpentInv, SpentStaysSpent, SessionLasts,
                            BlockInv, exp, ResetInv, ReadInv
<1>3. CASE Cleanup
  <2>1. PICK chunk \in SUBSET rows : /\ \A p \in chunk : MayBeOver(rexp[p])
                                     /\ CleanupChunk(chunk)
    BY <1>3 DEF Cleanup
  <2>2. /\ rows' = rows \ chunk /\ cleaner' \in {0, cleaner}
        /\ UNCHANGED <<now, issued, iat, rexp, held, out, resetAt, blocked, userBlock, req, ended>>
    BY <2>1 DEF CleanupChunk
  <2>3. PastInv'
    BY <2>2, SessionTypes DEF PastInv
  <2>4. SpentInv' /\ ResetInv' /\ BlockInv' /\ ReadInv'
    BY <2>2 DEF SpentInv, SpentStaysSpent, ResetInv, BlockInv, ReadInv, exp
  <2>5. SessionLasts'
    <3>1. \A p \in chunk : ~(now < rexp[p])
      BY <2>1, SessionTypes DEF MayBeOver
    <3> QED
      BY <2>2, <3>1 DEF SessionLasts
  <2> QED
    BY <2>3, <2>4, <2>5
<1> QED
  BY <1>1, <1>2, <1>3

\* Requests that arrive: a refresh of a pair that was ended is late.
LEMMA SessionBegin ==
    ASSUME SessionInv, TypeInv', NEW r \in Requests, Begin(r)
    PROVE  SessionInv'
<1>0. req \in [Requests -> ReqType] /\ now \in Nat
  <2>1. ReqOK /\ ClockOK
    BY DEF SessionInv, TypeInv
  <2> QED
    BY <2>1 DEF ReqOK, ClockOK
<1>1. UNCHANGED <<now, tokens, rows, client, blocked, userBlock, cleaner, ended>>
  BY ZenonT(30) DEF Begin, Issue, Reset, Refresh, Logout, Arrive
<1>2. /\ \A q \in Requests \ {r} : req'[q] = req[q]
      /\ req'[r].signed \in {0, now} /\ req'[r].pc \notin {"sign", "commit", "setBlock"}
  BY <1>0, ZenonT(30) DEF Begin, Issue, Reset, Refresh, Logout, Arrive, Idle
<1>3. req'[r].late => req'[r].pair \in ended
  <2>1. CASE Issue(r) \/ Reset(r) \/ \E p \in Pairs : Logout(r, p)
    BY <1>0, <2>1, ZenonT(30) DEF Issue, Reset, Logout, Arrive, Idle
  <2>2. ASSUME NEW p \in Pairs, Refresh(r, p)
        PROVE  req'[r].late => req'[r].pair \in ended
    <3>1. req'[r].pair = p /\ req'[r].late = (p \in ended)
      BY <1>0, <2>2 DEF Refresh, Arrive, Idle
    <3> QED
      BY <3>1
  <2> QED
    BY <2>1, <2>2 DEF Begin
<1> QED
  BY <1>1, <1>2, <1>3, SessionAside

\* The steps of a request.
LEMMA SessionStep ==
    ASSUME SessionInv, TypeInv', NEW r \in Requests, Step(r) \/ Abandon(r)
    PROVE  SessionInv'
<1>0. TypeInv /\ req \in [Requests -> ReqType] /\ req[r] \in ReqType
  BY DEF SessionInv, TypeInv, ReqOK
<1>1. CASE store_refresh_token(r)
  BY <1>0, <1>1, SessionTypes, SessionNewPair DEF store_refresh_token, SessionInv, PastInv
<1>2. CASE rotate_refresh_token(r)
  <2>1. {req[r].pair} \in SUBSET (1..issued) /\ now \in Nat /\ now <= now
    BY <1>0, <1>2, SessionTypes DEF rotate_refresh_token, At, Holding
  <2> QED
    BY <1>2, <2>1, SessionNewPair DEF rotate_refresh_token
<1>3. CASE RotateFind(r)
  <2> DEFINE p == req[r].pair
  <2>1. CASE Done(r) /\ UNCHANGED <<rows, ended>>
    BY <1>0, <1>3, <2>1, ReqEffects, SessionAside DEF RotateFind
  <2>2. CASE p \in rows /\ Goto(r, "sign") /\ UNCHANGED <<rows, ended>>
    <3>1. ~req[r].late
      BY <2>2 DEF SessionInv, SpentInv
    <3> QED
      BY <1>0, <1>3, <2>2, <3>1, ReqEffects, SessionAside, ZenonT(30) DEF RotateFind
  <2>3. CASE rows' = rows \ {p} /\ ended' = ended \cup {p} /\ Done(r)
    BY <1>3, <2>3, SessionRevoke DEF RotateFind
  <2> QED
    BY <1>3, <2>1, <2>2, <2>3 DEF RotateFind
<1>4. CASE RotateSign(r)
  <2>1. /\ \A q \in Requests \ {r} : req'[q] = req[q]
        /\ req'[r].signed = now /\ req'[r].late = req[r].late /\ req[r].pc = "sign"
        /\ req'[r].pc = "commit"
    BY <1>0, <1>4 DEF RotateSign, At, ReqType
  <2>2. ~req[r].late
    BY <2>1 DEF SessionInv, SpentInv, SpentStaysSpent
  <2> QED
    BY <1>4, <2>1, <2>2, SessionAside DEF RotateSign
<1>5. CASE revoke_refresh_token(r)
  <2>1. /\ rows' = rows \ {req[r].pair} /\ ended' = ended \cup {req[r].pair}
        /\ Goto(r, "block") \/ Done(r)
        /\ UNCHANGED <<now, tokens, client, blocked, userBlock, cleaner>>
    BY <1>5 DEF revoke_refresh_token
  <2>2. \/ \E pc : Goto(r, pc) /\ pc \notin {"sign", "commit", "setBlock"}
        \/ Done(r)
    <3>1. "block" \notin {"sign", "commit", "setBlock"}
      OBVIOUS
    <3> QED
      BY <2>1, <3>1, Zenon
  <2>3. ended \subseteq ended' /\ rows \cap {req[r].pair} \subseteq ended'
        /\ ended' \subseteq ended \cup {req[r].pair}
    BY <2>1
  <2> QED
    BY <2>1, <2>2, <2>3, SessionRevoke, Zenon
<1>6. CASE revoke_all_refresh_tokens(r)
  <2>1. rows' = rows \ rows /\ ended' = ended \cup rows /\ Goto(r, "blockAll")
        /\ UNCHANGED <<now, tokens, client, blocked, userBlock, cleaner>>
    BY <1>6 DEF revoke_all_refresh_tokens
  <2> QED
    BY <2>1, SessionRevoke
<1>7. CASE Abandon(r)
  BY <1>0, <1>7, ReqEffects, SessionAside DEF Abandon
<1>8. CASE ReadBlockedAt(r)
  <2>1. /\ \A q \in Requests \ {r} : req'[q] = req[q]
        /\ req'[r].signed = now /\ req'[r].late = req[r].late /\ req'[r].pair = req[r].pair
        /\ req'[r].pc = "setAll"
    BY <1>0, <1>8 DEF ReadBlockedAt, ReqType
  <2>2. req[r].late => req[r].pair \in ended
    BY DEF SessionInv, SpentInv
  <2> QED
    BY <1>8, <2>1, <2>2, SessionAside DEF ReadBlockedAt
<1> QED
  BY <1>1, <1>2, <1>3, <1>4, <1>5, <1>6, <1>7, <1>8, SessionRead, SessionBlock, SessionBlockAll
     DEF Step

\* Any step.
LEMMA SessionNext == SessionInv /\ [Next]_vars => SessionInv'
<1> SUFFICES ASSUME SessionInv, [Next]_vars PROVE SessionInv'
  OBVIOUS
<1>0. TypeInv'
  BY TypeNext DEF SessionInv
<1>1. CASE UNCHANGED vars
  BY <1>0, <1>1, SessionAside DEF vars, tokens, client
<1>2. CASE Next
  BY <1>0, <1>2, SessionBegin, SessionStep, SessionJob DEF Next
<1> QED
  BY <1>1, <1>2

\* A logged-out access token is refused until its last second, whatever its
\* lifetime and whenever the logout came.
THEOREM LogoutCorrect == Spec => []LoggedOutStaysOut
<1>1. SessionInv => LoggedOutStaysOut
  <2> SUFFICES ASSUME SessionInv, NEW p \in out, MayAuthorize(p) PROVE now = exp(p)
    BY DEF LoggedOutStaysOut
  <2>1. blocked[p] >= exp(p) \/ exp(p) <= now
    BY DEF SessionInv, BlockInv
  <2>2. now <= exp(p) /\ blocked[p] <= now
    BY DEF MayAuthorize, MayPassBlocklist, MayBeOver, Decodes
  <2>3. now \in Nat /\ exp(p) \in Nat /\ blocked[p] \in Int
    BY SessionTypes DEF SessionInv, exp
  <2> QED
    BY <2>1, <2>2, <2>3
<1> QED
  BY <1>1, SessionInit, SessionNext, PTL DEF Spec

\* No access token signed before the blocked_at of the password reset answered last
\* is let through, also if its request was under way during the reset, and however
\* long after blocked_at the block was set.
THEOREM ResetCorrect == Spec => []ResetRefusesEarlier
<1>1. SessionInv => ResetRefusesEarlier
  <2> SUFFICES ASSUME SessionInv, NEW p \in held, MayAuthorize(p) PROVE iat[p] >= resetAt
    BY DEF ResetRefusesEarlier
  <2>1. /\ now \in Nat /\ iat[p] \in Nat /\ resetAt \in Nat /\ AccessTTL \in Nat
        /\ userBlock.until \in Nat
    BY SessionTypes DEF SessionInv, TypeInv, TokensOK
  <2>2. now <= iat[p] + AccessTTL /\ (userBlock.until <= now \/ ~(iat[p] < userBlock.at))
    BY DEF MayAuthorize, MayPassBlocklist, MayBeOver, Decodes, exp
  <2>3. resetAt = 0 \/ (userBlock.at = resetAt /\ userBlock.until >= resetAt + AccessTTL)
    BY DEF SessionInv, ResetInv
  <2> QED
    BY <2>1, <2>2, <2>3
<1> QED
  BY <1>1, SessionInit, SessionNext, PTL DEF Spec

\* A refresh that arrives after its token was ended never issues a pair.
THEOREM SpentCorrect == Spec => []SpentStaysSpent
<1>1. SessionInv => SpentStaysSpent
  BY DEF SessionInv, SpentInv
<1> QED
  BY <1>1, SessionInit, SessionNext, PTL DEF Spec

\* A refresh token the client holds keeps its row until it expires or is ended.
THEOREM LastsCorrect == Spec => []SessionLasts
<1>1. SessionInv => SessionLasts
  BY DEF SessionInv
<1> QED
  BY <1>1, SessionInit, SessionNext, PTL DEF Spec

\* When the cleanup job stops, every row that had expired when it started is gone.
THEOREM CleanupCorrect == Spec => CleanupComplete
<1>1. SessionInv /\ [Next]_vars =>
        [cleaner # 0 /\ cleaner' = 0 => \A p \in rows' : rexp[p] >= cleaner]_vars
  <2> SUFFICES ASSUME SessionInv, Next, cleaner # 0, cleaner' = 0, NEW p \in rows'
               PROVE  rexp[p] >= cleaner
    OBVIOUS
  <2>0. now \in Nat \ {0} /\ cleaner \in Nat /\ cleaner <= now
    <3>1. TypeInv /\ cleaner <= now
      BY DEF SessionInv, PastInv
    <3>2. ClockOK
      BY <3>1 DEF TypeInv
    <3> QED
      BY <3>1, <3>2 DEF ClockOK
  <2>1. Cleanup
    BY <2>0, ZenonT(30) DEF Next, Tick, CleanupStart, Begin, Issue, Reset, Refresh, Logout, Arrive, Step,
          store_refresh_token, RotateFind, RotateSign, rotate_refresh_token, NewPair,
          revoke_refresh_token, ReadRemaining, block_access_token, revoke_all_refresh_tokens,
          ReadBlockedAt, block_all_user_tokens, Abandon
  <2>2. PICK over \in SUBSET rows, chunk \in SUBSET rows :
           /\ chunk \subseteq over /\ Expired \subseteq over
           /\ (chunk = over /\ Cardinality(over) <= Batch) \/ Cardinality(chunk) = Batch
           /\ CleanupChunk(chunk)
    BY <2>1 DEF Cleanup
  <2>3. ~MoreChunks(Cardinality(chunk)) /\ rows' = rows \ chunk
    BY <2>2 DEF CleanupChunk
  <2>4. chunk = over
    BY <2>2, <2>3, SessionsAssumption DEF MoreChunks
  <2>5. p \in rows /\ p \notin Expired
    BY <2>2, <2>3, <2>4
  <2>6. rexp[p] \in Nat
    BY <2>5, SessionTypes DEF SessionInv
  <2> QED
    BY <2>0, <2>5, <2>6 DEF Expired
<1> QED
  BY <1>1, SessionInit, SessionNext, PTL DEF Spec, CleanupComplete
=============================================================================
