--------------------------- MODULE AccountsProofs ---------------------------
(* Theorems about Accounts for any number of concurrent requests, any          *)
(* passwords and any limits: what a mailed code and a verified address are     *)
(* worth although every request may be overtaken or cut off at an await.       *)
EXTENDS Accounts, SequenceTheorems, TLAPS

-----------------------------------------------------------------------------
(* The type invariant, part by part *)

RecType(n) == [pc: Pcs, type: Types, code: 0..n, pwd: Passwords \cup {"none"},
               vouched: BOOLEAN]

AccountOK == account \in [row: BOOLEAN, verified: BOOLEAN, pwd: Passwords \cup {"none"},
                          google: {"none", "sub", "address"}]
CodesOK == codes \in Seq(Types) /\ otp \in [Types -> 0..Len(codes)]
KeysOK ==
    /\ tries \in [Types -> [n: 0..(MaxTries + 1), ttl: BOOLEAN]]
    /\ cooldown \in BOOLEAN /\ logins \in 0..(MaxLogins + 1) /\ oauth \in BOOLEAN
ReqOK == req \in [Requests -> RecType(Len(codes))]
HistoryOK ==
    /\ arrived \in Nat /\ proved \in BOOLEAN
    /\ lost \subseteq {"identity"} \cup Types

TypeInv == AccountOK /\ CodesOK /\ KeysOK /\ ReqOK /\ HistoryOK

\* The parts make the whole.
LEMMA TypeParts == TypeInv => TypeOK
<1> SUFFICES ASSUME TypeInv PROVE TypeOK
  OBVIOUS
<1>1. AccountOK /\ CodesOK /\ KeysOK /\ ReqOK /\ HistoryOK
  BY DEF TypeInv
<1> QED
  BY <1>1, Zenon DEF TypeOK, AccountOK, CodesOK, KeysOK, ReqOK, HistoryOK, RecType

-----------------------------------------------------------------------------
(* What a step does to the requests *)

\* The rest of the record but pc stays.
Same(q) ==
    /\ req'[q].type = req[q].type /\ req'[q].code = req[q].code /\ req'[q].pwd = req[q].pwd
    /\ req'[q].vouched = req[q].vouched

Elsewhere(r) == \A q \in Requests \ {r} : Same(q) /\ req'[q].pc = req[q].pc
Moves(r, pc) == Elsewhere(r) /\ Same(r) /\ req'[r].pc = pc
Ends(r) == Elsewhere(r) /\ req'[r] = Idle

\* The control flow: where a step may take a request, and what it has checked.
Flow(r, pc) ==
    \/ At(r, "incr") /\ pc \in {"expire", "get"}
    \/ At(r, "expire") /\ pc = "get"
    \/ At(r, "get") /\ pc = "delTries" /\ Matches(r)
    \/ At(r, "delTries") /\ pc = "delOtp"
    \/ At(r, "delOtp") /\ pc = Accepted(req[r].type)
    \/ At(r, "create") /\ pc = "identity"
    \/ At(r, "identity") /\ pc = "otp"
    \/ At(r, "can") /\ pc = "drop"
    \/ At(r, "drop") /\ pc = "store"
    \/ At(r, "store") /\ pc = "cool"
    \/ At(r, "update") /\ pc = "revoke"
    \/ At(r, "find") /\ pc = "user" /\ account.pwd = req[r].pwd
    \/ At(r, "state") /\ pc = "google"
    \/ At(r, "google") /\ pc = "email"
    \/ At(r, "email") /\ pc \in {"link", "gCreate"}
    \/ At(r, "gCreate") /\ pc = "gIdentity"
    \/ At(r, "gIdentity") /\ pc = "gVerify" /\ req[r].vouched

\* A record is a record: what EXCEPT does to one.
LEMMA RecordMoves ==
    ASSUME NEW n \in Nat, NEW q \in RecType(n), NEW pc \in Pcs
    PROVE  /\ [q EXCEPT !.pc = pc] \in RecType(n)
           /\ [q EXCEPT !.pc = pc].pc = pc
           /\ [q EXCEPT !.pc = pc].type = q.type /\ [q EXCEPT !.pc = pc].code = q.code
           /\ [q EXCEPT !.pc = pc].pwd = q.pwd /\ [q EXCEPT !.pc = pc].vouched = q.vouched
BY DEF RecType

\* More codes, more records.
LEMMA RecordWiden ==
    ASSUME NEW m \in Nat, NEW n \in Nat, m <= n
    PROVE  RecType(m) \subseteq RecType(n)
BY DEF RecType

\* A slot with no request is a record too.
LEMMA IdleType == ASSUME NEW n \in Nat PROVE Idle \in RecType(n)
BY DEF Idle, RecType, Pcs, Types

\* Goto and Done in these terms.
LEMMA ReqEffects ==
    ASSUME NEW n \in Nat, req \in [Requests -> RecType(n)], NEW r \in Requests
    PROVE  /\ \A pc \in Pcs : Goto(r, pc) =>
                 Moves(r, pc) /\ req' \in [Requests -> RecType(n)]
           /\ Done(r) => Ends(r) /\ req' \in [Requests -> RecType(n)]
<1>0. req[r] \in RecType(n) /\ Idle \in RecType(n)
  BY IdleType
<1>1. ASSUME NEW pc \in Pcs, Goto(r, pc)
      PROVE  Moves(r, pc) /\ req' \in [Requests -> RecType(n)]
  <2>1. req' = [req EXCEPT ![r] = [req[r] EXCEPT !.pc = pc]]
    BY <1>1 DEF Goto
  <2>2. \A q \in Requests : req'[q] = IF q = r THEN [req[r] EXCEPT !.pc = pc] ELSE req[q]
    BY <2>1
  <2> QED
    BY <1>0, <2>1, <2>2, RecordMoves DEF Moves, Elsewhere, Same
<1>2. ASSUME Done(r)
      PROVE  Ends(r) /\ req' \in [Requests -> RecType(n)]
  BY <1>0, <1>2 DEF Done, Ends, Elsewhere, Same
<1> QED
  BY <1>1, <1>2

\* A step of a request ends it or takes it one edge along the control flow.
LEMMA StepFlow ==
    ASSUME ReqOK, codes \in Seq(Types), NEW r \in Requests, Step(r) \/ Abandon(r)
    PROVE  /\ req' \in [Requests -> RecType(Len(codes))]
           /\ Ends(r) \/ \E pc \in Pcs : Flow(r, pc) /\ Moves(r, pc)
<1> DEFINE Typed == req' \in [Requests -> RecType(Len(codes))]
<1>0. Len(codes) \in Nat /\ req \in [Requests -> RecType(Len(codes))]
  BY LenProperties DEF ReqOK
<1>1. \A pc \in Pcs : Goto(r, pc) => Moves(r, pc) /\ Typed
  BY <1>0, ReqEffects
<1>2. Done(r) => Ends(r) /\ Typed
  BY <1>0, ReqEffects
<1> HIDE DEF Typed
<1> SUFFICES Typed /\ (Ends(r) \/ \E pc \in Pcs : Flow(r, pc) /\ Moves(r, pc))
  BY DEF Typed
<1> USE DEF Flow, Pcs
<1>4. CASE VerifyOtp(r)
  <2>1. CASE VerifyOtpIncr(r)
    BY <1>1, <1>2, <2>1 DEF VerifyOtpIncr, GotoIf
  <2>2. CASE VerifyOtpExpire(r)
    BY <1>1, <1>2, <2>2 DEF VerifyOtpExpire, GotoIf
  <2>3. CASE VerifyOtpGet(r)
    BY <1>1, <1>2, <2>3 DEF VerifyOtpGet, GotoIf
  <2>4. CASE VerifyOtpDelTries(r)
    BY <1>1, <2>4 DEF VerifyOtpDelTries
  <2>5. CASE VerifyOtpDel(r)
    BY <1>1, <2>5 DEF VerifyOtpDel, Accepted
  <2> QED
    BY <1>4, <2>1, <2>2, <2>3, <2>4, <2>5 DEF VerifyOtp
<1>5. CASE RegisterCreateUser(r) \/ GoogleCreateUser(r)
  BY <1>1, <1>2, <1>5 DEF RegisterCreateUser, GoogleCreateUser, create_user, GotoIf
<1>6. CASE RegisterCreateIdentity(r) \/ update_password(r)
  BY <1>1, <1>6 DEF RegisterCreateIdentity, update_password
<1>7. CASE can_resend_otp(r) \/ LoginFind(r) \/ GoogleFind(r)
  BY <1>1, <1>2, <1>7 DEF can_resend_otp, LoginFind, GoogleFind, GotoIf
<1>8. CASE ResendRevoke(r) \/ ResendStore(r) \/ GoogleState(r) \/ GoogleEmail(r)
  BY <1>1, <1>8 DEF ResendRevoke, ResendStore, GoogleState, GoogleEmail
<1>9. CASE GoogleIdentity(r)
  BY <1>1, <1>2, <1>9 DEF GoogleIdentity, AfterIdentity, GotoIf
<1>10. CASE \/ set_verified(r) \/ RegisterOtp(r) \/ set_resend_cooldown(r) \/ ForgotStore(r)
            \/ ResetRevoke(r) \/ LoginUser(r) \/ GoogleLink(r) \/ GoogleVerify(r) \/ Abandon(r)
  BY <1>2, <1>10 DEF set_verified, RegisterOtp, set_resend_cooldown, ForgotStore,
       ResetRevoke, LoginUser, GoogleLink, GoogleVerify, Abandon
<1> QED
  BY <1>4, <1>5, <1>6, <1>7, <1>8, <1>9, <1>10 DEF Step

-----------------------------------------------------------------------------
(* The invariant *)

\* What a request carries with it: a code that verify_otp took was mailed for its
\* purpose; who verifies an address or stores a password has what it takes.
ReqInv ==
    \A r \in Requests :
        /\ Taken(r) => req[r].code \in 1..Len(codes) /\ codes[req[r].code] = req[r].type
        /\ At(r, "verify") => req[r].type = "verify"
        /\ req[r].pc \in {"update", "revoke"} => req[r].type = "reset"
        /\ At(r, "gVerify") => req[r].vouched
        /\ req[r].pc \in {"create", "identity", "update"} => req[r].pwd # "none"
        /\ (/\ req[r].pc \in {"incr", "expire", "get", "delTries", "delOtp"}
            /\ req[r].type = "reset") => req[r].pwd # "none"

\* What Redis stores under a type was mailed for it.
OtpInv == \A t \in Types : otp[t] # 0 => codes[otp[t]] = t

AccountInv ==
    /\ TypeInv /\ ReqInv /\ OtpInv
    /\ VerifiedIsProved /\ NoStrandedUser /\ LockoutEnds

\* Codes are only added.
Growing ==
    /\ codes' \in Seq(Types) /\ Len(codes) \in Nat /\ Len(codes') \in Nat
    /\ Len(codes) <= Len(codes')
    /\ \A i \in 1..Len(codes) : codes'[i] = codes[i]

\* At the start there is nothing.
LEMMA AccountInit == Init => AccountInv
<1> SUFFICES ASSUME Init PROVE AccountInv
  OBVIOUS
<1> USE AccountsAssumption DEF Init
<1>0. codes = << >> /\ codes \in Seq(Types) /\ Len(codes) = 0
  OBVIOUS
<1>1. AccountOK /\ KeysOK /\ HistoryOK
  <2>1. AccountOK
    BY DEF AccountOK
  <2>2. KeysOK
    <3>1. [n |-> 0, ttl |-> FALSE] \in [n: 0..(MaxTries + 1), ttl: BOOLEAN]
      OBVIOUS
    <3>2. logins \in 0..(MaxLogins + 1)
      OBVIOUS
    <3> QED
      BY <3>1, <3>2 DEF KeysOK
  <2>3. HistoryOK
    BY DEF HistoryOK
  <2> QED
    BY <2>1, <2>2, <2>3
<1>2. CodesOK
  BY <1>0 DEF CodesOK
<1>3. ReqOK
  BY <1>0, IdleType DEF ReqOK
<1>4. \A r \in Requests : req[r].pc = "idle"
  BY DEF Idle
<1>5. ReqInv
  BY <1>4 DEF ReqInv, Taken, At
<1>6. OtpInv
  BY DEF OtpInv
<1>7. VerifiedIsProved /\ NoStrandedUser
  BY DEF VerifiedIsProved, NoStrandedUser
<1>8. LockoutEnds
  BY DEF LockoutEnds
<1> QED
  BY <1>1, <1>2, <1>3, <1>5, <1>6, <1>7, <1>8 DEF AccountInv, TypeInv

-----------------------------------------------------------------------------
(* Codes *)

\* What happens to the codes: nothing, one is revoked, or one is mailed.
CodesStay == UNCHANGED <<codes, otp>>
CodeRevoked == UNCHANGED codes /\ \E t \in Types : revoke_otp(t)
CodeMailed == \E t \in Types : store_otp(t)

\* Revoking and mailing codes, or leaving them alone, keeps what is stored under a
\* type mailed for it.
LEMMA CodesKept ==
    ASSUME TypeInv, OtpInv, CodesStay \/ CodeRevoked \/ CodeMailed
    PROVE  CodesOK' /\ Growing /\ OtpInv'
<1>0. codes \in Seq(Types) /\ Len(codes) \in Nat /\ otp \in [Types -> 0..Len(codes)]
  BY LenProperties DEF TypeInv, CodesOK
<1>1. CASE CodesStay
  BY <1>0, <1>1 DEF CodesStay, CodesOK, Growing, OtpInv
<1>2. CASE CodeRevoked
  <2>1. PICK t \in Types : otp' = [otp EXCEPT ![t] = 0]
    BY <1>2 DEF CodeRevoked, revoke_otp
  <2>2. codes' = codes
    BY <1>2 DEF CodeRevoked
  <2> QED
    BY <1>0, <2>1, <2>2 DEF CodesOK, Growing, OtpInv
<1>3. CASE CodeMailed
  <2>1. PICK t \in Types : codes' = Append(codes, t) /\ otp' = [otp EXCEPT ![t] = Len(codes) + 1]
    BY <1>3 DEF CodeMailed, store_otp
  <2>3. /\ codes' \in Seq(Types) /\ Len(codes') = Len(codes) + 1
        /\ \A i \in 1..Len(codes) : codes'[i] = codes[i]
        /\ codes'[Len(codes) + 1] = t
    BY <1>0, <2>1, AppendProperties
  <2>4. CodesOK' /\ Growing
    BY <1>0, <2>1, <2>3 DEF CodesOK, Growing
  <2>5. ASSUME NEW u \in Types, otp'[u] # 0
        PROVE  codes'[otp'[u]] = u
    <3>1. CASE u = t
      BY <1>0, <2>1, <2>3, <3>1
    <3>2. CASE u # t
      BY <1>0, <2>1, <2>3, <2>5, <3>2 DEF OtpInv
    <3> QED
      BY <3>1, <3>2
  <2> QED
    BY <2>4, <2>5 DEF OtpInv
<1> QED
  BY <1>1, <1>2, <1>3

\* A step of a request does one of these.
LEMMA StepCodes ==
    ASSUME TypeInv, NEW r \in Requests, Step(r) \/ Abandon(r)
    PROVE  CodesStay \/ CodeRevoked \/ CodeMailed
<1>0. req[r].type \in Types /\ "verify" \in Types /\ "reset" \in Types
  BY DEF TypeInv, ReqOK, RecType, Types
<1> USE DEF CodesStay, CodeRevoked, CodeMailed, keys, history
<1>1. CASE VerifyOtp(r)
  BY <1>0, <1>1 DEF VerifyOtp, VerifyOtpIncr, VerifyOtpExpire, VerifyOtpGet, VerifyOtpDelTries,
       VerifyOtpDel
<1>2. CASE ResendRevoke(r) \/ ResetRevoke(r)
  BY <1>0, <1>2 DEF ResendRevoke, ResetRevoke
<1>3. CASE RegisterOtp(r) \/ ResendStore(r) \/ ForgotStore(r)
  BY <1>0, <1>3 DEF RegisterOtp, ResendStore, ForgotStore
<1>4. CASE \/ RegisterCreateUser(r) \/ GoogleCreateUser(r) \/ RegisterCreateIdentity(r)
           \/ update_password(r) \/ set_verified(r) \/ GoogleLink(r) \/ GoogleIdentity(r)
           \/ GoogleVerify(r)
  BY <1>4 DEF RegisterCreateUser, GoogleCreateUser, create_user, RegisterCreateIdentity,
       update_password, set_verified, GoogleLink, GoogleIdentity, GoogleVerify
<1>5. CASE \/ can_resend_otp(r) \/ set_resend_cooldown(r) \/ LoginFind(r) \/ LoginUser(r)
           \/ GoogleState(r) \/ GoogleFind(r) \/ GoogleEmail(r) \/ Abandon(r)
  BY <1>5 DEF can_resend_otp, set_resend_cooldown, LoginFind, LoginUser, GoogleState,
       GoogleFind, GoogleEmail, Abandon
<1> QED
  BY <1>1, <1>2, <1>3, <1>4, <1>5 DEF Step

-----------------------------------------------------------------------------
(* Requests *)

\* Along the control flow, and while codes are added, requests stay what they claim.
LEMMA ReqKept ==
    ASSUME TypeInv, ReqOK', ReqInv, OtpInv, Growing, NEW r \in Requests,
           Ends(r) \/ \E pc \in Pcs : Flow(r, pc) /\ Moves(r, pc)
    PROVE  ReqInv'
<1>0. /\ \A q \in Requests : /\ req[q].vouched \in BOOLEAN /\ req'[q].vouched \in BOOLEAN
                              /\ req[q].type \in Types
      /\ Len(codes) \in Nat /\ otp \in [Types -> 0..Len(codes)]
  BY LenProperties DEF TypeInv, ReqOK, RecType, CodesOK
<1>1. ASSUME NEW q \in Requests, Same(q), req'[q].pc = req[q].pc
      PROVE  ReqInv!(q)'
  BY <1>0, <1>1 DEF ReqInv, Same, Taken, At, Growing
<1>2. ASSUME req'[r] = Idle
      PROVE  ReqInv!(r)'
  BY <1>2 DEF Idle, Taken, At
<1>3. ASSUME NEW pc \in Pcs, Flow(r, pc), Same(r), req'[r].pc = pc
      PROVE  ReqInv!(r)'
  <2>1. Taken(r)' => req'[r].code \in 1..Len(codes') /\ codes'[req'[r].code] = req'[r].type
    <3>1. Taken(r)' => Taken(r) \/ Matches(r)
      BY <1>3 DEF Flow, Taken, At, Accepted
    <3>2. Matches(r) => req[r].code \in 1..Len(codes) /\ codes[req[r].code] = req[r].type
      BY <1>0 DEF Matches, OtpInv
    <3> QED
      BY <1>0, <1>3, <3>1, <3>2 DEF ReqInv, Same, Growing
  <2>2. /\ At(r, "verify")' => req'[r].type = "verify"
        /\ req'[r].pc \in {"update", "revoke"} => req'[r].type = "reset"
        /\ At(r, "gVerify")' => req'[r].vouched
    BY <1>0, <1>3 DEF ReqInv, Same, Flow, At, Accepted, Types
  <2>3. /\ req'[r].pc \in {"create", "identity", "update"} => req'[r].pwd # "none"
        /\ (/\ req'[r].pc \in {"incr", "expire", "get", "delTries", "delOtp"}
            /\ req'[r].type = "reset") => req'[r].pwd # "none"
    BY <1>0, <1>3 DEF ReqInv, Same, Flow, At, Accepted, Types
  <2> QED
    BY <2>1, <2>2, <2>3
<1> QED
  BY <1>1, <1>2, <1>3 DEF ReqInv, Moves, Ends, Elsewhere

-----------------------------------------------------------------------------
(* The steps of a request *)

\* One column of a record.
LEMMA AccountMoves ==
    ASSUME AccountOK
    PROVE  /\ [account EXCEPT !.row = TRUE] \in [row: BOOLEAN, verified: BOOLEAN,
                  pwd: Passwords \cup {"none"}, google: {"none", "sub", "address"}]
           /\ [account EXCEPT !.verified = TRUE] \in [row: BOOLEAN, verified: BOOLEAN,
                  pwd: Passwords \cup {"none"}, google: {"none", "sub", "address"}]
           /\ \A p \in Passwords \cup {"none"} :
                 [account EXCEPT !.pwd = p] \in [row: BOOLEAN, verified: BOOLEAN,
                    pwd: Passwords \cup {"none"}, google: {"none", "sub", "address"}]
           /\ \A g \in {"none", "sub", "address"} :
                 [account EXCEPT !.google = g] \in [row: BOOLEAN, verified: BOOLEAN,
                    pwd: Passwords \cup {"none"}, google: {"none", "sub", "address"}]
BY DEF AccountOK

\* Columns, counters and flags keep their types.
LEMMA StepType ==
    ASSUME TypeInv, NEW r \in Requests, Step(r) \/ Abandon(r)
    PROVE  /\ AccountOK' /\ KeysOK' /\ arrived' = arrived
           /\ proved' \in BOOLEAN /\ lost' \subseteq {"identity"} \cup Types
<1>0. /\ req[r].type \in Types /\ req[r].pwd \in Passwords \cup {"none"}
      /\ req[r].vouched \in BOOLEAN
  BY DEF TypeInv, ReqOK, RecType
<1>1. AccountOK /\ KeysOK /\ proved \in BOOLEAN /\ lost \subseteq {"identity"} \cup Types
  BY DEF TypeInv, HistoryOK
<1>2. /\ account.google \in {"none", "sub", "address"}
      /\ MaxTries \in Nat /\ MaxLogins \in Nat
      /\ tries \in [Types -> [n: 0..(MaxTries + 1), ttl: BOOLEAN]]
      /\ \A t \in Types : tries[t].n \in 0..(MaxTries + 1) /\ tries[t].ttl \in BOOLEAN
      /\ logins \in 0..(MaxLogins + 1)
  BY <1>1, AccountsAssumption DEF AccountOK, KeysOK
<1>3. CASE VerifyOtp(r)
  <2>1. UNCHANGED <<account, cooldown, logins, oauth, arrived, proved, lost>>
    BY <1>3 DEF VerifyOtp, VerifyOtpIncr, VerifyOtpExpire, VerifyOtpGet, VerifyOtpDelTries,
         VerifyOtpDel, keys, history
  <2>2. tries' \in [Types -> [n: 0..(MaxTries + 1), ttl: BOOLEAN]]
    <3>1. CASE VerifyOtpIncr(r)
      <4> DEFINE n == tries[req[r].type].n + 1
                 m == IF n > MaxTries THEN MaxTries + 1 ELSE n
      <4>1. m \in 0..(MaxTries + 1)
        BY <1>0, <1>2
      <4>2. [tries[req[r].type] EXCEPT !.n = m] \in [n: 0..(MaxTries + 1), ttl: BOOLEAN]
        BY <1>0, <1>2, <4>1
      <4>3. tries' = [tries EXCEPT ![req[r].type] = [tries[req[r].type] EXCEPT !.n = m]]
        BY <3>1 DEF VerifyOtpIncr
      <4> QED
        BY <1>2, <4>2, <4>3
    <3>2. CASE VerifyOtpExpire(r)
      <4> DEFINE t == req[r].type
                 b == tries[t].n > 0
      <4>0. tries[t] \in [n: 0..(MaxTries + 1), ttl: BOOLEAN] /\ b \in BOOLEAN
        BY <1>0, <1>2
      <4> HIDE DEF b
      <4>1. [tries[t] EXCEPT !.ttl = b] \in [n: 0..(MaxTries + 1), ttl: BOOLEAN]
        BY <4>0
      <4>2. tries' = [tries EXCEPT ![t] = [tries[t] EXCEPT !.ttl = b]]
        BY <3>2 DEF VerifyOtpExpire, b
      <4> QED
        BY <1>2, <4>1, <4>2
    <3>3. CASE VerifyOtpGet(r) \/ VerifyOtpDel(r)
      BY <1>2, <3>3 DEF VerifyOtpGet, VerifyOtpDel, keys
    <3>4. CASE VerifyOtpDelTries(r)
      <4>1. [n |-> 0, ttl |-> FALSE] \in [n: 0..(MaxTries + 1), ttl: BOOLEAN]
        BY <1>2
      <4>2. \/ tries' = tries
            \/ tries' = [tries EXCEPT ![req[r].type] = [n |-> 0, ttl |-> FALSE]]
        BY <3>4 DEF VerifyOtpDelTries
      <4> QED
        BY <1>0, <1>2, <4>1, <4>2
    <3> QED
      BY <1>3, <3>1, <3>2, <3>3, <3>4 DEF VerifyOtp
  <2> QED
    BY <1>1, <2>1, <2>2 DEF AccountOK, KeysOK
<1>4. CASE \/ RegisterCreateUser(r) \/ GoogleCreateUser(r) \/ RegisterCreateIdentity(r)
           \/ update_password(r) \/ set_verified(r) \/ GoogleLink(r) \/ GoogleIdentity(r)
           \/ GoogleVerify(r)
  <2>1. UNCHANGED <<keys, arrived, lost>>
    BY <1>4 DEF RegisterCreateUser, GoogleCreateUser, create_user, RegisterCreateIdentity,
         update_password, set_verified, GoogleLink, GoogleIdentity, GoogleVerify, history
  <2>2. AccountOK'
    <3>1. CASE RegisterCreateUser(r) \/ GoogleCreateUser(r)
      BY <1>1, <3>1, AccountMoves DEF AccountOK, RegisterCreateUser, GoogleCreateUser, create_user
    <3>2. CASE RegisterCreateIdentity(r) \/ update_password(r)
      BY <1>0, <1>1, <3>2, AccountMoves DEF AccountOK, RegisterCreateIdentity, update_password
    <3>3. CASE set_verified(r) \/ GoogleVerify(r)
      BY <1>1, <3>3, AccountMoves DEF AccountOK, set_verified, GoogleVerify
    <3>4. CASE GoogleLink(r) \/ GoogleIdentity(r)
      BY <1>1, <1>2, <3>4, AccountMoves DEF AccountOK, GoogleLink, GoogleIdentity
    <3> QED
      BY <1>4, <3>1, <3>2, <3>3, <3>4
  <2>3. proved' \in BOOLEAN
    BY <1>0, <1>1, <1>4 DEF RegisterCreateUser, GoogleCreateUser, create_user,
         RegisterCreateIdentity, update_password, set_verified, GoogleLink, GoogleIdentity,
         GoogleVerify, history
  <2> QED
    BY <1>1, <2>1, <2>2, <2>3 DEF KeysOK, keys
<1>5. CASE \/ RegisterOtp(r) \/ ResendStore(r) \/ ForgotStore(r) \/ ResendRevoke(r)
           \/ ResetRevoke(r) \/ can_resend_otp(r) \/ set_resend_cooldown(r) \/ LoginFind(r)
           \/ LoginUser(r) \/ GoogleState(r) \/ GoogleFind(r) \/ GoogleEmail(r)
  <2>1. UNCHANGED <<account, tries, arrived, proved, lost>>
    BY <1>5 DEF RegisterOtp, ResendStore, ForgotStore, ResendRevoke, ResetRevoke,
         can_resend_otp, set_resend_cooldown, LoginFind, LoginUser, GoogleState, GoogleFind,
         GoogleEmail, keys, history
  <2>2. cooldown' \in {cooldown, TRUE} /\ logins' \in {0, logins} /\ oauth' \in {oauth, FALSE}
    BY <1>5 DEF RegisterOtp, ResendStore, ForgotStore, ResendRevoke, ResetRevoke,
         can_resend_otp, set_resend_cooldown, LoginFind, LoginUser, GoogleState, GoogleFind,
         GoogleEmail, keys, history
  <2>3. logins' \in 0..(MaxLogins + 1)
    BY <1>2, <2>2
  <2>4. cooldown' \in BOOLEAN /\ oauth' \in BOOLEAN
    BY <1>1, <2>2, Zenon DEF KeysOK
  <2> QED
    BY <1>1, <1>2, <2>1, <2>3, <2>4 DEF AccountOK, KeysOK
<1>6. CASE Abandon(r)
  BY <1>0, <1>1, <1>6 DEF Abandon, AccountOK, KeysOK, keys
<1> QED
  BY <1>3, <1>4, <1>5, <1>6 DEF Step

\* The steps that write users and identities.
Writes(r) ==
    \/ RegisterCreateUser(r) \/ GoogleCreateUser(r) \/ RegisterCreateIdentity(r)
    \/ update_password(r) \/ set_verified(r) \/ GoogleLink(r) \/ GoogleIdentity(r)
    \/ GoogleVerify(r)

\* No other step does, or leaves the middle of a creation but by failing.
LEMMA OnlyWrites ==
    ASSUME NEW r \in Requests, Step(r) \/ Abandon(r), ~Writes(r)
    PROVE  /\ UNCHANGED <<account, proved>>
           /\ Step(r) => ~At(r, "identity") /\ ~At(r, "gIdentity")
<1>1. CASE VerifyOtp(r)
  BY <1>1 DEF VerifyOtp, VerifyOtpIncr, VerifyOtpExpire, VerifyOtpGet, VerifyOtpDelTries,
       VerifyOtpDel, history, At
<1>2. CASE \/ RegisterOtp(r) \/ ResendStore(r) \/ ForgotStore(r) \/ ResendRevoke(r)
           \/ ResetRevoke(r) \/ can_resend_otp(r) \/ set_resend_cooldown(r) \/ LoginFind(r)
           \/ LoginUser(r) \/ GoogleState(r) \/ GoogleFind(r) \/ GoogleEmail(r)
  BY <1>2 DEF RegisterOtp, ResendStore, ForgotStore, ResendRevoke, ResetRevoke,
       can_resend_otp, set_resend_cooldown, LoginFind, LoginUser, GoogleState, GoogleFind,
       GoogleEmail, history, At
<1>3. CASE ~Step(r)
  BY <1>3 DEF Abandon
<1> QED
  BY <1>1, <1>2, <1>3 DEF Step, Writes

\* Who has counted the first try sets the TTL, or fails; nobody else touches tries.
LEMMA OnlyExpires ==
    ASSUME NEW r \in Requests, Step(r) \/ Abandon(r)
    PROVE  /\ Step(r) /\ At(r, "expire") => VerifyOtpExpire(r)
           /\ ~VerifyOtp(r) => tries' = tries
<1>1. CASE VerifyOtp(r)
  BY <1>1 DEF VerifyOtp, VerifyOtpIncr, VerifyOtpGet, VerifyOtpDelTries, VerifyOtpDel, At
<1>2. CASE \/ RegisterOtp(r) \/ ResendStore(r) \/ ForgotStore(r) \/ ResendRevoke(r)
           \/ ResetRevoke(r) \/ can_resend_otp(r) \/ set_resend_cooldown(r) \/ LoginFind(r)
           \/ LoginUser(r) \/ GoogleState(r) \/ GoogleFind(r) \/ GoogleEmail(r)
  BY <1>2 DEF RegisterOtp, ResendStore, ForgotStore, ResendRevoke, ResetRevoke,
       can_resend_otp, set_resend_cooldown, LoginFind, LoginUser, GoogleState, GoogleFind,
       GoogleEmail, keys, At
<1>3. CASE Writes(r)
  BY <1>3 DEF Writes, RegisterCreateUser, GoogleCreateUser, create_user, RegisterCreateIdentity,
       update_password, set_verified, GoogleLink, GoogleIdentity, GoogleVerify, keys, At
<1>4. CASE ~Step(r)
  BY <1>4 DEF Abandon, keys
<1> QED
  BY <1>1, <1>2, <1>3, <1>4 DEF Step, Writes

\* Failures are remembered.
LEMMA LostGrows ==
    ASSUME NEW r \in Requests, Step(r) \/ Abandon(r)
    PROVE  /\ lost \subseteq lost'
           /\ ~Step(r) /\ (At(r, "identity") \/ At(r, "gIdentity")) => "identity" \in lost'
           /\ ~Step(r) /\ At(r, "expire") => req[r].type \in lost'
<1>1. CASE Step(r)
  BY <1>1 DEF Step, VerifyOtp, VerifyOtpIncr, VerifyOtpExpire, VerifyOtpGet, VerifyOtpDelTries,
       VerifyOtpDel, RegisterOtp, ResendStore, ForgotStore, ResendRevoke, ResetRevoke,
       can_resend_otp, set_resend_cooldown, LoginFind, LoginUser, GoogleState, GoogleFind,
       GoogleEmail, RegisterCreateUser, GoogleCreateUser, create_user, RegisterCreateIdentity,
       update_password, set_verified, GoogleLink, GoogleIdentity, GoogleVerify, history
<1>2. CASE ~Step(r)
  BY <1>2 DEF Abandon, At
<1> QED
  BY <1>1, <1>2, Zenon

\* VerifiedIsProved: a code that verify_email took was mailed for it.
LEMMA StepVerified ==
    ASSUME TypeInv, ReqInv, VerifiedIsProved, NEW r \in Requests, Step(r) \/ Abandon(r)
    PROVE  VerifiedIsProved'
<1>0. account.verified \in BOOLEAN /\ AccountOK
  BY DEF TypeInv, AccountOK
<1>1. CASE ~Writes(r)
  BY <1>1, OnlyWrites DEF VerifiedIsProved
<1>2. CASE set_verified(r)
  <2>1. codes[req[r].code] = "verify"
    BY <1>2 DEF set_verified, At, ReqInv, Taken
  <2> QED
    BY <1>2, <2>1 DEF set_verified, VerifiedIsProved
<1>3. CASE GoogleVerify(r)
  <2>1. req[r].vouched
    BY <1>3 DEF GoogleVerify, ReqInv, At
  <2> QED
    BY <1>3, <2>1 DEF GoogleVerify, VerifiedIsProved
<1>4. CASE \/ RegisterCreateUser(r) \/ GoogleCreateUser(r) \/ RegisterCreateIdentity(r)
           \/ update_password(r) \/ GoogleLink(r) \/ GoogleIdentity(r)
  <2>1. proved' = proved
    BY <1>4 DEF RegisterCreateUser, GoogleCreateUser, create_user, RegisterCreateIdentity,
         update_password, GoogleLink, GoogleIdentity, history
  <2>2. account'.verified = account.verified
    BY <1>0, <1>4 DEF AccountOK, RegisterCreateUser, GoogleCreateUser, create_user,
         RegisterCreateIdentity, update_password, GoogleLink, GoogleIdentity
  <2> QED
    BY <2>1, <2>2 DEF VerifiedIsProved
<1> QED
  BY <1>1, <1>2, <1>3, <1>4 DEF Writes

\* NoStrandedUser: who leaves the middle of a creation has stored an identity.
LEMMA StepStranded ==
    ASSUME TypeInv, ReqInv, NoStrandedUser, NEW r \in Requests, Step(r) \/ Abandon(r),
           Elsewhere(r)
    PROVE  NoStrandedUser'
<1>0. AccountOK /\ account.pwd \in Passwords \cup {"none"} /\ req \in [Requests -> RecType(Len(codes))]
  BY DEF TypeInv, AccountOK, ReqOK
<1>1. \A q \in Requests \ {r} : req'[q].pc = req[q].pc
  BY DEF Elsewhere
<1>2. lost \subseteq lost'
  BY LostGrows
<1>3. ASSUME account'.row = account.row, account'.pwd = account.pwd,
             account'.google = account.google,
             req[r].pc \in {"identity", "gIdentity"} => "identity" \in lost'
      PROVE  NoStrandedUser'
  BY <1>1, <1>2, <1>3 DEF NoStrandedUser
<1>4. CASE ~Writes(r)
  <2>1. account' = account
    BY <1>4, OnlyWrites
  <2>2. req[r].pc \in {"identity", "gIdentity"} => "identity" \in lost'
    BY <1>4, OnlyWrites, LostGrows DEF At
  <2> QED
    BY <1>3, <2>1, <2>2
<1>5. CASE set_verified(r) \/ GoogleVerify(r)
  <2>1. req[r].pc \notin {"identity", "gIdentity"}
    BY <1>5 DEF set_verified, GoogleVerify, At
  <2>2. account'.row = account.row /\ account'.pwd = account.pwd /\ account'.google = account.google
    BY <1>0, <1>5 DEF AccountOK, set_verified, GoogleVerify
  <2> QED
    BY <1>3, <2>1, <2>2
<1>6. CASE RegisterCreateUser(r) \/ GoogleCreateUser(r)
  <2>1. PICK from \in {"create", "gCreate"}, to \in {"identity", "gIdentity"} : create_user(r, from, to)
    BY <1>6 DEF RegisterCreateUser, GoogleCreateUser
  <2>2. account'.pwd = account.pwd /\ account'.google = account.google
    BY <1>0, <2>1 DEF AccountOK, create_user
  <2>3. CASE account.row
    <3>1. account' = account
      BY <1>0, <2>1, <2>3 DEF AccountOK, create_user
    <3>2. req[r].pc \notin {"identity", "gIdentity"}
      BY <2>1 DEF create_user, At
    <3> QED
      BY <1>3, <3>1, <3>2
  <2>4. CASE ~account.row
    <3>1. Goto(r, to)
      BY <2>1, <2>4 DEF create_user, GotoIf
    <3>2. req'[r].pc = to
      BY <1>0, <3>1 DEF Goto, RecType
    <3> QED
      BY <2>1, <3>2 DEF NoStrandedUser
  <2> QED
    BY <2>3, <2>4
<1>7. CASE RegisterCreateIdentity(r)
  <2>1. req[r].pwd # "none"
    BY <1>7 DEF RegisterCreateIdentity, At, ReqInv
  <2>2. account'.pwd = req[r].pwd
    BY <1>0, <1>7 DEF AccountOK, RegisterCreateIdentity
  <2> QED
    BY <2>1, <2>2 DEF NoStrandedUser
<1>8. CASE update_password(r)
  <2>1. req[r].pwd # "none" /\ req[r].pc \notin {"identity", "gIdentity"}
    BY <1>8 DEF update_password, At, ReqInv
  <2>2. /\ account'.row = account.row /\ account'.google = account.google
        /\ account'.pwd = IF account.pwd = "none" THEN "none" ELSE req[r].pwd
    BY <1>0, <1>8 DEF AccountOK, update_password
  <2> QED
    BY <1>1, <1>2, <2>1, <2>2 DEF NoStrandedUser
<1>9. CASE GoogleLink(r) \/ GoogleIdentity(r)
  <2>1. account'.google # "none"
    BY <1>0, <1>9 DEF AccountOK, GoogleLink, GoogleIdentity
  <2> QED
    BY <2>1 DEF NoStrandedUser
<1> QED
  BY <1>4, <1>5, <1>6, <1>7, <1>8, <1>9 DEF Writes

\* LockoutEnds: who counts the first try goes on to set the TTL.
LEMMA StepLockout ==
    ASSUME TypeInv, LockoutEnds, NEW r \in Requests, Step(r) \/ Abandon(r), Elsewhere(r)
    PROVE  LockoutEnds'
<1>0. /\ tries \in [Types -> [n: 0..(MaxTries + 1), ttl: BOOLEAN]]
      /\ \A t \in Types : tries[t].n \in Nat /\ tries[t].ttl \in BOOLEAN
      /\ req[r].type \in Types /\ req \in [Requests -> RecType(Len(codes))]
      /\ MaxTries \in Nat
  BY AccountsAssumption DEF TypeInv, KeysOK, ReqOK, RecType
<1>1. \A q \in Requests \ {r} : req'[q].pc = req[q].pc /\ req'[q].type = req[q].type
  BY DEF Elsewhere, Same
<1>2. lost \subseteq lost'
  BY LostGrows
\* The counter of t is as it was, and r was not to set its TTL, or failed to.
<1>3. ASSUME NEW t \in Types, tries'[t] = tries[t],
             At(r, "expire") /\ req[r].type = t => t \in lost'
      PROVE  LockoutEnds!(t)'
  BY <1>1, <1>2, <1>3 DEF LockoutEnds, At
<1>4. CASE VerifyOtpIncr(r)
  <2> DEFINE n == tries[req[r].type].n + 1
  <2>1. ASSUME NEW t \in Types, t # req[r].type
        PROVE  LockoutEnds!(t)'
    <3>1. tries'[t] = tries[t]
      BY <1>0, <1>4, <2>1 DEF VerifyOtpIncr
    <3> QED
      BY <1>3, <2>1, <3>1
  <2>2. ASSUME NEW t \in Types, t = req[r].type, n = 1
        PROVE  LockoutEnds!(t)'
    <3>1. Goto(r, "expire")
      BY <1>4, <2>2 DEF VerifyOtpIncr
    <3>2. req'[r].pc = "expire" /\ req'[r].type = req[r].type
      BY <1>0, <3>1 DEF Goto, RecType
    <3> QED
      BY <2>2, <3>2 DEF At
  <2>3. ASSUME NEW t \in Types, t = req[r].type, n # 1
        PROVE  LockoutEnds!(t)'
    <3>1. tries[req[r].type].n > 0
      BY <1>0, <2>3
    <3>2. tries'[req[r].type].ttl = tries[req[r].type].ttl
      BY <1>0, <1>4 DEF VerifyOtpIncr
    <3>3. ~At(r, "expire")
      BY <1>4 DEF VerifyOtpIncr, At
    <3> QED
      BY <1>0, <1>1, <1>2, <2>3, <3>1, <3>2, <3>3 DEF LockoutEnds, At
  <2> QED
    BY <2>1, <2>2, <2>3 DEF LockoutEnds
<1>5. CASE VerifyOtpExpire(r)
  <2>1. ASSUME NEW t \in Types, t # req[r].type
        PROVE  LockoutEnds!(t)'
    <3>1. tries'[t] = tries[t]
      BY <1>0, <1>5, <2>1 DEF VerifyOtpExpire
    <3> QED
      BY <1>3, <2>1, <3>1
  <2>2. ASSUME NEW t \in Types, t = req[r].type
        PROVE  LockoutEnds!(t)'
    <3> DEFINE u == req[r].type
               b == tries[u].n > 0
    <3>1. tries' = [tries EXCEPT ![u] = [tries[u] EXCEPT !.ttl = b]]
      BY <1>5 DEF VerifyOtpExpire
    <3>2. tries[u] \in [n: 0..(MaxTries + 1), ttl: BOOLEAN] /\ b \in BOOLEAN
      BY <1>0
    <3> HIDE DEF b
    <3>3. tries'[u].n = tries[u].n /\ tries'[u].ttl = b
      BY <1>0, <3>1, <3>2
    <3> QED
      BY <2>2, <3>3 DEF b
  <2> QED
    BY <2>1, <2>2 DEF LockoutEnds
<1>6. CASE VerifyOtpDelTries(r)
  <2>1. ~At(r, "expire")
    BY <1>6 DEF VerifyOtpDelTries, At
  <2>2. \/ tries' = tries
        \/ tries' = [tries EXCEPT ![req[r].type] = [n |-> 0, ttl |-> FALSE]]
    BY <1>6 DEF VerifyOtpDelTries
  <2>3. ASSUME NEW t \in Types
        PROVE  LockoutEnds!(t)'
    <3>1. CASE tries'[t] = tries[t]
      BY <1>3, <2>1, <3>1
    <3>2. CASE tries'[t] # tries[t]
      <4>1. tries'[t].n = 0
        BY <1>0, <2>2, <3>2
      <4> QED
        BY <4>1
    <3> QED
      BY <3>1, <3>2
  <2> QED
    BY <2>3 DEF LockoutEnds
<1>7. CASE ~(VerifyOtpIncr(r) \/ VerifyOtpExpire(r) \/ VerifyOtpDelTries(r))
  <2>1. tries' = tries
    <3>1. CASE VerifyOtp(r)
      BY <1>7, <3>1 DEF VerifyOtp, VerifyOtpGet, VerifyOtpDel, keys
    <3> QED
      BY <3>1, OnlyExpires
  <2>2. At(r, "expire") => req[r].type \in lost'
    BY <1>7, OnlyExpires, LostGrows
  <2>3. ASSUME NEW t \in Types
        PROVE  LockoutEnds!(t)'
    BY <1>3, <2>1, <2>2
  <2> QED
    BY <2>3 DEF LockoutEnds
<1> QED
  BY <1>4, <1>5, <1>6, <1>7

\* All of it.
LEMMA StepInv ==
    ASSUME AccountInv, NEW r \in Requests, Step(r) \/ Abandon(r)
    PROVE  AccountInv'
<1>0. /\ TypeInv /\ ReqInv /\ OtpInv /\ codes \in Seq(Types) /\ ReqOK
      /\ VerifiedIsProved /\ NoStrandedUser /\ LockoutEnds
  BY DEF AccountInv, TypeInv, CodesOK
<1>1. /\ req' \in [Requests -> RecType(Len(codes))]
      /\ Ends(r) \/ \E pc \in Pcs : Flow(r, pc) /\ Moves(r, pc)
  BY <1>0, StepFlow
<1>2. Elsewhere(r)
  BY <1>1 DEF Ends, Moves
<1>3. CodesOK' /\ Growing /\ OtpInv'
  <2>1. CodesStay \/ CodeRevoked \/ CodeMailed
    BY <1>0, StepCodes
  <2> QED
    BY <1>0, <2>1, CodesKept
<1>4. ReqOK'
  <2>1. RecType(Len(codes)) \subseteq RecType(Len(codes'))
    BY <1>3, RecordWiden DEF Growing
  <2> QED
    BY <1>1, <2>1 DEF ReqOK
<1>5. /\ AccountOK' /\ KeysOK' /\ arrived' = arrived
      /\ proved' \in BOOLEAN /\ lost' \subseteq {"identity"} \cup Types
  BY <1>0, StepType
<1>6. HistoryOK'
  BY <1>0, <1>5 DEF TypeInv, HistoryOK
<1>7. ReqInv'
  BY <1>0, <1>1, <1>3, <1>4, ReqKept
<1>8. VerifiedIsProved'
  BY <1>0, StepVerified
<1>9. NoStrandedUser'
  BY <1>0, <1>2, StepStranded
<1>10. LockoutEnds'
  BY <1>0, <1>2, StepLockout
<1> QED
  BY <1>3, <1>4, <1>5, <1>6, <1>7, <1>8, <1>9, <1>10 DEF AccountInv, TypeInv

-----------------------------------------------------------------------------
(* Requests that arrive, and keys that expire *)

\* What a request starts with.
Fresh(q) ==
    /\ q \in RecType(Len(codes))
    /\ q.pc \in {"idle", "create", "incr", "can", "forgot", "find", "state", "google"}
    /\ q.pc = "create" \/ (q.pc = "incr" /\ q.type = "reset") => q.pwd # "none"

\* Arrive, whatever the first read says.
Arrives(r, q) ==
    /\ At(r, "idle")
    /\ req' = [req EXCEPT ![r] = q] \/ req' = [req EXCEPT ![r] = Idle]
    /\ arrived' = arrived + 1
    /\ UNCHANGED <<account, otp, tries, cooldown, logins, oauth, codes, proved, lost>>

\* A request that arrives fills its slot, or is refused at once, and writes no row.
LEMMA BeginEffects ==
    ASSUME TypeInv, NEW r \in Requests, Begin(r)
    PROVE  /\ UNCHANGED <<account, otp, tries, cooldown, codes, proved, lost>>
           /\ logins' \in 0..(MaxLogins + 1) /\ oauth' \in BOOLEAN /\ arrived' \in Nat
           /\ At(r, "idle")
           /\ req' = req \/ \E q : Fresh(q) /\ req' = [req EXCEPT ![r] = q]
<1>0. /\ Len(codes) \in Nat /\ logins \in 0..(MaxLogins + 1) /\ oauth \in BOOLEAN
      /\ arrived \in Nat /\ MaxLogins \in Nat /\ 0 \in 0..Len(codes)
      /\ \A pwd \in Passwords : pwd # "none"
      /\ "verify" \in Types /\ "reset" \in Types
  BY LenProperties, AccountsAssumption DEF TypeInv, CodesOK, KeysOK, HistoryOK, Types
<1>1. Fresh(Idle)
  BY <1>0, IdleType DEF Fresh, Idle
<1> DEFINE Kept == UNCHANGED <<account, otp, tries, cooldown, codes, proved, lost>>
           Typed == logins' \in 0..(MaxLogins + 1) /\ oauth' \in BOOLEAN /\ arrived' \in Nat
           Starts == req' = req \/ \E q : Fresh(q) /\ req' = [req EXCEPT ![r] = q]
           Goal == Kept /\ Typed /\ At(r, "idle") /\ Starts
<1> SUFFICES Goal
  OBVIOUS
<1>2. ASSUME NEW q, Fresh(q), Arrives(r, q)
      PROVE  Goal
  <2>1. Kept /\ At(r, "idle")
    BY <1>2 DEF Arrives
  <2>2. Typed
    BY <1>0, <1>2 DEF Arrives
  <2>3. Starts
    BY <1>1, <1>2, Zenon DEF Arrives
  <2> QED
    BY <2>1, <2>2, <2>3
<1> HIDE DEF Goal
<1>3. CASE \E pwd \in Passwords : Register(r, pwd)
  <2>1. PICK pwd \in Passwords : Register(r, pwd)
    BY <1>3
  <2> DEFINE q == [Idle EXCEPT !.pc = "create", !.pwd = pwd]
  <2>2. Arrives(r, q)
    BY <2>1, Zenon DEF Register, Arrive, Arrives, keys
  <2>3. q \in RecType(Len(codes))
    BY <1>0, IdleType DEF RecType, Pcs
  <2>4. q.pc = "create" /\ q.pwd = pwd
    BY DEF Idle
  <2> HIDE DEF q
  <2>5. Fresh(q)
    BY <1>0, <2>3, <2>4 DEF Fresh
  <2> QED
    BY <1>2, <2>2, <2>5
<1>4. CASE \E pwd \in Passwords : Login(r, pwd)
  <2>1. PICK pwd \in Passwords : Login(r, pwd)
    BY <1>4
  <2> DEFINE q == [Idle EXCEPT !.pc = "find", !.pwd = pwd]
  <2>2. req' = [req EXCEPT ![r] = q] \/ req' = [req EXCEPT ![r] = Idle]
    BY <2>1, Zenon DEF Login
  <2>3. q \in RecType(Len(codes))
    BY <1>0, IdleType DEF RecType, Pcs
  <2>4. q.pc = "find"
    BY DEF Idle
  <2> HIDE DEF q
  <2>5. Fresh(q)
    BY <2>3, <2>4 DEF Fresh
  <2>6. Starts
    BY <1>1, <2>2, <2>5, Zenon
  <2>7. Typed
    BY <1>0, <2>1 DEF Login
  <2>8. Kept /\ At(r, "idle")
    BY <2>1 DEF Login
  <2> QED
    BY <2>6, <2>7, <2>8 DEF Goal
<1>5. CASE \E code \in 0..Len(codes) : VerifyEmail(r, code)
  <2>1. PICK code \in 0..Len(codes) : VerifyEmail(r, code)
    BY <1>5
  <2> DEFINE q == [Idle EXCEPT !.pc = "incr", !.type = "verify", !.code = code]
  <2>2. Arrives(r, q)
    BY <2>1, Zenon DEF VerifyEmail, Arrive, Arrives, keys
  <2>4. q \in RecType(Len(codes))
    BY <1>0, IdleType DEF RecType, Pcs
  <2>5. q.pc = "incr" /\ q.type = "verify" /\ q.code = code
    BY DEF Idle
  <2> HIDE DEF q
  <2>6. Fresh(q)
    BY <1>0, <2>4, <2>5 DEF Fresh
  <2> QED
    BY <1>2, <2>2, <2>6
<1>6. CASE \E code \in 0..Len(codes) : \E pwd \in Passwords : ResetPassword(r, code, pwd)
  <2>1. PICK code \in 0..Len(codes), pwd \in Passwords : ResetPassword(r, code, pwd)
    BY <1>6
  <2> DEFINE q == [Idle EXCEPT !.pc = "incr", !.type = "reset", !.code = code, !.pwd = pwd]
  <2>2. Arrives(r, q)
    BY <2>1, Zenon DEF ResetPassword, Arrive, Arrives, keys
  <2>4. q \in RecType(Len(codes))
    BY <1>0, IdleType DEF RecType, Pcs
  <2>5. q.pc = "incr" /\ q.type = "reset" /\ q.code = code /\ q.pwd = pwd
    BY DEF Idle
  <2> HIDE DEF q
  <2>6. Fresh(q)
    BY <1>0, <2>4, <2>5 DEF Fresh
  <2> QED
    BY <1>2, <2>2, <2>6
<1>7. CASE \E type \in Types : ResendOtp(r, type)
  <2>1. PICK type \in Types : ResendOtp(r, type)
    BY <1>7
  <2> DEFINE q == [Idle EXCEPT !.pc = "can", !.type = type]
  <2>2. Arrives(r, q)
    BY <2>1, Zenon DEF ResendOtp, Arrive, Arrives, keys
  <2>3. q \in RecType(Len(codes))
    BY <1>0, IdleType DEF RecType, Pcs
  <2>4. q.pc = "can"
    BY DEF Idle
  <2> HIDE DEF q
  <2>5. Fresh(q)
    BY <1>0, <2>3, <2>4 DEF Fresh
  <2> QED
    BY <1>2, <2>2, <2>5
<1>8. CASE ForgotPassword(r)
  <2> DEFINE q == [Idle EXCEPT !.pc = "forgot", !.type = "reset"]
  <2>1. Arrives(r, q)
    BY <1>8, Zenon DEF ForgotPassword, Arrive, Arrives, keys
  <2>2. q \in RecType(Len(codes))
    BY <1>0, IdleType DEF RecType, Pcs
  <2>3. q.pc = "forgot"
    BY DEF Idle
  <2> HIDE DEF q
  <2>4. Fresh(q)
    BY <1>0, <2>2, <2>3 DEF Fresh
  <2> QED
    BY <1>2, <2>1, <2>4
<1>9. CASE google_authorize(r)
  BY <1>0, <1>9 DEF google_authorize, Goal
<1>10. CASE \E vouched \in BOOLEAN : GoogleWeb(r, vouched)
  <2>1. PICK vouched \in BOOLEAN : GoogleWeb(r, vouched)
    BY <1>10
  <2> DEFINE q == [Idle EXCEPT !.pc = "state", !.vouched = vouched]
  <2>2. Arrives(r, q)
    BY <2>1, Zenon DEF GoogleWeb, Arrive, Arrives, keys
  <2>3. q \in RecType(Len(codes))
    BY <1>0, IdleType DEF RecType, Pcs
  <2>4. q.pc = "state"
    BY DEF Idle
  <2> HIDE DEF q
  <2>5. Fresh(q)
    BY <1>0, <2>3, <2>4 DEF Fresh
  <2> QED
    BY <1>2, <2>2, <2>5
<1>11. CASE \E vouched \in BOOLEAN : GoogleMobile(r, vouched)
  <2>1. PICK vouched \in BOOLEAN : GoogleMobile(r, vouched)
    BY <1>11
  <2> DEFINE q == [Idle EXCEPT !.pc = "google", !.vouched = vouched]
  <2>2. Arrives(r, q)
    BY <2>1, Zenon DEF GoogleMobile, Arrive, Arrives, keys
  <2>3. q \in RecType(Len(codes))
    BY <1>0, IdleType DEF RecType, Pcs
  <2>4. q.pc = "google"
    BY DEF Idle
  <2> HIDE DEF q
  <2>5. Fresh(q)
    BY <1>0, <2>3, <2>4 DEF Fresh
  <2> QED
    BY <1>2, <2>2, <2>5
<1> QED
  BY <1>3, <1>4, <1>5, <1>6, <1>7, <1>8, <1>9, <1>10, <1>11, Zenon DEF Begin

\* An arrival keeps the invariant: a new request has checked nothing yet.
LEMMA BeginInv ==
    ASSUME AccountInv, NEW r \in Requests, Begin(r)
    PROVE  AccountInv'
<1>0. /\ TypeInv /\ ReqInv /\ OtpInv /\ Len(codes) \in Nat
      /\ VerifiedIsProved /\ NoStrandedUser /\ LockoutEnds
      /\ AccountOK /\ CodesOK /\ KeysOK /\ ReqOK /\ HistoryOK
  BY LenProperties DEF AccountInv, TypeInv, CodesOK
<1>1. /\ UNCHANGED <<account, otp, tries, cooldown, codes, proved, lost>>
      /\ logins' \in 0..(MaxLogins + 1) /\ oauth' \in BOOLEAN /\ arrived' \in Nat
      /\ At(r, "idle")
      /\ req' = req \/ \E q : Fresh(q) /\ req' = [req EXCEPT ![r] = q]
  BY <1>0, BeginEffects
<1>2. AccountOK' /\ CodesOK' /\ KeysOK' /\ HistoryOK'
  BY <1>0, <1>1 DEF AccountOK, CodesOK, KeysOK, HistoryOK
<1>3. OtpInv' /\ VerifiedIsProved'
  BY <1>0, <1>1 DEF OtpInv, VerifiedIsProved
<1>4. CASE req' = req
  <2>1. ReqOK' /\ ReqInv'
    BY <1>0, <1>1, <1>4 DEF ReqOK, ReqInv, Taken, At
  <2>2. NoStrandedUser' /\ LockoutEnds'
    BY <1>0, <1>1, <1>4 DEF NoStrandedUser, LockoutEnds, At
  <2> QED
    BY <1>2, <1>3, <2>1, <2>2 DEF AccountInv, TypeInv
<1>5. CASE \E q : Fresh(q) /\ req' = [req EXCEPT ![r] = q]
  <2>1. PICK q : Fresh(q) /\ req' = [req EXCEPT ![r] = q]
    BY <1>5
  <2>2. req'[r] = q /\ \A p \in Requests \ {r} : req'[p] = req[p]
    BY <1>0, <2>1 DEF ReqOK
  <2>3. ReqOK'
    BY <1>0, <1>1, <2>1 DEF ReqOK, Fresh
  <2>4. ReqInv'
    <3>1. ASSUME NEW p \in Requests \ {r}
          PROVE  ReqInv!(p)'
      <4>1. ReqInv!(p)
        BY <1>0 DEF ReqInv
      <4> QED
        BY <1>1, <2>2, <4>1 DEF Taken, At
    <3>2. ReqInv!(r)'
      BY <1>1, <2>1, <2>2 DEF Fresh, Taken, At
    <3> QED
      BY <3>1, <3>2 DEF ReqInv
  <2>5. NoStrandedUser'
    BY <1>0, <1>1, <2>2 DEF NoStrandedUser, At
  <2>6. LockoutEnds'
    BY <1>0, <1>1, <2>2 DEF LockoutEnds, At
  <2> QED
    BY <1>2, <1>3, <2>3, <2>4, <2>5, <2>6 DEF AccountInv, TypeInv
<1> QED
  BY <1>1, <1>4, <1>5

\* So does a key that runs out.
LEMMA ExpireInv ==
    ASSUME AccountInv, (\E t \in Types : ExpireTries(t)) \/ ExpireLogins \/ ExpireKeys
    PROVE  AccountInv'
<1>0. /\ TypeInv /\ ReqInv /\ OtpInv /\ Len(codes) \in Nat
      /\ VerifiedIsProved /\ NoStrandedUser /\ LockoutEnds
      /\ AccountOK /\ CodesOK /\ KeysOK /\ ReqOK /\ HistoryOK
      /\ MaxTries \in Nat /\ MaxLogins \in Nat
  BY LenProperties, AccountsAssumption DEF AccountInv, TypeInv, CodesOK
<1>1. UNCHANGED <<account, codes, req, arrived, proved, lost>>
  BY DEF ExpireTries, ExpireLogins, ExpireKeys, history
<1>2. AccountOK' /\ ReqOK' /\ HistoryOK'
  BY <1>0, <1>1 DEF AccountOK, ReqOK, HistoryOK
<1>3. VerifiedIsProved' /\ NoStrandedUser'
  BY <1>0, <1>1 DEF VerifiedIsProved, NoStrandedUser, At
<1>4. ReqInv'
  BY <1>0, <1>1 DEF ReqInv, Taken, At
<1>5. CodesOK' /\ OtpInv'
  <2>1. CodesStay \/ CodeRevoked
    BY <1>1 DEF ExpireTries, ExpireLogins, ExpireKeys, CodesStay, CodeRevoked
  <2> QED
    BY <1>0, <2>1, CodesKept
<1>6. KeysOK'
  <2>1. CASE \E t \in Types : ExpireTries(t)
    <3>1. [n |-> 0, ttl |-> FALSE] \in [n: 0..(MaxTries + 1), ttl: BOOLEAN]
      BY <1>0
    <3> QED
      BY <1>0, <2>1, <3>1 DEF KeysOK, ExpireTries
  <2>2. CASE ExpireLogins
    BY <1>0, <2>2 DEF KeysOK, ExpireLogins
  <2>3. CASE ExpireKeys
    BY <1>0, <2>3 DEF KeysOK, ExpireKeys
  <2> QED
    BY <2>1, <2>2, <2>3
<1>7. LockoutEnds'
  <2>1. ASSUME NEW t \in Types
        PROVE  tries'[t] = tries[t] \/ tries'[t].n = 0
    BY <1>0 DEF KeysOK, ExpireTries, ExpireLogins, ExpireKeys
  <2> QED
    BY <1>0, <1>1, <2>1 DEF LockoutEnds, At
<1> QED
  BY <1>2, <1>3, <1>4, <1>5, <1>6, <1>7 DEF AccountInv, TypeInv

\* Every step keeps the invariant ..
LEMMA AccountNext == AccountInv /\ [Next]_vars => AccountInv'
<1> SUFFICES ASSUME AccountInv, [Next]_vars PROVE AccountInv'
  OBVIOUS
<1>1. CASE UNCHANGED vars
  BY <1>1 DEF vars, AccountInv, TypeInv, AccountOK, CodesOK, KeysOK, ReqOK, HistoryOK, ReqInv,
       OtpInv, Taken, At, VerifiedIsProved, NoStrandedUser, LockoutEnds
<1>2. CASE (\E t \in Types : ExpireTries(t)) \/ ExpireLogins \/ ExpireKeys
  BY <1>2, ExpireInv
<1>3. CASE \E r \in Requests : Begin(r)
  BY <1>3, BeginInv
<1>4. CASE \E r \in Requests : Step(r) \/ Abandon(r)
  BY <1>4, StepInv
<1> QED
  BY <1>1, <1>2, <1>3, <1>4, Zenon DEF Next

\* .. so it holds in every state.
LEMMA AccountCorrect == Spec => []AccountInv
  BY AccountInit, AccountNext, PTL DEF Spec

-----------------------------------------------------------------------------
(* The theorems *)

\* Rows, keys and requests keep their types, however the operations of AuthService
\* interleave, fail or are cut off.
THEOREM TypeCorrect == Spec => []TypeOK
<1>1. AccountInv => TypeOK
  BY TypeParts DEF AccountInv
<1> QED
  BY <1>1, AccountCorrect, PTL

\* verify_otp opens verify_email and reset_password only to a code that was mailed
\* for that: codes[req[r].code] is what the request asks for.
THEOREM PurposeCorrect == Spec => []PurposeKept
<1>1. AccountInv => PurposeKept
  BY DEF AccountInv, ReqInv, PurposeKept
<1> QED
  BY <1>1, AccountCorrect, PTL

\* set_verified runs only for an owner who has entered a verification code or whom
\* Google has vouched for.
THEOREM VerifiedCorrect == Spec => []VerifiedIsProved
<1>1. AccountInv => VerifiedIsProved
  BY DEF AccountInv
<1> QED
  BY <1>1, AccountCorrect, PTL

\* Two sign-ups, by password or with Google, leave a user without an identity only
\* where a failure separates create_user from the identity's INSERT.
THEOREM StrandedCorrect == Spec => []NoStrandedUser
<1>1. AccountInv => NoStrandedUser
  BY DEF AccountInv
<1> QED
  BY <1>1, AccountCorrect, PTL

\* verify_otp's counter has a TTL, or a request is about to set it, or one failed
\* between its INCR and its EXPIRE.
THEOREM LockoutCorrect == Spec => []LockoutEnds
<1>1. AccountInv => LockoutEnds
  BY DEF AccountInv
<1> QED
  BY <1>1, AccountCorrect, PTL
=============================================================================
