------------------------------ MODULE Accounts ------------------------------
(***************************************************************************)
(* AuthService: registration, one-time codes, login, password reset and    *)
(* Google sign-in of one e-mail address.  Every row and key is by that     *)
(* address (users.email is unique, a Google account has one address), so   *)
(* addresses do not meet.  Requests interleave between their awaits, and   *)
(* none of these operations runs in a transaction.  The tokens a success   *)
(* issues are module Sessions's subject.                                   *)
(***************************************************************************)
EXTENDS Integers, Sequences

CONSTANTS
    Requests,     \* slots for concurrent requests
    Passwords,
    MaxTries,     \* OTP attempts per window (5)
    MaxLogins,    \* MAX_LOGIN_ATTEMPTS
    MaxCodes,     \* bound: codes mailed
    MaxRequests   \* bound: requests that arrive

ASSUME AccountsAssumption ==
    /\ MaxTries \in Nat /\ MaxLogins \in Nat /\ MaxCodes \in Nat /\ MaxRequests \in Nat
    /\ "none" \notin Passwords

Types == {"verify", "reset"}  \* OtpType

VARIABLES
    account,   \* users and user_identities: the row, verified, the password of the
               \* email identity, the provider_user_id of the google identity
    otp,       \* the stored code of each type, 0 for none
    tries,     \* OTP_ATTEMPTS of each type, and whether the key has a TTL
    cooldown,  \* OTP_RESEND exists
    logins,    \* LOGIN_ATTEMPTS, whose TTL the Lua script sets with the first INCR
    oauth,     \* an OAuth state is stored
    codes,     \* the codes mailed so far, by the type they were minted for
    req,       \* the requests in flight
    arrived,   \* requests so far
    proved,    \* history: the owner of the address has proved it
    lost       \* history: a failure cut off the INSERT of an identity, or the EXPIRE of tries

vars == <<account, otp, tries, cooldown, logins, oauth, codes, req, arrived,
          proved, lost>>
keys == <<otp, tries, cooldown, logins, oauth>>
history == <<arrived, proved, lost>>

Idle == [pc |-> "idle", type |-> "verify", code |-> 0, pwd |-> "none",
         vouched |-> FALSE]
Pcs == {"idle", "create", "identity", "otp", "incr", "expire", "get", "delTries",
        "delOtp", "verify", "update", "revoke", "can", "drop", "store", "cool",
        "forgot", "find", "user", "state", "google", "email", "link",
        "gCreate", "gIdentity", "gVerify"}

Init ==
    /\ account = [row |-> FALSE, verified |-> FALSE, pwd |-> "none", google |-> "none"]
    /\ otp = [t \in Types |-> 0]
    /\ tries = [t \in Types |-> [n |-> 0, ttl |-> FALSE]]
    /\ cooldown = FALSE /\ logins = 0 /\ oauth = FALSE
    /\ codes = << >> /\ req = [r \in Requests |-> Idle]
    /\ arrived = 0 /\ proved = FALSE /\ lost = {}

At(r, pc) == req[r].pc = pc
Goto(r, pc) == req' = [req EXCEPT ![r].pc = pc]
Done(r) == req' = [req EXCEPT ![r] = Idle]
GotoIf(r, test, pc) == IF test THEN Goto(r, pc) ELSE Done(r)

\* A request arrives and takes its first read; the handler ends there unless
\* the read lets it go on.
Arrive(r, goesOn, record) ==
    /\ At(r, "idle") /\ req' = [req EXCEPT ![r] = IF goesOn THEN record ELSE Idle]
    /\ arrived < MaxRequests /\ arrived' = arrived + 1
    /\ UNCHANGED <<account, keys, codes, proved, lost>>

-----------------------------------------------------------------------------
(* One-time codes: AuthCache *)

\* generate_otp, store_otp and the e-mail: a code never mailed before.
store_otp(type) ==
    /\ Len(codes) < MaxCodes
    /\ codes' = Append(codes, type)
    /\ otp' = [otp EXCEPT ![type] = Len(codes) + 1]

revoke_otp(type) == otp' = [otp EXCEPT ![type] = 0]

\* verify_otp: INCR.  The counter is compared only with MaxTries, so it
\* stops one past it.
VerifyOtpIncr(r) ==
    LET t == req[r].type
        n == tries[t].n + 1
    IN  /\ At(r, "incr")
        /\ tries' = [tries EXCEPT ![t].n = IF n > MaxTries THEN MaxTries + 1 ELSE n]
        /\ IF n = 1 THEN Goto(r, "expire") ELSE GotoIf(r, n <= MaxTries, "get")
        /\ UNCHANGED <<account, otp, cooldown, logins, oauth, codes, history>>

VerifyOtpNoExpire(r) ==
    /\ At(r, "expire") /\ GotoIf(r, 1 <= MaxTries, "get")
    /\ UNCHANGED <<account, keys, codes, history>>

\* EXPIRE, for who counted the first try.
VerifyOtpExpire(r) ==
    LET t == req[r].type IN
    /\ At(r, "expire") /\ GotoIf(r, 1 <= MaxTries, "get")
    /\ tries' = [tries EXCEPT ![t].ttl = tries[t].n > 0]
    /\ UNCHANGED <<account, otp, cooldown, logins, oauth, codes, history>>

MatchesAny(r) == \E t \in Types : otp[t] # 0 /\ otp[t] = req[r].code
Matches(r) == otp[req[r].type] # 0 /\ otp[req[r].type] = req[r].code

VerifyOtpGet(r) ==
    /\ At(r, "get") /\ GotoIf(r, Matches(r), "delTries")
    /\ UNCHANGED <<account, keys, codes, history>>

\* The two DELs are commands of their own; if one fails the request goes on.
VerifyOtpDelTries(r) ==
    /\ At(r, "delTries") /\ Goto(r, "delOtp")
    /\ tries' \in {tries, [tries EXCEPT ![req[r].type] = [n |-> 0, ttl |-> FALSE]]}
    /\ UNCHANGED <<account, otp, cooldown, logins, oauth, codes, history>>

Accepted(t) == IF t = "verify" THEN "verify" ELSE "update"

VerifyOtpDel(r) ==
    /\ At(r, "delOtp") /\ Goto(r, Accepted(req[r].type))
    /\ revoke_otp(req[r].type) \/ UNCHANGED otp
    /\ UNCHANGED <<account, tries, cooldown, logins, oauth, codes, history>>

VerifyOtp(r) ==
    \/ VerifyOtpIncr(r) \/ VerifyOtpExpire(r) \/ VerifyOtpGet(r)
    \/ VerifyOtpDelTries(r) \/ VerifyOtpDel(r)

-----------------------------------------------------------------------------
(* register *)

\* find_identity(Email, ..)
Register(r, pwd) ==
    Arrive(r, account.pwd = "none", [Idle EXCEPT !.pc = "create", !.pwd = pwd])

\* INSERT INTO users, refused by the unique address; a new row is unverified.
create_user(r, from, to) ==
    /\ At(r, from) /\ GotoIf(r, ~account.row, to)
    /\ account' = [account EXCEPT !.row = TRUE]
    /\ UNCHANGED <<keys, codes, history>>

RegisterCreateUser(r) == create_user(r, "create", "identity")

RegisterIdentityForgotten(r) ==
    /\ At(r, "identity") /\ Goto(r, "otp")
    /\ UNCHANGED <<account, keys, codes, history>>

RegisterCreateIdentity(r) ==
    /\ At(r, "identity") /\ Goto(r, "otp")
    /\ account' = [account EXCEPT !.pwd = req[r].pwd]
    /\ UNCHANGED <<keys, codes, history>>

RegisterOtp(r) ==
    /\ At(r, "otp") /\ Done(r) /\ store_otp("verify")
    /\ UNCHANGED <<account, tries, cooldown, logins, oauth, history>>

-----------------------------------------------------------------------------
(* verify_email *)

VerifyEmail(r, code) ==
    Arrive(r, account.row /\ ~account.verified,
           [Idle EXCEPT !.pc = "incr", !.type = "verify", !.code = code])

set_verified(r) ==
    /\ At(r, "verify") /\ Done(r)
    /\ account' = [account EXCEPT !.verified = TRUE]
    /\ proved' = (proved \/ codes[req[r].code] = "verify")
    /\ UNCHANGED <<keys, codes, arrived, lost>>

-----------------------------------------------------------------------------
(* resend_otp and forgot_password *)

ResendOtp(r, type) ==
    Arrive(r, account.row /\ ~(type = "verify" /\ account.verified),
           [Idle EXCEPT !.pc = "can", !.type = type])

can_resend_otp(r) ==
    /\ At(r, "can") /\ GotoIf(r, ~cooldown, "drop")
    /\ UNCHANGED <<account, keys, codes, history>>

ResendRevoke(r) ==
    /\ At(r, "drop") /\ Goto(r, "store") /\ revoke_otp(req[r].type)
    /\ UNCHANGED <<account, tries, cooldown, logins, oauth, codes, history>>

ResendStore(r) ==
    /\ At(r, "store") /\ Goto(r, "cool") /\ store_otp(req[r].type)
    /\ UNCHANGED <<account, tries, cooldown, logins, oauth, history>>

set_resend_cooldown(r) ==
    /\ At(r, "cool") /\ Done(r) /\ cooldown' = TRUE
    /\ UNCHANGED <<account, otp, tries, logins, oauth, codes, history>>

ForgotPassword(r) == Arrive(r, account.row, [Idle EXCEPT !.pc = "forgot", !.type = "reset"])

ForgotStore(r) ==
    /\ At(r, "forgot") /\ Done(r) /\ store_otp("reset")
    /\ UNCHANGED <<account, tries, cooldown, logins, oauth, history>>

-----------------------------------------------------------------------------
(* reset_password *)

ResetPassword(r, code, pwd) ==
    Arrive(r, account.row,
           [Idle EXCEPT !.pc = "incr", !.type = "reset", !.code = code, !.pwd = pwd])

\* UPDATE of every identity of the user: a password for login only where there
\* is an email identity.
update_password(r) ==
    /\ At(r, "update") /\ Goto(r, "revoke")
    /\ account' = [account EXCEPT !.pwd = IF @ = "none" THEN "none" ELSE req[r].pwd]
    /\ UNCHANGED <<keys, codes, history>>

\* The trailing revoke_otp also takes a code mailed meanwhile.
ResetRevoke(r) ==
    /\ At(r, "revoke") /\ Done(r) /\ revoke_otp("reset")
    /\ UNCHANGED <<account, tries, cooldown, logins, oauth, codes, history>>

-----------------------------------------------------------------------------
(* login *)

\* check_login_rate_limit, saturating like tries.
Login(r, pwd) ==
    /\ At(r, "idle") /\ arrived < MaxRequests /\ arrived' = arrived + 1
    /\ logins' = IF logins > MaxLogins THEN logins ELSE logins + 1
    /\ req' = [req EXCEPT ![r] = IF logins < MaxLogins
                                 THEN [Idle EXCEPT !.pc = "find", !.pwd = pwd] ELSE Idle]
    /\ UNCHANGED <<account, otp, tries, cooldown, oauth, codes, proved, lost>>

\* find_identity and the comparison of the password with the hash it read.
LoginFind(r) ==
    /\ At(r, "find") /\ GotoIf(r, account.pwd = req[r].pwd, "user")
    /\ UNCHANGED <<account, keys, codes, history>>

\* find_by_id, verified, clear_login_rate_limit, if Redis does it; the pair is
\* issued.
LoginUser(r) ==
    /\ At(r, "user") /\ Done(r)
    /\ logins' \in IF account.verified THEN {0, logins} ELSE {logins}
    /\ UNCHANGED <<account, otp, tries, cooldown, oauth, codes, history>>

-----------------------------------------------------------------------------
(* Google sign-in *)

google_authorize(r) ==
    /\ At(r, "idle") /\ arrived < MaxRequests /\ arrived' = arrived + 1
    /\ oauth' = TRUE
    /\ UNCHANGED <<account, otp, tries, cooldown, logins, codes, req, proved, lost>>

\* consume_oauth_state: HGETALL, then DEL.
GoogleWeb(r, vouched) ==
    Arrive(r, oauth, [Idle EXCEPT !.pc = "state", !.vouched = vouched])

GoogleState(r) ==
    /\ At(r, "state") /\ Goto(r, "google") /\ oauth' = FALSE
    /\ UNCHANGED <<account, otp, tries, cooldown, logins, codes, history>>

GoogleMobile(r, vouched) == Arrive(r, TRUE, [Idle EXCEPT !.pc = "google", !.vouched = vouched])

\* upsert_google_user: find_identity(Google, sub) ..
GoogleFind(r) ==
    /\ At(r, "google") /\ GotoIf(r, account.google # "sub", "email")
    /\ UNCHANGED <<account, keys, codes, history>>

\* .. find_by_email ..
GoogleEmail(r) ==
    /\ At(r, "email") /\ Goto(r, IF account.row THEN "link" ELSE "gCreate")
    /\ UNCHANGED <<account, keys, codes, history>>

\* .. link_provider: ON CONFLICT (user_id, provider_type) DO NOTHING ..
GoogleLink(r) ==
    /\ At(r, "link") /\ Done(r)
    /\ account' = [account EXCEPT !.google = IF @ = "none" THEN "sub" ELSE @]
    /\ UNCHANGED <<keys, codes, history>>

GoogleCreateUser(r) == create_user(r, "gCreate", "gIdentity")

AfterIdentityTrusting(r) == "gVerify"
AfterIdentity(r) == IF req[r].vouched THEN "gVerify" ELSE "idle"

\* .. or a new user, whose identity is stored with the address, not the sub
\* (refused when a sign-in linked the new row in between) ..
GoogleIdentity(r) ==
    /\ At(r, "gIdentity")
    /\ GotoIf(r, account.google = "none" /\ AfterIdentity(r) # "idle", AfterIdentity(r))
    /\ account' = [account EXCEPT !.google = IF @ = "none" THEN "address" ELSE @]
    /\ UNCHANGED <<keys, codes, history>>

\* .. that is verified if Google says so.
GoogleVerify(r) ==
    /\ At(r, "gVerify") /\ Done(r)
    /\ account' = [account EXCEPT !.verified = TRUE]
    /\ proved' = (proved \/ req[r].vouched)
    /\ UNCHANGED <<keys, codes, arrived, lost>>

-----------------------------------------------------------------------------
(* The environment *)

\* TTLs run out.
ExpireTries(t) ==
    /\ tries[t].ttl /\ tries' = [tries EXCEPT ![t] = [n |-> 0, ttl |-> FALSE]]
    /\ UNCHANGED <<account, otp, cooldown, logins, oauth, codes, req, history>>

ExpireLogins ==
    /\ logins > 0 /\ logins' = 0
    /\ UNCHANGED <<account, otp, tries, cooldown, oauth, codes, req, history>>

ExpireKeys ==
    /\ \/ \E t \in Types : otp[t] # 0 /\ revoke_otp(t) /\ UNCHANGED <<cooldown, oauth>>
       \/ cooldown /\ cooldown' = FALSE /\ UNCHANGED <<otp, oauth>>
       \/ oauth /\ oauth' = FALSE /\ UNCHANGED <<otp, cooldown>>
    /\ UNCHANGED <<account, tries, logins, codes, req, history>>

\* A query or command fails, or the client goes away: the rest is not done.
Abandon(r) ==
    /\ ~At(r, "idle") /\ Done(r)
    /\ lost' = lost \cup CASE At(r, "expire") -> {req[r].type}
                            [] req[r].pc \in {"identity", "gIdentity"} -> {"identity"}
                            [] OTHER -> {}
    /\ UNCHANGED <<account, keys, codes, arrived, proved>>

Begin(r) ==
    \/ \E pwd \in Passwords : Register(r, pwd) \/ Login(r, pwd)
    \/ \E code \in 0..Len(codes) : \/ VerifyEmail(r, code)
                                   \/ \E pwd \in Passwords : ResetPassword(r, code, pwd)
    \/ \E type \in Types : ResendOtp(r, type)
    \/ ForgotPassword(r) \/ google_authorize(r)
    \/ \E vouched \in BOOLEAN : GoogleWeb(r, vouched) \/ GoogleMobile(r, vouched)

Step(r) ==
    \/ VerifyOtp(r) \/ set_verified(r)
    \/ RegisterCreateUser(r) \/ RegisterCreateIdentity(r) \/ RegisterOtp(r)
    \/ can_resend_otp(r) \/ ResendRevoke(r) \/ ResendStore(r) \/ set_resend_cooldown(r)
    \/ ForgotStore(r) \/ update_password(r) \/ ResetRevoke(r)
    \/ LoginFind(r) \/ LoginUser(r)
    \/ GoogleState(r) \/ GoogleFind(r) \/ GoogleEmail(r) \/ GoogleLink(r)
    \/ GoogleCreateUser(r) \/ GoogleIdentity(r) \/ GoogleVerify(r)

Next ==
    \/ \E t \in Types : ExpireTries(t)
    \/ ExpireLogins \/ ExpireKeys
    \/ \E r \in Requests : Begin(r) \/ Step(r) \/ Abandon(r)

Spec == Init /\ [][Next]_vars

-----------------------------------------------------------------------------
(* Properties *)

\* Types; a request that compares or uses a code names one that was mailed, or 0.
TypeOK ==
    /\ account \in [row: BOOLEAN, verified: BOOLEAN, pwd: Passwords \cup {"none"},
                    google: {"none", "sub", "address"}]
    /\ codes \in Seq(Types) /\ otp \in [Types -> 0..Len(codes)]
    /\ tries \in [Types -> [n: 0..(MaxTries + 1), ttl: BOOLEAN]]
    /\ cooldown \in BOOLEAN /\ logins \in 0..(MaxLogins + 1) /\ oauth \in BOOLEAN
    /\ req \in [Requests -> [pc: Pcs, type: Types, code: 0..Len(codes),
                             pwd: Passwords \cup {"none"}, vouched: BOOLEAN]]
    /\ arrived \in Nat /\ proved \in BOOLEAN
    /\ lost \subseteq {"identity"} \cup Types

\* Steps that only a code that verify_otp took leads to.
Taken(r) == req[r].pc \in {"delTries", "delOtp", "verify", "update", "revoke"}

\* A code opens only what it was mailed for: verify_email takes no reset code and
\* reset_password no verification code, whichever was mailed last.
PurposeKept == \A r \in Requests : Taken(r) => codes[req[r].code] = req[r].type

\* An address is verified only after its owner entered a verification code mailed
\* to it or Google vouched for it, whatever signs up and links meanwhile.
VerifiedIsProved == account.verified => proved

\* A user without any identity, who could neither log in nor register again, is
\* still being created, or a failure cut its creation off between the two INSERTs.
NoStrandedUser ==
    account.row /\ account.pwd = "none" /\ account.google = "none" =>
        \/ \E r \in Requests : req[r].pc \in {"identity", "gIdentity"}
        \/ "identity" \in lost

\* Who is told TooManyRequests can try again later: a counter of tries has a TTL,
\* or is about to get it, unless a failure came between INCR and EXPIRE
\* (check_login_rate_limit does both in one script, verify_otp does not).
LockoutEnds ==
    \A t \in Types : tries[t].n > 0 /\ ~tries[t].ttl =>
        t \in lost \/ \E r \in Requests : At(r, "expire") /\ req[r].type = t
=============================================================================
