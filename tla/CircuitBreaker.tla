--------------------------- MODULE CircuitBreaker ---------------------------
(***************************************************************************)
(* The circuit breaker in front of LiveKit, called by concurrent requests. *)
(* Its state and counters are separate atomics: every load, store and      *)
(* fetch_add is a step of its own and calls interleave between them.       *)
(*                                                                         *)
(* The counters are only reset and compared with their thresholds, so they *)
(* saturate there; the age of last_failure_at is kept as "recent" or "old" *)
(* (open_duration has elapsed).                                            *)
(***************************************************************************)
EXTENDS Integers

CONSTANTS
    Calls,             \* slots for concurrent LiveKit calls
    FailureThreshold,  \* failure_threshold
    SuccessThreshold   \* success_threshold

ASSUME BreakerAssumption ==
    FailureThreshold \in Nat \ {0} /\ SuccessThreshold \in Nat \ {0}

VARIABLES
    state,      \* the AtomicU8
    failures,   \* failure_count
    successes,  \* success_count
    last,       \* last_failure_at: "none", "recent" or "old"
    up,         \* LiveKit answers
    pc,         \* where each call is
    tripped     \* what the call's failure_count.fetch_add found: over the threshold

vars == <<state, failures, successes, last, up, pc, tripped>>

Pcs == {"idle", "lock", "probe", "request", "success", "reset", "bump", "close",
        "clearF", "clearS", "failure", "stamp", "trip", "open", "clearO"}

Init ==
    /\ state = "Closed" /\ failures = 0 /\ successes = 0 /\ last = "none"
    /\ up = TRUE
    /\ pc = [c \in Calls |-> "idle"] /\ tripped = [c \in Calls |-> FALSE]

Move(c, from, to) == pc[c] = from /\ pc' = [pc EXCEPT ![c] = to]

-----------------------------------------------------------------------------
(* check *)

\* Load the state.
Check(c) ==
    /\ Move(c, "idle", IF state = "Open" THEN "lock" ELSE "request")
    /\ UNCHANGED <<state, failures, successes, last, up, tripped>>

CheckElapsedInverted(c) ==
    /\ Move(c, "lock", IF last = "recent" THEN "probe" ELSE "idle")
    /\ UNCHANGED <<state, failures, successes, last, up, tripped>>

\* Under the mutex: has open_duration elapsed since the last failure?
CheckElapsed(c) ==
    /\ Move(c, "lock", IF last = "old" THEN "probe" ELSE "idle")
    /\ UNCHANGED <<state, failures, successes, last, up, tripped>>

\* The mutex is dropped before the store.
CheckHalfOpen(c) ==
    /\ Move(c, "probe", "request")
    /\ state' = "HalfOpen"
    /\ UNCHANGED <<failures, successes, last, up, tripped>>

\* LiveKit's answer.
Request(c) ==
    /\ Move(c, "request", IF up THEN "success" ELSE "failure")
    /\ UNCHANGED <<state, failures, successes, last, up, tripped>>

-----------------------------------------------------------------------------
(* on_success *)

Success(c) ==
    /\ Move(c, "success", IF state = "HalfOpen" THEN "bump" ELSE "reset")
    /\ UNCHANGED <<state, failures, successes, last, up, tripped>>

SuccessReset(c) ==
    /\ Move(c, "reset", "idle")
    /\ failures' = 0
    /\ UNCHANGED <<state, successes, last, up, tripped>>

SuccessBump(c) ==
    /\ Move(c, "bump", IF successes + 1 >= SuccessThreshold THEN "close" ELSE "idle")
    /\ successes' = IF successes < SuccessThreshold THEN successes + 1 ELSE successes
    /\ UNCHANGED <<state, failures, last, up, tripped>>

SuccessClose(c) ==
    /\ Move(c, "close", "clearF")
    /\ state' = "Closed"
    /\ UNCHANGED <<failures, successes, last, up, tripped>>

SuccessClearFailures(c) ==
    /\ Move(c, "clearF", "clearS")
    /\ failures' = 0
    /\ UNCHANGED <<state, successes, last, up, tripped>>

SuccessKeepsSuccesses(c) ==
    /\ Move(c, "clearS", "idle")
    /\ UNCHANGED <<state, failures, successes, last, up, tripped>>

SuccessClearSuccesses(c) ==
    /\ Move(c, "clearS", "idle")
    /\ successes' = 0
    /\ UNCHANGED <<state, failures, last, up, tripped>>

-----------------------------------------------------------------------------
(* on_failure *)

Failure(c) ==
    /\ Move(c, "failure", "stamp")
    /\ failures' = IF failures < FailureThreshold THEN failures + 1 ELSE failures
    /\ tripped'  = [tripped EXCEPT ![c] = failures + 1 >= FailureThreshold]
    /\ UNCHANGED <<state, successes, last, up>>

FailureForgetsStamp(c) ==
    /\ Move(c, "stamp", "trip")
    /\ UNCHANGED <<state, failures, successes, last, up, tripped>>

\* Under the mutex again, which is awaited.
FailureStamp(c) ==
    /\ Move(c, "stamp", "trip")
    /\ last' = "recent"
    /\ UNCHANGED <<state, failures, successes, up, tripped>>

FailureTripBoth(c) ==
    /\ Move(c, "trip", IF tripped[c] /\ state = "HalfOpen" THEN "open" ELSE "idle")
    /\ UNCHANGED <<state, failures, successes, last, up, tripped>>

\* failures >= failure_threshold || state() == HalfOpen
FailureTrip(c) ==
    /\ Move(c, "trip", IF tripped[c] \/ state = "HalfOpen" THEN "open" ELSE "idle")
    /\ UNCHANGED <<state, failures, successes, last, up, tripped>>

FailureOpen(c) ==
    /\ Move(c, "open", "clearO")
    /\ state' = "Open"
    /\ UNCHANGED <<failures, successes, last, up, tripped>>

FailureClearSuccesses(c) ==
    /\ Move(c, "clearO", "idle")
    /\ successes' = 0
    /\ UNCHANGED <<state, failures, last, up, tripped>>

-----------------------------------------------------------------------------
(* The environment *)

\* LiveKit goes down or comes back.
Flip ==
    /\ up' = ~up
    /\ UNCHANGED <<state, failures, successes, last, pc, tripped>>

\* open_duration elapses.
Elapse ==
    /\ last = "recent" /\ last' = "old"
    /\ UNCHANGED <<state, failures, successes, up, pc, tripped>>

\* The client goes away while the call waits, for LiveKit or for the mutex, and axum
\* drops the handler: the rest of check, on_success or on_failure does not run.  A
\* failure dropped at the mutex is counted, yet neither stamped nor compared.
Cancel(c) ==
    /\ pc[c] \in {"lock", "request", "stamp"} /\ pc' = [pc EXCEPT ![c] = "idle"]
    /\ UNCHANGED <<state, failures, successes, last, up, tripped>>

OnSuccess(c) ==
    \/ Success(c) \/ SuccessReset(c) \/ SuccessBump(c) \/ SuccessClose(c)
    \/ SuccessClearFailures(c) \/ SuccessClearSuccesses(c)

OnFailure(c) ==
    \/ Failure(c) \/ FailureStamp(c) \/ FailureTrip(c) \/ FailureOpen(c)
    \/ FailureClearSuccesses(c)

Step(c) ==
    \/ Check(c) \/ CheckElapsed(c) \/ CheckHalfOpen(c) \/ Request(c)
    \/ OnSuccess(c) \/ OnFailure(c)

Next == Flip \/ Elapse \/ \E c \in Calls : Step(c) \/ Cancel(c)

Spec == Init /\ [][Next]_vars

\* Requests that touch LiveKit keep coming, tokio runs each of them on, not
\* every client gives up, and the clock advances.
FairSpec ==
    /\ Spec /\ WF_vars(Elapse)
    /\ \A c \in Calls : /\ WF_vars(Step(c))
                        /\ SF_vars(CheckElapsed(c)) /\ SF_vars(Request(c))
                        /\ SF_vars(FailureStamp(c))

-----------------------------------------------------------------------------
(* Properties *)

\* Types; the counters stay within the thresholds they are compared with.
TypeOK ==
    /\ state \in {"Closed", "Open", "HalfOpen"}
    /\ failures \in 0..FailureThreshold /\ successes \in 0..SuccessThreshold
    /\ last \in {"none", "recent", "old"}
    /\ up \in BOOLEAN
    /\ pc \in [Calls -> Pcs] /\ tripped \in [Calls -> BOOLEAN]

AllIdle == \A c \in Calls : pc[c] = "idle"

\* A circuit that is not Closed remembers when it last failed: check leaves Open
\* only through last_failure_at, so an Open circuit without one would fail fast
\* for ever.
OpenRemembersFailure == state # "Closed" => last # "none"

\* The successes that closed the circuit are not counted again: no interleaving
\* leaves success_count at its threshold, where the next probe alone would close
\* the circuit.
NoStaleSuccesses == AllIdle => successes < SuccessThreshold

\* Once LiveKit stays down the circuit opens for good, although a handler that is
\* dropped between counting its failure and comparing the count may leave the
\* circuit Closed on a threshold of failures, and although late successes of calls
\* that LiveKit still answered reset the count or close the circuit.
Opens == <>[]~up => <>[](state # "Closed")

\* Once LiveKit stays up the circuit closes for good.
Recovers == <>[]up => <>[](state = "Closed")
=============================================================================
