--------------------------- MODULE CircuitBreaker ---------------------------
(***************************************************************************)
(* The circuit breaker around a call to another service, in one process    *)
(* and without Redis, its default.  The integration service configures one *)
(* for its forwarding of signals and has yet to create it.                 *)
(*                                                                         *)
(* Nothing under the lock suspends then, so each of its operations is one  *)
(* step; calls admitted in one state may end in any later one.  Without a  *)
(* bound the counters would grow for ever: they stop at MaxCount, beyond   *)
(* both thresholds.                                                        *)
(***************************************************************************)
EXTENDS Naturals

CONSTANTS Calls,            \* calls that may be under way at once
          FailureThreshold,
          HalfOpenMaxCalls,
          SuccessThreshold,
          MaxCount

\* The thresholds of CircuitBreakerConfig: 5, 3 and 2.
BreakerAssumptions ==
    /\ FailureThreshold \in Nat \ {0}
    /\ HalfOpenMaxCalls \in Nat
    /\ SuccessThreshold \in 1..HalfOpenMaxCalls + 1
    /\ MaxCount \in Nat
    /\ MaxCount >= FailureThreshold
    /\ MaxCount >= SuccessThreshold

VARIABLES state,      \* _state
          failures,   \* _failure_count
          successes,  \* _success_count
          probes,     \* _half_open_calls
          cooled,     \* recovery_timeout has passed since _last_failure_time
          under,      \* calls that were admitted and have not ended
          tried,      \* how many were admitted since the state became HALF_OPEN
          lost        \* one of those was cancelled: it counts as nothing

vars == <<state, failures, successes, probes, cooled, under, tried, lost>>

TypeOK ==
    /\ state \in {"CLOSED", "OPEN", "HALF_OPEN"}
    /\ failures \in 0..MaxCount
    /\ successes \in 0..MaxCount
    /\ probes \in 0..HalfOpenMaxCalls
    /\ cooled \in BOOLEAN
    /\ under \subseteq Calls \X BOOLEAN
    /\ tried \in Nat
    /\ lost \in BOOLEAN

Init ==
    /\ state = "CLOSED"
    /\ failures = 0
    /\ successes = 0
    /\ probes = 0
    /\ cooled = TRUE
    /\ under = {}
    /\ tried = 0
    /\ lost = FALSE
-----------------------------------------------------------------------------
\* A call under way, and whether it was admitted since the state became HALF_OPEN.
Idle(c) == \A isProbe \in BOOLEAN : <<c, isProbe>> \notin under

AdmitClosed(c) ==
    /\ Idle(c)
    /\ state = "CLOSED"
    /\ under' = under \union {<<c, FALSE>>}
    /\ UNCHANGED <<state, failures, successes, probes, cooled, tried, lost>>

Bug_KeepsProbes == probes
ProbesWhenHalfOpen == 0

\* can_execute finds the breaker OPEN for long enough.  This call is let
\* through without being counted among the half-open calls.
HalfOpen(c) ==
    /\ Idle(c)
    /\ state = "OPEN"
    /\ cooled
    /\ state' = "HALF_OPEN"
    /\ probes' = ProbesWhenHalfOpen
    /\ under' = {<<d[1], FALSE>> : d \in under} \union {<<c, TRUE>>}
    /\ tried' = 1
    /\ lost' = FALSE
    /\ UNCHANGED <<failures, successes, cooled>>

Bug_ProbesUncounted == probes
ProbesAfterAdmission == probes + 1

AdmitProbe(c) ==
    /\ Idle(c)
    /\ state = "HALF_OPEN"
    /\ probes < HalfOpenMaxCalls
    /\ probes' = ProbesAfterAdmission
    /\ under' = under \union {<<c, TRUE>>}
    /\ tried' = tried + 1
    /\ UNCHANGED <<state, failures, successes, cooled, lost>>

Count(n) == IF n < MaxCount THEN n + 1 ELSE n

\* A success counts in every state; only closing resets the count.
RecordSuccess(d) ==
    LET closes == state = "HALF_OPEN" /\ Count(successes) >= SuccessThreshold
    IN  /\ d \in under
        /\ under' = under \ {d}
        /\ state' = IF closes THEN "CLOSED" ELSE state
        /\ successes' = IF closes THEN 0 ELSE Count(successes)
        /\ failures' = IF closes \/ state = "CLOSED" THEN 0 ELSE failures
        /\ probes' = IF closes THEN 0 ELSE probes
        /\ UNCHANGED <<cooled, tried, lost>>

Bug_OneTooLate == Count(failures) > FailureThreshold
Opens == Count(failures) >= FailureThreshold

RecordFailure(d) ==
    /\ d \in under
    /\ under' = under \ {d}
    /\ failures' = Count(failures)
    /\ cooled' = FALSE
    /\ state' = IF state = "HALF_OPEN" \/ (state = "CLOSED" /\ Opens) THEN "OPEN" ELSE state
    /\ UNCHANGED <<successes, probes, tried, lost>>

\* CancelledError is no Exception: execute records nothing.
CancelCall(d) ==
    /\ d \in under
    /\ under' = under \ {d}
    /\ lost' = (lost \/ d[2])
    /\ UNCHANGED <<state, failures, successes, probes, cooled, tried>>

ForceOpen ==
    /\ state' = "OPEN"
    /\ cooled' = FALSE
    /\ UNCHANGED <<failures, successes, probes, under, tried, lost>>

ForceClose ==
    /\ state' = "CLOSED"
    /\ failures' = 0
    /\ successes' = 0
    /\ probes' = 0
    /\ UNCHANGED <<cooled, under, tried, lost>>

TimeoutPasses ==
    /\ ~cooled
    /\ cooled' = TRUE
    /\ UNCHANGED <<state, failures, successes, probes, under, tried, lost>>

Next ==
    \/ \E c \in Calls : AdmitClosed(c) \/ HalfOpen(c) \/ AdmitProbe(c)
    \/ \E d \in under : RecordSuccess(d) \/ RecordFailure(d) \/ CancelCall(d)
    \/ ForceOpen \/ ForceClose \/ TimeoutPasses

Spec == Init /\ [][Next]_vars
-----------------------------------------------------------------------------
\* A breaker that is closed has seen fewer failures in a row than its threshold,
\* also those of calls that were admitted before it opened and closed again.
ClosedIsHealthy == state = "CLOSED" => failures < FailureThreshold

\* While the service is on probation it gets few calls: those counted and the
\* one that found the breaker open.
ProbesAreBounded == state = "HALF_OPEN" => tried <= HalfOpenMaxCalls + 1

\* A breaker that admits nobody, as all its probes are used, is waiting for one
\* of them: when all have ended it has opened or closed, unless one of them was
\* cancelled, after which it refuses every call until someone forces it.
NotStuck ==
    state = "HALF_OPEN" /\ probes = HalfOpenMaxCalls /\ under = {} => lost
=============================================================================
