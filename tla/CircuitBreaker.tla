---------------------------- MODULE CircuitBreaker ----------------------------
(***************************************************************************)
(* The circuit breaker around the e-mail, SMS and OAuth providers.  Calls  *)
(* overlap: a call admitted in one state of the breaker may answer in      *)
(* another, because execute() awaits the provider between its check of     *)
(* the state and onSuccess() / onFailure().                                *)
(*                                                                         *)
(* Time enters only through nextAttemptTime: null, in the future or        *)
(* reached.  failureCount is compared with failureThreshold only, so it    *)
(* saturates there.                                                        *)
(***************************************************************************)
EXTENDS Naturals

CONSTANTS
    Calls,              \* slots for calls in flight
    FailureThreshold,   \* failures before the circuit opens
    SuccessThreshold    \* successes before a half-open circuit closes

ASSUME ThresholdsAssumption ==
    /\ FailureThreshold \in Nat \ {0}
    /\ SuccessThreshold \in Nat \ {0}

VARIABLES
    state, failureCount, successCount,
    nextAttemptTime,    \* "null", "future" or "reached"
    running,            \* the calls that await the provider
    up,                 \* environment: does the provider answer in time?
    good, bad           \* history: successes and failures in a row (saturating)

breaker == <<state, failureCount, successCount, nextAttemptTime>>
breakerVars == <<breaker, running, up, good, bad>>

Bump(n, cap) == IF n < cap THEN n + 1 ELSE cap

BreakerTypeOK ==
    /\ state \in {"closed", "open", "half-open"}
    /\ failureCount \in 0..FailureThreshold
    /\ successCount \in 0..SuccessThreshold
    /\ nextAttemptTime \in {"null", "future", "reached"}
    /\ running \subseteq Calls
    /\ up \in BOOLEAN
    /\ good \in 0..SuccessThreshold
    /\ bad \in 0..FailureThreshold

BreakerInit ==
    /\ state = "closed"
    /\ failureCount = 0
    /\ successCount = 0
    /\ nextAttemptTime = "null"
    /\ running = {}
    /\ up \in BOOLEAN
    /\ good = 0
    /\ bad = 0

-----------------------------------------------------------------------------
(* execute() up to its await                                               *)

Admit(c) ==
    /\ c \notin running
    /\ running' = running \cup {c}
    /\ UNCHANGED <<up, good, bad>>

ExecuteThrough(c) ==
    /\ state # "open"
    /\ Admit(c)
    /\ UNCHANGED breaker

\* The call that finds an open circuit past its reset timeout half-opens it;
\* any other call on an open circuit is rejected and changes nothing.
ExecuteProbe(c) ==
    /\ state = "open"
    /\ nextAttemptTime = "reached"
    /\ Admit(c)
    /\ state' = "half-open"
    /\ successCount' = 0
    /\ UNCHANGED <<failureCount, nextAttemptTime>>

-----------------------------------------------------------------------------
(* execute() after its await                                               *)

Close ==
    /\ state' = "closed"
    /\ failureCount' = 0
    /\ successCount' = 0
    /\ nextAttemptTime' = "null"

\* Slip: the retry time is not set when the circuit opens.
Open_NoRetryTime ==
    /\ state' = "open"
    /\ successCount' = 0
    /\ UNCHANGED nextAttemptTime

Open ==
    /\ state' = "open"
    /\ nextAttemptTime' = "future"
    /\ successCount' = 0

\* Slip: a success does not forgive the failures before it.
OnSuccess_KeepsFailures(c) ==
    /\ c \in running /\ up
    /\ running' = running \ {c}
    /\ good' = Bump(good, SuccessThreshold)
    /\ bad' = 0
    /\ IF state = "half-open"
       THEN IF successCount + 1 >= SuccessThreshold
            THEN Close
            ELSE /\ successCount' = successCount + 1
                 /\ UNCHANGED <<state, failureCount, nextAttemptTime>>
       ELSE UNCHANGED breaker
    /\ UNCHANGED up

OnSuccess(c) ==
    /\ c \in running /\ up
    /\ running' = running \ {c}
    /\ good' = Bump(good, SuccessThreshold)
    /\ bad' = 0
    /\ IF state = "half-open" /\ successCount + 1 >= SuccessThreshold
       THEN Close
       ELSE /\ failureCount' = 0
            /\ successCount' = IF state = "half-open" THEN successCount + 1 ELSE successCount
            /\ UNCHANGED <<state, nextAttemptTime>>
    /\ UNCHANGED up

\* A provider error or the timeout of executeWithTimeout.  A failure that
\* arrives while the circuit is open re-arms the reset timeout.
OnFailure(c) ==
    /\ c \in running /\ ~ up
    /\ running' = running \ {c}
    /\ bad' = Bump(bad, FailureThreshold)
    /\ good' = 0
    /\ failureCount' = Bump(failureCount, FailureThreshold)
    /\ IF state = "half-open" \/ failureCount' >= FailureThreshold
       THEN Open
       ELSE UNCHANGED <<state, successCount, nextAttemptTime>>
    /\ UNCHANGED up

\* reset(): the operator closes the circuit by hand.
Reset ==
    /\ Close
    /\ UNCHANGED <<running, up, good, bad>>

\* The clock reaches nextAttemptTime.
Elapse ==
    /\ nextAttemptTime = "future"
    /\ nextAttemptTime' = "reached"
    /\ UNCHANGED <<state, failureCount, successCount, running, up, good, bad>>

\* The provider goes down or recovers.
Toggle ==
    /\ up' = ~ up
    /\ UNCHANGED <<breaker, running, good, bad>>

Execute(c) == ExecuteThrough(c) \/ ExecuteProbe(c)
Answer(c) == OnSuccess(c) \/ OnFailure(c)

BreakerNext ==
    \/ \E c \in Calls : Execute(c) \/ Answer(c)
    \/ Reset \/ Elapse \/ Toggle

BreakerSpec == BreakerInit /\ [][BreakerNext]_breakerVars

\* Timers fire, every call is answered or timed out, and callers keep calling.
BreakerFairness ==
    /\ WF_breakerVars(Elapse)
    /\ \A c \in Calls : WF_breakerVars(Answer(c)) /\ WF_breakerVars(Execute(c))

FairBreakerSpec == BreakerSpec /\ BreakerFairness

-----------------------------------------------------------------------------
(* Properties                                                              *)

\* Each state keeps its bookkeeping: a closed circuit is below the failure
\* threshold, a half-open one below the success threshold, and an open one
\* has a retry time (or it would reject calls for ever).
StateConsistent ==
    /\ state = "closed" => failureCount < FailureThreshold /\ successCount = 0
    /\ state = "half-open" => successCount < SuccessThreshold
    /\ state = "open" => nextAttemptTime # "null"
    /\ failureCount <= bad
    /\ state = "half-open" => successCount <= good

\* A closed circuit opens only when the last failureThreshold answers, in
\* order of arrival, all failed: one success in between forgives them.
OpensAfterStreak == state = "closed" /\ state' = "open" => bad' = FailureThreshold
TripsOnStreak == [][OpensAfterStreak]_breakerVars

\* A circuit that had opened closes by itself only when the last
\* successThreshold answers all succeeded, however late calls interleave.
ClosesAfterStreak ==
    state # "closed" /\ state' = "closed" /\ running' # running
        => state = "half-open" /\ good' = SuccessThreshold
ClosesOnStreak == [][ClosesAfterStreak]_breakerVars

\* While the provider stays down and no operator keeps resetting it, the
\* circuit keeps opening: probes never leave it closed or half-open.
Trips == <>[](~ up) /\ <>[][~ Reset]_breakerVars => []<>(state = "open")

\* Once the provider stays up, the circuit closes for good.
Recovers == <>[]up => <>[](state = "closed")

\* A circuit switches on the streaks of answers its thresholds name, and knows
\* in each state what it counts and when it tries again.
SwitchesOnStreaks ==
    [][StateConsistent' /\ OpensAfterStreak /\ ClosesAfterStreak]_breakerVars
=============================================================================
