--------------------------------- MODULE Retry ---------------------------------
(***************************************************************************)
(* withRetry (retry.ts) around one write of a shared cell, as              *)
(* setSessionWithRetry and deleteSessionWithRetry (session-consistency.ts) *)
(* use it.  A failed attempt may still have taken effect: the answer was   *)
(* lost.  A caller slot holds one call at a time and names its value.      *)
(* Milliseconds are scaled down to small numbers by the instances.         *)
(***************************************************************************)
EXTENDS Integers

CONSTANTS
    Callers,
    MaxAttempts, InitialDelay, MaxDelay, Multiplier,    \* RetryConfig
    Errors,             \* the kinds of error an attempt may end with
    RetryableErrors,    \* those the configuration lists; {} retries them all
    Nothing             \* the cell before the first write

ASSUME RetryAssumption ==
    /\ MaxAttempts \in Nat \ {0}
    /\ InitialDelay \in Nat /\ MaxDelay \in Nat /\ Multiplier \in Nat \ {0}
    /\ RetryableErrors \subseteq Errors
    /\ Nothing \notin Callers

VARIABLES
    step,       \* "idle", "calling", "sleeping", "returned" or "thrown"
    attempt,    \* 0-based, as in the for loop
    delay,      \* the last delay slept, 0 if none
    lastError,  \* the error of the last attempt, "none" after a success
    cell,       \* the shared value: its last writer
    before      \* history: the calls that had returned when a call began

retryVars == <<step, attempt, delay, lastError, cell, before>>

RetryTypeOK ==
    /\ step \in [Callers -> {"idle", "calling", "sleeping", "returned", "thrown"}]
    /\ attempt \in [Callers -> 0..(MaxAttempts - 1)]
    /\ delay \in [Callers -> Nat]
    /\ lastError \in [Callers -> Errors \cup {"none"}]
    /\ cell \in Callers \cup {Nothing}
    /\ before \in [Callers -> SUBSET Callers]

RetryInit ==
    /\ step = [c \in Callers |-> "idle"]
    /\ attempt = [c \in Callers |-> 0]
    /\ delay = [c \in Callers |-> 0]
    /\ lastError = [c \in Callers |-> "none"]
    /\ cell = Nothing
    /\ before = [c \in Callers |-> {}]

Least(a, b) == IF a < b THEN a ELSE b

\* initialDelayMs times the n-th power of backoffMultiplier, capped.
Backoff[n \in Nat] == IF n = 0 THEN InitialDelay ELSE Multiplier * Backoff[n - 1]
Capped(n) == Least(Backoff[n], MaxDelay)

\* calculateDelay: up to a quarter of jitter on top of the capped delay.
Delays(n) == Capped(n) .. ((5 * Capped(n)) \div 4)

IsRetryableError(e) == RetryableErrors = {} \/ e \in RetryableErrors

Begin(c) ==
    /\ step[c] = "idle"
    /\ step' = [step EXCEPT ![c] = "calling"]
    /\ before' = [before EXCEPT ![c] = {d \in Callers : step[d] = "returned"}]
    /\ UNCHANGED <<attempt, delay, lastError, cell>>

FnResolves(c) ==
    /\ step[c] = "calling"
    /\ step' = [step EXCEPT ![c] = "returned"]
    /\ cell' = c
    /\ lastError' = [lastError EXCEPT ![c] = "none"]
    /\ UNCHANGED <<attempt, delay, before>>

GivesUp(c, e) == attempt[c] = MaxAttempts - 1 \/ ~ IsRetryableError(e)

\* Slip: a failure whose effect landed answers the caller while the loop
\* goes on in the background.
FnRejects_Detached(c, e, landed) ==
    /\ step[c] \in {"calling", "returned"}
    /\ cell' = IF landed THEN c ELSE cell
    /\ lastError' = [lastError EXCEPT ![c] = e]
    /\ IF GivesUp(c, e)
       THEN step' = [step EXCEPT ![c] = "thrown"] /\ UNCHANGED delay
       ELSE /\ step' = [step EXCEPT ![c] = IF landed THEN "returned" ELSE "sleeping"]
            /\ \E d \in Delays(attempt[c]) : delay' = [delay EXCEPT ![c] = d]
    /\ UNCHANGED <<attempt, before>>

\* The catch block: rethrow, or sleep before the next attempt.
FnRejects(c, e, landed) ==
    /\ step[c] = "calling"
    /\ cell' = IF landed THEN c ELSE cell
    /\ lastError' = [lastError EXCEPT ![c] = e]
    /\ IF GivesUp(c, e)
       THEN step' = [step EXCEPT ![c] = "thrown"] /\ UNCHANGED delay
       ELSE /\ step' = [step EXCEPT ![c] = "sleeping"]
            /\ \E d \in Delays(attempt[c]) : delay' = [delay EXCEPT ![c] = d]
    /\ UNCHANGED <<attempt, before>>

Wake(c) ==
    /\ step[c] = "sleeping"
    /\ step' = [step EXCEPT ![c] = "calling"]
    /\ attempt' = [attempt EXCEPT ![c] = @ + 1]
    /\ UNCHANGED <<delay, lastError, cell, before>>

\* The slot of an ended call serves a new one; nobody compares with the old
\* call's value any more, so it loses its name.
Recycle(c) ==
    /\ step[c] \in {"returned", "thrown"}
    /\ step' = [step EXCEPT ![c] = "idle"]
    /\ attempt' = [attempt EXCEPT ![c] = 0]
    /\ delay' = [delay EXCEPT ![c] = 0]
    /\ lastError' = [lastError EXCEPT ![c] = "none"]
    /\ cell' = IF cell = c THEN Nothing ELSE cell
    /\ before' = [d \in Callers |-> IF d = c THEN {} ELSE before[d] \ {c}]

Settles(c) ==
    \/ FnResolves(c)
    \/ \E e \in Errors, landed \in BOOLEAN : FnRejects(c, e, landed)

RetryNext == \E c \in Callers : Begin(c) \/ Settles(c) \/ Wake(c) \/ Recycle(c)

RetrySpec == RetryInit /\ [][RetryNext]_retryVars

\* The wrapped function settles, and timers fire.
RetryFairness ==
    \A c \in Callers : WF_retryVars(Settles(c)) /\ WF_retryVars(Wake(c))

-----------------------------------------------------------------------------
(* Properties                                                              *)

\* withRetry throws only after maxAttempts attempts or on an error outside
\* retryableErrors, and a returned call ended with a success.
ThrowsOnlyAtTheEnd ==
    \A c \in Callers :
        /\ step[c] = "thrown" =>
             \/ attempt[c] = MaxAttempts - 1
             \/ RetryableErrors # {} /\ lastError[c] \notin RetryableErrors
        /\ step[c] = "returned" => lastError[c] = "none"

\* Every delay slept lies between initialDelayMs and five quarters of
\* maxDelayMs: the jitter comes after the cap, and nothing else exceeds it.
DelaysBounded ==
    \A c \in Callers : delay[c] # 0 =>
        /\ delay[c] >= Least(InitialDelay, MaxDelay)
        /\ 4 * delay[c] <= 5 * MaxDelay

\* A write that had returned before another write began never shows again
\* once the later one has returned, although a lost answer makes an attempt
\* write twice: the second write is still inside its call.
LaterWriteHolds ==
    \A c \in Callers : step[c] = "returned" => cell \notin before[c]

\* Every call ends, after finitely many attempts.
CallsEnd == \A c \in Callers : step[c] = "calling" ~> step[c] \in {"returned", "thrown"}

\* What a caller of withRetry relies on, besides that it ends.
RetryContract == RetryTypeOK /\ ThrowsOnlyAtTheEnd /\ DelaysBounded /\ LaterWriteHolds
=============================================================================
