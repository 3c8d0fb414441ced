----------------------------- MODULE ResilienceMC -----------------------------
(***************************************************************************)
(* Small instances of the components that must keep going, or must come to *)
(* an end, when something fails: CircuitBreaker, Retry, SessionLock,       *)
(* CacheFallback, JobQueue and PermissionCache.  They share no state, so   *)
(* each behaviour exercises one of them, named by part, while the others   *)
(* stay as they are: their state spaces add up instead of multiplying.     *)
(***************************************************************************)
EXTENDS CircuitBreaker, Retry, SessionLock, CacheFallback, JobQueue, PermissionCache

CONSTANTS c1, c2, c3, w1, w2, l1, l2, l3, k1, k2, n1, n2, n3, n4, q1

ThreeCalls == {c1, c2, c3}
TwoCallers == {w1, w2}
ThreeLockers == {l1, l2, l3}
OneRequest == {q1}
TwoKeys == {k1, k2}
OneCounter == {n1}
OneJob == {n1}
OneUser == {n1}
OneRole == {n2}
TwoPermissions == {k1, k2}
OneCheck == {n3}
OneAdmin == {n4}
TwoErrors == {"ECONNRESET", "SyntaxError"}
OneRetryable == {"ECONNRESET"}

VARIABLE part

Parts == {"breaker", "retry", "lock", "fallback", "queue", "permissions"}

suiteVars == <<part, breakerVars, retryVars, lockVars, fallbackVars, queueVars, vars>>

MCInit ==
    /\ part \in Parts
    /\ BreakerInit /\ RetryInit /\ LockInit /\ FallbackInit /\ QueueInit /\ Init
    \* The idle components have one initial state.
    /\ part # "breaker" => up
    /\ part # "queue" => kind = "email"
    /\ part # "permissions" => rolePerms = [r \in Roles |-> {}]

OnlyBreaker == UNCHANGED <<part, retryVars, lockVars, fallbackVars, queueVars, vars>>
OnlyRetry == UNCHANGED <<part, breakerVars, lockVars, fallbackVars, queueVars, vars>>
OnlyLock == UNCHANGED <<part, breakerVars, retryVars, fallbackVars, queueVars, vars>>
OnlyFallback == UNCHANGED <<part, breakerVars, retryVars, lockVars, queueVars, vars>>
OnlyQueue == UNCHANGED <<part, breakerVars, retryVars, lockVars, fallbackVars, vars>>
OnlyPermissions ==
    UNCHANGED <<part, breakerVars, retryVars, lockVars, fallbackVars, queueVars>>

MCNext ==
    \/ part = "breaker" /\ BreakerNext /\ OnlyBreaker
    \/ part = "retry" /\ RetryNext /\ OnlyRetry
    \/ part = "lock" /\ LockNext /\ OnlyLock
    \/ part = "fallback" /\ FallbackNext /\ OnlyFallback
    \/ part = "queue" /\ QueueNext /\ OnlyQueue
    \/ part = "permissions" /\ Next /\ OnlyPermissions

\* The fairness of each component.  What Retry, SessionLock, JobQueue and
\* PermissionCache are fair to is disabled while they are idle; the callers of
\* the others call only in behaviours that are theirs.
MCSpec ==
    /\ MCInit /\ [][MCNext]_suiteVars
    /\ RetryFairness
    /\ LockFairness
    /\ QueueFairness
    /\ Fairness
    /\ WF_breakerVars(Elapse)
    /\ \A c \in Calls : WF_breakerVars(Answer(c)) /\ WF_breakerVars(part = "breaker" /\ Execute(c))
    /\ WF_fallbackVars(IntervalPasses)
    /\ \A r \in Requests : WF_fallbackVars(Continue(r))
    /\ \A r \in Requests, k \in Keys :
         WF_fallbackVars(part = "fallback" /\ Start(r, "get", k))

\* Whatever was begun comes to an end: retried calls, calls that wait for the
\* lock, queued jobs, and requests of administrators.
EverythingEnds == CallsEnd /\ NobodyWaitsForever /\ JobsEnd /\ AdminsAnswer

\* Faults leave nothing wrong for ever: a circuit opens and closes again, the
\* verdict on Redis follows Redis, and stale permissions heal.
HealsItself == Trips /\ Recovers /\ VerdictFollows /\ StaleHeals
===============================================================================
