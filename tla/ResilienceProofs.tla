-------------------------- MODULE ResilienceProofs --------------------------
(***************************************************************************)
(* Proofs about the circuit breaker, the session lock, retries, the job    *)
(* queue and the fallback cache, for any number of overlapping calls,      *)
(* tries, jobs, workers and keys.                                          *)
(***************************************************************************)
EXTENDS CircuitBreaker, SessionLock, Retry, JobQueue, CacheFallback, Foundations

-----------------------------------------------------------------------------
(***************************************************************************)
(* The circuit breaker.  Its type and the agreement of its counters with   *)
(* its state are inductive together, for any thresholds and any number of  *)
(* overlapping calls.                                                      *)
(***************************************************************************)

\* BreakerTypeOK and StateConsistent are inductive together.
Consistent == BreakerTypeOK /\ StateConsistent

LEMMA ConsistentStep == Consistent /\ [BreakerNext]_breakerVars => Consistent'
<1> SUFFICES ASSUME Consistent, [BreakerNext]_breakerVars PROVE Consistent'
  OBVIOUS
<1> USE ThresholdsAssumption DEF Consistent, BreakerTypeOK, StateConsistent, breaker, Bump
<1>1. ASSUME NEW c \in Calls, ExecuteThrough(c) PROVE Consistent'
  BY <1>1 DEF ExecuteThrough, Admit
<1>2. ASSUME NEW c \in Calls, ExecuteProbe(c) PROVE Consistent'
  BY <1>2 DEF ExecuteProbe, Admit
<1>3. ASSUME NEW c \in Calls, OnSuccess(c) PROVE Consistent'
  <2>1. CASE state = "half-open" /\ successCount + 1 >= SuccessThreshold
    BY <1>3, <2>1 DEF OnSuccess, Close
  <2>2. CASE ~ (state = "half-open" /\ successCount + 1 >= SuccessThreshold)
    BY <1>3, <2>2 DEF OnSuccess
  <2> QED
    BY <2>1, <2>2
<1>4. ASSUME NEW c \in Calls, OnFailure(c) PROVE Consistent'
  <2>1. CASE state = "half-open" \/ failureCount' >= FailureThreshold
    BY <1>4, <2>1 DEF OnFailure, Open
  <2>2. CASE ~ (state = "half-open" \/ failureCount' >= FailureThreshold)
    BY <1>4, <2>2 DEF OnFailure
  <2> QED
    BY <2>1, <2>2
<1>5. CASE Reset
  BY <1>5 DEF Reset, Close
<1>6. CASE Elapse
  BY <1>6 DEF Elapse
<1>7. CASE Toggle
  BY <1>7 DEF Toggle
<1>8. CASE UNCHANGED breakerVars
  BY <1>8 DEF breakerVars
<1> QED
  BY <1>1, <1>2, <1>3, <1>4, <1>5, <1>6, <1>7, <1>8 DEF BreakerNext, Execute, Answer

\* A closed circuit is below its failure threshold, a half-open one below its
\* success threshold, and an open one always has a retry time: whatever order
\* the overlapping calls answer in.
THEOREM AlwaysConsistent == BreakerSpec => [](BreakerTypeOK /\ StateConsistent)
<1>1. BreakerInit => Consistent
  BY ThresholdsAssumption DEF BreakerInit, Consistent, BreakerTypeOK, StateConsistent
<1> QED
  BY <1>1, ConsistentStep, PTL DEF BreakerSpec, Consistent

\* The circuit opens from closed only on failureThreshold failures in a row.
THEOREM TripsOnlyOnStreak == BreakerSpec => TripsOnStreak
<1>1. BreakerTypeOK /\ StateConsistent /\ [BreakerNext]_breakerVars
        => [OpensAfterStreak]_breakerVars
  <2> SUFFICES ASSUME BreakerTypeOK, StateConsistent, BreakerNext, state = "closed", state' = "open"
               PROVE bad' = FailureThreshold
    BY DEF OpensAfterStreak
  <2> USE ThresholdsAssumption DEF BreakerTypeOK, StateConsistent, breaker, Bump
  <2>1. ASSUME NEW c \in Calls, OnFailure(c) PROVE bad' = FailureThreshold
    BY <2>1 DEF OnFailure, Open
  <2>2. ~ (Reset \/ Elapse \/ Toggle)
    BY DEF Reset, Close, Elapse, Toggle
  <2>3. ASSUME NEW c \in Calls PROVE ~ (Execute(c) \/ OnSuccess(c))
    BY DEF Execute, ExecuteThrough, ExecuteProbe, Admit, OnSuccess, Close
  <2> QED
    BY <2>1, <2>2, <2>3 DEF BreakerNext, Answer
<1> QED
  BY <1>1, AlwaysConsistent, PTL DEF BreakerSpec, TripsOnStreak

\* The circuit closes by itself only on successThreshold successes in a row.
THEOREM ClosesOnlyOnStreak == BreakerSpec => ClosesOnStreak
<1>1. BreakerTypeOK /\ StateConsistent /\ [BreakerNext]_breakerVars
        => [ClosesAfterStreak]_breakerVars
  <2> SUFFICES ASSUME BreakerTypeOK, StateConsistent, BreakerNext,
                      state # "closed", state' = "closed", running' # running
               PROVE  state = "half-open" /\ good' = SuccessThreshold
    BY DEF ClosesAfterStreak
  <2> USE ThresholdsAssumption DEF BreakerTypeOK, StateConsistent, breaker, Bump
  <2>1. ASSUME NEW c \in Calls, OnSuccess(c)
        PROVE  state = "half-open" /\ good' = SuccessThreshold
    BY <2>1 DEF OnSuccess, Close
  <2>2. ~ (Reset \/ Elapse \/ Toggle)
    BY DEF Reset, Close, Elapse, Toggle
  <2>3. ASSUME NEW c \in Calls PROVE ~ (Execute(c) \/ OnFailure(c))
    BY DEF Execute, ExecuteThrough, ExecuteProbe, Admit, OnFailure, Open
  <2> QED
    BY <2>1, <2>2, <2>3 DEF BreakerNext, Answer
<1> QED
  BY <1>1, AlwaysConsistent, PTL DEF BreakerSpec, ClosesOnStreak

\* A breaker switches on streaks only and keeps its books in every state.
THEOREM SwitchesOnlyOnStreaks == BreakerSpec => SwitchesOnStreaks
BY AlwaysConsistent, TripsOnlyOnStreak, ClosesOnlyOnStreak, PTL
   DEF SwitchesOnStreaks, TripsOnStreak, ClosesOnStreak

-----------------------------------------------------------------------------
(***************************************************************************)
(* The session lock.  A call that has not got in has neither acquired nor  *)
(* lost anything, so the only way to hold the lock is Acquire, which needs *)
(* the key to be free; and whoever is inside under an unexpired lock is    *)
(* the owner of the key, of which there is one.                            *)
(***************************************************************************)

\* Outside there is nothing to be held, to have expired or to be spoiled.
OutsideIsClean ==
    \A c \in Lockers : at[c] \in {"out", "trying"} =>
        ~ acquired[c] /\ ~ expired[c] /\ spoiled[c] = "no"

LockInv == LockTypeOK /\ OutsideIsClean /\ OneHolder /\ LostUpdateExplained

LEMMA LockInitInv == LockInit => LockInv
BY LockAssumption DEF LockInit, LockInv, LockTypeOK, OutsideIsClean, OneHolder,
                      LostUpdateExplained, Holds

LEMMA TypeStep == LockInv /\ [LockNext]_lockVars => LockTypeOK'
<1> USE LockAssumption DEF LockInv, LockTypeOK
<1> SUFFICES ASSUME LockInv, [LockNext]_lockVars PROVE LockTypeOK'
  OBVIOUS
<1>1. ASSUME NEW c \in Lockers, Enter(c) PROVE LockTypeOK'
  BY <1>1 DEF Enter
<1>2. ASSUME NEW c \in Lockers, Acquire(c) PROVE LockTypeOK'
  BY <1>2 DEF Acquire
<1>3. ASSUME NEW c \in Lockers, NEW b \in BOOLEAN, Miss(c, b) PROVE LockTypeOK'
  BY <1>3 DEF Miss
<1>4. ASSUME NEW c \in Lockers, GiveUp(c) PROVE LockTypeOK'
  BY <1>4 DEF GiveUp
<1>5. ASSUME NEW c \in Lockers, NEW b \in BOOLEAN, Body(c, b) PROVE LockTypeOK'
  <2>1. spoiled' \in [Lockers -> {"no", "holder", "intruder"}]
    BY <1>5 DEF Body, Spoil
  <2>2. CASE acquired[c]
    BY <1>5, <2>1, <2>2 DEF Body
  <2>3. CASE ~ acquired[c]
    <3>1. Leave(c) /\ Disown(c)
      BY <1>5, <2>3 DEF Body
    <3> QED BY <2>1, <3>1 DEF Leave, Disown
  <2> QED BY <2>2, <2>3
<1>6. ASSUME NEW c \in Lockers, NEW b \in BOOLEAN, Release(c, b) PROVE LockTypeOK'
  BY <1>6 DEF Release, Leave, Disown
<1>7. ASSUME LockExpires PROVE LockTypeOK'
  <2>1. expired' \in [Lockers -> BOOLEAN]
    BY <1>7 DEF LockExpires
  <2> QED BY <1>7, <2>1 DEF LockExpires
<1>8. ASSUME NEW c \in Lockers, CrashOf(c) PROVE LockTypeOK'
  BY <1>8 DEF CrashOf, Leave, Disown
<1>9. CASE UNCHANGED lockVars
  BY <1>9 DEF lockVars
<1> QED BY <1>1, <1>2, <1>3, <1>4, <1>5, <1>6, <1>7, <1>8, <1>9 DEF LockNext, Proceed

LEMMA InvStep == LockInv /\ [LockNext]_lockVars => LockInv'
<1> DEFINE Rest == OutsideIsClean /\ OneHolder /\ LostUpdateExplained
<1> USE LockAssumption DEF LockInv, LockTypeOK, OutsideIsClean, OneHolder,
                           LostUpdateExplained, Holds
<1> SUFFICES ASSUME LockInv, [LockNext]_lockVars PROVE LockInv'
  OBVIOUS
<1>1. ASSUME NEW c \in Lockers, Enter(c) PROVE Rest'
  BY <1>1 DEF Enter
<1>2. ASSUME NEW c \in Lockers, Acquire(c) PROVE Rest'
  BY <1>2 DEF Acquire
<1>3. ASSUME NEW c \in Lockers, NEW b \in BOOLEAN, Miss(c, b) PROVE Rest'
  \* A lock whose answer was lost is set only if nobody held one.
  BY <1>3 DEF Miss
<1>4. ASSUME NEW c \in Lockers, GiveUp(c) PROVE Rest'
  BY <1>4 DEF GiveUp
<1>5. ASSUME NEW c \in Lockers, NEW b \in BOOLEAN, Body(c, b) PROVE Rest'
  <2>1. ASSUME NEW d \in Lockers, Holds(d), d # c PROVE spoiled'[d] # "holder"
    \* Were the writer a holder too, the key would have two owners.
    <3>1. ~ Holds(c)
      BY <2>1
    <3> QED BY <1>5, <2>1, <3>1 DEF Body, Spoil
  <2>2. \A d \in Lockers : spoiled[d] = "no" /\ at[d] # "inside" => spoiled'[d] = "no"
    BY <1>5 DEF Body, Spoil
  <2>3. CASE acquired[c]
    <3>1. /\ at' = [at EXCEPT ![c] = "releasing"]
          /\ UNCHANGED <<tries, acquired, lock, expired>>
      BY <1>5, <2>3 DEF Body
    <3>2. spoiled'[c] = spoiled[c]
      BY <1>5, <2>3 DEF Body, Spoil
    <3> QED BY <1>5, <2>1, <2>2, <3>1, <3>2 DEF Body
  <2>4. CASE ~ acquired[c]
    <3>1. Leave(c) /\ Disown(c)
      BY <1>5, <2>4 DEF Body
    <3>2. spoiled'[c] = "no"
      BY <1>5, <2>4 DEF Body, Spoil
    <3> QED BY <1>5, <2>1, <2>2, <3>1, <3>2 DEF Body, Leave, Disown
  <2> QED BY <2>3, <2>4
<1>6. ASSUME NEW c \in Lockers, NEW b \in BOOLEAN, Release(c, b) PROVE Rest'
  BY <1>6 DEF Release, Leave, Disown
<1>7. ASSUME LockExpires PROVE Rest'
  BY <1>7 DEF LockExpires
<1>8. ASSUME NEW c \in Lockers, CrashOf(c) PROVE Rest'
  BY <1>8 DEF CrashOf, Leave, Disown
<1>9. CASE UNCHANGED lockVars
  BY <1>9 DEF lockVars
<1>10. Rest'
  BY <1>1, <1>2, <1>3, <1>4, <1>5, <1>6, <1>7, <1>8, <1>9 DEF LockNext, Proceed
<1> QED BY <1>10, TypeStep

\* The invariant that the theorems below are read off.
THEOREM LockInvariant == LockSpec => []LockInv
BY LockInitInv, InvStep, PTL DEF LockSpec

\* Type correctness of the lock and of the locals of withSessionLock.
THEOREM LockTypeCorrect == LockSpec => []LockTypeOK
BY LockInvariant, PTL DEF LockInv

\* No two calls of withSessionLock are inside under unexpired locks at once.
THEOREM MutualExclusion == LockSpec => []OneHolder
BY LockInvariant, PTL DEF LockInv

\* An update is never lost between two calls that both hold the lock.
THEOREM NoHolderLosesToAHolder == LockSpec => []LostUpdateExplained
BY LockInvariant, PTL DEF LockInv

-----------------------------------------------------------------------------

LEMMA ReleaseStep ==
  ASSUME LockInv, [LockNext]_lockVars, NEW c \in Lockers, at[c] # "out", at'[c] = "out"
  PROVE  lock' = lock \/ lock = c
<1> USE DEF LockInv, LockTypeOK
<1>1. ASSUME NEW d \in Lockers, d # c, at' = at \/ (\E x : at' = [at EXCEPT ![d] = x])
      PROVE FALSE
  BY <1>1
<1>2. CASE UNCHANGED lockVars
  BY <1>2 DEF lockVars
<1>3. CASE LockExpires
  BY <1>3 DEF LockExpires
<1>4. ASSUME NEW d \in Lockers, Enter(d) \/ Proceed(d) \/ CrashOf(d)
      PROVE lock' = lock \/ lock = c
  <2>1. CASE d # c
    BY <1>1, <1>4, <2>1
       DEF Enter, Proceed, Acquire, Miss, GiveUp, Body, Release, CrashOf, Leave
  <2>2. CASE d = c
    BY <1>4, <2>2
       DEF Enter, Proceed, Acquire, Miss, GiveUp, Body, Release, CrashOf, Leave, Disown
  <2> QED BY <2>1, <2>2
<1> QED BY <1>2, <1>3, <1>4 DEF LockNext

\* A call that ends never removes the lock of another one, not even after its
\* own has expired and been taken over.
THEOREM ReleasesOnlyItsOwn == LockSpec => ReleaseOwn
<1>1. LockInv /\ [LockNext]_lockVars => [LeavesOthers]_lockVars
  BY ReleaseStep DEF LeavesOthers
<1> QED BY <1>1, LockInvariant, PTL DEF LockSpec, ReleaseOwn

\* withSessionLock protects a session: exclusion, no lost update between two
\* holders, and releases that are the holder's own.
THEOREM LockAlwaysProtects == LockSpec => LockProtects
BY MutualExclusion, NoHolderLosesToAHolder, ReleasesOnlyItsOwn, PTL
   DEF LockProtects, ReleaseOwn

-----------------------------------------------------------------------------
(***************************************************************************)
(* Retry with backoff.  The delays grow with the multiplier up to the      *)
(* maximum, by induction on the number of the attempt; a call that sleeps  *)
(* has attempts left, and a call that had returned when another began has  *)
(* written all it will.                                                    *)
(***************************************************************************)

LEMMA MultiplesAreNat ==
  ASSUME NEW m \in Nat PROVE [n \in Nat |-> [x \in Nat |-> m * x]] \in [Nat -> [Nat -> Nat]]
<1>1. \A x \in Nat : m * x \in Nat
  OBVIOUS
<1>2. [x \in Nat |-> m * x] \in [Nat -> Nat]
  BY <1>1
<1> QED BY <1>2

\* The uncapped delay of every attempt is at least the first one.
LEMMA BackoffGrows == \A n \in Nat : Backoff[n] \in Nat /\ Backoff[n] >= InitialDelay
<1> USE RetryAssumption
<1> DEFINE Def(f) == f = [n \in Nat |-> IF n = 0 THEN InitialDelay ELSE Multiplier * f[n - 1]]
           g == [n \in Nat |-> [x \in Nat |-> Multiplier * x]]
<1>1. \E f : Def(f)
  <2>1. Steps(Nat, g)
    BY MultiplesAreNat DEF Steps
  <2>2. PICK f : Recurs(f, Nat, InitialDelay, g)
    <3>1. InitialDelay \in Nat
      OBVIOUS
    <3> HIDE DEF g
    <3> QED BY <2>1, <3>1, Recursion
  <2>3. \A n \in Nat : f[n] = IF n = 0 THEN InitialDelay ELSE Multiplier * f[n - 1]
    <3> SUFFICES ASSUME NEW n \in Nat, n # 0 PROVE f[n] = Multiplier * f[n - 1]
      BY <2>2 DEF Recurs
    <3>1. n - 1 \in Nat /\ n = n - 1 + 1 /\ f[n - 1] \in Nat
      BY <2>2 DEF Recurs
    <3> QED BY <2>2, <3>1 DEF Recurs
  <2> QED BY <2>2, <2>3 DEF Recurs
<1>2. Def(Backoff)
  BY <1>1 DEF Backoff
<1> DEFINE T == {n \in Nat : Backoff[n] \in Nat /\ Backoff[n] >= InitialDelay}
<1>3. 0 \in T
  BY <1>2
<1>4. ASSUME NEW n \in Nat, n \in T PROVE n + 1 \in T
  <2>1. Backoff[n + 1] = Multiplier * Backoff[n]
    BY <1>2
  <2>2. \A x \in Nat : x >= InitialDelay => Multiplier * x \in Nat /\ Multiplier * x >= InitialDelay
    OBVIOUS
  <2> QED BY <1>4, <2>1, <2>2
<1>5. Nat \subseteq T
  <2> HIDE DEF T
  <2> QED BY <1>3, <1>4, InductiveSet
<1> QED BY <1>5

\* What is slept after an attempt, with its jitter.
LEMMA DelaysInBounds ==
  ASSUME NEW n \in Nat, NEW d \in Delays(n)
  PROVE  d \in Nat /\ d >= Least(InitialDelay, MaxDelay) /\ 4 * d <= 5 * MaxDelay
<1>1. /\ Capped(n) \in Nat /\ Capped(n) >= Least(InitialDelay, MaxDelay)
      /\ Capped(n) <= MaxDelay
  BY BackoffGrows, RetryAssumption DEF Capped, Least
<1>2. \A x \in Nat : 4 * ((5 * x) \div 4) <= 5 * x /\ (5 * x) \div 4 \in Nat
  OBVIOUS
<1>3. d \in Nat /\ d >= Capped(n) /\ d <= (5 * Capped(n)) \div 4
  BY <1>1, <1>2 DEF Delays
<1> QED BY <1>1, <1>2, <1>3, RetryAssumption DEF Least

\* A call that sleeps has attempts left; the calls that had returned when
\* another began have not been replaced.
RetryInv ==
    /\ RetryContract
    /\ \A c \in Callers :
         /\ step[c] = "sleeping" => attempt[c] < MaxAttempts - 1
         /\ c \notin before[c]
         /\ \A d \in before[c] : step[d] = "returned"

LEMMA RetryStep == RetryInv /\ [RetryNext]_retryVars => RetryInv'
<1> SUFFICES ASSUME RetryInv, [RetryNext]_retryVars PROVE RetryInv'
  OBVIOUS
<1> USE RetryAssumption DEF RetryInv, RetryContract
<1>1. ASSUME NEW c \in Callers, Begin(c) PROVE RetryInv'
  BY <1>1 DEF Begin, RetryTypeOK, ThrowsOnlyAtTheEnd, DelaysBounded, LaterWriteHolds
<1>2. ASSUME NEW c \in Callers, FnResolves(c) PROVE RetryInv'
  BY <1>2 DEF FnResolves, RetryTypeOK, ThrowsOnlyAtTheEnd, DelaysBounded, LaterWriteHolds
<1>3. ASSUME NEW c \in Callers, NEW e \in Errors, NEW landed \in BOOLEAN,
             FnRejects(c, e, landed)
      PROVE  RetryInv'
  <2>1. /\ step[c] = "calling" /\ cell' = IF landed THEN c ELSE cell
        /\ lastError' = [lastError EXCEPT ![c] = e] /\ UNCHANGED <<attempt, before>>
    BY <1>3 DEF FnRejects
  <2>2. CASE GivesUp(c, e)
    <3>1. step' = [step EXCEPT ![c] = "thrown"] /\ UNCHANGED delay
      BY <1>3, <2>2 DEF FnRejects
    <3>2. attempt[c] = MaxAttempts - 1 \/ (RetryableErrors # {} /\ e \notin RetryableErrors)
      BY <2>2 DEF GivesUp, IsRetryableError
    <3> QED BY <2>1, <3>1, <3>2
            DEF RetryTypeOK, ThrowsOnlyAtTheEnd, DelaysBounded, LaterWriteHolds
  <2>3. CASE ~ GivesUp(c, e)
    <3>1. PICK d \in Delays(attempt[c]) : delay' = [delay EXCEPT ![c] = d]
      BY <1>3, <2>3 DEF FnRejects
    <3>2. step' = [step EXCEPT ![c] = "sleeping"]
      BY <1>3, <2>3 DEF FnRejects
    <3>3. attempt[c] # MaxAttempts - 1
      BY <2>3 DEF GivesUp
    <3>4. d \in Nat /\ d >= Least(InitialDelay, MaxDelay) /\ 4 * d <= 5 * MaxDelay
      BY DelaysInBounds DEF RetryTypeOK
    <3>5. RetryTypeOK' /\ DelaysBounded'
      BY <2>1, <3>1, <3>2, <3>4 DEF RetryTypeOK, DelaysBounded
    <3> QED BY <2>1, <3>2, <3>3, <3>5 DEF RetryTypeOK, ThrowsOnlyAtTheEnd, LaterWriteHolds
  <2> QED BY <2>2, <2>3
<1>4. ASSUME NEW c \in Callers, Wake(c) PROVE RetryInv'
  BY <1>4 DEF Wake, RetryTypeOK, ThrowsOnlyAtTheEnd, DelaysBounded, LaterWriteHolds
<1>5. ASSUME NEW c \in Callers, Recycle(c) PROVE RetryInv'
  <2>1. RetryTypeOK'
    BY <1>5 DEF Recycle, RetryTypeOK
  <2>2. ThrowsOnlyAtTheEnd' /\ DelaysBounded'
    BY <1>5 DEF Recycle, RetryTypeOK, ThrowsOnlyAtTheEnd, DelaysBounded
  <2>3. LaterWriteHolds'
    BY <1>5 DEF Recycle, RetryTypeOK, LaterWriteHolds
  <2> QED BY <1>5, <2>1, <2>2, <2>3 DEF Recycle, RetryTypeOK
<1>6. CASE UNCHANGED retryVars
  BY <1>6 DEF retryVars, RetryTypeOK, ThrowsOnlyAtTheEnd, DelaysBounded, LaterWriteHolds
<1> QED BY <1>1, <1>2, <1>3, <1>4, <1>5, <1>6 DEF RetryNext, Settles

\* Whatever delays and limits are configured: a retried call throws only at its
\* last attempt or on an error that is not retried, its delays keep the bounds,
\* and a later write holds (withRetry, calculateDelay).
THEOREM RetryKeepsContract == RetrySpec => []RetryContract
<1>1. RetryInit => RetryInv
  BY RetryAssumption
     DEF RetryInit, RetryInv, RetryContract, RetryTypeOK, ThrowsOnlyAtTheEnd, DelaysBounded,
         LaterWriteHolds
<1> QED BY <1>1, RetryStep, PTL DEF RetrySpec, RetryInv

-----------------------------------------------------------------------------
(***************************************************************************)
(* The job queue.  Every effect of a job, and every attempt at work on it, *)
(* ghosts included, was paid for with a failed attempt or a stall, the     *)
(* last attempt excepted.                                                  *)
(***************************************************************************)

Statuses == {"none", "waiting", "active", "delayed", "completed", "failed"}

JobRecord(attempts) ==
    [st : Statuses, prio : 0..5, made : 0..attempts, stalls : 0..MaxStalled,
     running : BOOLEAN, ghosts : Nat]

One(condition) == IF condition THEN 1 ELSE 0

\* Every effect and every attempt at work, ghosts included, was paid for with a
\* failed attempt or a stall, the last attempt excepted.
EffectsPaidFor(j) ==
    LET r == job[j] IN
    /\ r.running => r.st = "active"
    /\ r.st = "none" => effects[j] = 0 /\ r.ghosts = 0
    /\ r.st \in {"none", "waiting", "delayed"} =>
         r.made < Attempts /\ effects[j] + r.ghosts <= r.made + r.stalls
    /\ r.st \in {"active", "completed"} =>
         r.made < Attempts /\ effects[j] + r.ghosts + One(r.running) <= r.made + r.stalls + 1
    /\ r.st = "failed" => effects[j] + r.ghosts <= Attempts + r.stalls
    /\ r.st = "completed" => effects[j] > 0
    /\ told[j] = "ok" /\ kind \notin {"audit", "auditService"} => r.st # "none"
    /\ worker = "none" => ~ r.running /\ r.ghosts = 0

\* Only the jobs that were added are ever at work, and they are finitely many.
Known == {j \in Jobs : job[j].st # "none"}

QueueInv == QueueTypeOK /\ (\A j \in Jobs : EffectsPaidFor(j)) /\ IsFiniteSet(Known)

LEMMA AttemptsPositive == kind \in Kinds => Attempts \in Nat \ {0}
BY DEF Kinds, Attempts, WebhookAttempts, AuditAttempts, EmailAttempts, CleanupAttempts

\* Only the job j and its effects change.
LEMMA OneJobStep ==
  ASSUME QueueInv, NEW j \in Jobs, NEW r \in JobRecord(Attempts), NEW e \in Nat,
         job' = [job EXCEPT ![j] = r], effects' = [effects EXCEPT ![j] = e],
         UNCHANGED <<kind, queueOpen, crashes>>,
         worker' = worker, told' \in [Jobs -> {"nothing", "ok", "error"}],
         \A i \in Jobs \ {j} : told'[i] = told[i],
         EffectsPaidFor(j)'
  PROVE  QueueInv'
<1>1. Attempts' = Attempts
  BY DEF Attempts
<1>2. QueueTypeOK'
  BY <1>1 DEF QueueInv, QueueTypeOK, JobRecord, Statuses
<1>3. \A i \in Jobs \ {j} : job'[i] = job[i] /\ effects'[i] = effects[i]
  BY DEF QueueInv, QueueTypeOK
<1>4. \A i \in Jobs : EffectsPaidFor(i)'
  BY <1>1, <1>3 DEF QueueInv, EffectsPaidFor
<1>5. IsFiniteSet(Known \cup {j})
  BY FS_AddElement DEF QueueInv
<1>6. IsFiniteSet(Known')
  <2>1. Known' \subseteq Known \cup {j}
    BY <1>3 DEF Known
  <2> QED BY <1>5, <2>1, FS_Subset
<1> QED BY <1>2, <1>4, <1>6 DEF QueueInv

LEMMA AddStep ==
  ASSUME QueueInv, NEW j \in Jobs, NEW prio \in 0..5, NEW landed \in BOOLEAN, NEW ok \in BOOLEAN,
         Add(j, prio, landed), Answered(j, ok),
         kind \in {"audit", "auditService"} \/ (ok => landed)
  PROVE  QueueInv'
<1> DEFINE new == [NoJob EXCEPT !.st = "waiting", !.prio = prio]
           r == IF landed THEN new ELSE job[j]
<1>1. /\ job \in [Jobs -> JobRecord(Attempts)] /\ effects \in [Jobs -> Nat]
      /\ Attempts \in Nat \ {0} /\ EffectsPaidFor(j)
      /\ told \in [Jobs -> {"nothing", "ok", "error"}]
  BY AttemptsPositive DEF QueueInv, QueueTypeOK, JobRecord, Statuses
<1>2. new \in JobRecord(Attempts)
  <2>1. NoJob \in JobRecord(Attempts)
    BY <1>1, QueueAssumption DEF NoJob, JobRecord, Statuses
  <2> QED BY <2>1 DEF JobRecord, Statuses
<1>3. /\ new.st = "waiting" /\ new.made = 0 /\ new.stalls = 0 /\ ~ new.running
      /\ new.ghosts = 0
  BY DEF NoJob
<1> HIDE DEF new
<1>4. job[j].st = "none" /\ UNCHANGED <<kind, worker, queueOpen, effects, crashes>>
  BY DEF Add
<1>5. job' = [job EXCEPT ![j] = r]
  BY <1>1 DEF Add, new
<1>6. /\ told' = [told EXCEPT ![j] = IF ok THEN "ok" ELSE "error"]
      /\ told' \in [Jobs -> {"nothing", "ok", "error"}]
      /\ told'[j] = IF ok THEN "ok" ELSE "error"
      /\ \A i \in Jobs \ {j} : told'[i] = told[i]
  BY <1>1 DEF Answered
<1>7. effects' = [effects EXCEPT ![j] = effects[j]] /\ effects[j] \in Nat /\ effects[j] = 0
  BY <1>1, <1>4 DEF EffectsPaidFor
<1>8. r \in JobRecord(Attempts) /\ job'[j] = r /\ effects'[j] = 0
  BY <1>1, <1>2, <1>5, <1>7
<1>9. EffectsPaidFor(j)'
  <2>1. Attempts' = Attempts
    BY <1>4 DEF Attempts
  <2>2. CASE landed
    BY <1>1, <1>3, <1>4, <1>6, <1>8, <2>1, <2>2 DEF EffectsPaidFor, One
  <2>3. CASE ~ landed
    <3>1. job'[j] = job[j] /\ effects'[j] = effects[j]
      BY <1>7, <1>8, <2>3
    <3>2. told'[j] = "ok" => kind \in {"audit", "auditService"}
      BY <1>6, <2>3
    <3> QED BY <1>1, <1>4, <2>1, <3>1, <3>2 DEF EffectsPaidFor
  <2> QED BY <2>2, <2>3
<1> HIDE DEF r
<1> QED BY <1>4, <1>5, <1>6, <1>7, <1>8, <1>9, OneJobStep

\* What process() has done when it ends.
LEMMA OutcomesAre ==
  ASSUME kind \in Kinds
  PROVE  Outcomes = {[ok |-> TRUE, done |-> TRUE], [ok |-> FALSE, done |-> TRUE],
                     [ok |-> FALSE, done |-> FALSE]}
BY DEF Kinds, Outcomes, ProcessWebhook, ProcessAudit, ProcessAuditLogJob, ProcessEmail,
       ProcessCleanup

\* What r, the job that moved on, and d, how often it was done, must keep.
Kept(j, r, d) ==
    /\ r.running => r.st = "active"
    /\ r.running => worker # "none"
    /\ worker = "none" => r.ghosts = 0
    /\ r.st # "none"
    /\ r.st \in {"waiting", "delayed"} =>
         r.made < Attempts /\ effects[j] + d + r.ghosts <= r.made + r.stalls
    /\ r.st \in {"active", "completed"} =>
         r.made < Attempts /\ effects[j] + d + r.ghosts + One(r.running) <= r.made + r.stalls + 1
    /\ r.st = "failed" => effects[j] + d + r.ghosts <= Attempts + r.stalls
    /\ r.st = "completed" => effects[j] + d > 0

LEMMA MovedOn ==
  ASSUME QueueInv, NEW j \in Jobs, NEW r \in JobRecord(Attempts), NEW d \in {0, 1},
         UNCHANGED <<kind, worker, queueOpen, told, crashes>>,
         job' = [job EXCEPT ![j] = r], effects' = [effects EXCEPT ![j] = effects[j] + d],
         Kept(j, r, d)
  PROVE  QueueInv'
<1>1. /\ job \in [Jobs -> JobRecord(Attempts)] /\ effects \in [Jobs -> Nat]
      /\ told \in [Jobs -> {"nothing", "ok", "error"}]
  BY DEF QueueInv, QueueTypeOK, JobRecord, Statuses
<1>2. job'[j] = r /\ effects'[j] = effects[j] + d /\ effects[j] + d \in Nat
  BY <1>1
<1>3. Attempts' = Attempts
  BY DEF Attempts
<1>4. r.running => worker # "none"
  BY DEF Kept
<1>5. EffectsPaidFor(j)'
  BY <1>2, <1>3, <1>4 DEF EffectsPaidFor, Kept
<1> QED BY <1>1, <1>2, <1>5, OneJobStep

\* A job at work or waiting moves on: r is what becomes of it, d how often it
\* was done in the step.
LEMMA WorkStep ==
  ASSUME QueueInv, NEW j \in Jobs,
         \/ TakeJob(j) \/ CompleteJob(j) \/ FailJob(j) \/ WakeJob(j) \/ StallJob(j)
         \/ GhostEnds(j)
  PROVE  QueueInv'
<1>1. /\ job \in [Jobs -> JobRecord(Attempts)] /\ effects \in [Jobs -> Nat]
      /\ Attempts \in Nat \ {0} /\ EffectsPaidFor(j) /\ kind \in Kinds
      /\ told \in [Jobs -> {"nothing", "ok", "error"}] /\ MaxStalled \in Nat
  BY AttemptsPositive, QueueAssumption DEF QueueInv, QueueTypeOK, JobRecord, Statuses
<1>2. /\ job[j] \in JobRecord(Attempts) /\ effects[j] \in Nat
      /\ job[j].made \in 0..Attempts /\ job[j].stalls \in 0..MaxStalled
      /\ job[j].ghosts \in Nat /\ job[j].running \in BOOLEAN /\ job[j].st \in Statuses
  BY <1>1 DEF JobRecord
<1>3. UNCHANGED <<kind, worker, queueOpen, told, crashes>> /\ Attempts' = Attempts
  BY DEF TakeJob, CompleteJob, FailJob, WakeJob, StallJob, GhostEnds, Attempts
<1>5. CASE TakeJob(j)
  <2> DEFINE r == [job[j] EXCEPT !.st = "active", !.running = TRUE]
  <2>1. r \in JobRecord(Attempts) /\ job' = [job EXCEPT ![j] = r]
    BY <1>1, <1>2, <1>5 DEF TakeJob, JobRecord, Statuses
  <2>2. /\ r.st = "active" /\ r.running /\ r.made = job[j].made /\ r.stalls = job[j].stalls
        /\ r.ghosts = job[j].ghosts
    BY <1>2 DEF JobRecord
  <2>3. effects' = [effects EXCEPT ![j] = effects[j] + 0]
    BY <1>1, <1>2, <1>5 DEF TakeJob
  <2>4. worker = "running" /\ job[j].st = "waiting"
    BY <1>5 DEF TakeJob
  <2> HIDE DEF r
  <2>5. Kept(j, r, 0)
    BY <1>1, <1>2, <2>1, <2>2, <2>3, <2>4 DEF EffectsPaidFor, Kept, One
  <2> QED BY <1>3, <2>5, <2>1, <2>2, <2>3, <2>4, MovedOn
<1>6. CASE CompleteJob(j)
  <2> DEFINE r == [job[j] EXCEPT !.st = "completed", !.running = FALSE]
  <2>1. r \in JobRecord(Attempts) /\ job' = [job EXCEPT ![j] = r]
    BY <1>1, <1>2, <1>6 DEF CompleteJob, JobRecord, Statuses
  <2>2. /\ r.st = "completed" /\ ~ r.running /\ r.made = job[j].made /\ r.stalls = job[j].stalls
        /\ r.ghosts = job[j].ghosts
    BY <1>2 DEF JobRecord
  <2>3. effects' = [effects EXCEPT ![j] = effects[j] + 1]
    BY <1>1, <1>6, OutcomesAre DEF CompleteJob, Landed
  <2>4. job[j].running
    BY <1>6 DEF CompleteJob
  <2> HIDE DEF r
  <2>5. Kept(j, r, 1)
    BY <1>1, <1>2, <2>1, <2>2, <2>3, <2>4 DEF EffectsPaidFor, Kept, One
  <2> QED BY <1>3, <2>5, <2>1, <2>2, <2>3, <2>4, MovedOn
<1>7. CASE FailJob(j)
  <2> DEFINE st == IF job[j].made + 1 < Attempts THEN "delayed" ELSE "failed"
             r == [job[j] EXCEPT !.running = FALSE, !.made = @ + 1, !.st = st]
  <2>1. job[j].running /\ job[j].st = "active" /\ job[j].made + 1 \in 0..Attempts
    <3>1. job[j].running
      BY <1>7 DEF FailJob
    <3>2. job[j].st = "active" /\ job[j].made < Attempts
      BY <1>1, <3>1 DEF EffectsPaidFor
    <3> QED BY <1>1, <1>2, <3>1, <3>2
  <2>2. st \in Statuses /\ st \in {"delayed", "failed"} /\ (st = "delayed" <=> job[j].made + 1 < Attempts)
    BY DEF Statuses
  <2>3. job' = [job EXCEPT ![j] = r]
    BY <1>1, <1>2, <1>7 DEF FailJob, JobRecord
  <2> HIDE DEF st
  <2>4. /\ r \in JobRecord(Attempts) /\ r.st = st /\ ~ r.running /\ r.made = job[j].made + 1
        /\ r.stalls = job[j].stalls /\ r.ghosts = job[j].ghosts
    BY <1>2, <2>1, <2>2 DEF JobRecord
  <2>5. PICK d \in {0, 1} : effects' = [effects EXCEPT ![j] = effects[j] + d]
    <3>1. effects' = effects \/ effects' = [effects EXCEPT ![j] = effects[j] + 1]
      BY <1>7 DEF FailJob, Landed
    <3>2. effects = [effects EXCEPT ![j] = effects[j] + 0]
      BY <1>1, <1>2
    <3> QED BY <3>1, <3>2
  <2> HIDE DEF r
  <2>6. Kept(j, r, d)
    BY <1>1, <1>2, <2>1, <2>2, <2>3, <2>4, <2>5 DEF EffectsPaidFor, Kept, One
  <2> QED BY <1>3, <2>6, <2>1, <2>2, <2>3, <2>4, <2>5, MovedOn
<1>8. CASE WakeJob(j)
  <2> DEFINE r == [job[j] EXCEPT !.st = "waiting"]
  <2>1. r \in JobRecord(Attempts) /\ job' = [job EXCEPT ![j] = r]
    BY <1>1, <1>2, <1>8 DEF WakeJob, JobRecord, Statuses
  <2>2. /\ r.st = "waiting" /\ r.running = job[j].running /\ r.made = job[j].made
        /\ r.stalls = job[j].stalls /\ r.ghosts = job[j].ghosts
    BY <1>2 DEF JobRecord
  <2>3. effects' = [effects EXCEPT ![j] = effects[j] + 0]
    BY <1>1, <1>2, <1>8 DEF WakeJob
  <2>4. job[j].st = "delayed"
    BY <1>8 DEF WakeJob
  <2> HIDE DEF r
  <2>5. Kept(j, r, 0)
    BY <1>1, <1>2, <2>1, <2>2, <2>3, <2>4 DEF EffectsPaidFor, Kept, One
  <2> QED BY <1>3, <2>5, <2>1, <2>2, <2>3, <2>4, MovedOn
<1>9. CASE StallJob(j)
  <2> DEFINE again == job[j].stalls < MaxStalled
             st == IF again THEN "waiting" ELSE "failed"
             stalls == IF again THEN job[j].stalls + 1 ELSE job[j].stalls
             ghosts == IF job[j].running THEN job[j].ghosts + 1 ELSE job[j].ghosts
             r == [job[j] EXCEPT !.st = st, !.stalls = stalls, !.running = FALSE,
                                 !.ghosts = ghosts]
  <2>1. job[j].st = "active" /\ job[j].made < Attempts
    BY <1>1, <1>9 DEF StallJob, EffectsPaidFor
  <2>2. job' = [job EXCEPT ![j] = r]
    BY <1>1, <1>2, <1>9 DEF StallJob, JobRecord
  <2>3. /\ st \in Statuses /\ stalls \in 0..MaxStalled /\ ghosts \in Nat
        /\ st \in {"waiting", "failed"}
        /\ stalls = job[j].stalls + One(st = "waiting")
        /\ ghosts = job[j].ghosts + One(job[j].running)
    BY <1>1, <1>2 DEF Statuses, One
  <2> HIDE DEF st, stalls, ghosts
  <2>4. /\ r \in JobRecord(Attempts) /\ r.st = st /\ ~ r.running /\ r.made = job[j].made
        /\ r.stalls = stalls /\ r.ghosts = ghosts
    BY <1>2, <2>3 DEF JobRecord
  <2>5. effects' = [effects EXCEPT ![j] = effects[j] + 0]
    BY <1>1, <1>2, <1>9 DEF StallJob
  <2> HIDE DEF r
  <2>6. Kept(j, r, 0)
    BY <1>1, <1>2, <2>1, <2>2, <2>3, <2>4, <2>5 DEF EffectsPaidFor, Kept, One
  <2> QED BY <1>3, <2>6, <2>1, <2>2, <2>3, <2>4, <2>5, MovedOn
<1>10. CASE GhostEnds(j)
  <2> DEFINE r == [job[j] EXCEPT !.ghosts = @ - 1]
  <2>1. job[j].ghosts > 0 /\ job[j].ghosts - 1 \in Nat /\ job[j].st # "none" /\ worker # "none"
    BY <1>1, <1>2, <1>10 DEF GhostEnds, EffectsPaidFor
  <2>2. r \in JobRecord(Attempts) /\ job' = [job EXCEPT ![j] = r]
    BY <1>1, <1>2, <1>10, <2>1 DEF GhostEnds, JobRecord
  <2>3. /\ r.st = job[j].st /\ r.running = job[j].running /\ r.made = job[j].made
        /\ r.stalls = job[j].stalls /\ r.ghosts = job[j].ghosts - 1
    BY <1>2 DEF JobRecord
  <2>4. PICK d \in {0, 1} : effects' = [effects EXCEPT ![j] = effects[j] + d]
    <3>1. effects' = effects \/ effects' = [effects EXCEPT ![j] = effects[j] + 1]
      BY <1>10 DEF GhostEnds, Landed
    <3>2. effects = [effects EXCEPT ![j] = effects[j] + 0]
      BY <1>1, <1>2
    <3> QED BY <3>1, <3>2
  <2> HIDE DEF r
  <2>5. Kept(j, r, d)
    BY <1>1, <1>2, <2>1, <2>2, <2>3, <2>4 DEF EffectsPaidFor, Kept, One
  <2> QED BY <1>3, <2>5, <2>1, <2>2, <2>3, <2>4, MovedOn
<1> QED BY <1>5, <1>6, <1>7, <1>8, <1>9, <1>10

\* Nothing is at work exactly when no job is.
LEMMA HeldIsZero ==
  ASSUME QueueInv PROVE Held = 0 <=> \A j \in Jobs : ~ job[j].running /\ job[j].ghosts = 0
<1> DEFINE R == {j \in Jobs : job[j].running}
           G == {j \in Jobs : job[j].ghosts > 0}
<1>1. R \subseteq Known /\ G \subseteq Known
  BY DEF QueueInv, EffectsPaidFor, Known
<1>2. IsFiniteSet(R) /\ IsFiniteSet(G)
  BY <1>1, FS_Subset DEF QueueInv
<1>3. Cardinality(R) \in Nat /\ Cardinality(G) \in Nat
  BY <1>2, FS_CardinalityType
<1>4. (Cardinality(R) = 0 <=> R = {}) /\ (Cardinality(G) = 0 <=> G = {})
  BY <1>2, FS_EmptySet
<1>5. Held = Cardinality(R) + Cardinality(G)
  BY DEF Held
<1>6. (G = {}) <=> \A j \in Jobs : job[j].ghosts = 0
  BY DEF QueueInv, QueueTypeOK
<1>7. (R = {}) <=> \A j \in Jobs : ~ job[j].running
  OBVIOUS
<1> HIDE DEF R, G
<1>8. Held = 0 <=> R = {} /\ G = {}
  BY <1>3, <1>4, <1>5
<1> QED BY <1>6, <1>7, <1>8

LEMMA CrashProcessStep ==
  ASSUME QueueInv, CrashProcess PROVE QueueInv'
<1> DEFINE r(j) == [job[j] EXCEPT !.running = FALSE, !.ghosts = 0]
<1>1. PICK hit \in SUBSET {j \in Jobs : job[j].running} :
        effects' = [j \in Jobs |-> IF j \in hit THEN effects[j] + 1 ELSE effects[j]]
  BY DEF CrashProcess
<1>2. /\ worker' = "none" /\ queueOpen' = TRUE /\ UNCHANGED <<kind, told>>
      /\ crashes' \in 0..MaxCrashes
      /\ job' = [j \in Jobs |-> r(j)] /\ Attempts' = Attempts
  <2>1. crashes \in 0..MaxCrashes /\ MaxCrashes \in Nat
    BY QueueAssumption DEF QueueInv, QueueTypeOK
  <2>2. crashes' \in 0..MaxCrashes
    <3>1. crashes < MaxCrashes /\ crashes' = crashes + 1
      BY DEF CrashProcess
    <3> QED BY <2>1, <3>1
  <2> QED BY <2>2 DEF CrashProcess, Attempts
<1>3. /\ Attempts \in Nat \ {0} /\ \A j \in Jobs : job[j] \in JobRecord(Attempts)
      /\ \A j \in Jobs : effects[j] \in Nat
  BY AttemptsPositive DEF QueueInv, QueueTypeOK, JobRecord, Statuses
<1>4. ASSUME NEW j \in Jobs
      PROVE  /\ r(j) \in JobRecord(Attempts) /\ ~ r(j).running /\ r(j).ghosts = 0
             /\ r(j).st = job[j].st /\ r(j).made = job[j].made /\ r(j).stalls = job[j].stalls
             /\ job[j].made \in 0..Attempts /\ job[j].stalls \in 0..MaxStalled
             /\ job[j].ghosts \in Nat
  BY <1>3 DEF JobRecord
<1>5. \A j \in Jobs : job'[j] = r(j)
  BY <1>2
<1>6. job' \in [Jobs -> JobRecord(Attempts)]
  BY <1>2, <1>4
<1> HIDE DEF r
<1>7. /\ effects' \in [Jobs -> Nat]
      /\ \A j \in Jobs : effects'[j] = effects[j] + One(j \in hit)
  BY <1>1, <1>3 DEF One
<1>8. QueueTypeOK'
  BY <1>2, <1>6, <1>7 DEF QueueInv, QueueTypeOK, JobRecord, Statuses
<1>9. ASSUME NEW j \in Jobs PROVE EffectsPaidFor(j)'
  <2>1. j \in hit => job[j].running
    BY <1>1
  <2> QED BY <1>2, <1>3, <1>4, <1>5, <1>7, <2>1, QueueAssumption DEF QueueInv, EffectsPaidFor, One
<1>10. Known' = Known
  BY <1>4, <1>5 DEF Known
<1> QED BY <1>8, <1>9, <1>10 DEF QueueInv

LEMMA QueueStep == QueueInv /\ [QueueNext]_queueVars => QueueInv'
<1> SUFFICES ASSUME QueueInv, [QueueNext]_queueVars PROVE QueueInv'
  OBVIOUS
<1>1. ASSUME NEW j \in Jobs,
             AddWebhookJob(j) \/ AddAuditLog(j) \/ CreateAuditLog(j) \/ AddEmail(j) \/ AddCleanup(j)
      PROVE  QueueInv'
  <2>1. CASE AddWebhookJob(j)
    <3>1. PICK landed \in BOOLEAN, ok \in BOOLEAN :
            (ok => landed) /\ Add(j, 5, landed) /\ Answered(j, ok)
      BY <2>1 DEF AddWebhookJob
    <3> QED BY <3>1, AddStep
  <2>2. CASE AddAuditLog(j)
    <3>1. kind = "audit" /\ Answered(j, TRUE)
      BY <2>2 DEF AddAuditLog
    <3>2. PICK landed \in BOOLEAN, prio \in {1, 2, 5} : Add(j, prio, landed)
      BY <2>2 DEF AddAuditLog
    <3>3. prio \in 0..5
      OBVIOUS
    <3> QED BY <3>1, <3>2, <3>3, AddStep
  <2>3. CASE CreateAuditLog(j)
    <3>1. kind = "auditService" /\ Answered(j, TRUE)
      BY <2>3 DEF CreateAuditLog
    <3>2. PICK landed \in BOOLEAN : Add(j, 0, landed)
      BY <2>3 DEF CreateAuditLog
    <3>3. 0 \in 0..5 /\ TRUE \in BOOLEAN
      OBVIOUS
    <3> QED BY <3>1, <3>2, <3>3, AddStep
  <2>4. CASE AddEmail(j)
    <3>1. PICK landed \in BOOLEAN, ok \in BOOLEAN, prio \in 1..5 :
            (ok => landed) /\ Add(j, prio, landed) /\ Answered(j, ok)
      BY <2>4 DEF AddEmail
    <3>2. prio \in 0..5
      OBVIOUS
    <3> QED BY <3>1, <3>2, AddStep
  <2>5. CASE AddCleanup(j)
    <3>1. PICK landed \in BOOLEAN, ok \in BOOLEAN :
            (ok => landed) /\ Add(j, 0, landed) /\ Answered(j, ok)
      BY <2>5 DEF AddCleanup
    <3> QED BY <3>1, AddStep
  <2> QED BY <1>1, <2>1, <2>2, <2>3, <2>4, <2>5
\* The worker starts or stops.
<1>2. CASE StartWorker \/ BeginClose \/ EndClose \/ StopWorker
  <2>1. /\ UNCHANGED <<kind, job, told, effects, crashes>>
        /\ worker' \in {"none", "running", "closing"} /\ queueOpen' \in BOOLEAN
        /\ Attempts' = Attempts
    BY <1>2 DEF StartWorker, BeginClose, EndClose, StopWorker, QueueInv, QueueTypeOK, Attempts
  <2>2. worker' = "none" => \A j \in Jobs : ~ job[j].running /\ job[j].ghosts = 0
    BY <1>2, HeldIsZero DEF StartWorker, BeginClose, EndClose, StopWorker
  <2>3. QueueTypeOK'
    BY <2>1 DEF QueueInv, QueueTypeOK
  <2>4. \A j \in Jobs : EffectsPaidFor(j)'
    BY <2>1, <2>2 DEF QueueInv, EffectsPaidFor
  <2> QED BY <2>1, <2>3, <2>4 DEF QueueInv, Known
<1>3. CASE UNCHANGED queueVars
  BY <1>3 DEF queueVars, QueueInv, QueueTypeOK, EffectsPaidFor, Known, Attempts
<1> QED BY <1>1, <1>2, <1>3, WorkStep, CrashProcessStep DEF QueueNext

\* However many jobs, stalls and crashes: a job is done at most once per attempt
\* and stall, no accepted job is forgotten, and a closed worker is quiet
\* (the queue services and their workers).
THEOREM JobsStayAccountedFor == QueueSpec => []JobsAccountedFor
<1>1. QueueInit => QueueInv
  <2> SUFFICES ASSUME QueueInit PROVE QueueInv
    OBVIOUS
  <2>1. Attempts \in Nat \ {0}
    BY AttemptsPositive DEF QueueInit
  <2>2. NoJob \in JobRecord(Attempts)
    BY <2>1, QueueAssumption DEF NoJob, JobRecord, Statuses
  <2>3. QueueTypeOK
    BY <2>2, QueueAssumption DEF QueueInit, QueueTypeOK, JobRecord, Statuses
  <2>4. \A j \in Jobs : EffectsPaidFor(j)
    BY <2>1 DEF QueueInit, EffectsPaidFor, NoJob, One
  <2>5. Known = {}
    BY DEF QueueInit, Known, NoJob
  <2> QED BY <2>3, <2>4, <2>5, FS_EmptySet DEF QueueInv
<1>2. QueueInv => JobsAccountedFor
  <2> SUFFICES ASSUME QueueInv PROVE JobsAccountedFor
    OBVIOUS
  <2>1. QueueTypeOK /\ Attempts \in Nat \ {0}
    BY AttemptsPositive DEF QueueInv, QueueTypeOK
  <2>2. BoundedEffects
    BY <2>1 DEF QueueInv, QueueTypeOK, EffectsPaidFor, BoundedEffects, One
  <2>3. CompletedHappened /\ AcceptedIsKept
    BY DEF QueueInv, EffectsPaidFor, CompletedHappened, AcceptedIsKept
  <2>4. QuietAfterClose
    BY HeldIsZero DEF QueueInv, EffectsPaidFor, QuietAfterClose
  <2> QED BY <2>1, <2>2, <2>3, <2>4 DEF JobsAccountedFor
<1> QED BY <1>1, <1>2, QueueStep, PTL DEF QueueSpec

-----------------------------------------------------------------------------
(***************************************************************************)
(* The fallback cache.  A request that is alone with its key knows a       *)
(* version between what was settled and the truth; the filters and the     *)
(* bound only thin the Map.                                                *)
(***************************************************************************)

Slot == [pc : {"idle", "ping", "redis", "load", "loadLocal", "local"},
         op : {"get", "set", "delete", "incr"},
         key : Keys \cup Counters \cup {NoKey}, seen : 0..MaxVersion]

\* The places of the cached entries; counters take no part in the bound.
CachedIn(map) == {i \in DOMAIN map : map[i].key \in Keys}

\* Every entry of after was one of old, and none of them twice.
Thinned(old, after) ==
    /\ after \in Seq(Entry)
    /\ \E from \in [DOMAIN after -> DOMAIN old] :
         /\ \A i \in DOMAIN after : after[i] = old[from[i]]
         /\ \A i, j \in DOMAIN after : from[i] = from[j] => i = j

\* What a request knows of its key: no version newer than the truth, and when
\* it is alone with the key, none older than what was settled.
RequestOK(r) ==
    req[r].pc # "idle" =>
        LET k == req[r].key IN
        /\ IF req[r].op = "incr" THEN k \in Counters ELSE k \in Keys
        /\ req[r].pc \in {"load", "loadLocal"} => req[r].op = "get"
        /\ k \in Keys => req[r].seen <= truth[k]
        /\ k \in Keys \ excuse =>
             /\ \A q \in InFlight(k) : q = r
             /\ req[r].seen # 0 => settled[k] <= req[r].seen

FallbackInv ==
    /\ FallbackTypeOK
    /\ FallbackBounded
    /\ StaleCopyExplained
    /\ \A r \in Requests : RequestOK(r)
    /\ \A k \in Keys : settled[k] <= truth[k]

LEMMA FiltersThin ==
  ASSUME NEW map \in Seq(Entry), NEW I \in SUBSET (DOMAIN map)
  PROVE  Thinned(map, Subsequence(map, I))
<1> DEFINE t == Subsequence(map, I)
           from == [j \in DOMAIN t |-> Place(I, j)]
<1>1. /\ t \in Seq(Entry)
      /\ \A j \in DOMAIN t : Place(I, j) \in I /\ t[j] = map[Place(I, j)]
      /\ \A j, k \in DOMAIN t : Place(I, j) = Place(I, k) => j = k
  BY SubsequenceOf
<1> HIDE DEF t
<1>2. from \in [DOMAIN t -> DOMAIN map]
  BY <1>1
<1>3. \A i \in DOMAIN t : t[i] = map[from[i]]
  BY <1>1
<1>4. \A i, j \in DOMAIN t : from[i] = from[j] => i = j
  BY <1>1
<1> HIDE DEF from
<1>5. Thinned(map, t)
  BY <1>1, <1>2, <1>3, <1>4 DEF Thinned
<1> QED BY <1>5 DEF t

LEMMA DropThins ==
  ASSUME NEW map \in Seq(Entry), NEW k
  PROVE  Thinned(map, Drop(map, k)) /\ \A i \in DOMAIN Drop(map, k) : Drop(map, k)[i].key # k
<1> DEFINE I == {i \in DOMAIN map : map[i].key # k}
<1>1. Drop(map, k) = Subsequence(map, I) /\ I \in SUBSET (DOMAIN map)
  BY DEF Drop
<1>2. \A j \in DOMAIN Subsequence(map, I) :
        Place(I, j) \in I /\ Subsequence(map, I)[j] = map[Place(I, j)]
  BY SubsequenceOf
<1> QED BY <1>1, <1>2, FiltersThin

LEMMA LiveThins == ASSUME NEW map \in Seq(Entry) PROVE Thinned(map, Live(map))
BY FiltersThin DEF Live

\* Map.set leaves every other key alone and adds no more than the new entry.
LEMMA PutsOne ==
  ASSUME NEW map \in Seq(Entry), NEW e \in Entry
  PROVE  /\ Put(map, e) \in Seq(Entry)
         /\ \A i \in DOMAIN Put(map, e) :
              Put(map, e)[i] = e \/ (i \in DOMAIN map /\ Put(map, e)[i] = map[i])
         /\ e.key \notin Keys => CachedIn(Put(map, e)) \subseteq CachedIn(map)
<1>1. CASE \E i \in DOMAIN map : map[i].key = e.key
  <2>1. Put(map, e) = [i \in DOMAIN map |-> IF map[i].key = e.key THEN e ELSE map[i]]
    BY <1>1 DEF Put
  <2> QED BY <2>1 DEF CachedIn
<1>2. CASE ~ \E i \in DOMAIN map : map[i].key = e.key
  <2>1. Put(map, e) = Append(map, e)
    BY <1>2 DEF Put
  <2>2. /\ DOMAIN Append(map, e) = 1..(Len(map) + 1) /\ DOMAIN map = 1..Len(map)
        /\ Append(map, e)[Len(map) + 1] = e
        /\ \A i \in 1..Len(map) : Append(map, e)[i] = map[i]
    OBVIOUS
  <2> QED BY <2>1, <2>2 DEF CachedIn
<1> QED BY <1>1, <1>2

LEMMA EnforceBounds ==
  ASSUME NEW map \in Seq(Entry)
  PROVE  /\ Enforce(map) \in Seq(Entry) /\ Len(Enforce(map)) <= MaxFallbackSize
         /\ \A i \in DOMAIN Enforce(map) : \E j \in DOMAIN map : Enforce(map)[i] = map[j]
<1> USE FallbackAssumption
<1>1. CASE Len(map) <= MaxFallbackSize
  BY <1>1 DEF Enforce
<1>2. CASE ~ (Len(map) <= MaxFallbackSize)
  <2> DEFINE a == Len(map) - MaxFallbackSize + 1
  <2>1. Enforce(map) = SubSeq(map, a, Len(map)) /\ a \in 1..(Len(map) + 1)
    BY <1>2 DEF Enforce
  <2>2. /\ SubSeq(map, a, Len(map)) \in Seq(Entry)
        /\ Len(SubSeq(map, a, Len(map))) = MaxFallbackSize
        /\ \A i \in 1..MaxFallbackSize : SubSeq(map, a, Len(map))[i] = map[a + i - 1]
    BY <1>2
  <2>3. \A i \in 1..MaxFallbackSize : a + i - 1 \in 1..Len(map)
    BY <1>2
  <2> QED BY <2>1, <2>2, <2>3
<1> QED BY <1>1, <1>2

\* A short Map and a thinner one keep to the bound.
LEMMA ShortIsBounded ==
  ASSUME NEW map \in Seq(Entry), Len(map) <= MaxFallbackSize
  PROVE  Cardinality(CachedIn(map)) <= MaxFallbackSize
<1>1. PICK n \in Nat : n = Len(map)
  OBVIOUS
<1>2. CachedIn(map) \in SUBSET (1..n) /\ 1 \in Int /\ n \in Int
  BY <1>1 DEF CachedIn
<1>3. IsFiniteSet(1..n) /\ Cardinality(1..n) = IF 1 > n THEN 0 ELSE n - 1 + 1
  BY <1>2, FS_Interval
<1>4. Cardinality(CachedIn(map)) <= Cardinality(1..n) /\ Cardinality(CachedIn(map)) \in Nat
  BY <1>2, <1>3, FS_Subset, PlacesFinite
<1> QED BY <1>1, <1>3, <1>4, FallbackAssumption

LEMMA ThinnerIsBounded ==
  ASSUME NEW map \in Seq(Entry), NEW new, Thinned(map, new),
         Cardinality(CachedIn(map)) <= MaxFallbackSize
  PROVE  Cardinality(CachedIn(new)) <= MaxFallbackSize
<1>1. PICK from \in [DOMAIN new -> DOMAIN map] :
        /\ \A i \in DOMAIN new : new[i] = map[from[i]]
        /\ \A i, j \in DOMAIN new : from[i] = from[j] => i = j
  BY DEF Thinned
<1> DEFINE f == [i \in CachedIn(new) |-> from[i]]
<1>2. f \in Injection(CachedIn(new), CachedIn(map))
  BY <1>1 DEF Injection, IsInjective, CachedIn
<1>3. CachedIn(map) \in SUBSET (1..Len(map)) /\ Len(map) \in Nat
  BY DEF CachedIn
<1>4. CachedIn(new) \in SUBSET (1..Len(new)) /\ Len(new) \in Nat
  BY DEF CachedIn, Thinned
<1>5. /\ IsFiniteSet(CachedIn(map)) /\ Cardinality(CachedIn(map)) \in Nat
      /\ Cardinality(CachedIn(new)) \in Nat
  BY <1>3, <1>4, PlacesFinite
<1>6. Cardinality(CachedIn(new)) <= Cardinality(CachedIn(map))
  <2> HIDE DEF f
  <2> QED BY <1>2, <1>5, FS_Injection
<1> QED BY <1>5, <1>6, FallbackAssumption

-----------------------------------------------------------------------------
\* Bundles what RequestMoves asks of a step in which request r becomes n.
Moves(r, n) ==
    /\ req' = [req EXCEPT ![r] = n] /\ n \in Slot
    /\ req[r].pc # "idle"
    /\ truth' = truth /\ excuse \subseteq excuse' /\ settled' \in [Keys -> 0..MaxVersion]
    /\ \A k \in Keys : k # req[r].key => settled'[k] = settled[k]
    /\ n.pc # "idle" =>
         /\ n.key = req[r].key /\ n.op = req[r].op /\ settled' = settled
         /\ n.pc \in {"load", "loadLocal"} => n.op = "get"
         /\ n.key \in Keys => n.seen <= truth[n.key]
         /\ n.key \in Keys \ excuse' /\ n.seen # 0 => settled[n.key] <= n.seen

LEMMA RequestMoves ==
  ASSUME FallbackInv, NEW r \in Requests, NEW n, Moves(r, n)
  PROVE  req' \in [Requests -> Slot] /\ \A q \in Requests : RequestOK(q)'
<1>1. /\ req \in [Requests -> Slot] /\ \A q \in Requests : RequestOK(q)
      /\ settled \in [Keys -> 0..MaxVersion]
  BY DEF FallbackInv, FallbackTypeOK, Slot
<1>2. /\ req' \in [Requests -> Slot] /\ req'[r] = n
      /\ \A q \in Requests \ {r} : req'[q] = req[q]
  BY <1>1 DEF Moves
<1>3. ASSUME NEW k PROVE InFlight(k)' \subseteq InFlight(k)
  BY <1>2 DEF InFlight, Moves
<1>4. ASSUME NEW q \in Requests \ {r}, req[q].pc # "idle" PROVE RequestOK(q)'
  <2>1. PICK k : k = req[q].key
    OBVIOUS
  <2>2. req'[q] = req[q] /\ req'[q].key = k
    BY <1>2, <2>1
  <2>3. k \in Keys \ excuse' => settled'[k] = settled[k]
    <3>1. SUFFICES ASSUME k \in Keys \ excuse', k = req[r].key PROVE FALSE
      BY DEF Moves
    <3>2. k \notin excuse /\ r \in InFlight(k)
      BY <3>1 DEF Moves, InFlight
    <3> QED BY <1>1, <1>4, <2>1, <3>1, <3>2 DEF RequestOK
  <2>4. excuse \subseteq excuse' /\ truth' = truth
    BY DEF Moves
  <2> QED BY <1>1, <1>3, <1>4, <2>1, <2>2, <2>3, <2>4 DEF RequestOK
<1>5. RequestOK(r)'
  <2>1. SUFFICES ASSUME n.pc # "idle" PROVE RequestOK(r)'
    BY <1>2 DEF RequestOK
  <2>2. RequestOK(r) /\ req[r].pc # "idle" /\ n.key = req[r].key /\ n.op = req[r].op
    BY <1>1, <2>1 DEF Moves
  <2> QED BY <1>2, <1>3, <2>1, <2>2 DEF RequestOK, Moves
<1>6. \A q \in Requests \ {r} : req[q].pc = "idle" => RequestOK(q)'
  BY <1>2 DEF RequestOK
<1> QED BY <1>2, <1>4, <1>5, <1>6

\* A Map whose live entries are as new as what was settled.
Fresh(map, done, excused) ==
    \A k \in Keys \ excused : \A i \in DOMAIN map :
        map[i].key = k /\ map[i].live => map[i].value >= done[k]

LEMMA FreshIs == StaleCopyExplained <=>
    /\ \A k \in Keys \ excuse : store[k] # 0 => store[k] >= settled[k]
    /\ Fresh(fallback, settled, excuse)
BY DEF StaleCopyExplained, Fresh, EntriesOf

LEMMA ThinnerIsFresh ==
  ASSUME NEW map \in Seq(Entry), NEW new, Thinned(map, new), NEW done, NEW excused,
         Fresh(map, done, excused)
  PROVE  Fresh(new, done, excused)
BY DEF Thinned, Fresh

LEMMA StartStep ==
  ASSUME FallbackInv, NEW r \in Requests, NEW op \in {"get", "set", "delete", "incr"},
         NEW k \in Keys \cup Counters, Start(r, op, k)
  PROVE  FallbackInv'
<1> USE FallbackAssumption
<1>1. /\ req \in [Requests -> Slot] /\ truth \in [Keys -> 1..MaxVersion]
      /\ settled \in [Keys -> 0..MaxVersion] /\ \A q \in Requests : RequestOK(q)
  BY DEF FallbackInv, FallbackTypeOK, Slot
<1>2. /\ req[r].pc = "idle" /\ (IF op = "incr" THEN k \in Counters ELSE k \in Keys)
      /\ UNCHANGED <<reachable, cacheAvailable, store, fallback, settled>>
      /\ checkDue' = FALSE
      /\ excuse' = IF k \in Keys /\ InFlight(k) # {} THEN excuse \cup {k} ELSE excuse
  BY DEF Start
<1>3. truth' \in [Keys -> 1..MaxVersion] /\ \A j \in Keys : truth[j] <= truth'[j]
  <2>1. CASE op \in {"set", "delete"}
    <3>1. k \in Keys /\ truth[k] < MaxVersion /\ truth' = [truth EXCEPT ![k] = truth[k] + 1]
      BY <2>1 DEF Start
    <3>2. truth[k] + 1 \in 1..MaxVersion /\ truth[k] <= truth[k] + 1
      BY <1>1, <3>1
    <3> QED BY <1>1, <3>1, <3>2
  <2>2. CASE op \notin {"set", "delete"}
    BY <1>1, <2>2 DEF Start
  <2> QED BY <2>1, <2>2
<1>4. PICK n : n = [pc |-> Route, op |-> op, key |-> k,
                    seen |-> IF op \in {"set", "delete"} THEN truth[k] + 1 ELSE 0]
  OBVIOUS
<1>5. /\ req' = [req EXCEPT ![r] = n] /\ n \in Slot /\ n.key = k /\ n.op = op
      /\ n.pc \notin {"load", "loadLocal", "idle"}
      /\ k \in Keys => n.seen <= truth'[k] /\ (n.seen # 0 => truth[k] <= n.seen)
  <2>1. req' = [req EXCEPT ![r] = n]
    BY <1>4 DEF Start
  <2>2. Route \in {"ping", "redis", "local"}
    BY DEF Route
  <2>3. CASE op \in {"set", "delete"}
    <3>1. k \in Keys /\ truth[k] < MaxVersion /\ truth' = [truth EXCEPT ![k] = truth[k] + 1]
      BY <2>3 DEF Start
    <3>2. truth[k] + 1 \in 0..MaxVersion /\ n.seen = truth[k] + 1 /\ truth'[k] = truth[k] + 1
      BY <1>1, <1>4, <2>3, <3>1
    <3> QED BY <1>1, <1>4, <2>1, <2>2, <3>1, <3>2 DEF Slot
  <2>4. CASE op \notin {"set", "delete"}
    <3>1. n.seen = 0 /\ 0 \in 0..MaxVersion
      BY <1>4, <2>4
    <3>2. k \in Keys => 0 <= truth'[k]
      BY <1>3
    <3> QED BY <1>4, <2>1, <2>2, <3>1, <3>2 DEF Slot
  <2> QED BY <2>3, <2>4
<1>6. /\ req' \in [Requests -> Slot] /\ req'[r] = n
      /\ \A q \in Requests \ {r} : req'[q] = req[q]
  BY <1>1, <1>5
<1>7. \A j \in Keys : settled[j] <= truth[j] /\ settled[j] \in Nat /\ truth[j] \in Nat /\ truth'[j] \in Nat
  BY <1>1, <1>3 DEF FallbackInv
<1>8. ASSUME NEW q \in Requests PROVE RequestOK(q)'
  <2>1. CASE q = r
    <3>1. ASSUME k \in Keys \ excuse' PROVE \A p \in InFlight(k)' : p = r
      <4>1. InFlight(k) = {}
        BY <1>2, <3>1
      <4> QED BY <1>6, <4>1 DEF InFlight
    <3>2. k \in Keys => settled[k] <= truth[k] /\ n.seen \in Nat
      BY <1>5, <1>7 DEF Slot
    <3>3. k \in Keys /\ n.seen # 0 => settled[k] <= n.seen
      BY <1>5, <1>7, <3>2
    <3> QED BY <1>2, <1>5, <1>6, <2>1, <3>1, <3>3 DEF RequestOK
  <2>2. CASE q # r
    <3>1. req'[q] = req[q] /\ RequestOK(q)
      BY <1>1, <1>6, <2>2
    <3>2. SUFFICES ASSUME req[q].pc # "idle" PROVE RequestOK(q)'
      BY <3>1 DEF RequestOK
    <3>3. PICK j : j = req[q].key
      OBVIOUS
    <3>4. j \in Keys => req[q].seen <= truth'[j]
      <4>1. j \in Keys => req[q].seen <= truth[j] /\ req[q].seen \in Nat
        BY <1>1, <3>1, <3>2, <3>3 DEF RequestOK, Slot
      <4> QED BY <1>3, <1>7, <4>1
    <3>5. ASSUME j \in Keys \ excuse' PROVE InFlight(j)' \subseteq {q} /\ j \notin excuse
      <4>1. q \in InFlight(j) /\ j \notin excuse
        BY <1>2, <3>2, <3>3, <3>5 DEF InFlight
      <4>2. j # k
        BY <1>2, <3>5, <4>1
      <4>3. InFlight(j)' \subseteq InFlight(j)
        BY <1>5, <1>6, <4>2 DEF InFlight
      <4> QED BY <3>1, <3>2, <3>3, <3>5, <4>1, <4>3 DEF RequestOK
    <3> QED BY <1>2, <3>1, <3>2, <3>3, <3>4, <3>5 DEF RequestOK
  <2> QED BY <2>1, <2>2
<1>9. \A j \in Keys : settled'[j] <= truth'[j]
  BY <1>2, <1>3, <1>7
<1>10. FallbackTypeOK'
  BY <1>2, <1>3, <1>6 DEF FallbackInv, FallbackTypeOK, Slot
<1>11. excuse \subseteq excuse'
  BY <1>2
<1>12. StaleCopyExplained' /\ FallbackBounded'
  BY <1>2, <1>11 DEF FallbackInv, StaleCopyExplained, EntriesOf, FallbackBounded
<1> QED BY <1>8, <1>9, <1>10, <1>12 DEF FallbackInv

\* What a step of a request leaves to show once its slot is accounted for.
LEMMA AfterMove ==
  ASSUME FallbackInv, NEW r \in Requests, NEW n, Moves(r, n),
         reachable' \in BOOLEAN, cacheAvailable' \in BOOLEAN, checkDue' \in BOOLEAN,
         store' \in [Keys -> 0..MaxVersion], excuse' \subseteq Keys,
         fallback' \in Seq(Entry), Cardinality(CachedIn(fallback')) <= MaxFallbackSize,
         \A k \in Keys : settled'[k] <= truth[k],
         \A k \in Keys \ excuse' : store'[k] # 0 => store'[k] >= settled'[k],
         Fresh(fallback', settled', excuse')
  PROVE  FallbackInv'
<1>1. req' \in [Requests -> Slot] /\ \A q \in Requests : RequestOK(q)'
  BY RequestMoves
<1>2. truth' = truth /\ settled' \in [Keys -> 0..MaxVersion]
  BY DEF Moves
<1>3. FallbackTypeOK'
  BY <1>1, <1>2 DEF FallbackTypeOK, Slot, FallbackInv
<1>4. StaleCopyExplained'
  BY DEF StaleCopyExplained, Fresh, EntriesOf
<1>5. FallbackBounded'
  BY DEF FallbackBounded, CachedIn
<1> QED BY <1>1, <1>2, <1>3, <1>4, <1>5 DEF FallbackInv

\* The Map did not change.
LEMMA MapStays ==
  ASSUME FallbackInv, fallback' = fallback, excuse \subseteq excuse',
         \A k \in Keys \ excuse' : settled'[k] = settled[k]
  PROVE  /\ fallback' \in Seq(Entry) /\ Cardinality(CachedIn(fallback')) <= MaxFallbackSize
         /\ Fresh(fallback', settled', excuse')
BY DEF FallbackInv, FallbackTypeOK, FallbackBounded, CachedIn, StaleCopyExplained, Fresh, EntriesOf

\* Steps of a request that change nothing but its slot and the verdict.
LEMMA SlotStep ==
  ASSUME FallbackInv, NEW r \in Requests, NEW n, Moves(r, n), cacheAvailable' \in BOOLEAN,
         UNCHANGED <<reachable, checkDue, store, fallback, settled, excuse>>
  PROVE  FallbackInv'
<1>1. /\ fallback' \in Seq(Entry) /\ Cardinality(CachedIn(fallback')) <= MaxFallbackSize
      /\ Fresh(fallback', settled', excuse')
  BY MapStays
<1> QED BY <1>1, AfterMove DEF FallbackInv, FallbackTypeOK, StaleCopyExplained

LEMMA InFlightIsTyped ==
  ASSUME FallbackInv, NEW r \in Requests, req[r].pc # "idle"
  PROVE  /\ req \in [Requests -> Slot] /\ req[r] \in Slot
         /\ IF req[r].op = "incr" THEN req[r].key \in Counters ELSE req[r].key \in Keys
         /\ req[r].key \in Keys => req[r].seen <= truth[req[r].key]
         /\ req[r].key \in Keys \ excuse /\ req[r].seen # 0 => settled[req[r].key] <= req[r].seen
         /\ req[r].pc \in {"load", "loadLocal"} => req[r].op = "get"
         /\ store \in [Keys -> 0..MaxVersion] /\ settled \in [Keys -> 0..MaxVersion]
         /\ truth \in [Keys -> 1..MaxVersion] /\ fallback \in Seq(Entry) /\ excuse \subseteq Keys
         /\ Idle \in Slot
<1>1. req \in [Requests -> Slot] /\ RequestOK(r)
  BY DEF FallbackInv, FallbackTypeOK, Slot
<1>2. Idle \in Slot
  BY FallbackAssumption DEF Idle, Slot
<1> QED BY <1>1, <1>2 DEF RequestOK, FallbackInv, FallbackTypeOK

\* A request that goes to another point, and one that is done.
LEMMA Goes ==
  ASSUME FallbackInv, NEW r \in Requests, req[r].pc # "idle",
         NEW pc \in {"ping", "redis", "load", "loadLocal", "local"}, GoTo(r, pc),
         pc \in {"load", "loadLocal"} => req[r].op = "get",
         UNCHANGED <<truth, settled, excuse>>
  PROVE  \E n : Moves(r, n)
<1> DEFINE n == [req[r] EXCEPT !.pc = pc]
<1>1. req' = [req EXCEPT ![r] = n]
  BY InFlightIsTyped DEF GoTo
<1>2. /\ n \in Slot /\ n.pc = pc /\ n.key = req[r].key /\ n.op = req[r].op /\ n.seen = req[r].seen
  BY InFlightIsTyped DEF Slot
<1> HIDE DEF n
<1>3. Moves(r, n)
  BY <1>1, <1>2, InFlightIsTyped DEF Moves
<1> QED BY <1>3

LEMMA Ends ==
  ASSUME FallbackInv, NEW r \in Requests, req[r].pc # "idle", Done(r),
         truth' = truth, excuse \subseteq excuse', settled' \in [Keys -> 0..MaxVersion],
         \A k \in Keys : k # req[r].key => settled'[k] = settled[k]
  PROVE  Moves(r, Idle)
BY InFlightIsTyped DEF Done, Moves, Idle

LEMMA RedisStep == ASSUME FallbackInv, NEW r \in Requests, Redis(r) PROVE FallbackInv'
<1> USE FallbackAssumption
<1>1. PICK k : k = req[r].key
  OBVIOUS
<1>2. /\ req[r].pc = "redis" /\ req[r].pc # "idle"
      /\ UNCHANGED <<reachable, cacheAvailable, checkDue, fallback, truth>>
  BY DEF Redis
<1>3. /\ req[r].op = "incr" \/ k \in Keys
      /\ req[r].op \in {"get", "set", "delete", "incr"} /\ req[r].seen \in 0..MaxVersion
      /\ k \in Keys => req[r].seen <= truth[k]
  BY <1>1, <1>2, InFlightIsTyped DEF Slot
<1>4. CASE /\ UNCHANGED <<store, settled, excuse>>
           /\ Done(r) \/ GoTo(r, "local") \/ (GoTo(r, "load") /\ req[r].op = "get")
  <2>1. \E n : Moves(r, n)
    BY <1>2, <1>4, Goes, Ends, InFlightIsTyped
  <2>2. reachable' = reachable /\ checkDue' = checkDue /\ fallback' = fallback
    BY <1>2
  <2> QED BY <1>2, <1>4, <2>1, <2>2, SlotStep DEF FallbackInv, FallbackTypeOK
<1>5. CASE /\ req[r].op = "set" /\ Done(r)
           /\ store' = [store EXCEPT ![k] = req[r].seen]
           /\ settled' = [settled EXCEPT ![k] = req[r].seen]
           /\ excuse' = excuse \cup {k}
  <2>1. /\ settled' \in [Keys -> 0..MaxVersion] /\ store' \in [Keys -> 0..MaxVersion]
        /\ \A j \in Keys : j # k => settled'[j] = settled[j] /\ store'[j] = store[j]
        /\ k \in Keys /\ settled'[k] = req[r].seen
    BY <1>2, <1>3, <1>5, InFlightIsTyped
  <2>2. Moves(r, Idle)
    BY <1>1, <1>2, <1>5, <2>1, Ends
  <2>3. /\ fallback' \in Seq(Entry) /\ Cardinality(CachedIn(fallback')) <= MaxFallbackSize
        /\ Fresh(fallback', settled', excuse')
    BY <1>2, <1>5, <2>1, MapStays
  <2>4. \A j \in Keys : settled'[j] <= truth[j]
    BY <1>3, <2>1 DEF FallbackInv
  <2>5. /\ \A j \in Keys \ excuse' : store'[j] # 0 => store'[j] >= settled'[j]
        /\ excuse' \subseteq Keys
    BY <1>5, <2>1 DEF FallbackInv, FallbackTypeOK, StaleCopyExplained
  <2> QED BY <1>2, <2>1, <2>2, <2>3, <2>4, <2>5, AfterMove DEF FallbackInv, FallbackTypeOK
<1>6. CASE /\ req[r].op = "delete" /\ GoTo(r, "local")
           /\ store' = [store EXCEPT ![k] = 0]
           /\ UNCHANGED <<settled, excuse>>
  <2>1. /\ store' \in [Keys -> 0..MaxVersion] /\ store'[k] = 0 /\ k \in Keys
        /\ \A j \in Keys : j # k => store'[j] = store[j]
    BY <1>2, <1>3, <1>6, InFlightIsTyped
  <2>2. PICK n : Moves(r, n)
    BY <1>2, <1>6, Goes
  <2>3. /\ fallback' \in Seq(Entry) /\ Cardinality(CachedIn(fallback')) <= MaxFallbackSize
        /\ Fresh(fallback', settled', excuse')
    BY <1>2, <1>6, MapStays
  <2>4. \A j \in Keys \ excuse' : store'[j] # 0 => store'[j] >= settled'[j]
    BY <1>6, <2>1 DEF FallbackInv, StaleCopyExplained
  <2>5. /\ settled' = settled /\ excuse' = excuse
    BY <1>6
  <2>6. \A j \in Keys : settled'[j] <= truth[j]
    BY <2>5 DEF FallbackInv
  <2> QED BY <1>2, <2>1, <2>2, <2>3, <2>4, <2>5, <2>6, AfterMove DEF FallbackInv, FallbackTypeOK
<1> QED BY <1>1, <1>3, <1>4, <1>5, <1>6 DEF Redis

LEMMA PongStep == ASSUME FallbackInv, NEW r \in Requests, Pong(r) PROVE FallbackInv'
<1>1. /\ req[r].pc # "idle" /\ cacheAvailable' = reachable
      /\ UNCHANGED <<reachable, checkDue, store, fallback, truth, settled, excuse>>
      /\ GoTo(r, "redis") \/ GoTo(r, "local")
  BY DEF Pong, GoTo
<1>2. \E n : Moves(r, n)
  BY <1>1, Goes
<1> QED BY <1>1, <1>2, SlotStep DEF FallbackInv, FallbackTypeOK

LEMMA LoadStep == ASSUME FallbackInv, NEW r \in Requests, Load(r) PROVE FallbackInv'
<1>1. PICK k : k = req[r].key
  OBVIOUS
<1>2. /\ req[r].pc \in {"load", "loadLocal"} /\ req[r].pc # "idle"
      /\ req' = [req EXCEPT ![r].seen = truth[k]]
      /\ UNCHANGED <<reachable, cacheAvailable, checkDue, store, fallback, truth, settled, excuse>>
  BY <1>1 DEF Load
<1>3. req \in [Requests -> Slot] /\ req[r] \in Slot /\ req[r].op = "get" /\ k \in Keys
  BY <1>1, <1>2, InFlightIsTyped
<1> DEFINE n == [req[r] EXCEPT !.seen = truth[k]]
<1>4. truth[k] \in 0..MaxVersion /\ settled[k] <= truth[k] /\ truth[k] <= truth[k]
  BY <1>3 DEF FallbackInv, FallbackTypeOK
<1>5. /\ req' = [req EXCEPT ![r] = n] /\ n \in Slot
      /\ n.pc = req[r].pc /\ n.key = k /\ n.op = "get" /\ n.seen = truth[k]
  BY <1>1, <1>2, <1>3, <1>4 DEF Slot
<1> HIDE DEF n
<1>6. Moves(r, n)
  BY <1>1, <1>2, <1>3, <1>4, <1>5, InFlightIsTyped DEF Moves
<1> QED BY <1>2, <1>6, SlotStep DEF FallbackInv, FallbackTypeOK

LEMMA LoadFailsStep == ASSUME FallbackInv, NEW r \in Requests, LoadFails(r) PROVE FallbackInv'
<1>1. /\ req[r].pc # "idle"
      /\ UNCHANGED <<reachable, cacheAvailable, checkDue, store, fallback, truth, settled, excuse>>
      /\ GoTo(r, "local") \/ Done(r)
  BY DEF LoadFails
<1>2. \E n : Moves(r, n)
  BY <1>1, Goes, Ends, InFlightIsTyped
<1> QED BY <1>1, <1>2, SlotStep DEF FallbackInv, FallbackTypeOK

LEMMA GetLocalStep == ASSUME FallbackInv, NEW r \in Requests, GetLocal(r) PROVE FallbackInv'
<1>1. /\ req[r].pc # "idle" /\ req[r].op = "get"
      /\ UNCHANGED <<reachable, cacheAvailable, checkDue, store, fallback, truth, settled, excuse>>
      /\ GoTo(r, "loadLocal") \/ Done(r)
  BY DEF GetLocal
<1>2. \E n : Moves(r, n)
  BY <1>1, Goes, Ends, InFlightIsTyped
<1> QED BY <1>1, <1>2, SlotStep DEF FallbackInv, FallbackTypeOK

\* What SetLocal and Fill leave in the Map.
LEMMA StoredIsFresh ==
  ASSUME FallbackInv, NEW k \in Keys, NEW v \in 0..MaxVersion, k \in Keys \ excuse => v >= settled[k]
  PROVE  /\ Put(fallback, EntryFor(k, v)) \in Seq(Entry)
         /\ Fresh(Put(fallback, EntryFor(k, v)), settled, excuse)
<1> DEFINE e == EntryFor(k, v)
<1>1. e \in Entry /\ e.key = k /\ e.value = v /\ fallback \in Seq(Entry)
  BY DEF EntryFor, Entry, FallbackInv, FallbackTypeOK
<1>2. Fresh(fallback, settled, excuse)
  BY FreshIs DEF FallbackInv
<1> HIDE DEF e
<1>3. /\ Put(fallback, e) \in Seq(Entry)
      /\ \A i \in DOMAIN Put(fallback, e) :
           Put(fallback, e)[i] = e \/ (i \in DOMAIN fallback /\ Put(fallback, e)[i] = fallback[i])
  BY <1>1, PutsOne
<1>4. Fresh(Put(fallback, e), settled, excuse)
  BY <1>1, <1>2, <1>3 DEF Fresh
<1> QED BY <1>3, <1>4 DEF e

LEMMA EnforcedIsFresh ==
  ASSUME NEW map \in Seq(Entry), NEW done, NEW excused, Fresh(map, done, excused)
  PROVE  /\ Enforce(map) \in Seq(Entry) /\ Cardinality(CachedIn(Enforce(map))) <= MaxFallbackSize
         /\ Fresh(Enforce(map), done, excused)
<1>1. /\ Enforce(map) \in Seq(Entry) /\ Len(Enforce(map)) <= MaxFallbackSize
      /\ \A i \in DOMAIN Enforce(map) : \E j \in DOMAIN map : Enforce(map)[i] = map[j]
  BY EnforceBounds
<1>2. Fresh(Enforce(map), done, excused)
  BY <1>1 DEF Fresh
<1>3. Cardinality(CachedIn(Enforce(map))) <= MaxFallbackSize
  <2>1. PICK new : new = Enforce(map)
    OBVIOUS
  <2> QED BY <1>1, <2>1, ShortIsBounded
<1> QED BY <1>1, <1>2, <1>3

LEMMA FillStep == ASSUME FallbackInv, NEW r \in Requests, Fill(r) PROVE FallbackInv'
<1> USE FallbackAssumption
<1>1. PICK k, v : k = req[r].key /\ v = req[r].seen
  OBVIOUS
<1>2. /\ req[r].pc \in {"load", "loadLocal"} /\ req[r].pc # "idle" /\ v # 0 /\ Done(r)
      /\ UNCHANGED <<reachable, cacheAvailable, checkDue, truth, settled, excuse>>
  BY <1>1 DEF Fill
<1>3. /\ k \in Keys /\ v \in 0..MaxVersion /\ (k \in Keys \ excuse => settled[k] <= v)
      /\ store \in [Keys -> 0..MaxVersion] /\ settled \in [Keys -> 0..MaxVersion]
  BY <1>1, <1>2, InFlightIsTyped DEF Slot
<1>4. Moves(r, Idle)
  BY <1>2, <1>3, Ends
<1>5. k \in Keys \ excuse => v >= settled[k]
  BY <1>3
<1>6. \A j \in Keys : settled'[j] <= truth[j]
  BY <1>2 DEF FallbackInv
<1>7. CASE /\ req[r].pc = "load" /\ fallback' = fallback
           /\ store' = IF reachable THEN [store EXCEPT ![k] = v] ELSE store
  <2>1. /\ fallback' \in Seq(Entry) /\ Cardinality(CachedIn(fallback')) <= MaxFallbackSize
        /\ Fresh(fallback', settled', excuse')
    BY <1>2, <1>7, MapStays
  <2>2. \A j \in Keys : store'[j] = store[j] \/ (j = k /\ store'[j] = v)
    BY <1>3, <1>7
  <2>3. \A j \in Keys \ excuse' : store'[j] # 0 => store'[j] >= settled'[j]
    BY <1>2, <1>5, <2>2 DEF FallbackInv, StaleCopyExplained
  <2>4. store' \in [Keys -> 0..MaxVersion]
    BY <1>3, <1>7
  <2> QED BY <1>2, <1>4, <1>6, <2>1, <2>3, <2>4, AfterMove DEF FallbackInv, FallbackTypeOK
<1>8. CASE /\ req[r].pc # "load" /\ store' = store
           /\ fallback' = Enforce(Live(Put(fallback, EntryFor(k, v))))
  <2>1. PICK map : map = Put(fallback, EntryFor(k, v))
    OBVIOUS
  <2>2. map \in Seq(Entry) /\ Fresh(map, settled, excuse)
    BY <1>3, <1>5, <2>1, StoredIsFresh
  <2>3. Thinned(map, Live(map))
    BY <2>2, LiveThins
  <2>4. Live(map) \in Seq(Entry) /\ Fresh(Live(map), settled, excuse)
    BY <2>2, <2>3, ThinnerIsFresh DEF Thinned
  <2>5. /\ fallback' \in Seq(Entry) /\ Cardinality(CachedIn(fallback')) <= MaxFallbackSize
        /\ Fresh(fallback', settled', excuse')
    BY <1>2, <1>8, <2>1, <2>4, EnforcedIsFresh
  <2>6. \A j \in Keys \ excuse' : store'[j] # 0 => store'[j] >= settled'[j]
    BY <1>2, <1>8 DEF FallbackInv, StaleCopyExplained
  <2> QED BY <1>2, <1>3, <1>4, <1>6, <1>8, <2>5, <2>6, AfterMove DEF FallbackInv, FallbackTypeOK
<1> QED BY <1>1, <1>7, <1>8 DEF Fill

LEMMA SetLocalStep == ASSUME FallbackInv, NEW r \in Requests, SetLocal(r) PROVE FallbackInv'
<1> USE FallbackAssumption
<1>1. PICK k, v : k = req[r].key /\ v = req[r].seen
  OBVIOUS
<1>2. /\ req[r].pc # "idle" /\ req[r].op = "set" /\ Done(r)
      /\ fallback' = Enforce(Put(fallback, EntryFor(k, v)))
      /\ settled' = [settled EXCEPT ![k] = v] /\ excuse' = excuse \cup {k}
      /\ UNCHANGED <<reachable, cacheAvailable, checkDue, store, truth>>
  BY <1>1 DEF SetLocal
<1>3. /\ k \in Keys /\ v \in 0..MaxVersion /\ v <= truth[k] /\ fallback \in Seq(Entry)
      /\ settled \in [Keys -> 0..MaxVersion]
  BY <1>1, <1>2, InFlightIsTyped DEF Slot
<1>4. /\ settled' \in [Keys -> 0..MaxVersion] /\ settled'[k] = v
      /\ \A j \in Keys : j # k => settled'[j] = settled[j]
  BY <1>2, <1>3
<1>5. Moves(r, Idle)
  BY <1>1, <1>2, <1>4, Ends
<1>6. \A j \in Keys : settled'[j] <= truth[j]
  BY <1>3, <1>4 DEF FallbackInv
<1>7. Fresh(fallback, settled', excuse')
  BY <1>2, <1>4, FreshIs DEF Fresh, FallbackInv
<1>8. PICK e : e = EntryFor(k, v)
  OBVIOUS
<1>9. PICK map : map = Put(fallback, e)
  OBVIOUS
<1>10. e \in Entry /\ e.key = k
  BY <1>3, <1>8 DEF EntryFor, Entry
<1>11. map \in Seq(Entry) /\ Fresh(map, settled', excuse')
  <2>1. /\ map \in Seq(Entry)
        /\ \A i \in DOMAIN map : map[i] = e \/ (i \in DOMAIN fallback /\ map[i] = fallback[i])
    BY <1>3, <1>9, <1>10, PutsOne
  <2>2. \A j \in Keys \ excuse' : j # k
    BY <1>2
  <2> QED BY <1>7, <1>10, <2>1, <2>2 DEF Fresh
<1>12. /\ fallback' \in Seq(Entry) /\ Cardinality(CachedIn(fallback')) <= MaxFallbackSize
       /\ Fresh(fallback', settled', excuse')
  BY <1>2, <1>8, <1>9, <1>11, EnforcedIsFresh
<1>13. /\ \A j \in Keys \ excuse' : store'[j] # 0 => store'[j] >= settled'[j]
       /\ excuse' \subseteq Keys
  BY <1>2, <1>3, <1>4 DEF FallbackInv, FallbackTypeOK, StaleCopyExplained
<1> QED BY <1>2, <1>4, <1>5, <1>6, <1>12, <1>13, AfterMove DEF FallbackInv, FallbackTypeOK

LEMMA DeleteLocalStep == ASSUME FallbackInv, NEW r \in Requests, DeleteLocal(r) PROVE FallbackInv'
<1> USE FallbackAssumption
<1>1. PICK k, v : k = req[r].key /\ v = req[r].seen
  OBVIOUS
<1>2. /\ req[r].pc # "idle" /\ req[r].op = "delete" /\ Done(r) /\ fallback' = Drop(fallback, k)
      /\ settled' = [settled EXCEPT ![k] = v]
      /\ excuse' = IF store[k] # 0 THEN excuse \cup {k} ELSE excuse
      /\ UNCHANGED <<reachable, cacheAvailable, checkDue, store, truth>>
  BY <1>1 DEF DeleteLocal
<1>3. /\ k \in Keys /\ v \in 0..MaxVersion /\ v <= truth[k] /\ fallback \in Seq(Entry)
      /\ settled \in [Keys -> 0..MaxVersion]
  BY <1>1, <1>2, InFlightIsTyped DEF Slot
<1>4. /\ settled' \in [Keys -> 0..MaxVersion] /\ settled'[k] = v
      /\ \A j \in Keys : j # k => settled'[j] = settled[j]
  BY <1>2, <1>3
<1>5. excuse \subseteq excuse' /\ excuse' \subseteq Keys
  BY <1>2, <1>3 DEF FallbackInv, FallbackTypeOK
<1>6. Moves(r, Idle)
  BY <1>1, <1>2, <1>4, <1>5, Ends
<1>7. \A j \in Keys : settled'[j] <= truth[j]
  BY <1>3, <1>4 DEF FallbackInv
<1>8. /\ Thinned(fallback, Drop(fallback, k))
      /\ \A i \in DOMAIN Drop(fallback, k) : Drop(fallback, k)[i].key # k
  BY <1>3, DropThins
<1>9. fallback' \in Seq(Entry) /\ Cardinality(CachedIn(fallback')) <= MaxFallbackSize
  <2>1. Cardinality(CachedIn(fallback)) <= MaxFallbackSize
    BY DEF FallbackInv, FallbackBounded, CachedIn
  <2>2. PICK new : new = fallback'
    OBVIOUS
  <2> QED BY <1>2, <1>3, <1>8, <2>1, <2>2, ThinnerIsBounded DEF Thinned
<1>10. Fresh(fallback', settled', excuse')
  <2>1. Fresh(Drop(fallback, k), settled, excuse)
    BY <1>3, <1>8, FreshIs, ThinnerIsFresh DEF FallbackInv
  <2> QED BY <1>2, <1>4, <1>5, <1>8, <2>1 DEF Fresh
<1>11. \A j \in Keys \ excuse' : store'[j] # 0 => store'[j] >= settled'[j]
  BY <1>2, <1>4, <1>5 DEF FallbackInv, StaleCopyExplained
<1> QED BY <1>2, <1>4, <1>5, <1>6, <1>7, <1>9, <1>10, <1>11, AfterMove DEF FallbackInv, FallbackTypeOK

LEMMA IncrLocalStep == ASSUME FallbackInv, NEW r \in Requests, IncrLocal(r) PROVE FallbackInv'
<1> USE FallbackAssumption
<1>1. PICK k : k = req[r].key
  OBVIOUS
<1>2. /\ req[r].pc # "idle" /\ req[r].op = "incr" /\ Done(r)
      /\ fallback' = Put(fallback, EntryFor(k, 0))
      /\ UNCHANGED <<reachable, cacheAvailable, checkDue, store, truth, settled, excuse>>
  BY <1>1 DEF IncrLocal
<1>3. k \in Counters /\ k \notin Keys /\ fallback \in Seq(Entry) /\ settled \in [Keys -> 0..MaxVersion]
  BY <1>1, <1>2, InFlightIsTyped
<1>4. PICK e : e = EntryFor(k, 0)
  OBVIOUS
<1>5. e \in Entry /\ e.key = k
  BY <1>3, <1>4 DEF EntryFor, Entry
<1>6. PICK map : map = Put(fallback, e)
  OBVIOUS
<1>7. /\ map \in Seq(Entry) /\ CachedIn(map) \subseteq CachedIn(fallback)
      /\ \A i \in DOMAIN map : map[i] = e \/ (i \in DOMAIN fallback /\ map[i] = fallback[i])
  BY <1>3, <1>5, <1>6, PutsOne
<1>8. Cardinality(CachedIn(map)) <= MaxFallbackSize
  <2>1. PICK n \in Nat : n = Len(fallback)
    BY <1>3
  <2>2. CachedIn(fallback) \in SUBSET (1..n)
    BY <1>3, <2>1 DEF CachedIn
  <2>3. IsFiniteSet(CachedIn(fallback)) /\ Cardinality(CachedIn(fallback)) \in Nat
    BY <2>2, PlacesFinite
  <2>4. Cardinality(CachedIn(map)) <= Cardinality(CachedIn(fallback)) /\ Cardinality(CachedIn(map)) \in Nat
    BY <1>7, <2>3, FS_Subset, FS_CardinalityType
  <2>5. Cardinality(CachedIn(fallback)) <= MaxFallbackSize
    BY DEF FallbackInv, FallbackBounded, CachedIn
  <2> QED BY <2>3, <2>4, <2>5
<1>9. Fresh(map, settled, excuse)
  BY <1>3, <1>5, <1>7, FreshIs DEF Fresh, FallbackInv
<1>10. Moves(r, Idle)
  BY <1>2, <1>3, Ends
<1>11. \A j \in Keys : settled'[j] <= truth[j]
  BY <1>2 DEF FallbackInv
<1>12. \A j \in Keys \ excuse' : store'[j] # 0 => store'[j] >= settled'[j]
  BY <1>2 DEF FallbackInv, StaleCopyExplained
<1>13. fallback' = map /\ settled' = settled /\ excuse' = excuse
  BY <1>2, <1>4, <1>6
<1>14. /\ fallback' \in Seq(Entry) /\ Cardinality(CachedIn(fallback')) <= MaxFallbackSize
       /\ Fresh(fallback', settled', excuse')
  BY <1>7, <1>8, <1>9, <1>13
<1> QED BY <1>2, <1>10, <1>11, <1>12, <1>14, AfterMove DEF FallbackInv, FallbackTypeOK

\* Steps of nobody's request.
LEMMA MapStep ==
  ASSUME FallbackInv, reachable' \in BOOLEAN, checkDue' \in BOOLEAN,
         UNCHANGED <<cacheAvailable, store, truth, req, settled, excuse>>,
         fallback' \in Seq(Entry), Cardinality(CachedIn(fallback')) <= MaxFallbackSize,
         Fresh(fallback', settled, excuse)
  PROVE  FallbackInv'
<1>1. \A r \in Requests : RequestOK(r)' <=> RequestOK(r)
  BY DEF RequestOK, InFlight
<1>2. FallbackTypeOK' /\ FallbackBounded'
  BY DEF FallbackInv, FallbackTypeOK, FallbackBounded, CachedIn
<1>3. StaleCopyExplained'
  BY DEF FallbackInv, StaleCopyExplained, Fresh, EntriesOf
<1> QED BY <1>1, <1>2, <1>3 DEF FallbackInv

LEMMA EntryExpiresStep ==
  ASSUME FallbackInv, NEW i \in DOMAIN fallback, EntryExpires(i) PROVE FallbackInv'
<1>1. /\ fallback' = [fallback EXCEPT ![i].live = FALSE]
      /\ UNCHANGED <<reachable, cacheAvailable, checkDue, store, truth, req, settled, excuse>>
  BY DEF EntryExpires
<1>2. fallback \in Seq(Entry)
  BY DEF FallbackInv, FallbackTypeOK
<1>3. PICK e : e = [fallback[i] EXCEPT !.live = FALSE]
  OBVIOUS
<1>4. PICK n \in Nat : n = Len(fallback)
  BY <1>2
<1>5. /\ DOMAIN fallback = 1..n /\ fallback \in [1..n -> Entry] /\ fallback[i] \in Entry
      /\ fallback' = [fallback EXCEPT ![i] = e]
  BY <1>1, <1>2, <1>3, <1>4
<1>6. e \in Entry /\ e.key = fallback[i].key /\ e.value = fallback[i].value /\ e.live = FALSE
  BY <1>3, <1>5 DEF Entry
<1>7. /\ fallback' \in [1..n -> Entry] /\ fallback'[i] = e
       /\ \A j \in 1..n : j # i => fallback'[j] = fallback[j]
  BY <1>5, <1>6
<1>8. fallback' \in Seq(Entry) /\ DOMAIN fallback' = DOMAIN fallback
  BY <1>5, <1>7
<1>9. \A j \in DOMAIN fallback :
        /\ fallback'[j].key = fallback[j].key /\ fallback'[j].value = fallback[j].value
        /\ fallback'[j].live => fallback[j].live
  BY <1>5, <1>6, <1>7
<1>10. CachedIn(fallback') = CachedIn(fallback)
  BY <1>8, <1>9 DEF CachedIn
<1>11. Cardinality(CachedIn(fallback')) <= MaxFallbackSize
  BY <1>10 DEF FallbackInv, FallbackBounded, CachedIn
<1>12. Fresh(fallback', settled, excuse)
  BY <1>8, <1>9, FreshIs DEF Fresh, FallbackInv
<1> QED BY <1>1, <1>8, <1>11, <1>12, MapStep DEF FallbackInv, FallbackTypeOK

LEMMA PeriodicCleanupStep == ASSUME FallbackInv, PeriodicCleanup PROVE FallbackInv'
<1>1. /\ fallback' = Live(fallback)
      /\ UNCHANGED <<reachable, cacheAvailable, checkDue, store, truth, req, settled, excuse>>
  BY DEF PeriodicCleanup
<1>2. fallback \in Seq(Entry) /\ Cardinality(CachedIn(fallback)) <= MaxFallbackSize
  BY DEF FallbackInv, FallbackTypeOK, FallbackBounded, CachedIn
<1>3. PICK new : new = Live(fallback)
  OBVIOUS
<1>4. Thinned(fallback, new) /\ new \in Seq(Entry)
  BY <1>2, <1>3, LiveThins DEF Thinned
<1>5. Cardinality(CachedIn(new)) <= MaxFallbackSize
  BY <1>2, <1>4, ThinnerIsBounded
<1>6. Fresh(new, settled, excuse)
  BY <1>2, <1>4, FreshIs, ThinnerIsFresh DEF FallbackInv
<1> QED BY <1>1, <1>3, <1>4, <1>5, <1>6, MapStep DEF FallbackInv, FallbackTypeOK

LEMMA FallbackStep == FallbackInv /\ [FallbackNext]_fallbackVars => FallbackInv'
<1> SUFFICES ASSUME FallbackInv, [FallbackNext]_fallbackVars PROVE FallbackInv'
  OBVIOUS
<1>1. /\ fallback \in Seq(Entry) /\ Cardinality(CachedIn(fallback)) <= MaxFallbackSize
      /\ Fresh(fallback, settled, excuse) /\ reachable \in BOOLEAN /\ checkDue \in BOOLEAN
  BY FreshIs DEF FallbackInv, FallbackTypeOK, FallbackBounded, CachedIn
<1>2. CASE IntervalPasses \/ ToggleRedis \/ UNCHANGED fallbackVars
  <2>1. /\ UNCHANGED <<cacheAvailable, store, truth, req, settled, excuse, fallback>>
        /\ reachable' \in BOOLEAN /\ checkDue' \in BOOLEAN
    BY <1>1, <1>2 DEF IntervalPasses, ToggleRedis, fallbackVars
  <2>2. fallback' = fallback
    BY <2>1
  <2> QED BY <1>1, <2>1, <2>2, MapStep
<1>3. CASE \E r \in Requests : Continue(r)
  BY <1>3, PongStep, RedisStep, LoadStep, LoadFailsStep, FillStep, GetLocalStep, SetLocalStep,
     DeleteLocalStep, IncrLocalStep DEF Continue
<1> QED BY <1>2, <1>3, StartStep, EntryExpiresStep, PeriodicCleanupStep DEF FallbackNext

\* For any number of requests, keys and counters and any size of the Map: the
\* Map keeps to its size, and a stale copy in either cache has a reason
\* (getWithFallback, setWithFallback, deleteWithFallback, incrWithFallback).
THEOREM FallbackStaysTruthful == FallbackSpec => []FallbackTruthful
<1>1. FallbackInit => FallbackInv
  <2> SUFFICES ASSUME FallbackInit PROVE FallbackInv
    OBVIOUS
  <2> USE FallbackAssumption
  <2>1. fallback \in Seq(Entry) /\ Len(fallback) <= MaxFallbackSize /\ DOMAIN fallback = {}
    BY DEF FallbackInit
  <2>2. Cardinality(CachedIn(fallback)) <= MaxFallbackSize
    BY <2>1, ShortIsBounded
  <2>3. /\ \A k \in Keys : settled[k] = 0 /\ truth[k] = 1 /\ store[k] = 0
        /\ \A r \in Requests : req[r] = Idle /\ req[r].pc = "idle"
    BY DEF FallbackInit, Idle
  <2>4. \A k \in Keys : 0 \in 0..MaxVersion /\ 1 \in 1..MaxVersion
    OBVIOUS
  <2>5. FallbackTypeOK
    BY <2>1, <2>4 DEF FallbackInit, FallbackTypeOK, Idle
  <2>6. StaleCopyExplained /\ FallbackBounded
    BY <2>1, <2>2, <2>3 DEF StaleCopyExplained, FallbackBounded, CachedIn, EntriesOf
  <2> QED BY <2>3, <2>5, <2>6 DEF FallbackInv, RequestOK
<1>2. FallbackInv => FallbackTruthful
  BY DEF FallbackInv, FallbackTruthful
<1> QED BY <1>1, <1>2, FallbackStep, PTL DEF FallbackSpec
=============================================================================
