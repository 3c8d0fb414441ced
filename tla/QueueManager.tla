----------------------------- MODULE QueueManager -----------------------------
(***************************************************************************)
(* QueueManager (infrastructure/queue/queue-manager.ts): initialize starts *)
(* the workers of the configured queues and then awaits the scheduling of  *)
(* the three cleanup jobs; shutdown closes the four queues side by side.   *)
(* Calls of both may overlap, and every call to Redis may fail.            *)
(***************************************************************************)
EXTENDS Naturals, FiniteSets

CONSTANTS Managers      \* overlapping calls of initialize and shutdown

Queues == {"email", "webhook", "audit", "cleanup"}
CleanupJobs == 3        \* repeatable jobs that scheduleCleanupJobs adds

VARIABLES
    configured,     \* the queues whose services the configuration gives
    working,        \* the queues with a worker
    shut,           \* the queues that were closed
    isInitialized,
    mcall,          \* the calls
    crossed,        \* history: two calls that acted overlapped
    spilled         \* history: an initialize or a shutdown failed

managerVars == <<configured, working, shut, isInitialized, mcall, crossed, spilled>>

\* todo: the queues a shutdown has still to close; jobs: the cleanup jobs an
\* initialize has added; failed: one close was rejected.
NoMCall == [pc |-> "idle", todo |-> {}, jobs |-> 0, failed |-> FALSE]

ManagerTypeOK ==
    /\ configured \in SUBSET Queues /\ working \in SUBSET configured
    /\ shut \in SUBSET Queues
    /\ isInitialized \in BOOLEAN /\ crossed \in BOOLEAN /\ spilled \in BOOLEAN
    /\ mcall \in [Managers -> [pc : {"idle", "schedule", "close"},
                               todo : SUBSET Queues, jobs : 0..(CleanupJobs - 1), failed : BOOLEAN]]

\* The webhook queue needs no service.
ManagerInit ==
    /\ configured \in {c \in SUBSET Queues : "webhook" \in c}
    /\ working = {} /\ shut = {}
    /\ isInitialized = FALSE
    /\ mcall = [m \in Managers |-> NoMCall]
    /\ crossed = FALSE /\ spilled = FALSE

Busy == {m \in Managers : mcall[m].pc # "idle"}

\* Up to the first await: a second startWorker only warns.
Initialize(m) ==
    /\ m \notin Busy
    /\ ~ isInitialized
    /\ working' = configured
    /\ crossed' = (crossed \/ Busy # {})
    /\ IF "cleanup" \in configured
       THEN /\ mcall' = [mcall EXCEPT ![m].pc = "schedule"]
            /\ UNCHANGED isInitialized
       ELSE /\ isInitialized' = TRUE
            /\ UNCHANGED mcall
    /\ UNCHANGED <<configured, shut, spilled>>

\* Slip: the flag is set before the jobs are scheduled.
Schedule_ReadyFirst(m) ==
    /\ mcall[m].pc = "schedule"
    /\ "cleanup" \notin shut
    /\ isInitialized' = TRUE
    /\ mcall' = [mcall EXCEPT ![m] =
                   IF @.jobs + 1 < CleanupJobs THEN [@ EXCEPT !.jobs = @ + 1] ELSE NoMCall]
    /\ UNCHANGED <<configured, working, shut, crossed, spilled>>

\* One queue.add; after the third the manager is ready.
Schedule(m) ==
    /\ mcall[m].pc = "schedule"
    /\ "cleanup" \notin shut
    /\ IF mcall[m].jobs + 1 < CleanupJobs
       THEN /\ mcall' = [mcall EXCEPT ![m].jobs = @ + 1]
            /\ UNCHANGED isInitialized
       ELSE /\ mcall' = [mcall EXCEPT ![m] = NoMCall]
            /\ isInitialized' = TRUE
    /\ UNCHANGED <<configured, working, shut, crossed, spilled>>

\* An add fails, as it always does on a closed queue: what was started runs on.
ScheduleFails(m) ==
    /\ mcall[m].pc = "schedule"
    /\ mcall' = [mcall EXCEPT ![m] = NoMCall]
    /\ spilled' = TRUE
    /\ UNCHANGED <<configured, working, shut, isInitialized, crossed>>

\* shutdown does nothing unless the manager is ready.
Shutdown(m) ==
    /\ m \notin Busy
    /\ isInitialized
    /\ mcall' = [mcall EXCEPT ![m].pc = "close", ![m].todo = Queues]
    /\ crossed' = (crossed \/ Busy # {})
    /\ UNCHANGED <<configured, working, shut, isInitialized, spilled>>

\* One close() is settled; after the last one the manager is not ready any
\* more, unless Promise.all was rejected.
Settle(m, q, ok) ==
    /\ mcall[m].pc = "close"
    /\ q \in mcall[m].todo
    /\ IF mcall[m].todo = {q}
       THEN /\ mcall' = [mcall EXCEPT ![m] = NoMCall]
            /\ isInitialized' = (isInitialized /\ (mcall[m].failed \/ ~ ok))
       ELSE /\ mcall' = [mcall EXCEPT ![m].todo = @ \ {q}, ![m].failed = @ \/ ~ ok]
            /\ UNCHANGED isInitialized
    /\ UNCHANGED <<configured, crossed>>

\* First its worker, then the queue.
CloseQueue(m, q) ==
    /\ Settle(m, q, TRUE)
    /\ working' = working \ {q}
    /\ shut' = shut \cup {q}
    /\ UNCHANGED spilled

\* The worker or the queue could not be closed.
CloseFails(m, q) ==
    /\ Settle(m, q, FALSE)
    /\ spilled' = TRUE
    /\ working' \in {working, working \ {q}}
    /\ UNCHANGED shut

ManagerNext ==
    \E m \in Managers :
        \/ Initialize(m) \/ Schedule(m) \/ ScheduleFails(m) \/ Shutdown(m)
        \/ \E q \in Queues : CloseQueue(m, q) \/ CloseFails(m, q)

ManagerSpec == ManagerInit /\ [][ManagerNext]_managerVars

-----------------------------------------------------------------------------
(* Properties                                                              *)

Clean == ~ crossed /\ ~ spilled

\* A ready manager that is not shutting down has a worker on every configured
\* queue and has all its cleanup jobs scheduled, unless calls overlapped or
\* failed: two overlapping initializes may leave it ready without any worker.
ReadyMeansRunning ==
    Clean /\ isInitialized /\ (\A m \in Managers : mcall[m].pc # "close") =>
        working = configured /\ \A m \in Managers : mcall[m].pc # "schedule"

\* A manager that is not ready and not being called has no worker left, unless
\* calls overlapped or failed: shutdown refuses to stop the workers of an
\* initialize that failed.
LeftoversExplained == Clean /\ ~ isInitialized /\ Busy = {} => working = {}

\* The flag of the manager tells which workers there are.
WorkersAsPromised == ManagerTypeOK /\ ReadyMeansRunning /\ LeftoversExplained
=============================================================================
