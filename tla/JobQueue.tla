------------------------------- MODULE JobQueue -------------------------------
(***************************************************************************)
(* One BullMQ queue of the application: webhook, audit-logs, email or      *)
(* cleanup (infrastructure/queue), with its worker, in a process that may  *)
(* crash and start again.  AuditLogService has a producer and a worker of  *)
(* its own for the audit-logs queue, modelled as a fifth kind.             *)
(*                                                                         *)
(* BullMQ is external: a job that throws is delayed until its attempts are *)
(* used up; a job whose worker stops renewing its lock is stalled and goes *)
(* back to the queue once, while the attempt it was taken from may still   *)
(* be running (a ghost).  A job is done by its effect: the POST, the       *)
(* inserted row, the e-mail, the deletions.                                *)
(***************************************************************************)
EXTENDS Naturals, FiniteSets

CONSTANTS
    Jobs,
    MaxStalled,     \* BullMQ's maxStalledCount
    MaxCrashes      \* bound on the crashes of the process

ASSUME QueueAssumption == MaxStalled \in Nat /\ MaxCrashes \in Nat

Kinds == {"webhook", "audit", "auditService", "email", "cleanup"}

VARIABLES
    kind,       \* which queue this is
    worker,     \* "none", "running" or "closing"
    queueOpen,  \* has close() not been called in this process?
    job,
    told,       \* what the producer of a job was told
    effects,    \* history: how often the job was done
    crashes

queueVars == <<kind, worker, queueOpen, job, told, effects, crashes>>

NoJob == [st |-> "none", prio |-> 0, made |-> 0, stalls |-> 0,
          running |-> FALSE, ghosts |-> 0]

\* defaultJobAttempts of each queue, and the concurrency of its worker.
WebhookAttempts == 5
WebhookConcurrency == 10
AuditAttempts == 3
AuditConcurrency == 10
AuditServiceConcurrency == 10
EmailAttempts == 3
EmailConcurrency == 5
CleanupAttempts == 3
CleanupConcurrency == 1

Attempts == CASE kind = "webhook" -> WebhookAttempts
              [] kind \in {"audit", "auditService"} -> AuditAttempts
              [] kind = "email"   -> EmailAttempts
              [] kind = "cleanup" -> CleanupAttempts

Concurrency == CASE kind = "webhook" -> WebhookConcurrency
                 [] kind = "audit"   -> AuditConcurrency
                 [] kind = "auditService" -> AuditServiceConcurrency
                 [] kind = "email"   -> EmailConcurrency
                 [] kind = "cleanup" -> CleanupConcurrency

QueueTypeOK ==
    /\ kind \in Kinds
    /\ worker \in {"none", "running", "closing"}
    /\ queueOpen \in BOOLEAN
    /\ job \in [Jobs ->
         [st : {"none", "waiting", "active", "delayed", "completed", "failed"},
          prio : 0..5, made : 0..Attempts, stalls : 0..MaxStalled,
          running : BOOLEAN, ghosts : Nat]]
    /\ told \in [Jobs -> {"nothing", "ok", "error"}]
    /\ effects \in [Jobs -> Nat]
    /\ crashes \in 0..MaxCrashes

QueueInit ==
    /\ kind \in Kinds
    /\ worker = "none"
    /\ queueOpen = TRUE
    /\ job = [j \in Jobs |-> NoJob]
    /\ told = [j \in Jobs |-> "nothing"]
    /\ effects = [j \in Jobs |-> 0]
    /\ crashes = 0

-----------------------------------------------------------------------------
(* Producers                                                               *)

\* queue.add: the job is there or not, and the answer may be lost.
Add(j, prio, landed) ==
    /\ job[j].st = "none" /\ told[j] = "nothing"
    /\ landed => queueOpen
    /\ job' = IF landed THEN [job EXCEPT ![j] = [NoJob EXCEPT !.st = "waiting", !.prio = prio]]
              ELSE job
    /\ UNCHANGED <<kind, worker, queueOpen, effects, crashes>>

Answered(j, ok) == told' = [told EXCEPT ![j] = IF ok THEN "ok" ELSE "error"]

AddWebhookJob(j) ==
    /\ kind = "webhook"
    /\ \E landed, ok \in BOOLEAN : (ok => landed) /\ Add(j, 5, landed) /\ Answered(j, ok)

\* getPriority: 1 for failures, 2 for critical actions, else 5.  The error of
\* a failed add is swallowed.
AddAuditLog(j) ==
    /\ kind = "audit"
    /\ \E landed \in BOOLEAN, prio \in {1, 2, 5} : Add(j, prio, landed)
    /\ Answered(j, TRUE)

\* AuditLogService gives no priority, which BullMQ serves before any other.
CreateAuditLog(j) ==
    /\ kind = "auditService"
    /\ \E landed \in BOOLEAN : Add(j, 0, landed)
    /\ Answered(j, TRUE)

\* Slip: addJob logs the error and does not throw it again.
AddEmail_Swallows(j) ==
    /\ kind = "email"
    /\ \E landed \in BOOLEAN, prio \in 1..5 : Add(j, prio, landed)
    /\ Answered(j, TRUE)

\* Alerts have priority 1, verifications 2, resets 3, generic e-mails 4 (sent
\* as welcome e-mails without their text) and welcome e-mails 5.
AddEmail(j) ==
    /\ kind = "email"
    /\ \E landed, ok \in BOOLEAN, prio \in 1..5 :
         (ok => landed) /\ Add(j, prio, landed) /\ Answered(j, ok)

\* The repeatable jobs that scheduleCleanupJobs leaves, and the three manual
\* triggers.
AddCleanup(j) ==
    /\ kind = "cleanup"
    /\ \E landed, ok \in BOOLEAN : (ok => landed) /\ Add(j, 0, landed) /\ Answered(j, ok)

-----------------------------------------------------------------------------
(* Workers                                                                 *)

StartWorker ==
    /\ worker = "none"
    /\ worker' = "running"
    /\ UNCHANGED <<kind, queueOpen, job, told, effects, crashes>>

\* The attempts the worker is busy with.
Held == Cardinality({j \in Jobs : job[j].running})
          + Cardinality({j \in Jobs : job[j].ghosts > 0})

\* A worker with a free slot takes a waiting job of the lowest number.
TakeJob(j) ==
    /\ worker = "running"
    /\ Held < Concurrency
    /\ job[j].st = "waiting"
    /\ \A i \in Jobs : job[i].st = "waiting" => job[j].prio <= job[i].prio
    /\ job' = [job EXCEPT ![j].st = "active", ![j].running = TRUE]
    /\ UNCHANGED <<kind, worker, queueOpen, told, effects, crashes>>

\* What process() may come to.  A webhook is done when the endpoint got it,
\* even if it answers with an error or too late.
ProcessWebhook == {[ok |-> TRUE, done |-> TRUE], [ok |-> FALSE, done |-> TRUE],
                   [ok |-> FALSE, done |-> FALSE]}

\* Every attempt draws a fresh id: a row inserted by an attempt that then
\* fails is inserted again.
ProcessAudit == ProcessWebhook
ProcessAuditLogJob == ProcessWebhook

\* An unknown type throws; the others hand the e-mail to the provider.
ProcessEmail == ProcessWebhook

\* Deletes one by one; a job that fails half way has done some.
ProcessCleanup == ProcessWebhook

Outcomes == CASE kind = "webhook" -> ProcessWebhook
              [] kind = "audit"   -> ProcessAudit
              [] kind = "auditService" -> ProcessAuditLogJob
              [] kind = "email"   -> ProcessEmail
              [] kind = "cleanup" -> ProcessCleanup

Landed(j, done) == effects' = IF done THEN [effects EXCEPT ![j] = @ + 1] ELSE effects

CompleteJob(j) ==
    /\ job[j].running
    /\ \E o \in Outcomes : o.ok /\ Landed(j, o.done)
    /\ job' = [job EXCEPT ![j].st = "completed", ![j].running = FALSE]
    /\ UNCHANGED <<kind, worker, queueOpen, told, crashes>>

FailJob(j) ==
    /\ job[j].running
    /\ \E o \in Outcomes : ~ o.ok /\ Landed(j, o.done)
    /\ job' = [job EXCEPT ![j].running = FALSE,
                          ![j].made = @ + 1,
                          ![j].st = IF job[j].made + 1 < Attempts
                                    THEN "delayed" ELSE "failed"]
    /\ UNCHANGED <<kind, worker, queueOpen, told, crashes>>

\* backoff: the delay (calculateRetryDelay for webhooks) is over.
WakeJob(j) ==
    /\ job[j].st = "delayed"
    /\ job' = [job EXCEPT ![j].st = "waiting"]
    /\ UNCHANGED <<kind, worker, queueOpen, told, effects, crashes>>

\* Another worker's check finds the lock of an active job expired.  Its
\* attempt may be dead or may go on.
StallJob(j) ==
    /\ job[j].st = "active"
    /\ job' = [job EXCEPT
         ![j].st = IF job[j].stalls < MaxStalled THEN "waiting" ELSE "failed",
         ![j].stalls = IF @ < MaxStalled THEN @ + 1 ELSE @,
         ![j].running = FALSE,
         ![j].ghosts = IF job[j].running THEN @ + 1 ELSE @]
    /\ UNCHANGED <<kind, worker, queueOpen, told, effects, crashes>>

\* An attempt that lost its lock ends; BullMQ ignores what it returns.
GhostEnds(j) ==
    /\ job[j].ghosts > 0
    /\ \E o \in Outcomes : Landed(j, o.done)
    /\ job' = [job EXCEPT ![j].ghosts = @ - 1]
    /\ UNCHANGED <<kind, worker, queueOpen, told, crashes>>

-----------------------------------------------------------------------------
(* Shutdown and crash                                                      *)

BeginClose ==
    /\ worker = "running"
    /\ worker' = "closing"
    /\ UNCHANGED <<kind, queueOpen, job, told, effects, crashes>>

\* close(): worker.close() waits for what the worker is busy with; then the
\* queue is closed, and with it the producers of this process.
EndClose ==
    /\ worker = "closing" /\ kind # "auditService"
    /\ Held = 0
    /\ worker' = "none"
    /\ queueOpen' = FALSE
    /\ UNCHANGED <<kind, job, told, effects, crashes>>

\* stopWorker() leaves the queue open.
StopWorker ==
    /\ worker = "closing" /\ kind = "auditService"
    /\ Held = 0
    /\ worker' = "none"
    /\ UNCHANGED <<kind, queueOpen, job, told, effects, crashes>>

\* The process dies, with or without the effect of what it had at work.
CrashProcess ==
    /\ crashes < MaxCrashes
    /\ crashes' = crashes + 1
    /\ worker' = "none"
    /\ queueOpen' = TRUE
    /\ job' = [j \in Jobs |-> [job[j] EXCEPT !.running = FALSE, !.ghosts = 0]]
    /\ \E hit \in SUBSET {j \in Jobs : job[j].running} :
         effects' = [j \in Jobs |-> IF j \in hit THEN effects[j] + 1 ELSE effects[j]]
    /\ UNCHANGED <<kind, told>>

QueueNext ==
    \/ \E j \in Jobs :
         \/ AddWebhookJob(j) \/ AddAuditLog(j) \/ CreateAuditLog(j)
         \/ AddEmail(j) \/ AddCleanup(j)
         \/ TakeJob(j) \/ CompleteJob(j) \/ FailJob(j) \/ WakeJob(j) \/ StallJob(j) \/ GhostEnds(j)
    \/ StartWorker \/ BeginClose \/ EndClose \/ StopWorker \/ CrashProcess

\* Attempts end (fetch has a timeout), delays end, lost locks are noticed,
\* and the worker takes jobs while it runs.  Starting it again after a crash
\* or a shutdown is up to whoever deploys the process.
QueueFairness ==
    /\ \A j \in Jobs :
         /\ SF_queueVars(TakeJob(j))
         /\ WF_queueVars(WakeJob(j))
         /\ WF_queueVars(CompleteJob(j) \/ FailJob(j))
         /\ WF_queueVars(~ job[j].running /\ StallJob(j))
         /\ WF_queueVars(GhostEnds(j))
    /\ WF_queueVars(EndClose \/ StopWorker)

QueueSpec == QueueInit /\ [][QueueNext]_queueVars

-----------------------------------------------------------------------------
(* Properties                                                              *)

Over(j) == job[j].st \in {"completed", "failed"}

\* A job is done at most once per attempt and once more per stall, whatever
\* crashes; it is not retried beyond that.
BoundedEffects ==
    \A j \in Jobs :
        effects[j] + job[j].ghosts <= Attempts + job[j].stalls

\* A completed job was done.
CompletedHappened == \A j \in Jobs : job[j].st = "completed" => effects[j] > 0

\* A producer that was told ok, other than one of audit logs, has a job.
AcceptedIsKept ==
    \A j \in Jobs : told[j] = "ok" /\ kind \notin {"audit", "auditService"} => job[j].st # "none"

\* A worker that is closed has nothing at work, ghosts included.
QuietAfterClose == worker = "none" => Held = 0

\* As long as a worker is started again and again, every job ends.
JobsEnd == \A j \in Jobs :
    []<>(worker = "running") => (job[j].st = "waiting" ~> Over(j))

\* What a producer relies on: nothing accepted is forgotten, nothing is done
\* too often or reported without being done, and a closed worker is quiet.
JobsAccountedFor ==
    QueueTypeOK /\ BoundedEffects /\ CompletedHappened /\ AcceptedIsKept /\ QuietAfterClose
=============================================================================
