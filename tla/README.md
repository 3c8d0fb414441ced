# Verification of the enterprise authentication backend

TLA+ models of the Node.js authentication service in `src/src`, the TLC runs
that check them on small instances, and TLAPS proofs of their main properties
for every value of the constants. `PROJECT.json` lists components, runs,
mutants, hazards, theorems, and the source lines behind every definition.

Run everything from this directory:

    tlc -workers 2 -config Account.cfg UserAccountMC
    tlapm UserAccountProofs.tla

## 1. The system

A Fastify application over Postgres (users, roles, permissions, devices,
webhooks, audit logs), Redis (sessions, caches, rate limits, MFA challenges,
BullMQ queues) and a WebSocket server. There is one JavaScript thread per
process: code between two `await`s is atomic, and anything may run at an
`await`. So the hard behaviours are requests that interleave between a read and
the write that depends on it, Redis command sequences without MULTI, failures
half way through such a sequence, keys that expire by themselves, state that
lives in the memory of one process, callbacks that change what their caller
iterates over, and calculations over a history that grows while it is read.

| Component | State | Operations | What is hard | What makes it correct |
|---|---|---|---|---|
| Session store and session requests | `session:<id>`, `session:token:<h>`, `session:user:<u>` in Redis | login, logout, revoke, revoke others, remove device, reset, touch, refresh | each operation is several Redis commands; stale copies are written back; index rewrites; TTLs | ended sessions stay ended, nobody ends another user's session, the index is complete |
| User accounts | the `users` row, two token maps in memory | register, login, verify, reset, change password, profile, lock, unlock, delete | whole-row writes of an entity read before Argon2 and Postgres awaits | no lost lockout, dead tokens stay dead, a reset password sticks |
| Profile cache | the row and `user:profile:<u>` | getUserById, profile and lock changes, deletion | late fills, requests that write stale rows | a cached profile is current or explained |
| Authorization | `roles`, `user_roles`, `role_permissions`, `user:permissions:<u>` | check, assign, remove, update role, delete role | cache-aside with late fills, swallowed DEL errors, 2n separate writes | staleness has a known reason and ends, an update is exact |
| Access guards and audit hooks | a request on its way, the audit queue | authenticate, five guards, handler, three hooks | rights change between lookups; the client leaves; the queue fails | who passes held the right; refusals and effects leave entries |
| System roles | role tables | seed, create, delete | find-or-create by several instances, no transaction, torn writes | the two roles have their permissions; duplicates are explained |
| Circuit breaker | state, two counters, retry time | execute, reset, timers | calls admitted in one state answer in another | trips and closes on streaks only, recovers |
| Retry | – | execute with backoff | an attempt may land although it failed | bounded attempts and delays; a later write is not overwritten |
| Session lock | SET NX EX key | acquire, release, withLock | expiry under the holder, waiters that give up | no one releases another's lock |
| WebSocket registry | two maps, subscriptions, `readyState` | connect, close, error, subscribe, send | a failing send splices the array being walked; several removals of one socket | maps agree, sockets stay registered, everyone is reached |
| Domain events | handler arrays | on, off, clear, emit | handlers change the array during emit | every handler sees every event |
| Rate limiter | one sorted set per key | check, reset | time read before the pipeline, same-millisecond members, fail-open | never more than the limit per window |
| Cache fallback | Redis and a bounded map, a cached health verdict | get, set, delete, increment, cleanup | the verdict is up to five seconds old; fills overtake deletions | a deleted entry is not served, the map stays bounded |
| Queues (webhook, audit, e-mail, cleanup) | BullMQ jobs | add, process, retry, stall, close | at-least-once, crashes, ghosts | accepted jobs are kept, effects are bounded, jobs end |
| Queue manager | four queues, one flag | initialize, shutdown | overlapping and failing starts | ready means that all workers run |
| Webhooks | webhook rows and jobs | activate, subscribe, rotate, delete, publish | whole-row edits overlap each other and a publication | what is off is silent, a rotated secret is used |
| OAuth | pending states, users, accounts | authorize, callback, unlink | find-or-create across awaits | one person per answer, one account per profile |
| MFA | challenges in Redis, columns of the row | challenge, answer, setup, disable | delete after verify, whole-row writes | a code or challenge counts once |
| Tokens | signed pairs with `iat` and `exp` | sign, verify, refresh | whole seconds against milliseconds, four kinds under two secrets | kinds are not confused, a chain ends with its session |
| Devices | the `devices` row | register, trust, remove, last use, cleanup | whole-row writes, cleanup by age | trust is asked for, used devices stay |
| Trust scores, login risk, reports, alerts | histories | score, assess, report, send | the history moves while it is read; boundaries of windows | scores of their time, monotonic risk, sums add up, no flood and no silence |
| Audit log pages | the audit rows | page after page | rows and count are two statements, ties, new rows | a reader of all pages sees all |

How they interact: AuthenticationService changes the users row and creates,
refreshes and purges sessions; SessionService and DeviceService revoke them
through the same repository; UserService writes the same row and the cached
profile; MFA and OAuth end in a login; domain events carry a change to the
notification service, which walks the WebSocket registry, and to the webhook
queue; the AdminController changes roles and invalidates the permission cache
that the guards read; guards and hooks add to the audit queue, whose rows the
pages and the reports read; the circuit breaker wraps e-mail, SMS and OAuth
providers; controllers and middleware otherwise only call these services.

## 2. Modules

| Module | Models | Run in | Proved in |
|---|---|---|---|
| `SessionStore` | session repository and all requests over it | `RecordsMC`, `SessionStoreMC` | `SessionStoreProofs` |
| `SessionLifecycle` | abstract specification: unborn, active, terminated | instantiated by `SessionStore` | `SessionStoreProofs` |
| `UserAccount` | the users row, lockout, verification and reset tokens | `UserAccountMC` | `UserAccountProofs` |
| `PermissionCache` | role tables and the cache beside them | `PermissionCacheMC`, `ResilienceMC` | `PermissionCacheProofs` |
| `CircuitBreaker` | the breaker with overlapping calls | `ResilienceMC` | `ResilienceProofs` |
| `SessionLock` | the lock of session updates | `ResilienceMC` | `ResilienceProofs` |
| `Mfa` | challenges, codes, setup | `RequestsMC` | `RequestsProofs` |
| `OAuth` | callbacks and account links | `RequestsMC` | `RequestsProofs` |
| `AuditedRequests` | guards, handlers, audit entries | `RecordsMC` | `RecordsProofs` |
| `Retry` | withRetry around one write | `ResilienceMC` | `ResilienceProofs` |
| `CacheFallback` | Redis with an in-memory fallback | `ResilienceMC`, `RequestsMC` | `ResilienceProofs` |
| `JobQueue` | one BullMQ queue and its worker | `ResilienceMC` | `ResilienceProofs` |
| `QueueManager` | start and shutdown of the queues | `ServicesMC` | `ServicesProofs` |
| `RateLimiter` | the sliding window | `RequestsMC` | `RequestsProofs` |
| `ConnectionManager` | the WebSocket registry and its broadcasts | `ConnectionManagerMC`, `ServicesMC` | `ServicesProofs` |
| `EventEmitter` | handlers of one event | `ServicesMC` | `ServicesProofs` |
| `TokenChain` | the four kinds of token, refreshing | `ServicesMC`, by itself | `ServicesProofs` |
| `RoleSeeding` | system roles beside administrators | `ServicesMC` | `ServicesProofs` |
| `Alerting` | the cooldown of alerts | `ServicesMC` | `ServicesProofs` |
| `LoginRisk` | the score of the next login | `ServicesMC` | `ServicesProofs` |
| `MetricsReport` | counts per period | `ServicesMC` | `ServicesProofs` |
| `Devices` | the device table | `RecordsMC` | `RecordsProofs` |
| `Webhooks` | webhook rows and publications | `RecordsMC` | `RecordsProofs` |
| `ProfileCache` | account row and cached profile | `RecordsMC` | `RecordsProofs` |
| `SessionTrust` | the trust score of a new session | `RecordsMC` | `RecordsProofs` |
| `AuditPages` | readers of the audit log | `RecordsMC` | `RecordsProofs` |
| `Subsequences` | what filtering leaves of an array | used by `CacheFallback`, `ConnectionManager` | `Foundations` |

`SessionStoreMC`, `UserAccountMC`, `PermissionCacheMC` and
`ConnectionManagerMC` only name model values. `RecordsMC`, `RequestsMC`,
`ResilienceMC` and `ServicesMC` are suites: components that share no state are
checked together, each behaviour picks one of them (`part`) and leaves the
others in one initial state, so that their state spaces add up.
`SessionConcurrent` is `RecordsMC` with the session store alone (its constant
`Parts`) and two requests at a time. Operators whose
names contain an underscore (`Update_NoLock`) are mutants: plausible bugs that
the runs must catch. History variables, marked in the declarations, are read by
properties and never by guards.

### SessionStore

One action per Redis command. A request `p` has a program point `pc[p]`, an
operation, a user, the session at hand (`cur`) and the rest of its loop
(`todo`). `sess[s]` is the JSON under `session:<id>` cut down to absent, live
or revoked; `tok[s]` is the token key; `idx[u]` the index and `lease[u]` its
content when EXPIRE last armed its TTL. `CreateSession`, `CreateToken`,
`CreateIndex`, `CreateLease` are `SessionRepository.create`; `UpdateExists`,
`UpdateSet` are `update`; `DeleteGet` ... `DeleteExpire` are `delete` (GET, DEL,
DEL, SMEMBERS, DEL, SADD, EXPIRE); `BulkMembers`, `BulkRead`, `BulkSelect` are
`findByUserId` and the loops of SessionService and DeviceService; `PurgeMembers`
and `PurgeIndex` are `deleteByUserId`. `Abort` is a failing Redis call or a
crash between two commands. `DropSession`, `DropToken` and `DropIndex` are
expiries. A session's `expiresAt` passes in `Expire`.

`SessionLifecycle` says what the store promises a client: a session is opened
once, and once terminated it never comes back. `Life` is the refinement mapping.
The promise holds without activity updates only: `updateSessionActivity` writes
a live copy back over a revocation that fell between its GET and its SETEX.
`SettledStaysSettled` says what is left with them.

### UserAccount

Every change of a user reads the row, works on the entity, awaits Argon2 or
Postgres and writes the whole row, so a request is a reading action, which
computes `image[p]`, and `Update(p)`. `Effect(o, w, r)` is what operation `o`
with password `w` makes of row `r`, from the methods of `User`. A row is its
password, the verified flag, the lock (`open`, `locked`, or `lapsed` when
`lockoutUntil` has passed and nobody has logged in since), the counter and the
deletion mark. `lastFailedLoginAt` is no column, hence null in every entity
read, hence the fifteen-minute window of `incrementFailedAttempts` never
applies. The names of the columns in `users.schema.ts` of this commit differ
from those the repository uses; the model follows the repository. `live` holds
the tokens of both in-memory maps; `Restart` empties it with all requests in
flight. A token is a fresh UUID (`Draw`). The token check and the read of the
row, one Postgres await apart, are one action. A request is assumed not to
outlive a lock that it sets itself (fifteen minutes).

### PermissionCache

A check is a cache read (`CheckMiss`; a hit changes nothing), a query, and a
fill that may fail. An administrator's request is its write and its DEL;
`updateRole` removes the old permissions and adds the wanted ones one write at
a time, then calls `InvalidateRole`. That one changes nothing: it asks KEYS for
`user:permissions:*` without the client's key prefix (`redis.ts:190`), gets no
key and deletes none, although requirements.md:175 asks for the change to reach
the caches. `DeleteRole` cascades and invalidates nothing. So a role-level
change is one of the four reasons in `StaleExplained`, and `StaleHeals` says
that the five minutes end every one of them.

### AuditedRequests

A request arrives, is authenticated, is decided by one of the five guards
(`Guards` has three kinds: `any`; `all`, of which the guards of one permission
and of administrators are the case of one right; `owner`, who passes, as an
administrator does), which looks its rights up one by one (`CheckPermission`), and is refused, with an entry
(`LogAuthorizationFailure`), or handled. `Handle` may do all, part or none of
its work; `NoteAdminAction` is the entry of an administrator's handler;
`Finish` is the response, after which `CreateAuditLogEntry` queues the entry
unless the client has gone. `ChangeRights` are the administrators elsewhere.
`ever` and `always` are the rights the user held at some time, and all the
time, since the guard began. A redirect (302) is entered as a failure.

### CircuitBreaker, Retry, SessionLock

`Execute` admits a call or rejects it, `Answer` is the later success, failure
or timeout, `Elapse` lets `nextAttemptTime` come, `Reset` is the operator's.
`good` and `bad` are the streaks of answers the properties compare with. The
failure counter saturates at its threshold, the only value it is compared with.

In `Retry` an attempt resolves or rejects (`FnRejects`), and a rejected one may
have written (`landed`). `Delays(n)` is the capped exponential with its jitter,
which is added after the cap although retry.ts:6 calls `maxDelayMs` the maximum.

In `SessionLock` a call tries (`Acquire`, `Miss`), gives up after the wait and
runs without the lock (`GiveUp`, degraded mode), runs (`Body`) and leaves
(`Release`, the comparing script). `LockExpires` and `CrashOf` may come at any
time; a SET that landed and whose answer was lost leaves the lock to `Orphan`.

### CacheFallback, RateLimiter

`CacheFallback` keeps `store` (Redis), the insertion-ordered `fallback` map,
the cached verdict `cacheAvailable` and whether Redis really is `reachable`. A
request takes the steps of its method: PING when the interval has passed
(`Start`, `Pong`), the Redis command (`Redis`), the map (`GetLocal`,
`SetLocal`, `DeleteLocal`, `IncrLocal`), the loader (`Load`, `Fill`).
`settled[k]` is the version the last finished set or delete of a key left.
A failing loader of `getWithFallback` runs twice, once per branch of its `catch`.

`RateLimiter` takes the time in `Send` and executes the pipeline in `Exec`,
so pipelines may be executed out of order; `overtaken` marks the keys of which
one was. `FailOpen` is the call Redis did not answer.

### Mfa, OAuth

In `Mfa` a login fetches its challenge, reads the row, verifies a code against
its copy, spends a backup code (`UseBackupCode`), deletes the challenge, creates
its session and writes the row again (`UpdateUser`). `StoresMfa` says whether
the repository stores the columns. That of this commit does not
(user.repository.impl.ts:342), so that no setup ever takes effect with it; the
run takes the interface at its word. Codes are those of `verifyMFASetup`; the
ones `setupTOTP` shows the user are others. The recency check of `disableMFA`
always passes, and `AuthenticationService.createMFAChallenge` answers an id it
stores nowhere; the challenges here are those of `MFAService`.

`OAuth` has one action per await of `handleCallback`: exchange, user by
e-mail, create user, account of the profile, create account. `users` has a
unique e-mail that deleted users keep, so that signing in with a deleted
user's e-mail always ends in a conflict; `oauth_accounts` has no unique key.
A pending state is not deleted once it was used.

### JobQueue, QueueManager

`JobQueue` is one queue, and `kind` chooses which: its attempts, its
concurrency and what its processor does. `Add...` are the producers: the audit
ones swallow a failing add, the e-mail and webhook ones report it. BullMQ is
external: `TakeJob`, `CompleteJob`, `FailJob`, `WakeJob` (backoff), `StallJob`,
`GhostEnds` (the attempt a stalled job was taken from), and `CrashProcess`.
`QueueManager` starts and closes the four queues; `crossed` and `spilled` mark
that calls overlapped or failed.

### ConnectionManager, EventEmitter

Each method of `ConnectionManager` is one action, because none awaits.
`conns[u]` is the array of a user's sockets. `Walk` is `sendToConnections`: it
visits the indexes of the live array (`SendNext`), and a send that throws calls
`removeConnection`, which splices that array. `sendToUserExceptSession` filters
first and therefore walks a copy. Close and error events arrive later, each in
any order. `EventEmitter` is `emit` over the live array of one event, whose
handlers call `on`, `off` and `clear`, or throw.

### TokenChain, RoleSeeding

A token is its kind, session and `iat`; nothing stores it. A tick is half a
second, so that the seconds of the claims and the milliseconds of the clock
differ. `Verified`, `AcceptedByMiddleware`, `AcceptedBySocket` and `IsExpired`
are the four places that decide on one. `FindSession` and `RefreshTokens` are
the two halves of `refreshTokens`.

`RoleSeeding` has the find-or-create loops of `initializeSystemRoles`, one
write per action, several seeders, and failures after any write (`Breaks`),
which leave a role torn. A torn role is never repaired, because a later seeding
takes a role that exists for complete (system-roles.service.ts:145), and a role
that an administrator named "user" or "admin" likewise.

### Records and calculations

`Devices`, `Webhooks` and `ProfileCache` share a shape: a request reads a row
(`Find...`), and writes the whole of it later (`Update...`); history variables
say which rows an older copy has overwritten. `SessionTrust` reads the index
and then the sessions one by one before it scores. `AuditPages` reads rows and
count in two statements (`findPaginated` counts first, of `queryAuditLogs`
either may come first), while entries are added. `Alerting`
sends an alert unless one of its key went out within the cooldown; the key has
no subject, so that an alert of one component silences those of another.
`LoginRisk` is the score, term by term, over a bounded history. `MetricsReport`
walks its periods over the entries read at its beginning.

## 3. Runs

| Run | Instance | Shows |
|---|---|---|
| `SessionConcurrent` | 2 users, 2 sessions, 2 requests, failures; no touch, device, refresh | ownership, answered terminations hold, the lifecycle is implemented |
| `Account` | 1 user, 2 passwords, 1 token, 2 requests, limit 2, fair | lock and counter agree, spent tokens are dead, losses need an overlap, guessing locks |
| `PermissionConcurrent` | 1 user, 1 role, 2 permissions, 2 checks, 2 administrators, failing Redis | staleness is explained, updates are exact |
| `Records` | sessions: 2 users, 3 sessions, 1 request at a time, all operations, expiries; 2 devices, 2 requests, 2 days; 1 webhook, 2 edits, 1 publication; 2 profile requests; 2 sign-ins; 4 audit entries; 1 guarded request, 3 rights, 2 changes of them | each of these components keeps what an answered request was told |
| `Requests` | limiter: 2 calls, window 3, limits 2 and 3, time 4; fallback: 2 requests, 1 key; MFA: 2 requests, 2 challenges, 2 codes; OAuth: 2 callbacks, 2 profiles, 2 e-mails | overlapping requests stay within limits, codes count once, accounts agree |
| `Resilience` | breaker: 3 calls, thresholds 3 and 2; retry: 2 callers, 4 attempts; lock: 3 callers, 2 tries; fallback: 1 request, 2 keys, 1 counter, size 1; queue: 1 job, 1 stall, 1 crash; permissions: 1 check, 1 administrator; fair | contracts of the six, everything ends, faults heal |
| `Services` | sockets: 3 of one user in 2 sessions, 1 of another; emitter; manager: 2 calls; alerts: cooldown 2; seeding: 2 seeders, and 1 beside an administrator; tokens: 1 session, 2 refreshes; risk: 3 attempts; report: 2 entries over months of 3, 2 and 2 days | what the services kept in memory promise |
| `SessionResetMisses` | 1 user, 2 sessions, 2 requests | *violation*: a login inside an index rewrite survives the next reset |
| `AccountReset` | as `Account`; register, login and reset only | *violation*: a login writes the old password back |
| `SocketUserReach` | the sockets of `Services` | *violation*: a failed send makes `sendToUser` skip the next connection |
| `RefreshAfterLogout` | 1 session, 1 refresh | *violation*: a revoked session goes on being refreshed |
| `LimiterMax` | 1 limiter of the middleware | *violation*: a limiter for 1 request admits a second |

The violated properties are quoted from the documents, with the source lines, under
`findings` in `PROJECT.json`. Each was met while translating the code.

A component's properties are conjoined under one name when they belong
together (`JobsAccountedFor`, `TokensHonest`, ...); the parts are stated and
commented one by one above it.

Why the bounds are enough for what they ask. Every interaction between requests
found in this code is between two of them over one key, row or array, so two
concurrent requests and one or two keys reach each pattern; a third session
gives an index something to lose besides the two at hand; three sockets give a
walk a connection before, at and after the one that fails; three lockers a
holder, one that overtakes it and one that still waits. Two permissions
let an update be half done in its removing and in its adding loop. Three breaker
calls let two late answers arrive in a state they were not admitted in. The
limit of two failed logins is the smallest where overlapping failures lose a
count without losing the lock. One job is enough for a queue whose jobs share
nothing but the concurrency limit, which it takes more jobs than fit in a run to
reach. Time bounds let every window, life and cooldown pass once: the limiter's
clock goes past its window, the tokens' past the life of their session, the
months of the report include one that the day of the month does not fit. The
scaled numbers keep their order (delays 4, 8, 10, 10; access life below
session life). Histories in properties saturate. Sets with interchangeable
elements are symmetric in the runs without liveness.

`SessionConcurrent` leaves out `touch` because the properties about answered
terminations and the refinement do not hold with it (see above), and `device`
and `refresh` because `device` repeats the loop of `others` and `refresh`
writes nothing; `Records` includes all of them, one request at a time.

Deadlock is checked except in `Records`, `Services` and `RefreshAfterLogout`.
There a behaviour ends when its bounded time, its history of attempts or entries,
or ids that are issued only once have run out; the service itself does not stop.

## 4. Fairness

`SessionConcurrent`, `PermissionConcurrent`, `Records`, `Requests`, `Services`
and the violation runs assume none. `Account` assumes that a request that read
goes on to write. `Resilience` assumes:

* of requests in progress, in `PermissionCache`, `CacheFallback` and `Retry`,
  that they go on: Redis and Postgres clients settle every promise, with an
  error if need be, and timers fire;
* of `CircuitBreaker`, that time passes, that each call is answered or timed
  out by its `Promise.race`, and that callers keep calling (without callers a
  half-open circuit has nothing to learn from); the same of reads of
  `CacheFallback`, whose verdict is renewed by them;
* of `SessionLock`, that a call that tries goes on (its wait is a timer);
* of `JobQueue`, what BullMQ does while a worker runs: it takes jobs (strongly
  fair, since the worker comes and goes), moves delayed and stalled ones, and
  processors settle;
* of Redis, that it expires keys with a TTL.

No fairness is assumed of failures, of administrators, of clients, of
deployments that start a worker again, or of the provider being up: `Recovers`,
`Trips`, `VerdictFollows`, `JobsEnd`, `StaleHeals` and `GuessingLocks` state
those as hypotheses.

## 5. Proofs

All for every number of users, sessions, requests and so on, from the named
`ASSUME`s of the modules (thresholds positive, `None` outside the sets, `Ops` a
set of operations), which TLC evaluates in every run.

* `SessionStoreProofs`. `IndexOwnership` is inductive only with
  `RequestOwnership`, which says what a request knows at each of its points: an
  index about to be written back (`rest`) holds only sessions of the owner of
  `cur`. From it follow type correctness (`TypeCorrect`), `IndexesAreOwned` and
  the action property `OnlyOwnersTerminate`. `SettledForever` needs no other
  invariant than types and ownership. For `AnswersAreTrue` and
  `ImplementsLifecycle`, `DoneMeansEnded` strengthens `AnsweredMeansEnded` to
  the middle of the loops: what has left `todo` has ended. Both assume
  `"touch" \notin Ops`. `InOrderStaysInOrder` proves `StoreInOrder` from
  `InOrder` (one request at a time, no failing command), which `Records`
  satisfies; without it the property is false, as `SessionResetMisses` shows.
  `Orderly` is inductive: the one request may hold a session that its index
  does not list yet or any more (`Listed`), or one whose keys do not go together
  for the moment (`Paired`); `AtWork` and `Purging` say at which of its points.
* `UserAccountProofs`. `IInv` adds to types and to the three properties what a
  request holds (`Request`) and that live and spent tokens were drawn
  (`Drawn`), which is why a fresh token cannot be a spent one.
  `AtomicUnlessOvertaken` survives the lapse of a lock by `LapseCommutes`, and
  a login that nobody overtook read a row that was not locked.
* `PermissionCacheProofs`. A stale entry has a reason only if a check about to
  store has one (`StaleExplained` with `ReadExplained`); an update that nothing
  overlapped is alone with its role and as far as its loops say.
* `ResilienceProofs`.
  * Circuit breaker: types and `StateConsistent` are inductive together, and
    imply the two streak properties step by step (`SwitchesOnlyOnStreaks`).
  * Session lock: `OneHolder` is inductive with `OutsideIsClean`: a call
    outside the lock has acquired nothing, let nothing expire and spoiled
    nothing. From it follow that no update is lost between two holders and that
    releases are the holder's own (`LockAlwaysProtects`).
  * Retry: `BackoffGrows` and `DelaysInBounds` bound the delays of every
    configuration, by induction on the attempt (`RetryKeepsContract`).
  * Job queue: `EffectsPaidFor` counts: every effect and every attempt at work,
    ghosts included, was paid for with a failed attempt or a stall, but for the
    last. Hence at-least-once stays within the attempts and stalls that are
    configured, for any number of jobs and workers (`JobsStayAccountedFor`).
  * Fallback cache: a request that is alone with its key knows a version between
    the settled one and the truth (`RequestOK`); filters and the bound only thin
    the Map, which keeps its order and brings nothing back (`Thinned`,
    `EnforceBounds`, `FallbackStaysTruthful`).
* `RequestsProofs`.
  * MFA: `WonIsClosed` says that a won challenge is deleted and that a request
    that came late holds a won one, `Shape` and `CodesDrawn` what a request
    carries, `FreshCopies` that a copy nothing overtook is the row, and
    `EnabledStays` that a verified setup survives the writes of such copies
    (`ChallengesServeOnce`, `NothingTakenBack`, the latter assuming `StoresMfa`).
  * OAuth: `EmailsUnique`, `CallbacksFollow` (what a callback found is still
    so), `AccountsFollow` (a link names a user who exists) and `OneAtATime`
    (without overlap there is one link, or one callback about to make it).
  * Rate limiter: `WindowKept`, that a set no call overtook holds every
    admission the window of its newest call still holds; so the count Redis
    answers is at least what the window admitted (`LimitsHold`).
* `RecordsProofs`.
  * Guards and audit entries, per request: what it learned about its rights
    lies between `always` and `ever` (`Learned`), what it decided follows
    (`Decided`), its status says what it did (`Honest`), and its entries are in
    the queue unless lost (`Traced`).
  * Webhooks, profiles, devices (`WebhooksObeyOwners`, `ProfileStaysTruthful`,
    `DevicesAreKept`): a copy that nothing overtook is the row with the
    request's own change (`EditsFollow`, `CopiesFollow`, `CopyOK`), and a row is
    what its owner was told unless an older copy was written over it
    (`RowsKeepUp`, `RowOK`).
  * Trust scores: what a sign-in has read lies between the sessions that were
    live all the time and those that were live at some time (`ReadsFollow`),
    and the score grows with the sessions (`ScoreKeepsOrder`).
  * Audit pages: `Rank` is the number of entries that surely come before one in
    the order of the reader; `SliceCovers` says that OFFSET and LIMIT return every
    untied entry whose rank lies in between. An entry not yet seen has at least as many
    entries before it as the pages so far hold (`Covered`), and new entries only
    add to those (`PagesAreComplete`, for any page length and any number of entries).
* `ServicesProofs`.
  * Queue manager: without overlap and failure the one call in flight tells
    which workers run (`CallTellsWorkers`). Alerts: the history is the time of
    the last alert that went out (`HistoryIsLast`).
  * Seeding of roles: `WriterOK`, that what a seeder has written of a role and
    still has to write is what the definition lists, and that it is alone with
    its role; `SeederOK`, that it knows a row of each permission it has passed
    (`SeedingIsExplained`, for any number of instances and administrators).
  * Tokens: a token of a stored session was signed before the session ended,
    unless a refresh had read the session before (`InTime`, `EndsNoted`);
    `HalfSeconds` relates the two clocks (`TokensStayHonest`).
  * Event emitter: while nothing was unsubscribed, the array that an emit walks
    begins with the handlers that were due (`InTurn`); `TimesAfterAppend` and
    `TimesAfterRemoval` count a handler in an array that changes
    (`HandlersAreServed`).
  * WebSocket registry: a walk over an array that shrinks under it misses a
    socket only right behind one that it removed, so that the map from the missed
    to the socket before them is an injection into the failures (`WalkFacts`,
    `MissesFollowFailures`); a walk over a copy misses none. The other steps add
    or take out one socket in both maps (`Books`, `SocketsAreServed`).
  * Login risk: the score is restated over any history (`ScoreIn`) and grows with
    its counts and conditions (`TotalGrows`); ageing, a failure and a success
    move each of those one way (`ScoresAlwaysMoveRight`).
  * Metrics reports: a report has counted the entries before the start of its
    next period (`Counted`), whose label is greater than all before (`Labelled`).
    That rests on `PeriodAdvances`: no period is empty, and a month that
    `setMonth` skips only makes the next label greater (`ReportsAlwaysAddUp`).
* `Foundations` holds what these need of numbers and arrays, stated with sets and
  functions where the library's theorems take a predicate: least and greatest
  elements, inductive sets, that a recursive function satisfies its equation,
  and that a filtered array holds the elements at its places, once each.

Every safety property of the passing runs is proved. Only model-checked are the
liveness properties (`GuessingLocks`, `EverythingEnds`, `HealsItself`), because
fairness and ENABLED are beyond the prover. The theorems are about every
instance of the models; the abstractions of section 6 stand.

## 6. Limits and divergences

What the models assume or leave out:

* Redis and Postgres are linearizable and keep their data; a lost Redis would
  end sessions and caches, not break the properties.
* The repositories are modelled over the columns they name where the schema of
  this commit has others (`users`, `devices`).
* Wildcard matching of permissions, pagination other than of audit logs,
  wording, hashing and encryption are data the properties do not tell apart.
* Not modelled at all, with the reasons in `PROJECT.json`: providers,
  observability, schemas and serializers, value objects, pools, start-up, SMS
  codes and key rotation, and the second audit queue under
  `infrastructure/queue/compliance`, which nothing references.

What reading the code for the models showed besides the findings, and a
sequential reading suffices to see:

* Loops that list keys find none, since KEYS is asked without the prefix
  `auth:` of the client (redis.ts:46): the session cleanup (`findAll`,
  `listAllSessions`), `delPattern`, `clearAll`, revoked tokens. The cleanup
  would also look for sessions idle for thirty days, where the TTL is seven.
* Without callers: `findActiveByEvent` and `publishEvent`, the webhook delivery
  poller, `withSessionLock`, `reduceTrustScoreForNewLocation`,
  `queueManager.shutdown` (the graceful shutdown does not stop the queues), and
  an implementation of `IWebhookService`.
* Sockets stay open after their session was revoked.
* `listUsers` caches an empty result; a cached profile is rebuilt with its
  e-mail as a plain object; `listAuditLogs` passes `actions`, the repository
  filters by `action`; the `userId` of an audit entry is always undefined.
* `registerDevice` answers a device of another user if the ids agree.
* `addPermission` relies on a unique key that does not exist
  (role.repository.ts:325); `getSystemOverview` calls a `findAll` that is not
  implemented.
* A monthly report that starts on the 30th or 31st skips the label of a shorter
  month; entries exactly at `endDate` are queried and counted in no period.
* Impossible travel alone scores 40, below the step-up limit of 60; a success
  without a location hides it.
* `register` signs tokens for a session that is never stored, so their first
  refresh fails; in `TokenChain` that is the `Unstored` session.
* `addEmailJob` sends every e-mail as WELCOME and drops its HTML;
  `AuditLogService` adds its jobs without a priority.

## 7. Plan

What is left, in this order:

1. `Account`: `UserAccount` composed with `SessionStore` for reset, login and
   deletion, so that the two halves of a reset (the password, the sessions)
   and a login between them are one behaviour.
2. `Notification`: `EventEmitter` composed with `ConnectionManager`; nested and
   overlapping emits.
3. Abstract specifications: a counter with a limit for `RateLimiter`, a
   delivery record for `JobQueue`, and their refinements, proved as that of
   `SessionLifecycle` is.
4. Pagination of users and roles; permission matching against a reference.
