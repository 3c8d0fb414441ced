----------------------------- MODULE CacheFallback -----------------------------
(***************************************************************************)
(* The cache with an in-memory fallback (cache-fallback.service.ts) in one *)
(* process, used as its comments say: a caller changes the truth (the      *)
(* database) and then sets or deletes the cached entry.  Requests          *)
(* interleave at their awaits: the health check, the Redis command and the *)
(* loader.  Commands of one process reach Redis in the order of issue, so  *)
(* the fire-and-forget SET of getWithFallback lands with its step.         *)
(*                                                                         *)
(* Values are versions of the truth.  fallback is the Map in its insertion *)
(* order.  Counters (incrWithFallback) have keys of their own; of them the *)
(* model keeps only the place they take in the Map.                        *)
(***************************************************************************)
EXTENDS Naturals, Sequences, FiniteSets, Subsequences

CONSTANTS
    Requests, Keys, Counters,
    NoKey,              \* the key of a slot without a request
    MaxFallbackSize,
    MaxVersion          \* bound on the writes of one key

ASSUME FallbackAssumption ==
    /\ MaxFallbackSize \in Nat
    /\ MaxVersion \in Nat \ {0}
    /\ Keys \cap Counters = {}
    /\ NoKey \notin Keys \cup Counters

VARIABLES
    reachable,  \* environment: does Redis answer?
    cacheAvailable, checkDue,   \* the verdict; is it older than five seconds?
    store,      \* the entries in Redis: versions, 0 for none
    fallback,   \* sequence of [key, value, live]
    truth,      \* the version in the database
    req,        \* [pc, op, key, seen] of each request
    settled,    \* history: the newest version a finished set or delete made known
    excuse      \* history: the keys that may have a copy older than that,
                \* because a delete went past Redis, a set reached only one
                \* of the two caches, or requests overlapped

fallbackVars ==
    <<reachable, cacheAvailable, checkDue, store, fallback, truth, req, settled, excuse>>

Idle == [pc |-> "idle", op |-> "get", key |-> NoKey, seen |-> 0]
Entry == [key : Keys \cup Counters, value : 0..MaxVersion, live : BOOLEAN]

FallbackTypeOK ==
    /\ reachable \in BOOLEAN /\ cacheAvailable \in BOOLEAN /\ checkDue \in BOOLEAN
    /\ store \in [Keys -> 0..MaxVersion]
    /\ fallback \in Seq(Entry)
    /\ truth \in [Keys -> 1..MaxVersion]
    /\ req \in [Requests ->
         [pc : {"idle", "ping", "redis", "load", "loadLocal", "local"},
          op : {"get", "set", "delete", "incr"},
          key : Keys \cup Counters \cup {NoKey}, seen : 0..MaxVersion]]
    /\ settled \in [Keys -> 0..MaxVersion]
    /\ excuse \subseteq Keys

FallbackInit ==
    /\ reachable = TRUE /\ cacheAvailable = TRUE /\ checkDue = TRUE
    /\ store = [k \in Keys |-> 0]
    /\ fallback = <<>>
    /\ truth = [k \in Keys |-> 1]
    /\ req = [r \in Requests |-> Idle]
    /\ settled = [k \in Keys |-> 0]
    /\ excuse = {}

-----------------------------------------------------------------------------
(* The Map                                                                 *)

EntriesOf(k) == {i \in DOMAIN fallback : fallback[i].key = k}
Has(k) == \E i \in EntriesOf(k) : fallback[i].live

\* Map.set keeps the place of a key that is there.
Put(map, e) ==
    IF \E i \in DOMAIN map : map[i].key = e.key
    THEN [i \in DOMAIN map |-> IF map[i].key = e.key THEN e ELSE map[i]]
    ELSE Append(map, e)

Drop(map, k) == Subsequence(map, {i \in DOMAIN map : map[i].key # k})

\* cleanupFallbackCache
Live(map) == Subsequence(map, {i \in DOMAIN map : map[i].live})

\* Slip: one entry too many is kept.
Enforce_OffByOne(map) ==
    IF Len(map) <= MaxFallbackSize + 1 THEN map
    ELSE SubSeq(map, Len(map) - MaxFallbackSize, Len(map))

\* enforceFallbackCacheSize: the oldest insertions go first.
Enforce(map) ==
    IF Len(map) <= MaxFallbackSize THEN map
    ELSE SubSeq(map, Len(map) - MaxFallbackSize + 1, Len(map))

EntryFor(k, v) == [key |-> k, value |-> v, live |-> TRUE]

-----------------------------------------------------------------------------
(* Requests                                                                *)

InFlight(k) == {r \in Requests : req[r].pc # "idle" /\ req[r].key = k}

\* isCacheAvailable up to its await: an old verdict is asked for again, by
\* one request at a time, and the others go on with the old one.
Route ==
    IF checkDue THEN "ping" ELSE IF cacheAvailable THEN "redis" ELSE "local"

Start(r, op, k) ==
    /\ req[r].pc = "idle"
    /\ IF op = "incr" THEN k \in Counters ELSE k \in Keys
    /\ op \in {"set", "delete"} => truth[k] < MaxVersion
    /\ truth' = IF op \in {"set", "delete"} THEN [truth EXCEPT ![k] = @ + 1] ELSE truth
    /\ req' = [req EXCEPT ![r] = [pc |-> Route, op |-> op, key |-> k,
                 seen |-> IF op \in {"set", "delete"} THEN truth[k] + 1 ELSE 0]]
    /\ checkDue' = FALSE
    /\ excuse' = IF k \in Keys /\ InFlight(k) # {} THEN excuse \cup {k} ELSE excuse
    /\ UNCHANGED <<reachable, cacheAvailable, store, fallback, settled>>

\* redis.checkHealth answers.
Pong(r) ==
    /\ req[r].pc = "ping"
    /\ cacheAvailable' = reachable
    /\ req' = [req EXCEPT ![r].pc = IF reachable THEN "redis" ELSE "local"]
    /\ UNCHANGED <<reachable, checkDue, store, fallback, truth, settled, excuse>>

Done(r) == req' = [req EXCEPT ![r] = Idle]
GoTo(r, pc) == req' = [req EXCEPT ![r].pc = pc]

\* The Redis command of a request; an error falls through to the Map.
Redis(r) ==
    LET k == req[r].key  op == req[r].op IN
    /\ req[r].pc = "redis"
    /\ CASE ~ reachable -> GoTo(r, "local") /\ UNCHANGED <<store, settled, excuse>>
         [] op = "get" -> /\ IF store[k] # 0 THEN Done(r) ELSE GoTo(r, "load")
                          /\ UNCHANGED <<store, settled, excuse>>
         [] op = "set" -> /\ Done(r)
                          /\ store' = [store EXCEPT ![k] = req[r].seen]
                          /\ settled' = [settled EXCEPT ![k] = req[r].seen]
                          /\ excuse' = excuse \cup {k}
         [] op = "delete" -> /\ GoTo(r, "local")
                             /\ store' = [store EXCEPT ![k] = 0]
                             /\ UNCHANGED <<settled, excuse>>
         [] op = "incr" -> Done(r) /\ UNCHANGED <<store, settled, excuse>>
    /\ UNCHANGED <<reachable, cacheAvailable, checkDue, fallback, truth>>

\* The loader reads the database; its answer is used one await later.
Load(r) ==
    /\ req[r].pc \in {"load", "loadLocal"}
    /\ req[r].seen = 0
    /\ req' = [req EXCEPT ![r].seen = truth[req[r].key]]
    /\ UNCHANGED <<reachable, cacheAvailable, checkDue, store, fallback, truth, settled, excuse>>

\* The loader throws: the Redis branch of getWithFallback catches it and asks
\* again, the other one passes it on.
LoadFails(r) ==
    /\ req[r].pc \in {"load", "loadLocal"}
    /\ req[r].seen = 0
    /\ IF req[r].pc = "load" THEN GoTo(r, "local") ELSE Done(r)
    /\ UNCHANGED <<reachable, cacheAvailable, checkDue, store, fallback, truth, settled, excuse>>

\* getWithFallback stores what it loaded where it was looking.
Fill(r) ==
    LET k == req[r].key IN
    /\ req[r].pc \in {"load", "loadLocal"}
    /\ req[r].seen # 0
    /\ IF req[r].pc = "load"
       THEN /\ store' = IF reachable THEN [store EXCEPT ![k] = req[r].seen] ELSE store
            /\ UNCHANGED fallback
       ELSE /\ fallback' = Enforce(Live(Put(fallback, EntryFor(k, req[r].seen))))
            /\ UNCHANGED store
    /\ Done(r)
    /\ UNCHANGED <<reachable, cacheAvailable, checkDue, truth, settled, excuse>>

GetLocal(r) ==
    /\ req[r].pc = "local" /\ req[r].op = "get"
    /\ IF Has(req[r].key) THEN Done(r) ELSE GoTo(r, "loadLocal")
    /\ UNCHANGED <<reachable, cacheAvailable, checkDue, store, fallback, truth, settled, excuse>>

SetLocal(r) ==
    LET k == req[r].key IN
    /\ req[r].pc = "local" /\ req[r].op = "set"
    /\ fallback' = Enforce(Put(fallback, EntryFor(k, req[r].seen)))
    /\ settled' = [settled EXCEPT ![k] = req[r].seen]
    /\ excuse' = excuse \cup {k}
    /\ Done(r)
    /\ UNCHANGED <<reachable, cacheAvailable, checkDue, store, truth>>

\* Slip: an entry is deleted from the Map only when Redis is down.
DeleteLocal_RedisOnly(r) ==
    LET k == req[r].key IN
    /\ req[r].pc = "local" /\ req[r].op = "delete"
    /\ fallback' = IF cacheAvailable THEN fallback ELSE Drop(fallback, k)
    /\ settled' = [settled EXCEPT ![k] = req[r].seen]
    /\ excuse' = IF store[k] # 0 THEN excuse \cup {k} ELSE excuse
    /\ Done(r)
    /\ UNCHANGED <<reachable, cacheAvailable, checkDue, store, truth>>

\* deleteWithFallback and deletePatternWithFallback end here on every path;
\* the history notes a Redis entry that was not deleted.
DeleteLocal(r) ==
    LET k == req[r].key IN
    /\ req[r].pc = "local" /\ req[r].op = "delete"
    /\ fallback' = Drop(fallback, k)
    /\ settled' = [settled EXCEPT ![k] = req[r].seen]
    /\ excuse' = IF store[k] # 0 THEN excuse \cup {k} ELSE excuse
    /\ Done(r)
    /\ UNCHANGED <<reachable, cacheAvailable, checkDue, store, truth>>

\* incrWithFallback adds to the Map without enforcing its size.
IncrLocal(r) ==
    /\ req[r].pc = "local" /\ req[r].op = "incr"
    /\ fallback' = Put(fallback, EntryFor(req[r].key, 0))
    /\ Done(r)
    /\ UNCHANGED <<reachable, cacheAvailable, checkDue, store, truth, settled, excuse>>

-----------------------------------------------------------------------------
(* Time and Redis                                                          *)

IntervalPasses ==
    /\ ~ checkDue
    /\ checkDue' = TRUE
    /\ UNCHANGED <<reachable, cacheAvailable, store, fallback, truth, req, settled, excuse>>

EntryExpires(i) ==
    /\ i \in DOMAIN fallback /\ fallback[i].live
    /\ fallback' = [fallback EXCEPT ![i].live = FALSE]
    /\ UNCHANGED <<reachable, cacheAvailable, checkDue, store, truth, req, settled, excuse>>

\* The timer of the module, every minute.
PeriodicCleanup ==
    /\ fallback' = Live(fallback)
    /\ UNCHANGED <<reachable, cacheAvailable, checkDue, store, truth, req, settled, excuse>>

ToggleRedis ==
    /\ reachable' = ~ reachable
    /\ UNCHANGED <<cacheAvailable, checkDue, store, fallback, truth, req, settled, excuse>>

Continue(r) ==
    \/ Pong(r) \/ Redis(r) \/ Load(r) \/ LoadFails(r) \/ Fill(r)
    \/ GetLocal(r) \/ SetLocal(r) \/ DeleteLocal(r) \/ IncrLocal(r)

FallbackNext ==
    \/ \E r \in Requests, op \in {"get", "set", "delete", "incr"}, k \in Keys \cup Counters :
         Start(r, op, k)
    \/ \E r \in Requests : Continue(r)
    \/ \E i \in DOMAIN fallback : EntryExpires(i)
    \/ IntervalPasses \/ PeriodicCleanup \/ ToggleRedis

FallbackSpec == FallbackInit /\ [][FallbackNext]_fallbackVars

\* Promises settle, five seconds pass, and reads keep coming.
FallbackFairness ==
    /\ \A r \in Requests : WF_fallbackVars(Continue(r))
    /\ WF_fallbackVars(IntervalPasses)
    /\ \A r \in Requests, k \in Keys : WF_fallbackVars(Start(r, "get", k))

-----------------------------------------------------------------------------
(* Properties                                                              *)

\* The entries that sets and gets put into the Map keep to maxFallbackSize,
\* whatever counters are added beside them without enforcing it.
FallbackBounded ==
    Cardinality({i \in DOMAIN fallback : fallback[i].key \in Keys}) <= MaxFallbackSize

\* A copy older than the last finished set or delete of its key, in Redis or
\* in the Map, has a reason: a delete went past Redis, a set reached only one
\* of the two, or requests of the key overlapped.
StaleCopyExplained ==
    \A k \in Keys \ excuse :
        /\ store[k] # 0 => store[k] >= settled[k]
        /\ \A i \in EntriesOf(k) : fallback[i].live => fallback[i].value >= settled[k]

\* Once Redis stays down, or stays up, the verdict follows.
VerdictFollows ==
    /\ <>[](~ reachable) => <>[](~ cacheAvailable)
    /\ <>[]reachable => <>[]cacheAvailable

\* Both caches together: bounded, and never stale without a reason.
FallbackTruthful == FallbackTypeOK /\ FallbackBounded /\ StaleCopyExplained
=============================================================================
