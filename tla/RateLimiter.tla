------------------------------ MODULE RateLimiter ------------------------------
(***************************************************************************)
(* The sliding-window limiter (rate-limit.service.impl.ts): one Redis      *)
(* sorted set per key whose members are the milliseconds of the calls.     *)
(* checkRateLimit takes the time, then sends one MULTI of ZREMRANGEBYSCORE,*)
(* ZCARD, ZADD and EXPIRE, so between Send and Exec other instances of the *)
(* application may have theirs executed.  The EXPIRE drops a set whose     *)
(* members the next call would remove anyway, and is left out.             *)
(*                                                                         *)
(* A key stands for one identifier at one endpoint.  The middleware        *)
(* (rate-limit.middleware.ts) passes its own key as the endpoint, so the   *)
(* table of endpoint limits has no entry for it.                           *)
(***************************************************************************)
EXTENDS Integers, FiniteSets

CONSTANTS
    Slots,              \* calls in flight
    Endpoints,          \* endpoints called directly
    Limiters,           \* keys of the middleware's limiters
    MaxRequests,        \* endpointConfigs: Endpoints \cup {"default"} -> Nat
    Window,             \* windowMs, in ticks
    MaxTime             \* bound on the clock

LimitKeys == Endpoints \cup Limiters

ASSUME LimiterAssumption ==
    /\ MaxRequests \in [Endpoints \cup {"default"} -> Nat]
    /\ Window \in Nat \ {0}
    /\ MaxTime \in Nat
    /\ "default" \notin LimitKeys

VARIABLES
    clock,
    zset,       \* the members of each sorted set
    call,       \* what each slot has sent, or NoCall
    admitted,   \* history: [at, lim] of the calls Redis admitted
    newest,     \* history: the time of the newest call executed
    overtaken   \* history: keys where a call was executed after a newer one

limiterVars == <<clock, zset, call, admitted, newest, overtaken>>

NoCall == [key |-> "default", at |-> 0, lim |-> 0]

LimiterTypeOK ==
    /\ clock \in 0..MaxTime
    /\ zset \in [LimitKeys -> SUBSET (0..MaxTime)]
    /\ call \in [Slots -> [key : LimitKeys \cup {"default"}, at : 0..MaxTime, lim : Nat]]
    /\ admitted \in [LimitKeys -> SUBSET [at : 0..MaxTime, lim : Nat]]
    /\ newest \in [LimitKeys -> 0..MaxTime]
    /\ overtaken \subseteq LimitKeys

LimiterInit ==
    /\ clock = 0
    /\ zset = [k \in LimitKeys |-> {}]
    /\ call = [c \in Slots |-> NoCall]
    /\ admitted = [k \in LimitKeys |-> {}]
    /\ newest = [k \in LimitKeys |-> 0]
    /\ overtaken = {}

GetEndpointConfig(k) ==
    IF k \in Endpoints THEN MaxRequests[k] ELSE MaxRequests["default"]

\* adjustForTrustScore; the middleware leaves the score at its default, 0.
AdjustForTrustScore(max, trust) ==
    CASE trust = "high"   -> (3 * max) \div 2
      [] trust = "medium" -> (6 * max) \div 5
      [] OTHER            -> max

TrustOf(k) == IF k \in Limiters THEN {"low"} ELSE {"low", "medium", "high"}

Send(c, k, trust) ==
    /\ call[c] = NoCall
    /\ trust \in TrustOf(k)
    /\ call' = [call EXCEPT ![c] =
                  [key |-> k, at |-> clock,
                   lim |-> AdjustForTrustScore(GetEndpointConfig(k), trust)]]
    /\ UNCHANGED <<clock, zset, admitted, newest, overtaken>>

\* Slip: the window starts one tick too late.
InWindow_Short(k, now) == {t \in zset[k] : t > now - Window + 1}

\* What ZREMRANGEBYSCORE 0 .. now - windowMs leaves.
InWindow(k, now) == {t \in zset[k] : t > now - Window}

Later(a, b) == IF a > b THEN a ELSE b

\* The transaction runs and its ZCARD is compared with the limit.
Exec(c) ==
    LET k == call[c].key  now == call[c].at IN
    /\ call[c] # NoCall
    /\ zset' = [zset EXCEPT ![k] = InWindow(k, now) \cup {now}]
    /\ admitted' = IF Cardinality(InWindow(k, now)) < call[c].lim
                   THEN [admitted EXCEPT ![k] = @ \cup {[at |-> now, lim |-> call[c].lim]}]
                   ELSE admitted
    /\ newest' = [newest EXCEPT ![k] = Later(@, now)]
    /\ overtaken' = IF now < newest[k] THEN overtaken \cup {k} ELSE overtaken
    /\ call' = [call EXCEPT ![c] = NoCall]
    /\ UNCHANGED clock

\* Redis is unreachable, before or after the transaction ran: the caller is
\* let through without having been counted as admitted.
FailOpen(c, landed) ==
    LET k == call[c].key  now == call[c].at IN
    /\ call[c] # NoCall
    /\ call' = [call EXCEPT ![c] = NoCall]
    /\ IF landed
       THEN /\ zset' = [zset EXCEPT ![k] = InWindow(k, now) \cup {now}]
            /\ newest' = [newest EXCEPT ![k] = Later(@, now)]
            /\ overtaken' = IF now < newest[k] THEN overtaken \cup {k} ELSE overtaken
       ELSE UNCHANGED <<zset, newest, overtaken>>
    /\ UNCHANGED <<clock, admitted>>

\* resetRateLimit: what was admitted before no longer counts.
ResetRateLimit(k) ==
    /\ zset' = [zset EXCEPT ![k] = {}]
    /\ admitted' = [admitted EXCEPT ![k] = {}]
    /\ UNCHANGED <<clock, call, newest, overtaken>>

LimiterTick ==
    /\ clock < MaxTime
    /\ clock' = clock + 1
    /\ UNCHANGED <<zset, call, admitted, newest, overtaken>>

LimiterNext ==
    \/ \E c \in Slots, k \in LimitKeys, trust \in {"low", "medium", "high"} : Send(c, k, trust)
    \/ \E c \in Slots : Exec(c) \/ (\E landed \in BOOLEAN : FailOpen(c, landed))
    \/ \E k \in LimitKeys : ResetRateLimit(k)
    \/ LimiterTick

LimiterSpec == LimiterInit /\ [][LimiterNext]_limiterVars

-----------------------------------------------------------------------------
(* Properties                                                              *)

\* The milliseconds of the window that ends at t in which k admitted a call.
AdmittedUpTo(k, t) ==
    {s \in {a.at : a \in admitted[k]} : t - Window < s /\ s <= t}

\* While the calls of a key are executed in the order of their times, no
\* window admits at more milliseconds than the limit of the call that ends
\* it.  (Calls of one millisecond share a member and count once.)
WithinLimit ==
    \A k \in LimitKeys \ overtaken : \A a \in admitted[k] :
        Cardinality(AdmittedUpTo(k, a.at)) <= a.lim

\* What the middleware announces in X-RateLimit-Limit for one key: a limiter
\* configured with max 1, such as the one for MFA verification, admits one
\* request per window.
AdvertisedLimit ==
    \A k \in Limiters : \A a \in admitted[k] :
        Cardinality(AdmittedUpTo(k, a.at)) <= 1
=============================================================================
