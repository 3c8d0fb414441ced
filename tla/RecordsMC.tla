------------------------------- MODULE RecordsMC -------------------------------
(***************************************************************************)
(* Small instances of the components whose requests read a stored record   *)
(* and write it back, or read several one after the other: SessionStore,   *)
(* Devices, Webhooks, ProfileCache, SessionTrust, AuditPages and           *)
(* AuditedRequests.  They share no state: each behaviour exercises the one *)
(* named by part while the others stay in their initial states, so their   *)
(* state spaces add up.  Records runs them all, with one session request   *)
(* at a time; SessionConcurrent runs SessionStore with two.                *)
(***************************************************************************)
EXTENDS SessionStore, Devices, Webhooks, ProfileCache, SessionTrust, AuditPages,
        AuditedRequests, TLC

CONSTANTS
    u1, u2, s1, s2, s3, x1, y1, y2, admin,
    Parts           \* the components exercised

TwoUsers == {u1, u2}
TwoSessions == {s1, s2}
ThreeSessions == {s1, s2, s3}
\* Other components take their ids from the same values, which keeps the group
\* of the symmetry small.
TwoIds == TwoUsers
TwoRequests == {y1, y2}
OneProc == {y1}
OneRecord == {y2}
OneIdle == {x1}

\* SessionConcurrent leaves activity updates out, and removeDevice and refresh,
\* which repeat the loops and reads of the others.
NoTouchOps == AllOps \ {"touch", "device", "refresh"}

ThreeRights == {u1, u2, admin}
LimitsAroundTheMaximum == {0, 2, 3}

VARIABLE part

ASSUME PartsAssumption ==
    Parts \subseteq {"sessions", "devices", "webhooks", "profile", "trust", "pages", "guards"}

recordVars ==
    <<part, vars, deviceVars, hookVars, profileVars, trustVars, pageVars, guardVars>>

MCInit ==
    /\ part \in Parts
    /\ Init /\ DevicesInit /\ WebhooksInit /\ ProfileInit /\ TrustInit /\ PagesInit /\ GuardInit
    \* The idle components have one initial state.
    /\ part # "guards" => rights = {}

OnlySessions ==
    UNCHANGED <<part, deviceVars, hookVars, profileVars, trustVars, pageVars, guardVars>>
OnlyDevices ==
    UNCHANGED <<part, vars, hookVars, profileVars, trustVars, pageVars, guardVars>>
OnlyWebhooks ==
    UNCHANGED <<part, vars, deviceVars, profileVars, trustVars, pageVars, guardVars>>
OnlyProfile ==
    UNCHANGED <<part, vars, deviceVars, hookVars, trustVars, pageVars, guardVars>>
OnlyTrust ==
    UNCHANGED <<part, vars, deviceVars, hookVars, profileVars, pageVars, guardVars>>
OnlyPages ==
    UNCHANGED <<part, vars, deviceVars, hookVars, profileVars, trustVars, guardVars>>
OnlyGuards ==
    UNCHANGED <<part, vars, deviceVars, hookVars, profileVars, trustVars, pageVars>>

MCNext ==
    \/ part = "sessions" /\ Next /\ OnlySessions
    \/ part = "devices" /\ DevicesNext /\ OnlyDevices
    \/ part = "webhooks" /\ WebhooksNext /\ OnlyWebhooks
    \/ part = "profile" /\ ProfileNext /\ OnlyProfile
    \/ part = "trust" /\ TrustNext /\ OnlyTrust
    \/ part = "pages" /\ PagesNext /\ OnlyPages
    \/ part = "guards" /\ GuardNext /\ OnlyGuards

MCSpec == MCInit /\ [][MCNext]_recordVars

Symmetry == Permutations(TwoUsers) \cup Permutations(ThreeSessions)
\* The idle components of SessionConcurrent hold no y1 or y2 of their own (OneIdle).
SessionSymmetry == Permutations(Users) \cup Permutations(Sessions) \cup Permutations(Procs)
===============================================================================
