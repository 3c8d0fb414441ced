------------------------------ MODULE RequestsMC ------------------------------
(***************************************************************************)
(* Small instances of the components whose requests race at their awaits:  *)
(* RateLimiter, CacheFallback, Mfa and OAuth.  They share no state: each   *)
(* behaviour exercises the one named by part while the others stay in      *)
(* their initial states, so their state spaces add up.  The components     *)
(* also share the model values their sets are made of, which keeps the     *)
(* group of the symmetry small.                                            *)
(***************************************************************************)
EXTENDS RateLimiter, CacheFallback, Mfa, OAuth, TLC

CONSTANTS a1, a2, x1, x2, y1, y2, z1, z2, t1, t2, n1, n2

TwoActors == {a1, a2}
TwoX == {x1, x2}
TwoY == {y1, y2}
TwoZ == {z1, z2}
TwoT == {t1, t2}
OneKey == {n2}
OneCounter == {n1}
Nowhere == {}
LoginOnly == {"login"}
VerifyOnly == {"mfa-verify"}
Limits == [e \in {"login", "default"} |-> IF e = "login" THEN 2 ELSE 3]
DefaultLimit == [e \in {"default"} |-> 3]

VARIABLE part

Parts == {"limiter", "fallback", "mfa", "oauth"}

requestVars == <<limiterVars, fallbackVars, mfaVars, oauthVars>>

MCInit ==
    /\ part \in Parts
    /\ LimiterInit /\ FallbackInit /\ MfaInit /\ OAuthInit

OnlyLimiter == UNCHANGED <<part, fallbackVars, mfaVars, oauthVars>>
OnlyFallback == UNCHANGED <<part, limiterVars, mfaVars, oauthVars>>
OnlyMfa == UNCHANGED <<part, limiterVars, fallbackVars, oauthVars>>
OnlyOAuth == UNCHANGED <<part, limiterVars, fallbackVars, mfaVars>>

MCNext ==
    \/ part = "limiter" /\ LimiterNext /\ OnlyLimiter
    \/ part = "fallback" /\ FallbackNext /\ OnlyFallback
    \/ part = "mfa" /\ MfaNext /\ OnlyMfa
    \/ part = "oauth" /\ OAuthNext /\ OnlyOAuth

MCSpec == MCInit /\ [][MCNext]_<<part, requestVars>>

Interchangeable ==
    Permutations(TwoActors) \cup Permutations(TwoX) \cup Permutations(TwoY)
    \cup Permutations(TwoZ) \cup Permutations(TwoT)
===============================================================================
