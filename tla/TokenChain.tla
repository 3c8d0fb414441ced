------------------------------ MODULE TokenChain ------------------------------
(***************************************************************************)
(* JwtService and TokenService, and refreshTokens, which keeps a session   *)
(* going by signing a new pair.  Tokens are not stored anywhere: one is    *)
(* good until it expires.  A tick is half a second, so that the whole      *)
(* seconds of iat and exp and the milliseconds of the clock differ.       *)
(***************************************************************************)
EXTENDS Integers

CONSTANTS
    LoginSessions,      \* sessions that login stores
    Unstored,           \* the session id register signs tokens for, never stored
    Refreshes,          \* refreshTokens requests in flight
    NoToken,
    AccessLife, RefreshLife, MailLife,  \* expiresIn, in seconds
    SessionLife,        \* of a stored session, in seconds
    MaxTokenTime        \* bound on the time, in ticks

ASSUME TokenAssumption ==
    /\ {AccessLife, RefreshLife, MailLife, SessionLife, MaxTokenTime} \subseteq Nat \ {0}
    /\ Unstored \notin LoginSessions /\ NoToken \notin LoginSessions \cup {Unstored}

VARIABLES
    time,
    tokens,             \* every token that was handed out
    stored,             \* the sessions: "none", "live", "revoked", "gone"
    until,              \* expiresAt of a session
    holding,            \* a refresh: the session it has found valid, or NoToken
    readBefore,         \* history: refreshes whose session ended after they read it
    goneAt              \* history: when a session was deleted, or expired

tokenVars == <<time, tokens, stored, until, holding, readBefore, goneAt>>

SessionKinds == {"access", "refresh"}
MailKinds == {"verification", "reset"}
TokenKinds == SessionKinds \cup MailKinds
Sids == LoginSessions \cup {Unstored}
TokenTimes == 0..MaxTokenTime
NotYet == MaxTokenTime + 2 * SessionLife + 1   \* not ended yet

TokenTypeOK ==
    /\ time \in TokenTimes
    /\ tokens \subseteq [kind : TokenKinds, sid : Sids \cup {NoToken}, iat : TokenTimes, late : BOOLEAN]
    /\ stored \in [Sids -> {"none", "live", "revoked", "gone"}]
    /\ until \in [Sids -> 0..(MaxTokenTime + 2 * SessionLife)]
    /\ holding \in [Refreshes -> Sids \cup {NoToken}]
    /\ readBefore \in SUBSET Refreshes

TokenInit ==
    /\ time = 0
    /\ tokens = {}
    /\ stored = [s \in Sids |-> "none"]
    /\ until = [s \in Sids |-> 0]
    /\ holding = [r \in Refreshes |-> NoToken]
    /\ readBefore = {}
    /\ goneAt = [s \in Sids |-> IF s = Unstored THEN 0 ELSE NotYet]

-----------------------------------------------------------------------------
(* Signing and verifying                                                   *)

Second(t) == t \div 2

Life(kind) == CASE kind = "access" -> AccessLife
                [] kind = "refresh" -> RefreshLife
                [] OTHER -> MailLife

\* jsonwebtoken: iat in whole seconds, exp = iat + expiresIn.
Exp(t) == Second(t.iat) + Life(t.kind)

\* Refresh tokens have a secret of their own; the other kinds share one.
Secret(kind) == IF kind = "refresh" THEN "refresh" ELSE "main"

\* Only the tokens of a session carry an audience, and only they are asked for it.
Audience(kind) == kind \in SessionKinds

\* verifyAccessToken, verifyRefreshToken, verifyVerificationToken, verifyResetToken
Verified(kind, t) ==
    /\ Secret(kind) = Secret(t.kind)
    /\ Audience(kind) => Audience(t.kind)
    /\ Second(time) < Exp(t)
    /\ t.kind = kind

\* TokenService.verifyRefreshToken wants the session id, verifyVerificationToken
\* and verifyResetToken the e-mail address, which they all carry.
VerifiedByService(kind, t) ==
    /\ Verified(kind, t)
    /\ kind = "refresh" => t.sid # NoToken

\* authenticationMiddleware, of a Bearer token; the user id is in every token.
AcceptedByMiddleware(t) == Verified("access", t)

\* authenticateWebSocket verifies with the access secret and asks for neither
\* type nor audience, but for a session id.
AcceptedBySocket(t) ==
    /\ Secret(t.kind) = "main"
    /\ Second(time) < Exp(t)
    /\ t.sid # NoToken

\* isExpired: Date.now() >= exp * 1000
IsExpired(t) == time >= 2 * Exp(t)

Signed(kinds, sid, late) ==
    {[kind |-> k, sid |-> sid, iat |-> time, late |-> late] : k \in kinds}

\* generateTokenPair
GenerateTokens(sid, late) == tokens' = tokens \cup Signed(SessionKinds, sid, late)

-----------------------------------------------------------------------------
(* Sessions                                                                *)

Login(s) ==
    /\ stored[s] = "none"
    /\ stored' = [stored EXCEPT ![s] = "live"]
    /\ until' = [until EXCEPT ![s] = time + 2 * SessionLife]
    /\ GenerateTokens(s, FALSE)
    /\ UNCHANGED <<time, holding, readBefore, goneAt>>

\* register signs a pair for a random session id and stores no session.
Register ==
    /\ \A t \in tokens : t.sid # Unstored
    /\ GenerateTokens(Unstored, FALSE)
    /\ UNCHANGED <<time, stored, until, holding, readBefore, goneAt>>

\* generateVerificationToken / generateResetToken
GenerateMailToken(kind) ==
    /\ \A t \in tokens : t.kind # kind
    /\ tokens' = tokens \cup Signed({kind}, NoToken, FALSE)
    /\ UNCHANGED <<time, stored, until, holding, readBefore, goneAt>>

\* logout and revokeSession set revokedAt.
Revoke(s) ==
    /\ stored[s] = "live"
    /\ stored' = [stored EXCEPT ![s] = "revoked"]
    /\ UNCHANGED <<time, tokens, until, holding, readBefore, goneAt>>

\* A session that ends after a refresh has read it.
EndSession(s) == readBefore' = readBefore \cup {r \in Refreshes : holding[r] = s}

\* A password reset or an administrator deletes the session.
Delete(s) ==
    /\ stored[s] \in {"live", "revoked"}
    /\ stored' = [stored EXCEPT ![s] = "gone"]
    /\ goneAt' = [goneAt EXCEPT ![s] = IF @ < time THEN @ ELSE time]
    /\ EndSession(s)
    /\ UNCHANGED <<time, tokens, until, holding>>

\* Session.isExpired
Expired(s) == time > until[s]

Tick ==
    /\ time < MaxTokenTime
    /\ time' = time + 1
    /\ LET ending == {s \in LoginSessions :
                        stored[s] \in {"live", "revoked"} /\ until[s] = time} IN
       /\ goneAt' = [s \in Sids |-> IF s \in ending THEN time ELSE goneAt[s]]
       /\ readBefore' = readBefore \cup {r \in Refreshes : holding[r] \in ending}
    /\ UNCHANGED <<tokens, stored, until, holding>>

-----------------------------------------------------------------------------
(* refreshTokens: verify, find the session, find the user, sign.           *)

\* Slip: only the presence of the session is checked.
FindSession_Expired(r, t) ==
    /\ holding[r] = NoToken /\ VerifiedByService("refresh", t)
    /\ stored[t.sid] \in {"live", "revoked"}
    /\ holding' = [holding EXCEPT ![r] = t.sid]
    /\ UNCHANGED <<time, tokens, stored, until, readBefore, goneAt>>

\* Whether the session was revoked is not asked.
FindSession(r, t) ==
    /\ holding[r] = NoToken /\ VerifiedByService("refresh", t)
    /\ stored[t.sid] \in {"live", "revoked"} /\ ~ Expired(t.sid)
    /\ holding' = [holding EXCEPT ![r] = t.sid]
    /\ UNCHANGED <<time, tokens, stored, until, readBefore, goneAt>>

RefreshTokens(r) ==
    /\ holding[r] # NoToken
    /\ GenerateTokens(holding[r], r \in readBefore)
    /\ holding' = [holding EXCEPT ![r] = NoToken]
    /\ readBefore' = readBefore \ {r}
    /\ UNCHANGED <<time, stored, until, goneAt>>

\* The user is gone, or a call throws.
RefreshFails(r) ==
    /\ holding[r] # NoToken
    /\ holding' = [holding EXCEPT ![r] = NoToken]
    /\ readBefore' = readBefore \ {r}
    /\ UNCHANGED <<time, tokens, stored, until, goneAt>>

TokenNext ==
    \/ \E s \in LoginSessions : Login(s) \/ Revoke(s) \/ Delete(s)
    \/ Register \/ Tick
    \/ \E k \in MailKinds : GenerateMailToken(k)
    \/ \E r \in Refreshes :
         (\E t \in tokens : FindSession(r, t)) \/ RefreshTokens(r) \/ RefreshFails(r)

TokenSpec == TokenInit /\ [][TokenNext]_tokenVars

-----------------------------------------------------------------------------
(* Properties                                                              *)

\* Every token is good for its life, less at most the second iat is rounded by;
\* never longer.
LifeIsKept ==
    \A t \in tokens :
        /\ Verified(t.kind, t) => time - t.iat < 2 * Life(t.kind)
        /\ time - t.iat <= 2 * Life(t.kind) - 2 => Verified(t.kind, t)

\* isExpired, which does not verify, agrees with the verifiers.
ExpiryAgrees == \A t \in tokens : IsExpired(t) <=> ~ Verified(t.kind, t)

\* No token passes for one of another kind, although three kinds share a secret.
NoConfusion == \A t \in tokens, k \in TokenKinds : Verified(k, t) => k = t.kind

\* A WebSocket is opened with just the tokens that the routes accept, although
\* it verifies them in its own way.
SocketAgrees == \A t \in tokens : AcceptedBySocket(t) <=> AcceptedByMiddleware(t)

\* Renewed tokens do not outlive their session: once it was deleted or expired no
\* access token is accepted for longer than one life, except those of a refresh
\* that had read the session before.
ChainEnds ==
    \A t \in tokens :
        Verified("access", t) /\ ~ t.late /\ t.sid \in LoginSessions
            => time - goneAt[t.sid] < 2 * AccessLife

\* requirements.md: a revoked refresh token is rejected.
RevokedIsRejected ==
    [][\A r \in Refreshes, t \in tokens :
         FindSession(r, t) => stored[t.sid] # "revoked"]_tokenVars

\* All who verify a token agree on its kind and its end, and a chain of
\* refreshes does not outlive its session.
TokensHonest == LifeIsKept /\ ExpiryAgrees /\ NoConfusion /\ SocketAgrees /\ ChainEnds
===============================================================================
