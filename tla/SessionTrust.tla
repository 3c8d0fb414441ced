----------------------------- MODULE SessionTrust -----------------------------
(***************************************************************************)
(* The trust score a session gets when it is created, from the sessions    *)
(* its user has then.  createSession reads the user's index, then the      *)
(* sessions one by one, computes the score and stores the session; other   *)
(* requests create and end sessions meanwhile.  How these walk the index   *)
(* and the keys is in SessionStore.  One user.                             *)
(***************************************************************************)
EXTENDS Integers, FiniteSetsExt

CONSTANTS
    Agents,             \* user agents: all that a device fingerprint is made of
    Locations, NoLocation,
    Addresses,          \* IP addresses
    TrustIds,           \* ids of the sessions ever created
    Logins              \* requests that create or change a session

ASSUME TrustAssumption == NoLocation \notin Locations

VARIABLES
    held,           \* the sessions, each with its score
    login           \* what a request has read so far; ever and stayed are history:
                    \* the sessions live at some time since it began, and those
                    \* live all the time

trustVars == <<held, login>>

SignIn == [device : Agents, place : Locations \cup {NoLocation}, ip : Addresses]

\* isTrusted is set by markDeviceAsTrusted alone, after the score was computed.
NoSession == [status |-> "none"]
NoLogin == [at |-> "idle"]

TrustInit ==
    /\ held = [s \in TrustIds |-> NoSession]
    /\ login = [l \in Logins |-> NoLogin]

WithStatus(h, status) == {s \in TrustIds : h[s].status = status}

\* A session as it is read.
AsRead(h, s) == [id |-> s, from |-> h[s].from, recent |-> h[s].recent]
Live(h) == {AsRead(h, s) : s \in WithStatus(h, "live")}

-----------------------------------------------------------------------------
(* The scores                                                              *)

Bonus(condition, points) == IF condition THEN points ELSE 0
AtLeast0AtMost100(n) == Max({0, Min({100, n})})

SomeOf(sessions, test(_)) == \E y \in sessions : test(y.from)

\* Session.calculateTrustScore, of the sign-in x among the user's sessions.
EntityScore(x, sessions) ==
    LET sameDevice(y) == y.device = x.device
        samePlace(y) == y.place = x.place
        recent == \E y \in sessions : y.recent /\ y.from.device = x.device IN
    AtLeast0AtMost100(
        50 + Bonus(SomeOf(sessions, sameDevice), 15)
           + Bonus(x.place # NoLocation, IF SomeOf(sessions, samePlace) THEN 20 ELSE -20)
           + Bonus(recent, 10))

\* SessionService.calculateTrustScore
ServiceScore(x, sessions) ==
    LET sameDevice(y) == y.device = x.device
        samePlace(y) == y.place = x.place
        sameAddress(y) == y.ip = x.ip IN
    AtLeast0AtMost100(
        50 + Bonus(SomeOf(sessions, sameDevice), 30)
           + Bonus(x.place # NoLocation, IF SomeOf(sessions, samePlace) THEN 20 ELSE -20)
           + Bonus(SomeOf(sessions, sameAddress), 10))

Score(by, x, sessions) ==
    IF by = "service" THEN ServiceScore(x, sessions) ELSE EntityScore(x, sessions)

-----------------------------------------------------------------------------
(* Creating a session                                                      *)

\* The sessions become h, and the logins in ls note which of them are live.
Become(h, ls) ==
    /\ held' = h
    /\ login' = [l \in Logins |->
         IF l \notin ls THEN NoLogin
         ELSE [login[l] EXCEPT !.ever = @ \cup Live(h), !.stayed = @ \cap Live(h)]]

InFlight == {l \in Logins : login[l].at = "read"}

\* createSession of AuthenticationService, MFAService or SessionService:
\* findByUserId takes the ids in the index.
FindPrevious(l, x) ==
    /\ l \notin InFlight
    /\ login' = [login EXCEPT ![l] =
         [at |-> "read", new |-> x, todo |-> WithStatus(held, "live") \cup WithStatus(held, "revoked"),
          previous |-> {}, ever |-> Live(held), stayed |-> Live(held)]]
    /\ UNCHANGED held

\* Slip: revoked sessions count as previous ones.
ReadPrevious_KeepsRevoked(l, s) ==
    /\ l \in InFlight /\ s \in login[l].todo
    /\ login' = [login EXCEPT
         ![l].todo = @ \ {s},
         ![l].previous = IF held[s].status = "gone" THEN @ ELSE @ \cup {AsRead(held, s)}]
    /\ UNCHANGED held

\* findByUserId reads the next session; one that is gone or revoked is left out.
ReadPrevious(l, s) ==
    /\ l \in InFlight /\ s \in login[l].todo
    /\ login' = [login EXCEPT
         ![l].todo = @ \ {s},
         ![l].previous = IF held[s].status = "live" THEN @ \cup {AsRead(held, s)} ELSE @]
    /\ UNCHANGED held

\* The score, by the entity or by SessionService; the session is stored and
\* indexed.
StoreScored(l, by, s) ==
    /\ l \in InFlight /\ login[l].todo = {} /\ held[s].status = "none"
    /\ Become([held EXCEPT ![s] =
         [status |-> "live", from |-> login[l].new, recent |-> TRUE,
          score |-> Score(by, login[l].new, login[l].previous)]], InFlight \ {l})

\* Redis fails.
LoginFails(l) ==
    /\ l \in InFlight
    /\ login' = [login EXCEPT ![l] = NoLogin]
    /\ UNCHANGED held

-----------------------------------------------------------------------------
(* What happens to sessions                                                *)

\* Logout, revocation, or a lapsed or deleted key.
EndSession(s, status) ==
    /\ held[s].status = "live" \/ (held[s].status = "revoked" /\ status = "gone")
    /\ Become([held EXCEPT ![s] = IF status = "gone" THEN [status |-> "gone"]
                                   ELSE [@ EXCEPT !.status = "revoked"]], InFlight)

\* A day without activity; no request lasts that long.
DayPasses ==
    /\ InFlight = {}
    /\ Become([s \in TrustIds |->
         IF held[s].status = "live" THEN [held[s] EXCEPT !.recent = FALSE] ELSE held[s]], {})

TrustNext ==
    \/ \E l \in Logins :
         \/ \E x \in SignIn : FindPrevious(l, x)
         \/ \E s \in TrustIds :
              ReadPrevious(l, s) \/ \E by \in {"entity", "service"} : StoreScored(l, by, s)
         \/ LoginFails(l)
    \/ \E s \in TrustIds, status \in {"revoked", "gone"} : EndSession(s, status)
    \/ DayPasses

TrustSpec == TrustInit /\ [][TrustNext]_trustVars

-----------------------------------------------------------------------------
(* Properties                                                              *)

\* A session is trusted for what its user had while it was created: at least
\* what the sessions that stayed justify, at most what sessions that were live
\* at some time in between do.  Sessions that ended before add nothing
\* (findByUserId, calculateTrustScore).
ScoreOfItsTime ==
    \A l \in InFlight, by \in {"entity", "service"} : login[l].todo = {} =>
        LET score(sessions) == Score(by, login[l].new, sessions) IN
        /\ score(login[l].stayed) <= score(login[l].previous)
        /\ score(login[l].previous) <= score(login[l].ever)
===============================================================================
