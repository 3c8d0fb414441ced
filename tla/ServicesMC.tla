------------------------------ MODULE ServicesMC ------------------------------
(***************************************************************************)
(* Small instances of the services that keep their state in the process or *)
(* sign it away: ConnectionManager, EventEmitter, QueueManager, Alerting,  *)
(* RoleSeeding, TokenChain, LoginRisk and MetricsReport.  They share no    *)
(* state: each behaviour exercises the one named by part while the others  *)
(* stay in their initial states, so their state spaces add up.             *)
(***************************************************************************)
EXTENDS ConnectionManager, EventEmitter, QueueManager, Alerting, RoleSeeding,
        TokenChain, LoginRisk, MetricsReport, TLC

CONSTANTS u1, u2, s1, s2, s3, s4, x1, x2, x3, notifications

\* u1 has two sockets of one session and one of another, u2 has one.
TwoUsers == {u1, u2}
FourSockets == {s1, s2, s3, s4}
ThreeSessions == {x1, x2, x3}
OneChannel == {notifications}
Owner == [s \in Sockets |-> IF s = s4 THEN u2 ELSE u1]
Session == [s \in Sockets |-> IF s \in {s1, s2} THEN x1 ELSE IF s = s3 THEN x2 ELSE x3]

OneUser == {u1}
TwoSockets == {s1, s2}
ThreeIds == {s1, s2, s3}
OneSession == {x3}
TwoSessions == {x1, x2}
ShortAndLong == {6, 9}

\* A month of three days before two of two days.
Months == <<0, 3, 5, 7>>

VARIABLE part

Parts == {"sockets", "emitter", "manager", "alerts", "seeding", "roles",
          "sessionTokens", "otherTokens", "risk", "report"}

serviceVars == <<part, vars, emitterVars, managerVars, alertVars, seedVars, tokenVars, riskVars, reportVars>>

MCInit ==
    /\ part \in Parts
    /\ Init /\ EmitterInit /\ ManagerInit /\ AlertInit /\ SeedInit /\ TokenInit /\ RiskInit
    /\ ReportInit
    \* The idle components have one initial state.
    /\ part # "manager" => configured = Queues
    /\ part # "alerts" => watched = {HighErrorRate(u1)}

OnlySockets ==
    UNCHANGED <<part, emitterVars, managerVars, alertVars, seedVars, tokenVars, riskVars, reportVars>>
OnlyEmitter == UNCHANGED <<part, vars, managerVars, alertVars, seedVars, tokenVars, riskVars, reportVars>>
OnlyManager == UNCHANGED <<part, vars, emitterVars, alertVars, seedVars, tokenVars, riskVars, reportVars>>
OnlyAlerts == UNCHANGED <<part, vars, emitterVars, managerVars, seedVars, tokenVars, riskVars, reportVars>>
OnlyRoles == UNCHANGED <<part, vars, emitterVars, managerVars, alertVars, tokenVars, riskVars, reportVars>>
OnlyTokens == UNCHANGED <<part, vars, emitterVars, managerVars, alertVars, seedVars, riskVars, reportVars>>
OnlyRisk == UNCHANGED <<part, vars, emitterVars, managerVars, alertVars, seedVars, tokenVars, reportVars>>
OnlyReport ==
    UNCHANGED <<part, vars, emitterVars, managerVars, alertVars, seedVars, tokenVars, riskVars>>

\* Overlapping seedings without administrators, and one seeding beside them.
Seeding == SeedNext /\ byHand' = {} /\ \A c \in Creators : spc'[c] = "idle"
SeedingAndRoles == SeedNext /\ spc'[u2] = "idle"

\* The tokens of stored sessions, and those of no stored session.
SessionTokens == TokenNext /\ \A t \in tokens' : t.sid \in LoginSessions
OtherTokens == TokenNext /\ stored' = stored

MCNext ==
    \/ part = "sockets" /\ Next /\ OnlySockets
    \/ part = "emitter" /\ EmitterNext /\ OnlyEmitter
    \/ part = "manager" /\ ManagerNext /\ OnlyManager
    \/ part = "alerts" /\ AlertNext /\ OnlyAlerts
    \/ part = "seeding" /\ Seeding /\ OnlyRoles
    \/ part = "roles" /\ SeedingAndRoles /\ OnlyRoles
    \/ part = "sessionTokens" /\ SessionTokens /\ OnlyTokens
    \/ part = "otherTokens" /\ OtherTokens /\ OnlyTokens
    \/ part = "risk" /\ RiskNext /\ OnlyRisk
    \/ part = "report" /\ ReportNext /\ OnlyReport

MCSpec == MCInit /\ [][MCNext]_serviceVars

SameSession == Permutations({s1, s2})
===============================================================================
