------------------------------- MODULE Alerting -------------------------------
(***************************************************************************)
(* AlertingService (monitoring/alerting.service.ts): an alert goes out     *)
(* unless one with the same type and severity went out less than five      *)
(* minutes ago, whatever it was about.  Times are ticks of the clock.      *)
(***************************************************************************)
EXTENDS Integers

CONSTANTS
    Cooldown,       \* cooldownPeriodMs, in ticks
    MaxAlertTime,   \* bound on the clock
    Subjects        \* endpoints, components, addresses, users, event types

ASSUME AlertAssumption == Cooldown \in Nat \ {0} /\ MaxAlertTime \in Nat

VARIABLES
    watched,        \* the alerts that are raised, two at most: keys do not interact
    now,
    alertHistory,   \* the time of the last alert per key, or Never
    raised,         \* history: the last alert that was raised
    sent            \* history: the alerts that went out

alertVars == <<watched, now, alertHistory, raised, sent>>

Never == -1
Severities == {"info", "warning", "error", "critical"}
Key(type, severity) == <<type, severity>>

\* The alerts of the callers: the severity of all types but two is fixed.
HighErrorRate(s) == [type |-> "high_error_rate", severity |-> "error", about |-> s]
HighLatency(s) == [type |-> "high_latency", severity |-> "warning", about |-> s]
SecurityEvent(s, severity) ==
    [type |-> "security_event", severity |-> severity, about |-> s]
SystemHealth(s, status) ==
    [type |-> "system_health", about |-> s,
     severity |-> IF status = "down" THEN "critical" ELSE "warning"]
FailedLoginAttempts(s) ==
    [type |-> "failed_login_attempts", severity |-> "warning", about |-> s]
AccountLockout(s) == [type |-> "account_lockout", severity |-> "warning", about |-> s]

Alerts ==
    {HighErrorRate(s) : s \in Subjects} \cup {HighLatency(s) : s \in Subjects}
    \cup {SecurityEvent(s, v) : s \in Subjects, v \in Severities}
    \cup {SystemHealth(s, t) : s \in Subjects, t \in {"degraded", "down"}}
    \cup {FailedLoginAttempts(s) : s \in Subjects} \cup {AccountLockout(s) : s \in Subjects}

AlertKeys == {Key(a.type, a.severity) : a \in Alerts}

NoAlert == [key |-> <<>>, at |-> Never, out |-> TRUE]

AlertTypeOK ==
    /\ watched \in SUBSET Alerts
    /\ now \in 0..MaxAlertTime
    /\ alertHistory \in [AlertKeys -> {Never} \cup 0..MaxAlertTime]
    /\ sent \subseteq [key : AlertKeys, at : 0..MaxAlertTime]
    /\ raised.key \in AlertKeys \cup {<<>>}

AlertInit ==
    /\ watched \in {{a, b} : a, b \in Alerts}
    /\ now = 0
    /\ alertHistory = [k \in AlertKeys |-> Never]
    /\ raised = NoAlert
    /\ sent = {}

\* Slip: the time is noted before the cooldown is checked.
SendAlert_Sliding(a) ==
    LET k == Key(a.type, a.severity)
        quiet == alertHistory[k] # Never /\ now - alertHistory[k] < Cooldown IN
    /\ alertHistory' = [alertHistory EXCEPT ![k] = now]
    /\ sent' = IF quiet THEN sent ELSE sent \cup {[key |-> k, at |-> now]}
    /\ raised' = [key |-> k, at |-> now, out |-> ~ quiet]
    /\ UNCHANGED <<watched, now>>

SendAlert(a) ==
    LET k == Key(a.type, a.severity)
        quiet == alertHistory[k] # Never /\ now - alertHistory[k] < Cooldown IN
    /\ alertHistory' = IF quiet THEN alertHistory ELSE [alertHistory EXCEPT ![k] = now]
    /\ sent' = IF quiet THEN sent ELSE sent \cup {[key |-> k, at |-> now]}
    /\ raised' = [key |-> k, at |-> now, out |-> ~ quiet]
    /\ UNCHANGED <<watched, now>>

AlertTick ==
    /\ now < MaxAlertTime
    /\ now' = now + 1
    /\ UNCHANGED <<watched, alertHistory, raised, sent>>

AlertNext == (\E a \in watched : SendAlert(a)) \/ AlertTick

AlertSpec == AlertInit /\ [][AlertNext]_alertVars

-----------------------------------------------------------------------------
(* Properties                                                              *)

\* A key has at most one alert per cooldown.
NoFlood ==
    \A a, b \in sent : a.key = b.key /\ a.at < b.at => b.at - a.at >= Cooldown

\* An alert that is held back follows one of its key that did go out within
\* the cooldown: alerts that are held back do not prolong the silence.
SilenceEnds ==
    raised.out \/ \E a \in sent :
        a.key = raised.key /\ a.at <= raised.at /\ raised.at - a.at < Cooldown

\* Each key alerts once per cooldown, no more and no less.
AlertsCooled == AlertTypeOK /\ NoFlood /\ SilenceEnds
=============================================================================
