----------------------------- MODULE MetricsReport -----------------------------
(***************************************************************************)
(* The reports of MetricsService: one query of the audit log, then its     *)
(* entries are counted period by period from startDate to endDate, while   *)
(* new ones are logged.  Time is counted in days; a month is what          *)
(* setMonth(getMonth() + 1) makes of it, so from a day that the next month *)
(* does not have it leads into the month after that one.                   *)
(***************************************************************************)
EXTENDS Integers, FiniteSetsExt, SequencesExt

CONSTANTS
    MonthStarts,        \* the first day of each month, and the end of the last
    WeekLength,
    MaxLogged           \* bound on the entries

ASSUME ReportAssumption ==
    /\ MonthStarts \in Seq(Nat) /\ Len(MonthStarts) > 1 /\ MonthStarts[1] = 0
    /\ \A m \in 2..Len(MonthStarts) : MonthStarts[m - 1] < MonthStarts[m]
    /\ WeekLength \in Nat \ {0} /\ MaxLogged \in Nat

VARIABLES
    logged,         \* the entries of the audit log, and
    today,
    report          \* the report being made

reportVars == <<logged, today, report>>

Days == 0..Last(MonthStarts) - 1
Granularities == {"day", "week", "month"}
Actions == {"user_registered", "user_deleted"}

ReportInit ==
    /\ logged = {}
    /\ today = 0
    /\ report = [at |-> "idle"]

\* Any entry the reports look at.
LogEntry(action) ==
    /\ Cardinality(logged) < MaxLogged
    /\ logged' = logged \cup {[day |-> today, action |-> action]}
    /\ UNCHANGED <<today, report>>

Tomorrow ==
    /\ today + 1 \in Days
    /\ today' = today + 1
    /\ UNCHANGED <<logged, report>>

-----------------------------------------------------------------------------
(* generateTimePeriods                                                     *)

MonthOf(day) == Max({m \in DOMAIN MonthStarts : MonthStarts[m] <= day})

\* setMonth: the same day of the next month, or as many days after its end.
AddMonth(day) == MonthStarts[MonthOf(day) + 1] + (day - MonthStarts[MonthOf(day)])

PeriodEnd(start, granularity) ==
    CASE granularity = "day"   -> start + 1
      [] granularity = "week"  -> start + WeekLength
      [] granularity = "month" -> AddMonth(start)

\* The label names a day, or a month.
Label(start, granularity) == IF granularity = "month" THEN MonthOf(start) ELSE start

-----------------------------------------------------------------------------
(* getUserMetrics, getSecurityMetrics                                      *)

\* The one await.  The repository returns the entry of endDate too, and does not
\* look at the list of actions.
QueryLogs(start, end, granularity) ==
    /\ report.at = "idle"
    /\ report' = [at |-> "counting", start |-> start, end |-> end,
                  granularity |-> granularity, current |-> start, total |-> 0, periods |-> <<>>,
                  logs |-> {e \in logged : start <= e.day /\ e.day <= end}]
    /\ UNCHANGED <<logged, today>>

\* Slip: a period includes its end.
InPeriod_Closed(entry, start, end) == start <= entry.day /\ entry.day <= end

InPeriod(entry, start, end) == start <= entry.day /\ entry.day < end

Count(logs, action) == Cardinality({e \in logs : e.action = action})

NetGrowth(logs) == Count(logs, "user_registered") - Count(logs, "user_deleted")

\* The next period: current moves to its end, which is at most endDate.
NextPeriod ==
    /\ report.at = "counting" /\ report.current < report.end
    /\ LET start == report.current
           end == Min({PeriodEnd(start, report.granularity), report.end})
           logs == {e \in report.logs : InPeriod(e, start, end)} IN
       report' = [report EXCEPT
         !.current = end,
         !.total = @ + NetGrowth(logs),
         !.periods = Append(@, [label |-> Label(start, report.granularity),
                                registrations |-> Count(logs, "user_registered"),
                                deletions |-> Count(logs, "user_deleted")])]
    /\ UNCHANGED <<logged, today>>

Reported ==
    /\ report.at = "counting" /\ report.current >= report.end
    /\ report' = [report EXCEPT !.at = "done"]
    /\ UNCHANGED <<logged, today>>

\* The administrator may ask for any range, the future included.
ReportNext ==
    \/ \E action \in Actions : LogEntry(action)
    \/ Tomorrow
    \/ \E start, end \in Days, g \in Granularities : QueryLogs(start, end, g)
    \/ NextPeriod \/ Reported

ReportSpec == ReportInit /\ [][ReportNext]_reportVars

-----------------------------------------------------------------------------
(* Properties                                                              *)

\* Whatever the granularity and the months in between, a finished report has
\* counted each entry of the log it read once, those of endDate itself excepted:
\* its last total is the growth over the whole range (getUserMetrics).
GrowthAddsUp ==
    report.at = "done" =>
        report.total = NetGrowth({e \in report.logs : e.day < report.end})

\* No two lines of a report have the same label, also when a month is shorter
\* than the one before it (generateTimePeriods).
LabelsDiffer ==
    report.at = "done" => \A i, j \in DOMAIN report.periods :
        i # j => report.periods[i].label # report.periods[j].label

\* The periods of a report partition its range and its entries.
ReportsAddUp == GrowthAddsUp /\ LabelsDiffer
===============================================================================
