--------------------------- MODULE ServicesProofs ---------------------------
(***************************************************************************)
(* Proofs about the services behind the requests: the queue manager,       *)
(* alerting, the seeding of roles, tokens, the WebSocket registry, the     *)
(* event emitter, the login risk and the metrics reports.                  *)
(***************************************************************************)
EXTENDS QueueManager, Alerting, RoleSeeding, TokenChain, EventEmitter,
        ConnectionManager, LoginRisk, MetricsReport, Foundations

-----------------------------------------------------------------------------
(***************************************************************************)
(* The queue manager.  While calls neither overlap nor fail, the one call  *)
(* in flight tells which workers there are.                                *)
(***************************************************************************)

\* While calls neither overlap nor fail, the one call in flight tells which
\* workers there are.
CallTellsWorkers ==
    /\ \A m, n \in Busy : m = n
    /\ \A m \in Busy :
         \/ mcall[m].pc = "schedule" /\ working = configured /\ ~ isInitialized
         \/ /\ mcall[m].pc = "close" /\ ~ mcall[m].failed /\ isInitialized
            /\ working \subseteq mcall[m].todo
    /\ Busy = {} => working = IF isInitialized THEN configured ELSE {}

IdleCalls == \A m \in Managers \ Busy : mcall[m] = NoMCall

ManagerInv == ManagerTypeOK /\ IdleCalls /\ (Clean => CallTellsWorkers)

MCall == [pc : {"idle", "schedule", "close"}, todo : SUBSET Queues, jobs : 0..(CleanupJobs - 1),
          failed : BOOLEAN]

\* The call m moves on to c, the others stay where they are.
LEMMA CallMoves ==
  ASSUME ManagerInv, NEW m \in Managers, NEW c \in MCall, mcall' = [mcall EXCEPT ![m] = c],
         c.pc = "idle" => c = NoMCall
  PROVE  /\ mcall' \in [Managers -> MCall] /\ IdleCalls' /\ mcall'[m] = c
         /\ Busy' = IF c.pc = "idle" THEN Busy \ {m} ELSE Busy \cup {m}
         /\ \A n \in Managers \ {m} : mcall'[n] = mcall[n]
BY DEF ManagerInv, ManagerTypeOK, IdleCalls, Busy, MCall

LEMMA ManagerStep == ManagerInv /\ [ManagerNext]_managerVars => ManagerInv'
<1> SUFFICES ASSUME ManagerInv, [ManagerNext]_managerVars PROVE ManagerInv'
  OBVIOUS
<1> USE DEF ManagerInv
<1>0. /\ NoMCall \in MCall /\ NoMCall.pc = "idle"
      /\ \A m \in Managers : mcall[m] \in MCall /\ (m \notin Busy => mcall[m] = NoMCall)
  BY DEF NoMCall, MCall, CleanupJobs, ManagerTypeOK, IdleCalls
<1>1. ASSUME NEW m \in Managers, Initialize(m) PROVE ManagerInv'
  <2>1. CASE "cleanup" \in configured
    <3> DEFINE c == [pc |-> "schedule", todo |-> {}, jobs |-> 0, failed |-> FALSE]
    <3>1. /\ mcall' = [mcall EXCEPT ![m] = c] /\ c \in MCall /\ c.pc = "schedule"
          /\ ~ isInitialized' /\ ~ isInitialized
      BY <1>0, <1>1, <2>1 DEF Initialize, NoMCall, MCall, CleanupJobs
    <3> HIDE DEF c
    <3>2. mcall' \in [Managers -> MCall] /\ IdleCalls' /\ mcall'[m] = c /\ Busy' = Busy \cup {m}
      BY <3>1, CallMoves
    <3> QED BY <1>1, <3>1, <3>2
            DEF Initialize, ManagerTypeOK, MCall, Clean, CallTellsWorkers
  <2>2. CASE "cleanup" \notin configured
    BY <1>1, <2>2 DEF Initialize, ManagerTypeOK, IdleCalls, Busy, Clean, CallTellsWorkers
  <2> QED BY <2>1, <2>2
<1>2. ASSUME NEW m \in Managers, Schedule(m) PROVE ManagerInv'
  <2>0. m \in Busy
    BY <1>2 DEF Schedule, Busy
  <2>1. CASE mcall[m].jobs + 1 < CleanupJobs
    <3> DEFINE c == [mcall[m] EXCEPT !.jobs = @ + 1]
    <3>1. mcall' = [mcall EXCEPT ![m] = c] /\ c \in MCall /\ c.pc = "schedule"
      BY <1>0, <1>2, <2>1 DEF Schedule, MCall, CleanupJobs
    <3> HIDE DEF c
    <3>2. /\ mcall' \in [Managers -> MCall] /\ IdleCalls' /\ mcall'[m] = c /\ Busy' = Busy
          /\ \A n \in Managers \ {m} : mcall'[n] = mcall[n]
      <4>1. Busy \cup {m} = Busy
        BY <2>0
      <4> QED BY <3>1, <4>1, CallMoves
    <3> QED BY <1>2, <2>1, <3>1, <3>2
            DEF Schedule, ManagerTypeOK, MCall, Clean, CallTellsWorkers
  <2>2. CASE ~ (mcall[m].jobs + 1 < CleanupJobs)
    <3>1. mcall' = [mcall EXCEPT ![m] = NoMCall] /\ isInitialized'
      BY <1>2, <2>2 DEF Schedule
    <3>2. mcall' \in [Managers -> MCall] /\ IdleCalls' /\ Busy' = Busy \ {m}
      BY <1>0, <3>1, CallMoves
    <3>3. ManagerTypeOK'
      BY <1>2, <3>1, <3>2 DEF Schedule, ManagerTypeOK, MCall
    <3>4. Clean' => CallTellsWorkers'
      BY <1>2, <2>0, <3>1, <3>2 DEF Schedule, Clean, CallTellsWorkers
    <3> QED BY <3>2, <3>3, <3>4
  <2> QED BY <2>1, <2>2
<1>3. ASSUME NEW m \in Managers, ScheduleFails(m) PROVE ManagerInv'
  <2>1. mcall' \in [Managers -> MCall] /\ IdleCalls'
    BY <1>0, <1>3, CallMoves DEF ScheduleFails
  <2> QED BY <1>3, <2>1 DEF ScheduleFails, ManagerTypeOK, MCall, Clean
<1>4. ASSUME NEW m \in Managers, Shutdown(m) PROVE ManagerInv'
  <2> DEFINE c == [NoMCall EXCEPT !.pc = "close", !.todo = Queues]
  <2>1. mcall' = [mcall EXCEPT ![m] = c] /\ c \in MCall /\ c.pc = "close"
    <3>1. mcall[m] = NoMCall /\ mcall \in [Managers -> MCall]
      BY <1>0, <1>4 DEF Shutdown, ManagerTypeOK, MCall
    <3>2. mcall' = [mcall EXCEPT ![m] = [mcall[m] EXCEPT !.pc = "close", !.todo = Queues]]
      BY <1>4, <3>1 DEF Shutdown
    <3>3. c \in [pc : {"close"}, todo : {Queues}, jobs : {0}, failed : BOOLEAN]
      BY DEF NoMCall
    <3>4. mcall' = [mcall EXCEPT ![m] = c]
      BY <3>1, <3>2
    <3> HIDE DEF c
    <3>5. c \in MCall /\ c.pc = "close"
      BY <3>3 DEF MCall, CleanupJobs
    <3> QED BY <3>4, <3>5
  <2>2. ~ c.failed /\ c.todo = Queues
    BY DEF NoMCall
  <2> HIDE DEF c
  <2>3. mcall' \in [Managers -> MCall] /\ IdleCalls' /\ mcall'[m] = c /\ Busy' = Busy \cup {m}
    BY <2>1, CallMoves
  <2> QED BY <1>4, <2>1, <2>2, <2>3 DEF Shutdown, ManagerTypeOK, MCall, Clean, CallTellsWorkers
<1>5. ASSUME NEW m \in Managers, NEW q \in Queues, NEW ok \in BOOLEAN, Settle(m, q, ok),
             UNCHANGED <<configured, crossed>>, working' \in {working, working \ {q}},
             ok => working' = working \ {q} /\ spilled' = spilled,
             ~ ok => spilled' = TRUE, shut' \in {shut, shut \cup {q}}
      PROVE  ManagerInv'
  <2>0. m \in Busy /\ mcall[m] \in MCall /\ spilled' \in BOOLEAN
        /\ working' \in SUBSET configured /\ shut' \in SUBSET Queues
    BY <1>0, <1>5 DEF Settle, Busy, ManagerTypeOK
  <2>1. CASE mcall[m].todo = {q}
    <3>1. /\ mcall' = [mcall EXCEPT ![m] = NoMCall]
          /\ isInitialized' = (isInitialized /\ (mcall[m].failed \/ ~ ok))
      BY <1>5, <2>1 DEF Settle
    <3>2. mcall' \in [Managers -> MCall] /\ IdleCalls' /\ Busy' = Busy \ {m}
      BY <1>0, <3>1, CallMoves
    <3>3. ManagerTypeOK'
      BY <1>5, <2>0, <3>1, <3>2 DEF ManagerTypeOK, MCall
    <3>4. ASSUME Clean' PROVE CallTellsWorkers'
      <4>1. /\ Clean /\ ok /\ Busy = {m} /\ mcall[m].pc = "close" /\ ~ mcall[m].failed
            /\ working \subseteq {q}
        BY <1>5, <2>0, <2>1, <3>4 DEF Clean, CallTellsWorkers, Settle
      <4> QED BY <1>5, <3>1, <3>2, <4>1 DEF CallTellsWorkers
    <3> QED BY <3>2, <3>3, <3>4
  <2>2. CASE mcall[m].todo # {q}
    <3> DEFINE c == [mcall[m] EXCEPT !.todo = @ \ {q}, !.failed = @ \/ ~ ok]
    <3>1. /\ mcall' = [mcall EXCEPT ![m] = c] /\ c \in MCall /\ c.pc = "close"
          /\ isInitialized' = isInitialized
      BY <1>5, <2>0, <2>2 DEF Settle, MCall
    <3>2. c.todo = mcall[m].todo \ {q} /\ (~ c.failed \/ mcall[m].failed \/ ~ ok)
      BY <2>0 DEF MCall
    <3> HIDE DEF c
    <3>3. mcall' \in [Managers -> MCall] /\ IdleCalls' /\ mcall'[m] = c /\ Busy' = Busy
      <4>1. Busy \cup {m} = Busy
        BY <2>0
      <4> QED BY <3>1, <4>1, CallMoves
    <3>4. ManagerTypeOK'
      BY <1>5, <2>0, <3>1, <3>3 DEF ManagerTypeOK, MCall
    <3>5. ASSUME Clean' PROVE CallTellsWorkers'
      <4>1. /\ Clean /\ ok /\ Busy = {m} /\ mcall[m].pc = "close" /\ ~ mcall[m].failed
            /\ working \subseteq mcall[m].todo /\ isInitialized
        BY <1>5, <2>0, <3>5 DEF Clean, CallTellsWorkers, Settle
      <4> QED BY <1>5, <3>1, <3>2, <3>3, <4>1 DEF CallTellsWorkers
    <3> QED BY <3>3, <3>4, <3>5
  <2> QED BY <2>1, <2>2
<1>6. ASSUME NEW m \in Managers, NEW q \in Queues, CloseQueue(m, q) PROVE ManagerInv'
  BY <1>5, <1>6 DEF CloseQueue, Settle
<1>7. ASSUME NEW m \in Managers, NEW q \in Queues, CloseFails(m, q) PROVE ManagerInv'
  BY <1>5, <1>7 DEF CloseFails, Settle
<1>8. CASE UNCHANGED managerVars
  BY <1>8 DEF managerVars, ManagerTypeOK, IdleCalls, Clean, CallTellsWorkers, Busy
<1> QED
  BY <1>1, <1>2, <1>3, <1>4, <1>6, <1>7, <1>8 DEF ManagerNext

\* A ready queue manager runs its workers and one that is not has stopped them,
\* unless calls overlapped or failed (initialize, shutdown).
THEOREM ManagerKeepsWorkers == ManagerSpec => []WorkersAsPromised
<1>1. ManagerInit => ManagerInv
  <2> SUFFICES ASSUME ManagerInit PROVE ManagerInv
    OBVIOUS
  <2>1. Busy = {} /\ IdleCalls
    BY DEF ManagerInit, Busy, IdleCalls, NoMCall
  <2>2. NoMCall \in MCall
    BY DEF NoMCall, MCall, CleanupJobs
  <2>3. ManagerTypeOK
    BY <2>2 DEF ManagerInit, ManagerTypeOK, MCall
  <2> QED BY <2>1, <2>3 DEF ManagerInv, CallTellsWorkers, ManagerInit
<1>2. ManagerInv => WorkersAsPromised
  BY DEF ManagerInv, WorkersAsPromised, ReadyMeansRunning, LeftoversExplained, CallTellsWorkers,
         Busy
<1> QED BY <1>1, <1>2, ManagerStep, PTL DEF ManagerSpec

-----------------------------------------------------------------------------
(***************************************************************************)
(* Alerting.  The history holds, per key, the time of the last alert that  *)
(* went out.                                                               *)
(***************************************************************************)

\* The history holds, per key, the time of the last alert that went out.
HistoryIsLast ==
    /\ \A a \in sent : /\ alertHistory[a.key] # Never /\ a.at <= alertHistory[a.key]
    /\ \A k \in AlertKeys : alertHistory[k] # Never =>
         alertHistory[k] <= now /\ [key |-> k, at |-> alertHistory[k]] \in sent

AlertInv == AlertsCooled /\ HistoryIsLast

LEMMA AlertStep == AlertInv /\ [AlertNext]_alertVars => AlertInv'
<1> SUFFICES ASSUME AlertInv, [AlertNext]_alertVars PROVE AlertInv'
  OBVIOUS
<1> USE AlertAssumption DEF AlertInv, AlertsCooled
<1>1. ASSUME NEW a \in watched, SendAlert(a) PROVE AlertInv'
  <2> DEFINE k == Key(a.type, a.severity)
             quiet == alertHistory[k] # Never /\ now - alertHistory[k] < Cooldown
             s == [key |-> k, at |-> now]
  <2>1. /\ alertHistory' = IF quiet THEN alertHistory ELSE [alertHistory EXCEPT ![k] = now]
        /\ sent' = IF quiet THEN sent ELSE sent \cup {s}
        /\ raised' = [key |-> k, at |-> now, out |-> ~ quiet]
        /\ UNCHANGED <<watched, now>> /\ k \in AlertKeys
    BY <1>1 DEF SendAlert, AlertTypeOK, AlertKeys
  <2>2. /\ alertHistory[k] \in {Never} \cup 0..MaxAlertTime /\ now \in 0..MaxAlertTime
        /\ \A h \in AlertKeys : alertHistory[h] \in {Never} \cup 0..MaxAlertTime
        /\ \A b \in sent : b.key \in AlertKeys /\ b.at \in 0..MaxAlertTime
    BY <2>1 DEF AlertTypeOK
  <2>3. s.key = k /\ s.at = now /\ s \in [key : AlertKeys, at : 0..MaxAlertTime]
    BY <2>1, <2>2
  <2> HIDE DEF k, s
  <2>4. AlertTypeOK'
    BY <2>1, <2>2, <2>3 DEF AlertTypeOK
  <2>5. CASE quiet
    <3>1. /\ UNCHANGED <<alertHistory, sent, now>> /\ raised'.key = k /\ raised'.at = now
          /\ [key |-> k, at |-> alertHistory[k]] \in sent /\ alertHistory[k] <= now
      BY <2>1, <2>5 DEF HistoryIsLast
    <3>2. SilenceEnds'
      BY <2>5, <3>1 DEF SilenceEnds
    <3> QED BY <2>4, <3>1, <3>2 DEF NoFlood, HistoryIsLast
  <2>6. CASE ~ quiet
    <3>1. /\ sent' = sent \cup {s} /\ alertHistory' = [alertHistory EXCEPT ![k] = now]
          /\ raised'.out = TRUE /\ now' = now
          /\ alertHistory'[k] = now
          /\ \A h \in AlertKeys \ {k} : alertHistory'[h] = alertHistory[h]
      BY <2>1, <2>6 DEF AlertTypeOK
    <3>2. \A b \in sent : b.key = k => now - b.at >= Cooldown
      BY <2>1, <2>2, <2>6 DEF HistoryIsLast, Never
    <3>3. NoFlood'
      BY <2>2, <2>3, <3>1, <3>2 DEF NoFlood
    <3>4. HistoryIsLast'
      BY <2>2, <2>3, <3>1, <2>1 DEF HistoryIsLast, Never, s
    <3> QED BY <2>4, <3>1, <3>3, <3>4 DEF SilenceEnds
  <2> QED BY <2>5, <2>6
<1>2. CASE AlertTick
  BY <1>2 DEF AlertTick, AlertTypeOK, NoFlood, SilenceEnds, HistoryIsLast
<1>3. CASE UNCHANGED alertVars
  BY <1>3 DEF alertVars, AlertTypeOK, NoFlood, SilenceEnds, HistoryIsLast
<1> QED BY <1>1, <1>2, <1>3 DEF AlertNext

\* Whatever is raised when, one alert per type and severity goes out in every
\* cooldown, and one that is held back does not prolong it (sendAlert).
THEOREM AlertsAreCooled == AlertSpec => []AlertsCooled
<1>1. AlertInit => AlertInv
  BY AlertAssumption
     DEF AlertInit, AlertInv, AlertsCooled, AlertTypeOK, NoFlood, SilenceEnds, HistoryIsLast,
         NoAlert, Never
<1> QED BY <1>1, AlertStep, PTL DEF AlertSpec, AlertInv

-----------------------------------------------------------------------------
(***************************************************************************)
(* The seeding of roles.  What a seeder has written of a role and has      *)
(* still to write is what the definition lists, and nobody else writes to  *)
(* its role; and it knows a row of every definition it has passed.         *)
(***************************************************************************)

LEMMA ElementsOfTail ==
  ASSUME NEW S, NEW s \in Seq(S), s # <<>>
  PROVE  Head(s) \in S /\ Tail(s) \in Seq(S) /\ Elements(s) = {Head(s)} \cup Elements(Tail(s))
<1>1. Len(s) \in Nat \ {0} /\ DOMAIN s = 1..Len(s)
  OBVIOUS
<1>2. /\ Head(s) = s[1] /\ Tail(s) \in Seq(S) /\ DOMAIN Tail(s) = 1..(Len(s) - 1)
      /\ \A i \in 1..(Len(s) - 1) : Tail(s)[i] = s[i + 1]
  BY <1>1
<1>3. ASSUME NEW i \in 1..Len(s) PROVE s[i] \in {Head(s)} \cup Elements(Tail(s))
  <2>1. CASE i = 1
    BY <1>2, <2>1
  <2>2. CASE i # 1
    <3>1. i - 1 \in 1..(Len(s) - 1) /\ i - 1 + 1 = i
      BY <1>1, <2>2
    <3> QED BY <1>2, <3>1 DEF Elements
  <2> QED BY <2>1, <2>2
<1>4. ASSUME NEW i \in 1..(Len(s) - 1) PROVE Tail(s)[i] \in Elements(s)
  BY <1>1, <1>2 DEF Elements
<1>5. Elements(s) \subseteq {Head(s)} \cup Elements(Tail(s))
  BY <1>1, <1>3 DEF Elements
<1>6. {Head(s)} \cup Elements(Tail(s)) \subseteq Elements(s)
  BY <1>1, <1>2, <1>4 DEF Elements
<1> QED BY <1>1, <1>2, <1>5, <1>6

LEMMA Lists ==
  /\ Definitions = <<"profile:read", "*:*">> /\ SystemRoles = <<"admin", "user">>
  /\ Len(Definitions) = 2 /\ Len(SystemRoles) = 2
  /\ Defs = {"profile:read", "*:*"} /\ Names = {"admin", "user"}
  /\ Definitions[1] = "profile:read" /\ Definitions[2] = "*:*"
  /\ SystemRoles[1] = "admin" /\ SystemRoles[2] = "user"
  /\ \A name \in Names : /\ Elements(RoleGrants(name)) \subseteq Defs
                         /\ RoleGrants(name) = <<"*:*">> \/ RoleGrants(name) = <<"profile:read">>
BY DEF Definitions, SystemRoles, Defs, Names, Elements, RoleGrants

SeedStateOK ==
    /\ permDef \in [PermIds -> Defs \cup {Unset}]
    /\ roleName \in [RoleIds -> Names \cup {Unset}]
    /\ system \in SUBSET RoleIds
    /\ holds \in [RoleIds -> SUBSET PermIds]
    /\ spc \in [Writers -> {"idle", "findPerm", "savePerm", "findRole", "saveRole", "add"}]
    /\ at \in [Writers -> 1..2]
    /\ found \in [Seeders -> [Defs -> PermIds \cup {Unset}]]
    /\ task \in [Writers -> RoleIds \cup {Unset}]
    /\ todo \in [Writers -> Seq(PermIds)]
    /\ torn \in SUBSET RoleIds

\* A role that is stored.
RoleOK(r) ==
    /\ \A p \in holds[r] : permDef[p] # Unset
    /\ roleName[r] = Unset => holds[r] = {} /\ r \notin system
    /\ r \in system => Granted(r) = Elements(RoleGrants(roleName[r])) \/ Writing(r) \/ r \in torn

\* A writer: what it has written and has still to write is what the role's
\* definition lists, and nobody else writes to its role.
WriterOK(w) ==
    /\ spc[w] = "add" <=> task[w] # Unset
    /\ task[w] = Unset => todo[w] = <<>>
    /\ task[w] # Unset => /\ roleName[task[w]] # Unset
                          /\ \A v \in Writers : task[v] = task[w] => v = w
    /\ \A p \in Elements(todo[w]) : permDef[p] # Unset
    /\ w \in Creators => task[w] \notin system /\ spc[w] \in {"idle", "add"}
    /\ w \in Seeders /\ task[w] # Unset =>
         /\ task[w] \in system
         /\ {permDef[p] : p \in holds[task[w]] \cup Elements(todo[w])}
              = Elements(RoleGrants(roleName[task[w]]))

\* A seeder knows a row of every definition it has passed, and has seen that
\* there is none before it saves one.
SeederOK(s) ==
    /\ \A d \in Defs : found[s][d] # Unset => permDef[found[s][d]] = d
    /\ spc[s] \in {"findPerm", "savePerm"} =>
         \A i \in 1..(at[s] - 1) : found[s][Definitions[i]] # Unset
    /\ spc[s] \in {"findRole", "saveRole", "add"} => \A d \in Defs : found[s][d] # Unset
    /\ spc[s] = "savePerm" =>
         \A p \in PermIds : permDef[p] = Definitions[at[s]] => seededTogether \/ permDef[p] \in byHand
    /\ \A q \in Seeders \ {s} : spc[q] # "idle" /\ spc[s] # "idle" => seededTogether

SeedInv ==
    /\ SeedStateOK
    /\ \A r \in RoleIds : RoleOK(r)
    /\ \A w \in Writers : WriterOK(w)
    /\ \A s \in Seeders : SeederOK(s)
    /\ DuplicatePermissionsExplained

LEMMA SeedBasics ==
  ASSUME SeedInv
  PROVE  /\ Unset \notin PermIds /\ Unset \notin RoleIds /\ Unset \notin Defs /\ Unset \notin Names
         /\ Seeders \subseteq Writers /\ Creators \subseteq Writers
         /\ \A s \in Seeders : s \notin Creators
         /\ \A w \in Writers : w \in Seeders \/ w \in Creators
BY SeedAssumption DEF Writers

\* The pass over the lists changes a seeder's place only.
LEMMA PlaceStep ==
  ASSUME SeedInv, NEW s \in Seeders,
         spc[s] # "add", spc'[s] # "add",
         \A w \in Writers \ {s} : spc'[w] = spc[w],
         spc' \in [Writers -> {"idle", "findPerm", "savePerm", "findRole", "saveRole", "add"}],
         at' \in [Writers -> 1..2], found' \in [Seeders -> [Defs -> PermIds \cup {Unset}]],
         \A q \in Seeders \ {s} : found'[q] = found[q] /\ at'[q] = at[q],
         UNCHANGED <<rows, task, todo, torn, byHand>>,
         seededTogether => seededTogether',
         \A q \in Seeders \ {s} : spc[q] # "idle" /\ spc'[s] # "idle" => seededTogether',
         SeederOK(s)'
  PROVE  SeedInv'
<1>1. SeedStateOK'
  BY DEF SeedInv, SeedStateOK, rows
<1>2. \A r \in RoleIds : RoleOK(r)'
  <2> SUFFICES ASSUME NEW r \in RoleIds PROVE RoleOK(r)'
    OBVIOUS
  <2>1. UNCHANGED <<permDef, roleName, system, holds, task, torn>>
    BY DEF rows
  <2>2. Granted(r)' = Granted(r)
    BY <2>1 DEF Granted
  <2>3. Writing(r)' <=> Writing(r)
    BY <2>1 DEF Writing
  <2>4. RoleOK(r)
    BY DEF SeedInv
  <2> QED BY <2>1, <2>2, <2>3, <2>4 DEF RoleOK
<1>3. \A w \in Writers : WriterOK(w)'
  <2> SUFFICES ASSUME NEW w \in Writers PROVE WriterOK(w)'
    OBVIOUS
  <2>1. WriterOK(w) /\ (spc'[w] = "add" <=> spc[w] = "add")
        /\ (w \in Creators => spc'[w] = spc[w])
    BY SeedBasics DEF SeedInv
  <2> QED BY <2>1 DEF WriterOK, rows
<1>4. \A q \in Seeders : SeederOK(q)'
  <2> SUFFICES ASSUME NEW q \in Seeders, q # s PROVE SeederOK(q)'
    OBVIOUS
  <2>1. SeederOK(q) /\ spc'[q] = spc[q] /\ found'[q] = found[q] /\ at'[q] = at[q]
    BY SeedBasics DEF SeedInv
  <2>2. UNCHANGED <<permDef, byHand>>
    BY DEF rows
  <2>3. \A v \in Seeders \ {q} : spc'[v] # "idle" /\ spc'[q] # "idle" => seededTogether'
    BY <2>1, SeedBasics DEF SeedInv, SeederOK
  <2> QED BY <2>1, <2>2, <2>3 DEF SeederOK
<1>5. DuplicatePermissionsExplained'
  BY DEF SeedInv, DuplicatePermissionsExplained, rows
<1> QED BY <1>1, <1>2, <1>3, <1>4, <1>5 DEF SeedInv

LEMMA LookingStep ==
  ASSUME SeedInv, NEW s \in Seeders,
         InitializeSystemRoles(s) \/ GetPermission(s) \/ RoleExists(s) \/ RoleMissing(s)
  PROVE  SeedInv'
<1>1. /\ SeedStateOK /\ SeederOK(s) /\ WriterOK(s) /\ s \in Writers /\ at[s] \in 1..2
      /\ found[s] \in [Defs -> PermIds \cup {Unset}]
  BY SeedBasics DEF SeedInv, SeedStateOK
<1>2. \A q \in Seeders \ {s} : spc[q] # "idle" /\ spc[s] # "idle" => seededTogether
  BY <1>1 DEF SeederOK
<1>3. CASE InitializeSystemRoles(s)
  <2>1. /\ spc[s] = "idle" /\ spc' = [spc EXCEPT ![s] = "findPerm"]
        /\ at' = [at EXCEPT ![s] = 1] /\ found' = [found EXCEPT ![s] = [d \in Defs |-> Unset]]
        /\ seededTogether' = (seededTogether \/ \E q \in Seeders \ {s} : spc[q] # "idle")
        /\ UNCHANGED <<rows, task, todo, torn, byHand>>
    BY <1>3 DEF InitializeSystemRoles
  <2>2. /\ spc'[s] = "findPerm" /\ at'[s] = 1 /\ found'[s] = [d \in Defs |-> Unset]
        /\ \A w \in Writers \ {s} : spc'[w] = spc[w] /\ at'[w] = at[w]
        /\ \A q \in Seeders \ {s} : found'[q] = found[q]
        /\ spc' \in [Writers -> {"idle", "findPerm", "savePerm", "findRole", "saveRole", "add"}]
        /\ at' \in [Writers -> 1..2] /\ found' \in [Seeders -> [Defs -> PermIds \cup {Unset}]]
    BY <1>1, <2>1 DEF SeedStateOK
  <2>3. SeederOK(s)'
    <3>1. \A q \in Seeders \ {s} : spc'[q] # "idle" => seededTogether'
      BY <2>1, <2>2, SeedBasics
    <3> QED BY <2>2, <3>1 DEF SeederOK
  <2> QED BY <2>1, <2>2, <2>3, PlaceStep, SeedBasics
<1>4. CASE GetPermission(s)
  <2> DEFINE d == Definitions[at[s]]
  <2>1. spc[s] = "findPerm" /\ UNCHANGED <<rows, task, todo, torn, byHand, seededTogether>>
    BY <1>4 DEF GetPermission, seedHistory
  <2>2. d \in Defs
    BY <1>1, Lists
  <2>3. CASE \E p \in PermIds : permDef[p] = d
    <3>1. PICK p \in PermIds : permDef[p] = d /\ found' = [found EXCEPT ![s][d] = p]
      BY <1>4, <2>3 DEF GetPermission
    <3>2. /\ spc' = [spc EXCEPT ![s] = NextPerm(s)]
          /\ at' = [at EXCEPT ![s] = IF at[s] < 2 THEN at[s] + 1 ELSE 1]
      BY <1>4, <2>3, Lists DEF GetPermission, Advance
    <3>3. found'[s] = [found[s] EXCEPT ![d] = p]
          /\ \A q \in Seeders \ {s} : found'[q] = found[q]
      BY <1>1, <2>2, <3>1 DEF SeedStateOK
    <3>4. /\ found'[s] \in [Defs -> PermIds \cup {Unset}]
          /\ found' \in [Seeders -> [Defs -> PermIds \cup {Unset}]]
          /\ found'[s][d] = p /\ \A e \in Defs : e # d => found'[s][e] = found[s][e]
      BY <1>1, <2>2, <3>1, <3>3 DEF SeedStateOK
    <3>5. /\ spc'[s] = IF at[s] = 1 THEN "findPerm" ELSE "findRole"
          /\ at'[s] = IF at[s] = 1 THEN 2 ELSE 1
          /\ \A w \in Writers \ {s} : spc'[w] = spc[w] /\ at'[w] = at[w]
          /\ spc' \in [Writers -> {"idle", "findPerm", "savePerm", "findRole", "saveRole", "add"}]
          /\ at' \in [Writers -> 1..2]
      BY <1>1, <3>2, Lists DEF SeedStateOK, NextPerm
    <3>6. SeederOK(s)'
      <4>1. permDef' = permDef /\ p # Unset
        BY <2>1, SeedBasics DEF rows
      <4>2. \A e \in Defs : found'[s][e] # Unset => permDef'[found'[s][e]] = e
        BY <1>1, <3>1, <3>4, <4>1 DEF SeederOK
      <4>3. CASE at[s] = 1
        <5>1. d = Definitions[1] /\ spc'[s] = "findPerm" /\ at'[s] = 2
          BY <3>5, <4>3
        <5>2. \A i \in 1..(at'[s] - 1) : i = 1
          BY <5>1
        <5>3. \A i \in 1..(at'[s] - 1) : found'[s][Definitions[i]] # Unset
          BY <3>4, <4>1, <5>1, <5>2
        <5>4. \A q \in Seeders \ {s} : spc'[q] # "idle" => seededTogether'
          BY <1>2, <2>1, <3>5, SeedBasics
        <5> HIDE DEF d
        <5> QED BY <4>2, <5>1, <5>3, <5>4 DEF SeederOK
      <4>4. CASE at[s] = 2
        <5>1. d = Definitions[2] /\ spc'[s] = "findRole"
          BY <3>5, <4>4
        <5>2. found[s][Definitions[1]] # Unset
          <6>1. 1 \in 1..(at[s] - 1)
            BY <4>4
          <6> QED BY <1>1, <2>1, <6>1 DEF SeederOK
        <5>3. \A e \in Defs : found'[s][e] # Unset
          BY <3>4, <4>1, <5>1, <5>2, Lists
        <5>4. \A q \in Seeders \ {s} : spc'[q] # "idle" => seededTogether'
          BY <1>2, <2>1, <3>5, SeedBasics
        <5> HIDE DEF d
        <5> QED BY <4>2, <5>1, <5>3, <5>4 DEF SeederOK
      <4> QED BY <1>1, <4>3, <4>4
    <3>7. \A q \in Seeders \ {s} : at'[q] = at[q]
      BY <3>5, SeedBasics
    <3> HIDE DEF d
    <3> QED BY <1>2, <2>1, <3>3, <3>4, <3>5, <3>6, <3>7, PlaceStep
  <2>4. CASE ~ \E p \in PermIds : permDef[p] = d
    <3>1. spc' = [spc EXCEPT ![s] = "savePerm"] /\ UNCHANGED <<at, found>>
      BY <1>4, <2>4 DEF GetPermission
    <3>2. /\ spc'[s] = "savePerm" /\ \A w \in Writers \ {s} : spc'[w] = spc[w]
          /\ spc' \in [Writers -> {"idle", "findPerm", "savePerm", "findRole", "saveRole", "add"}]
      BY <1>1, <3>1 DEF SeedStateOK
    <3>3. SeederOK(s)'
      <4>1. permDef' = permDef /\ at'[s] = at[s] /\ found' = found
        BY <2>1, <3>1 DEF rows
      <4>2. \A p \in PermIds : permDef'[p] # Definitions[at'[s]]
        BY <2>4, <4>1
      <4>3. \A q \in Seeders \ {s} : spc'[q] # "idle" => seededTogether'
        BY <1>2, <2>1, <3>2, SeedBasics
      <4> QED BY <1>1, <2>1, <3>2, <4>1, <4>2, <4>3 DEF SeederOK
    <3>4. at' \in [Writers -> 1..2] /\ found' \in [Seeders -> [Defs -> PermIds \cup {Unset}]]
      BY <1>1, <3>1 DEF SeedStateOK
    <3> QED BY <1>2, <2>1, <3>1, <3>2, <3>3, <3>4, PlaceStep
  <2> QED BY <2>3, <2>4
<1>5. CASE RoleExists(s) \/ RoleMissing(s)
  <2>1. /\ spc[s] = "findRole" /\ UNCHANGED <<rows, found, task, todo, torn, byHand, seededTogether>>
        /\ \/ /\ spc' = [spc EXCEPT ![s] = NextRole(s)]
              /\ at' = [at EXCEPT ![s] = IF at[s] < 2 THEN at[s] + 1 ELSE 1]
           \/ spc' = [spc EXCEPT ![s] = "saveRole"] /\ at' = at
    <3>1. CASE RoleExists(s)
      BY <3>1, Lists DEF RoleExists, Advance, seedHistory
    <3>2. CASE RoleMissing(s)
      BY <3>2 DEF RoleMissing, seedHistory
    <3> QED BY <1>5, <3>1, <3>2
  <2>2. /\ spc'[s] \in {"findRole", "saveRole", "idle"} /\ at' \in [Writers -> 1..2]
        /\ \A w \in Writers \ {s} : spc'[w] = spc[w] /\ at'[w] = at[w]
        /\ spc' \in [Writers -> {"idle", "findPerm", "savePerm", "findRole", "saveRole", "add"}]
    <3>1. NextRole(s) \in {"findRole", "idle"}
      BY DEF NextRole
    <3>2. at' = [at EXCEPT ![s] = at'[s]] /\ at'[s] \in 1..2
      BY <1>1, <2>1 DEF SeedStateOK
    <3>3. /\ \E pc \in {"findRole", "saveRole", "idle"} : spc' = [spc EXCEPT ![s] = pc]
      BY <2>1, <3>1
    <3> QED BY <1>1, <3>2, <3>3 DEF SeedStateOK
  <2>3. SeederOK(s)'
    <3>1. \A q \in Seeders \ {s} : spc'[q] # "idle" => seededTogether'
      BY <1>2, <2>1, <2>2, SeedBasics
    <3>2. permDef' = permDef /\ found' = found
      BY <2>1 DEF rows
    <3> QED BY <1>1, <2>1, <2>2, <3>1, <3>2 DEF SeederOK
  <2>4. found' \in [Seeders -> [Defs -> PermIds \cup {Unset}]]
    BY <1>1, <2>1 DEF SeedStateOK
  <2>5. \A q \in Seeders \ {s} : found'[q] = found[q] /\ at'[q] = at[q]
    BY <2>1, <2>2, SeedBasics
  <2> QED BY <1>2, <2>1, <2>2, <2>3, <2>4, <2>5, PlaceStep
<1> QED BY <1>3, <1>4, <1>5

\* A new row of a definition: the roles keep what they had.
LEMMA NewRowStep ==
  ASSUME SeedInv, NEW p \in PermIds, NEW d \in Defs, permDef[p] = Unset,
         permDef' = [permDef EXCEPT ![p] = d],
         UNCHANGED <<roleName, system, holds, task, todo, torn>>
  PROVE  /\ permDef' \in [PermIds -> Defs \cup {Unset}]
         /\ \A q \in PermIds : q # p => permDef'[q] = permDef[q]
         /\ permDef'[p] = d /\ d # Unset
         /\ \A q \in PermIds : permDef[q] # Unset => permDef'[q] = permDef[q] /\ q # p
         /\ \A r \in RoleIds : RoleOK(r)'
         /\ \A w \in Writers : (spc[w] = "add" <=> spc'[w] = "add")
              /\ (w \in Creators => spc'[w] = spc[w]) => WriterOK(w)'
<1>1. SeedStateOK /\ d # Unset
  BY SeedBasics DEF SeedInv
<1>2. /\ permDef' \in [PermIds -> Defs \cup {Unset}] /\ permDef'[p] = d
      /\ \A q \in PermIds : q # p => permDef'[q] = permDef[q]
  BY <1>1 DEF SeedStateOK
<1>3. \A q \in PermIds : permDef[q] # Unset => permDef'[q] = permDef[q] /\ q # p
  BY <1>2
<1>4. \A r \in RoleIds : RoleOK(r)'
  <2> SUFFICES ASSUME NEW r \in RoleIds PROVE RoleOK(r)'
    OBVIOUS
  <2>1. RoleOK(r) /\ holds[r] \subseteq PermIds
    BY <1>1 DEF SeedInv, SeedStateOK
  <2>2. \A q \in holds[r] : permDef'[q] = permDef[q] /\ permDef[q] # Unset
    BY <1>3, <2>1 DEF RoleOK
  <2>3. Granted(r)' = Granted(r)
    BY <2>2 DEF Granted
  <2>4. Writing(r)' <=> Writing(r)
    BY DEF Writing
  <2> QED BY <2>1, <2>2, <2>3, <2>4 DEF RoleOK
<1>5. ASSUME NEW w \in Writers, spc[w] = "add" <=> spc'[w] = "add",
             w \in Creators => spc'[w] = spc[w]
      PROVE  WriterOK(w)'
  <2>1. WriterOK(w) /\ todo[w] \in Seq(PermIds) /\ task[w] \in RoleIds \cup {Unset}
    BY <1>1 DEF SeedInv, SeedStateOK
  <2>2. Elements(todo[w]) \subseteq PermIds
    BY <2>1 DEF Elements
  <2>3. \A q \in Elements(todo[w]) : permDef'[q] = permDef[q] /\ permDef[q] # Unset
    BY <1>3, <2>1, <2>2 DEF WriterOK
  <2>4. task[w] # Unset => \A q \in holds[task[w]] : permDef'[q] = permDef[q]
    BY <1>1, <1>3, <2>1 DEF SeedInv, SeedStateOK, RoleOK
  <2>5. task[w] # Unset => {permDef'[q] : q \in holds[task[w]] \cup Elements(todo[w])}
                             = {permDef[q] : q \in holds[task[w]] \cup Elements(todo[w])}
    BY <2>3, <2>4
  <2> QED BY <1>5, <2>1, <2>3, <2>5 DEF WriterOK
<1> QED BY <1>1, <1>2, <1>3, <1>4, <1>5

LEMMA SavePermissionStep ==
  ASSUME SeedInv, NEW s \in Seeders, NEW p \in PermIds, SavePermission(s, p) PROVE SeedInv'
<1> DEFINE d == Definitions[at[s]]
<1>1. /\ SeedStateOK /\ SeederOK(s) /\ s \in Writers /\ at[s] \in 1..2 /\ d \in Defs
      /\ found[s] \in [Defs -> PermIds \cup {Unset}] /\ p # Unset
  BY SeedBasics, Lists DEF SeedInv, SeedStateOK
<1>2. /\ spc[s] = "savePerm" /\ permDef[p] = Unset /\ permDef' = [permDef EXCEPT ![p] = d]
      /\ found' = [found EXCEPT ![s][d] = p]
      /\ spc' = [spc EXCEPT ![s] = NextPerm(s)]
      /\ at' = [at EXCEPT ![s] = IF at[s] < 2 THEN at[s] + 1 ELSE 1]
      /\ UNCHANGED <<roleName, system, holds, task, todo, torn, byHand, seededTogether>>
  BY Lists DEF SavePermission, Advance, seedHistory
<1>3. /\ found'[s] = [found[s] EXCEPT ![d] = p]
      /\ \A q \in Seeders \ {s} : found'[q] = found[q]
  BY <1>1, <1>2 DEF SeedStateOK
<1>4. /\ found' \in [Seeders -> [Defs -> PermIds \cup {Unset}]]
      /\ found'[s][d] = p /\ \A e \in Defs : e # d => found'[s][e] = found[s][e]
  BY <1>1, <1>2, <1>3 DEF SeedStateOK
<1>5. /\ spc'[s] = IF at[s] = 1 THEN "findPerm" ELSE "findRole"
      /\ at'[s] = IF at[s] = 1 THEN 2 ELSE 1
      /\ \A w \in Writers \ {s} : spc'[w] = spc[w] /\ at'[w] = at[w]
      /\ spc' \in [Writers -> {"idle", "findPerm", "savePerm", "findRole", "saveRole", "add"}]
      /\ at' \in [Writers -> 1..2]
  BY <1>1, <1>2, Lists DEF SeedStateOK, NextPerm
<1>6. /\ permDef' \in [PermIds -> Defs \cup {Unset}]
      /\ \A q \in PermIds : q # p => permDef'[q] = permDef[q]
      /\ permDef'[p] = d /\ d # Unset
      /\ \A q \in PermIds : permDef[q] # Unset => permDef'[q] = permDef[q] /\ q # p
      /\ \A r \in RoleIds : RoleOK(r)'
      /\ \A w \in Writers : (spc[w] = "add" <=> spc'[w] = "add")
           /\ (w \in Creators => spc'[w] = spc[w]) => WriterOK(w)'
  <2> HIDE DEF d
  <2> QED BY <1>1, <1>2, NewRowStep
<1>7. \A w \in Writers : WriterOK(w)'
  <2>1. \A w \in Writers : (spc[w] = "add" <=> spc'[w] = "add")
           /\ (w \in Creators => spc'[w] = spc[w])
    BY <1>2, <1>5, SeedBasics
  <2> QED BY <1>6, <2>1
<1>8. SeederOK(s)'
  <2>1. \A e \in Defs : found'[s][e] # Unset => permDef'[found'[s][e]] = e
    <3> SUFFICES ASSUME NEW e \in Defs, found'[s][e] # Unset PROVE permDef'[found'[s][e]] = e
      OBVIOUS
    <3>1. CASE e = d
      BY <1>4, <1>6, <3>1
    <3>2. CASE e # d
      <4>1. found'[s][e] = found[s][e] /\ permDef[found[s][e]] = e /\ found[s][e] \in PermIds
        BY <1>1, <1>4, <3>2 DEF SeederOK
      <4>2. e # Unset
        BY SeedBasics
      <4> QED BY <1>6, <4>1, <4>2
    <3> QED BY <3>1, <3>2
  <2>2. \A q \in Seeders \ {s} : spc'[q] # "idle" => seededTogether'
    BY <1>1, <1>2, <1>5, SeedBasics DEF SeederOK
  <2>3. CASE at[s] = 1
    <3>1. d = Definitions[1] /\ spc'[s] = "findPerm" /\ at'[s] = 2
      BY <1>5, <2>3
    <3>2. \A i \in 1..(at'[s] - 1) : i = 1
      BY <3>1
    <3>3. \A i \in 1..(at'[s] - 1) : found'[s][Definitions[i]] # Unset
      BY <1>1, <1>4, <3>1, <3>2
    <3> HIDE DEF d
    <3> QED BY <2>1, <2>2, <3>1, <3>3 DEF SeederOK
  <2>4. CASE at[s] = 2
    <3>1. d = Definitions[2] /\ spc'[s] = "findRole"
      BY <1>5, <2>4
    <3>2. found[s][Definitions[1]] # Unset
      <4>1. 1 \in 1..(at[s] - 1)
        BY <2>4
      <4> QED BY <1>1, <1>2, <4>1 DEF SeederOK
    <3>3. \A e \in Defs : found'[s][e] # Unset
      BY <1>1, <1>4, <3>1, <3>2, Lists
    <3> HIDE DEF d
    <3> QED BY <2>1, <2>2, <3>1, <3>3 DEF SeederOK
  <2> QED BY <1>1, <2>3, <2>4
<1> HIDE DEF d
<1>9. ASSUME NEW q \in Seeders, q # s PROVE SeederOK(q)'
  <2>1. SeederOK(q) /\ spc'[q] = spc[q] /\ found'[q] = found[q] /\ at'[q] = at[q]
    BY <1>3, <1>5, <1>9, SeedBasics DEF SeedInv
  <2>2. \A e \in Defs : found'[q][e] # Unset => permDef'[found'[q][e]] = e
    <3> SUFFICES ASSUME NEW e \in Defs, found[q][e] # Unset PROVE permDef'[found[q][e]] = e
      BY <2>1
    <3>1. permDef[found[q][e]] = e /\ found[q][e] \in PermIds /\ e # Unset
      BY <1>1, <2>1, SeedBasics DEF SeederOK, SeedStateOK
    <3> QED BY <1>6, <3>1
  <2>3. spc[q] # "idle" => seededTogether'
    BY <1>1, <1>2, <1>9 DEF SeederOK
  <2>4. \A v \in Seeders \ {q} : spc'[v] # "idle" /\ spc'[q] # "idle" => seededTogether'
    BY <2>1, <2>3
  <2> QED BY <2>1, <2>2, <2>3, <2>4 DEF SeederOK
<1>10. DuplicatePermissionsExplained'
  <2> SUFFICES ASSUME NEW a \in PermIds, NEW b \in PermIds, a # b, permDef'[a] = permDef'[b],
                      permDef'[a] # Unset
               PROVE  seededTogether' \/ permDef'[a] \in byHand'
    BY DEF DuplicatePermissionsExplained
  <2>1. \A q \in PermIds : permDef[q] = d => seededTogether \/ permDef[q] \in byHand
    BY <1>1, <1>2 DEF SeederOK, d
  <2>2. CASE a = p \/ b = p
    <3>1. PICK q \in PermIds : q # p /\ permDef'[q] = d /\ permDef[q] = d
      BY <1>6, <2>2
    <3>2. permDef'[a] = d
      BY <1>6, <2>2
    <3> QED BY <1>2, <2>1, <3>1, <3>2
  <2>3. CASE a # p /\ b # p
    <3>1. permDef'[a] = permDef[a] /\ permDef'[b] = permDef[b]
      BY <1>6, <2>3
    <3> QED BY <1>2, <3>1 DEF SeedInv, DuplicatePermissionsExplained
  <2> QED BY <2>2, <2>3
<1>11. SeedStateOK'
  BY <1>1, <1>2, <1>4, <1>5, <1>6 DEF SeedStateOK
<1> QED BY <1>6, <1>7, <1>8, <1>9, <1>10, <1>11 DEF SeedInv

LEMMA CreatePermissionStep ==
  ASSUME SeedInv, NEW c \in Creators, NEW p \in PermIds, NEW d \in Defs,
         CreatePermission(c, p, d)
  PROVE  SeedInv'
<1>1. SeedStateOK
  BY DEF SeedInv
<1>2. /\ permDef[p] = Unset /\ permDef' = [permDef EXCEPT ![p] = d]
      /\ byHand' = byHand \cup {d}
      /\ UNCHANGED <<roleName, system, holds, spc, at, found, task, todo, torn, seededTogether>>
  BY DEF CreatePermission
<1>3. /\ permDef' \in [PermIds -> Defs \cup {Unset}]
      /\ \A q \in PermIds : q # p => permDef'[q] = permDef[q]
      /\ permDef'[p] = d /\ d # Unset
      /\ \A q \in PermIds : permDef[q] # Unset => permDef'[q] = permDef[q] /\ q # p
      /\ \A r \in RoleIds : RoleOK(r)'
      /\ \A w \in Writers : (spc[w] = "add" <=> spc'[w] = "add")
           /\ (w \in Creators => spc'[w] = spc[w]) => WriterOK(w)'
  BY <1>2, NewRowStep
<1>4. \A w \in Writers : WriterOK(w)'
  BY <1>2, <1>3
<1>5. ASSUME NEW q \in Seeders PROVE SeederOK(q)'
  <2>1. SeederOK(q)
    BY DEF SeedInv
  <2>2. \A e \in Defs : found'[q][e] # Unset => permDef'[found'[q][e]] = e
    <3> SUFFICES ASSUME NEW e \in Defs, found[q][e] # Unset PROVE permDef'[found[q][e]] = e
      BY <1>2
    <3>1. permDef[found[q][e]] = e /\ found[q][e] \in PermIds /\ e # Unset
      BY <1>1, <2>1, SeedBasics DEF SeederOK, SeedStateOK
    <3> QED BY <1>3, <3>1
  <2>3. \A a \in PermIds : permDef'[a] = permDef[a] \/ permDef'[a] \in byHand'
    BY <1>2, <1>3
  <2>4. spc'[q] = "savePerm" => \A a \in PermIds :
           permDef'[a] = Definitions[at'[q]] => seededTogether' \/ permDef'[a] \in byHand'
    BY <1>2, <2>1, <2>3 DEF SeederOK
  <2> QED BY <1>2, <2>1, <2>2, <2>4 DEF SeederOK
<1>6. DuplicatePermissionsExplained'
  <2> SUFFICES ASSUME NEW a \in PermIds, NEW b \in PermIds, a # b, permDef'[a] = permDef'[b],
                      permDef'[a] # Unset
               PROVE  seededTogether' \/ permDef'[a] \in byHand'
    BY DEF DuplicatePermissionsExplained
  <2>1. CASE a = p \/ b = p
    BY <1>2, <1>3, <2>1
  <2>2. CASE a # p /\ b # p
    <3>1. permDef'[a] = permDef[a] /\ permDef'[b] = permDef[b]
      BY <1>3, <2>2
    <3> QED BY <1>2, <3>1 DEF SeedInv, DuplicatePermissionsExplained
  <2> QED BY <2>1, <2>2
<1>7. SeedStateOK'
  BY <1>1, <1>2, <1>3 DEF SeedStateOK
<1> QED BY <1>3, <1>4, <1>5, <1>6, <1>7 DEF SeedInv

\* What a step that writes roles leaves of the permissions.
LEMMA SeedersUndisturbed ==
  ASSUME SeedInv, UNCHANGED <<permDef, found, byHand, seededTogether>>,
         \A q \in Seeders : \/ spc'[q] = spc[q] /\ at'[q] = at[q]
                            \/ spc'[q] = "idle"
                            \/ /\ spc[q] \in {"saveRole", "add"}
                               /\ spc'[q] \in {"findRole", "add"}
  PROVE  (\A q \in Seeders : SeederOK(q)') /\ DuplicatePermissionsExplained'
<1>1. DuplicatePermissionsExplained'
  BY DEF SeedInv, DuplicatePermissionsExplained
<1>2. ASSUME NEW q \in Seeders PROVE SeederOK(q)'
  <2>1. SeederOK(q)
    BY DEF SeedInv
  <2>2. \A v \in Seeders : spc'[v] # "idle" => spc[v] # "idle"
    OBVIOUS
  <2>3. \A v \in Seeders \ {q} : spc'[v] # "idle" /\ spc'[q] # "idle" => seededTogether'
    BY <2>1, <2>2 DEF SeederOK
  <2>4. CASE spc'[q] = spc[q] /\ at'[q] = at[q]
    BY <2>1, <2>3, <2>4 DEF SeederOK
  <2>5. CASE spc'[q] = "idle"
    BY <2>1, <2>3, <2>5 DEF SeederOK
  <2>6. CASE spc[q] \in {"saveRole", "add"} /\ spc'[q] \in {"findRole", "add"}
    BY <2>1, <2>3, <2>6 DEF SeederOK
  <2> QED BY <2>4, <2>5, <2>6
<1> QED BY <1>1, <1>2

\* What a seeder adds to a role that it has saved.
LEMMA AssociationsGrant ==
  ASSUME SeedInv, NEW s \in Seeders, spc[s] = "saveRole", NEW name \in Names
  PROVE  /\ Associations(s, name) \in Seq(PermIds)
         /\ {permDef[p] : p \in Elements(Associations(s, name))} = Elements(RoleGrants(name))
         /\ \A p \in Elements(Associations(s, name)) : permDef[p] # Unset
<1>1. \A d \in Defs : found[s][d] \in PermIds /\ permDef[found[s][d]] = d /\ d # Unset
  BY SeedBasics DEF SeedInv, SeedStateOK, SeederOK
<1>2. PICK d \in Defs : RoleGrants(name) = <<d>>
  BY Lists
<1>3. /\ Len(RoleGrants(name)) = 1 /\ DOMAIN RoleGrants(name) = 1..1 /\ RoleGrants(name)[1] = d
      /\ Elements(RoleGrants(name)) = {d}
  BY <1>2 DEF Elements
<1>4. Ids(s, RoleGrants(name)) = [i \in 1..1 |-> found[s][d]]
  BY <1>3 DEF Ids
<1>5. PICK e \in PermIds : e = found[s][d]
  BY <1>1
<1>6. Ids(s, RoleGrants(name)) = <<e>>
  BY <1>4, <1>5
<1>7. PICK both : both = <<e>> \o <<e>> /\ Associations(s, name) = both
  BY <1>6 DEF Associations
<1>8. both \in Seq(PermIds) /\ Elements(both) = {e}
  <2>1. both \in Seq(PermIds) /\ Len(both) = 2
    BY <1>7
  <2>2. both[1] = e /\ both[2] = e
    BY <1>7
  <2>3. DOMAIN both = 1..2
    BY <2>1
  <2> QED BY <2>1, <2>2, <2>3 DEF Elements
<1> QED BY <1>1, <1>3, <1>5, <1>7, <1>8

LEMMA SaveRoleStep ==
  ASSUME SeedInv, NEW s \in Seeders, NEW r \in RoleIds, SaveRole(s, r) PROVE SeedInv'
<1> DEFINE name == SystemRoles[at[s]]
<1>1. /\ SeedStateOK /\ WriterOK(s) /\ s \in Writers /\ s \notin Creators /\ at[s] \in 1..2
      /\ name \in Names
  BY SeedBasics, Lists DEF SeedInv, SeedStateOK
<1>2. spc[s] = "saveRole" /\ roleName[r] = Unset /\ UNCHANGED <<found, torn, seededTogether, byHand>>
  BY DEF SaveRole, seedHistory
<1>3. task[s] = Unset /\ todo[s] = <<>>
  BY <1>1, <1>2 DEF WriterOK
<1>4. CASE \E q \in RoleIds : roleName[q] = name
  <2>1. /\ spc' = [spc EXCEPT ![s] = "idle"] /\ at' = [at EXCEPT ![s] = 1]
        /\ UNCHANGED <<rows, task, todo>>
    BY <1>4 DEF SaveRole
  <2>2. /\ spc'[s] = "idle" /\ \A w \in Writers \ {s} : spc'[w] = spc[w] /\ at'[w] = at[w]
        /\ spc' \in [Writers -> {"idle", "findPerm", "savePerm", "findRole", "saveRole", "add"}]
        /\ at' \in [Writers -> 1..2]
    BY <1>1, <2>1 DEF SeedStateOK
  <2>3. (\A q \in Seeders : SeederOK(q)') /\ DuplicatePermissionsExplained'
    BY <1>2, <2>1, <2>2, SeedersUndisturbed, SeedBasics DEF rows
  <2>4. \A q \in Seeders \ {s} : found'[q] = found[q] /\ at'[q] = at[q]
    BY <1>2, <2>2, SeedBasics
  <2>5. found' \in [Seeders -> [Defs -> PermIds \cup {Unset}]]
    BY <1>1, <1>2 DEF SeedStateOK
  <2> QED BY <1>2, <2>1, <2>2, <2>3, <2>4, <2>5, PlaceStep
<1>5. CASE ~ \E q \in RoleIds : roleName[q] = name
  <2>1. /\ roleName' = [roleName EXCEPT ![r] = name] /\ system' = system \cup {r}
        /\ task' = [task EXCEPT ![s] = r] /\ todo' = [todo EXCEPT ![s] = Associations(s, name)]
        /\ spc' = [spc EXCEPT ![s] = "add"] /\ UNCHANGED <<permDef, holds, at>>
    BY <1>5 DEF SaveRole
  <2> HIDE DEF name
  <2>2. PICK ids \in Seq(PermIds) :
          /\ ids = Associations(s, name)
          /\ {permDef[p] : p \in Elements(ids)} = Elements(RoleGrants(name))
          /\ \A p \in Elements(ids) : permDef[p] # Unset
    BY <1>1, <1>2, AssociationsGrant
  <2>3. /\ spc'[s] = "add" /\ task'[s] = r /\ todo'[s] = ids /\ roleName'[r] = name
        /\ \A w \in Writers \ {s} : spc'[w] = spc[w] /\ task'[w] = task[w] /\ todo'[w] = todo[w]
        /\ \A q \in RoleIds \ {r} : roleName'[q] = roleName[q]
    BY <1>1, <2>1, <2>2 DEF SeedStateOK
  <2>4. SeedStateOK'
    BY <1>1, <1>2, <2>1, <2>2 DEF SeedStateOK
  <2>5. r \notin system /\ holds[r] = {} /\ r # Unset /\ name # Unset
        /\ \A w \in Writers : task[w] # r
    BY <1>1, <1>2, SeedBasics DEF SeedInv, RoleOK, WriterOK
  <2>6. ASSUME NEW q \in RoleIds PROVE RoleOK(q)'
    <3>1. CASE q = r
      <4>1. Writing(r)'
        BY <1>1, <2>3 DEF Writing
      <4> QED BY <2>1, <2>3, <2>5, <3>1, <4>1 DEF RoleOK
    <3>2. CASE q # r
      <4>1. RoleOK(q) /\ roleName'[q] = roleName[q] /\ (q \in system' <=> q \in system)
        BY <2>1, <2>3, <3>2 DEF SeedInv
      <4>2. Granted(q)' = Granted(q)
        BY <2>1 DEF Granted
      <4>3. Writing(q) => Writing(q)'
        BY <1>3, <2>3, SeedBasics DEF Writing
      <4> QED BY <1>2, <2>1, <4>1, <4>2, <4>3 DEF RoleOK
    <3> QED BY <3>1, <3>2
  <2>7. ASSUME NEW w \in Writers PROVE WriterOK(w)'
    <3>1. CASE w = s
      <4>1. holds'[r] \cup Elements(todo'[s]) = Elements(ids)
        BY <2>1, <2>3, <2>5
      <4>2. {permDef'[p] : p \in holds'[r] \cup Elements(todo'[s])}
              = {permDef[p] : p \in Elements(ids)}
        BY <2>1, <4>1
      <4>3. \A v \in Writers : task'[v] = r => v = s
        BY <2>3, <2>5
      <4>4. task'[s] = r /\ roleName'[r] = name /\ r \in system' /\ permDef' = permDef
        BY <2>1, <2>3
      <4>5. {permDef'[p] : p \in holds'[task'[s]] \cup Elements(todo'[s])}
              = Elements(RoleGrants(roleName'[task'[s]]))
        BY <2>2, <4>2, <4>4
      <4> QED BY <1>1, <2>2, <2>3, <2>5, <3>1, <4>3, <4>4, <4>5 DEF WriterOK
    <3>2. CASE w # s
      <4>1. WriterOK(w) /\ spc'[w] = spc[w] /\ task'[w] = task[w] /\ todo'[w] = todo[w]
            /\ task[w] # r
        BY <2>3, <2>5, <3>2 DEF SeedInv
      <4>2. task[w] # Unset => roleName'[task[w]] = roleName[task[w]]
        BY <1>1, <2>3, <4>1 DEF SeedStateOK
      <4>3. task[w] \in system' <=> task[w] \in system
        BY <2>1, <4>1
      <4>4. \A v \in Writers : task[w] # Unset /\ task'[v] = task[w] => v = w
        BY <2>3, <4>1 DEF WriterOK
      <4> QED BY <2>1, <4>1, <4>2, <4>3, <4>4 DEF WriterOK
    <3> QED BY <3>1, <3>2
  <2>8. (\A q \in Seeders : SeederOK(q)') /\ DuplicatePermissionsExplained'
    BY <1>2, <2>1, <2>3, SeedersUndisturbed, SeedBasics
  <2> QED BY <2>4, <2>6, <2>7, <2>8 DEF SeedInv
<1> QED BY <1>4, <1>5

LEMMA AddPermissionStep ==
  ASSUME SeedInv, NEW w \in Writers, AddPermission(w) PROVE SeedInv'
<1>1. /\ spc[w] = "add" /\ todo[w] # <<>>
      /\ holds' = [holds EXCEPT ![task[w]] = @ \cup {Head(todo[w])}]
      /\ todo' = [todo EXCEPT ![w] = Tail(@)]
      /\ UNCHANGED <<permDef, roleName, system, spc, at, found, task, torn, seededTogether, byHand>>
  BY DEF AddPermission, seedHistory
<1>2. SeedStateOK /\ WriterOK(w) /\ task[w] # Unset
  BY <1>1 DEF SeedInv, WriterOK
<1>3. PICK r \in RoleIds : r = task[w]
  BY <1>2 DEF SeedStateOK
<1>4. PICK p \in PermIds, rest \in Seq(PermIds) :
        /\ p = Head(todo[w]) /\ rest = Tail(todo[w])
        /\ Elements(todo[w]) = {p} \cup Elements(rest)
  <2>1. todo[w] \in Seq(PermIds)
    BY <1>2 DEF SeedStateOK
  <2>2. /\ Head(todo[w]) \in PermIds /\ Tail(todo[w]) \in Seq(PermIds)
        /\ Elements(todo[w]) = {Head(todo[w])} \cup Elements(Tail(todo[w]))
    BY <1>1, <2>1, ElementsOfTail
  <2> QED BY <2>2
<1>5. /\ holds'[r] = holds[r] \cup {p} /\ \A q \in RoleIds \ {r} : holds'[q] = holds[q]
      /\ todo'[w] = rest /\ \A v \in Writers \ {w} : todo'[v] = todo[v]
      /\ holds' \in [RoleIds -> SUBSET PermIds] /\ todo' \in [Writers -> Seq(PermIds)]
  BY <1>1, <1>2, <1>3, <1>4 DEF SeedStateOK
<1>6. SeedStateOK'
  BY <1>1, <1>2, <1>5 DEF SeedStateOK
<1>7. permDef[p] # Unset
  BY <1>2, <1>4 DEF WriterOK
<1>8. ASSUME NEW q \in RoleIds PROVE RoleOK(q)'
  <2>1. RoleOK(q)
    BY DEF SeedInv
  <2>2. Writing(q)' <=> Writing(q)
    BY <1>1 DEF Writing
  <2>3. CASE q = r
    <3>1. Writing(r)' /\ roleName[r] # Unset
      <4>1. Writing(r) /\ roleName[r] # Unset
        BY <1>2, <1>3 DEF Writing, WriterOK
      <4> QED BY <2>2, <2>3, <4>1
    <3> QED BY <1>1, <1>5, <1>7, <2>1, <2>3, <3>1 DEF RoleOK
  <2>4. CASE q # r
    <3>1. Granted(q)' = Granted(q)
      BY <1>1, <1>5, <2>4 DEF Granted
    <3> QED BY <1>1, <1>5, <2>1, <2>2, <2>4, <3>1 DEF RoleOK
  <2> QED BY <2>3, <2>4
<1>9. ASSUME NEW v \in Writers PROVE WriterOK(v)'
  <2>1. CASE v = w
    <3>1. holds'[r] \cup Elements(todo'[w]) = holds[r] \cup Elements(todo[w])
      BY <1>4, <1>5
    <3>2. task'[w] = r /\ permDef' = permDef /\ UNCHANGED <<spc, task, roleName, system>>
      BY <1>1, <1>3
    <3>3. {permDef'[q] : q \in holds'[task'[w]] \cup Elements(todo'[w])}
            = {permDef[q] : q \in holds[task[w]] \cup Elements(todo[w])}
      BY <1>3, <3>1, <3>2
    <3>4. \A q \in Elements(todo'[w]) : permDef[q] # Unset
      BY <1>2, <1>4, <1>5 DEF WriterOK
    <3> QED BY <1>2, <2>1, <3>2, <3>3, <3>4 DEF WriterOK
  <2>2. CASE v # w
    <3>1. WriterOK(v) /\ task[v] # r /\ todo'[v] = todo[v]
      BY <1>2, <1>3, <1>5, <2>2 DEF SeedInv, WriterOK
    <3>2. task[v] # Unset => holds'[task[v]] = holds[task[v]]
      BY <1>2, <1>5, <3>1 DEF SeedStateOK
    <3> QED BY <1>1, <3>1, <3>2 DEF WriterOK
  <2> QED BY <2>1, <2>2
<1>10. (\A q \in Seeders : SeederOK(q)') /\ DuplicatePermissionsExplained'
  BY <1>1, SeedersUndisturbed
<1> QED BY <1>6, <1>8, <1>9, <1>10 DEF SeedInv

\* A writer leaves its role, complete or torn.
LEMMA LeavingStep ==
  ASSUME SeedInv, NEW w \in Writers, RoleWritten(w) \/ Breaks(w) PROVE SeedInv'
<1>1. SeedStateOK /\ WriterOK(w) /\ at[w] \in 1..2
  BY DEF SeedInv, SeedStateOK
<1>2. /\ task' = [task EXCEPT ![w] = Unset] /\ todo' = [todo EXCEPT ![w] = <<>>]
      /\ torn' = IF todo[w] # <<>> THEN torn \cup {task[w]} ELSE torn
      /\ UNCHANGED <<permDef, roleName, system, holds, found, seededTogether, byHand>>
  <2>1. CASE RoleWritten(w)
    <3>1. todo[w] = <<>> /\ task' = [task EXCEPT ![w] = Unset] /\ todo' = todo /\ torn' = torn
          /\ UNCHANGED <<permDef, roleName, system, holds, found, seededTogether, byHand>>
      BY <2>1 DEF RoleWritten, rows, seedHistory
    <3>2. todo = [todo EXCEPT ![w] = <<>>]
      BY <1>1, <3>1 DEF SeedStateOK
    <3> QED BY <3>1, <3>2
  <2>2. CASE Breaks(w)
    BY <2>2 DEF Breaks, rows
  <2> QED BY <2>1, <2>2
<1>3. \E pc \in {"findRole", "idle"}, i \in 1..2 :
        /\ spc' = [spc EXCEPT ![w] = pc] /\ at' = [at EXCEPT ![w] = i]
        /\ w \in Seeders \/ pc = "idle"
        /\ pc = "findRole" => spc[w] = "add"
  <2>1. CASE RoleWritten(w) /\ w \in Seeders
    <3>1. /\ spc[w] = "add" /\ spc' = [spc EXCEPT ![w] = NextRole(w)]
          /\ at' = [at EXCEPT ![w] = IF at[w] < 2 THEN at[w] + 1 ELSE 1]
      BY <2>1, Lists DEF RoleWritten, Advance
    <3>2. NextRole(w) \in {"findRole", "idle"} /\ (IF at[w] < 2 THEN at[w] + 1 ELSE 1) \in 1..2
      BY <1>1 DEF NextRole
    <3> QED BY <2>1, <3>1, <3>2
  <2>2. CASE RoleWritten(w) /\ w \notin Seeders
    <3>1. spc' = [spc EXCEPT ![w] = "idle"] /\ at' = at
      BY <2>2 DEF RoleWritten
    <3>2. at = [at EXCEPT ![w] = at[w]]
      BY <1>1 DEF SeedStateOK
    <3> QED BY <1>1, <3>1, <3>2
  <2>3. CASE Breaks(w)
    <3>1. spc' = [spc EXCEPT ![w] = "idle"] /\ at' = [at EXCEPT ![w] = 1]
      BY <2>3 DEF Breaks
    <3> QED BY <3>1
  <2> QED BY <2>1, <2>2, <2>3
<1>4. PICK pc \in {"findRole", "idle"}, i \in 1..2 :
        /\ spc' = [spc EXCEPT ![w] = pc] /\ at' = [at EXCEPT ![w] = i]
        /\ w \in Seeders \/ pc = "idle"
        /\ pc = "findRole" => spc[w] = "add"
  BY <1>3
<1>5. /\ spc'[w] = pc /\ task'[w] = Unset /\ todo'[w] = <<>>
      /\ \A v \in Writers \ {w} : /\ spc'[v] = spc[v] /\ at'[v] = at[v]
                                  /\ task'[v] = task[v] /\ todo'[v] = todo[v]
  BY <1>1, <1>2, <1>4 DEF SeedStateOK
<1>6. task[w] = Unset => todo[w] = <<>>
  BY <1>1 DEF WriterOK
<1>7. SeedStateOK'
  <2>1. torn' \in SUBSET RoleIds
    BY <1>1, <1>2, <1>6 DEF SeedStateOK
  <2>2. <<>> \in Seq(PermIds)
    OBVIOUS
  <2>3. spc' \in [Writers -> {"idle", "findPerm", "savePerm", "findRole", "saveRole", "add"}]
        /\ at' \in [Writers -> 1..2]
    BY <1>1, <1>4 DEF SeedStateOK
  <2>4. task' \in [Writers -> RoleIds \cup {Unset}] /\ todo' \in [Writers -> Seq(PermIds)]
    BY <1>1, <1>2, <2>2 DEF SeedStateOK
  <2> QED BY <1>1, <1>2, <2>1, <2>3, <2>4 DEF SeedStateOK
<1>8. ASSUME NEW q \in RoleIds PROVE RoleOK(q)'
  <2>1. RoleOK(q) /\ Granted(q)' = Granted(q)
    BY <1>2 DEF SeedInv, Granted
  <2>2. CASE task[w] = q
    <3>1. q # Unset
      BY SeedBasics
    <3>2. q \in system /\ q \notin torn' => Granted(q) = Elements(RoleGrants(roleName[q]))
      <4>1. SUFFICES ASSUME q \in system, q \notin torn'
                     PROVE  Granted(q) = Elements(RoleGrants(roleName[q]))
        OBVIOUS
      <4>2. todo[w] = <<>> /\ w \in Seeders
        BY <1>1, <1>2, <2>2, <4>1, SeedBasics DEF WriterOK
      <4>3. Elements(todo[w]) = {}
        BY <4>2 DEF Elements
      <4>4. {permDef[p] : p \in holds[q] \cup Elements(todo[w])} = Elements(RoleGrants(roleName[q]))
        BY <1>1, <2>2, <3>1, <4>2 DEF WriterOK
      <4>5. holds[q] \cup Elements(todo[w]) = holds[q]
        BY <4>3
      <4> QED BY <4>4, <4>5 DEF Granted
    <3> QED BY <1>2, <2>1, <3>2 DEF RoleOK
  <2>3. CASE task[w] # q
    <3>1. Writing(q) => Writing(q)'
      BY <1>5, <2>3 DEF Writing
    <3> QED BY <1>2, <2>1, <3>1 DEF RoleOK
  <2> QED BY <2>2, <2>3
<1>9. ASSUME NEW v \in Writers PROVE WriterOK(v)'
  <2>1. CASE v = w
    <3>1. Elements(<<>>) = {}
      BY DEF Elements
    <3>2. Unset \notin system
      BY <1>1, SeedBasics DEF SeedStateOK
    <3> QED BY <1>2, <1>4, <1>5, <2>1, <3>1, <3>2, SeedBasics DEF WriterOK
  <2>2. CASE v # w
    <3>1. WriterOK(v)
      BY DEF SeedInv
    <3>2. \A u \in Writers : task[v] # Unset /\ task'[u] = task[v] => u = v
      BY <1>5, <3>1 DEF WriterOK
    <3> QED BY <1>2, <1>5, <2>2, <3>1, <3>2 DEF WriterOK
  <2> QED BY <2>1, <2>2
<1>10. (\A q \in Seeders : SeederOK(q)') /\ DuplicatePermissionsExplained'
  <2>1. \A q \in Seeders : \/ spc'[q] = spc[q] /\ at'[q] = at[q]
                           \/ spc'[q] = "idle"
                           \/ spc[q] = "add" /\ spc'[q] = "findRole"
    BY <1>4, <1>5, SeedBasics
  <2> QED BY <1>2, <2>1, SeedersUndisturbed
<1> QED BY <1>7, <1>8, <1>9, <1>10 DEF SeedInv

LEMMA CreateRoleStep ==
  ASSUME SeedInv, NEW c \in Creators, NEW r \in RoleIds, NEW name \in Names,
         NEW ps \in {<<>>} \cup {<<p>> : p \in PermIds}, Stored(ps), CreateRole(c, r, name, ps)
  PROVE  SeedInv'
<1>1. /\ spc[c] = "idle" /\ roleName[r] = Unset
      /\ roleName' = [roleName EXCEPT ![r] = name] /\ task' = [task EXCEPT ![c] = r]
      /\ todo' = [todo EXCEPT ![c] = ps] /\ spc' = [spc EXCEPT ![c] = "add"]
      /\ UNCHANGED <<permDef, system, holds, at, found, torn, seededTogether, byHand>>
  BY DEF CreateRole, seedHistory
<1>2. /\ SeedStateOK /\ WriterOK(c) /\ RoleOK(r) /\ c \in Writers /\ c \notin Seeders
      /\ r # Unset /\ name # Unset /\ ps \in Seq(PermIds)
  <2>1. ps \in Seq(PermIds)
    <3>1. CASE ps = <<>>
      BY <3>1
    <3>2. ASSUME NEW p \in PermIds, ps = <<p>> PROVE ps \in Seq(PermIds)
      BY <3>2
    <3> QED BY <3>1, <3>2
  <2> QED BY <2>1, SeedBasics DEF SeedInv
<1>3. r \notin system /\ task[c] = Unset /\ \A v \in Writers : task[v] # r
  BY <1>1, <1>2 DEF SeedInv, RoleOK, WriterOK
<1>4. /\ spc'[c] = "add" /\ task'[c] = r /\ todo'[c] = ps /\ roleName'[r] = name
      /\ \A v \in Writers \ {c} : spc'[v] = spc[v] /\ task'[v] = task[v] /\ todo'[v] = todo[v]
      /\ \A q \in RoleIds \ {r} : roleName'[q] = roleName[q]
  BY <1>1, <1>2 DEF SeedStateOK
<1>5. SeedStateOK'
  BY <1>1, <1>2 DEF SeedStateOK
<1>6. ASSUME NEW q \in RoleIds PROVE RoleOK(q)'
  <2>1. RoleOK(q) /\ Granted(q)' = Granted(q)
    BY <1>1 DEF SeedInv, Granted
  <2>2. Writing(q) => Writing(q)'
    BY <1>3, <1>4, SeedBasics DEF Writing
  <2>3. CASE q = r
    BY <1>1, <1>2, <1>3, <1>4, <2>1, <2>3 DEF RoleOK
  <2>4. CASE q # r
    BY <1>1, <1>4, <2>1, <2>2, <2>4 DEF RoleOK
  <2> QED BY <2>3, <2>4
<1>7. ASSUME NEW v \in Writers PROVE WriterOK(v)'
  <2>1. CASE v = c
    <3>1. \A u \in Writers : task'[u] = r => u = c
      BY <1>3, <1>4
    <3>2. \A p \in Elements(ps) : permDef[p] # Unset
      BY DEF Stored
    <3> QED BY <1>1, <1>2, <1>3, <1>4, <2>1, <3>1, <3>2 DEF WriterOK
  <2>2. CASE v # c
    <3>1. WriterOK(v) /\ task[v] # r
      BY <1>3 DEF SeedInv
    <3>2. task[v] # Unset => roleName'[task[v]] = roleName[task[v]]
      BY <1>2, <1>4, <3>1 DEF SeedStateOK
    <3>3. \A u \in Writers : task[v] # Unset /\ task'[u] = task[v] => u = v
      BY <1>4, <3>1 DEF WriterOK
    <3> QED BY <1>1, <1>4, <2>2, <3>1, <3>2, <3>3 DEF WriterOK
  <2> QED BY <2>1, <2>2
<1>8. (\A q \in Seeders : SeederOK(q)') /\ DuplicatePermissionsExplained'
  <2>1. \A q \in Seeders : spc'[q] = spc[q] /\ at'[q] = at[q]
    BY <1>1, <1>2, <1>4, SeedBasics
  <2> QED BY <1>1, <2>1, SeedersUndisturbed
<1> QED BY <1>5, <1>6, <1>7, <1>8 DEF SeedInv

LEMMA DeleteRoleStep ==
  ASSUME SeedInv, NEW r \in RoleIds, DeleteRole(r) PROVE SeedInv'
<1>1. /\ roleName[r] # Unset /\ r \notin system
      /\ roleName' = [roleName EXCEPT ![r] = Unset] /\ holds' = [holds EXCEPT ![r] = {}]
      /\ UNCHANGED <<permDef, system, at, found, torn, seededTogether, byHand>>
  BY DEF DeleteRole, seedHistory
<1>2. SeedStateOK /\ r # Unset
  BY SeedBasics DEF SeedInv
<1>3. \A w \in Writers :
        /\ spc'[w] = IF task[w] = r THEN "idle" ELSE spc[w]
        /\ todo'[w] = IF task[w] = r THEN <<>> ELSE todo[w]
        /\ task'[w] = IF task[w] = r THEN Unset ELSE task[w]
  BY DEF DeleteRole
<1>4. /\ roleName'[r] = Unset /\ holds'[r] = {}
      /\ \A q \in RoleIds \ {r} : roleName'[q] = roleName[q] /\ holds'[q] = holds[q]
  BY <1>1, <1>2 DEF SeedStateOK
<1>5. SeedStateOK'
  <2>1. /\ spc' \in [Writers -> {"idle", "findPerm", "savePerm", "findRole", "saveRole", "add"}]
        /\ task' \in [Writers -> RoleIds \cup {Unset}]
    BY <1>2 DEF SeedStateOK, DeleteRole
  <2>2. \A w \in Writers : (IF task[w] = r THEN <<>> ELSE todo[w]) \in Seq(PermIds)
    BY <1>2 DEF SeedStateOK
  <2>3. todo' = [w \in Writers |-> IF task[w] = r THEN <<>> ELSE todo[w]]
    BY DEF DeleteRole
  <2>4. todo' \in [Writers -> Seq(PermIds)]
    BY <2>2, <2>3
  <2> QED BY <1>1, <1>2, <2>1, <2>4 DEF SeedStateOK
<1>6. ASSUME NEW q \in RoleIds PROVE RoleOK(q)'
  <2>1. RoleOK(q)
    BY DEF SeedInv
  <2>2. CASE q = r
    BY <1>1, <1>4, <2>2 DEF RoleOK
  <2>3. CASE q # r
    <3>1. Granted(q)' = Granted(q)
      BY <1>1, <1>4, <2>3 DEF Granted
    <3>2. Writing(q) => Writing(q)'
      BY <1>3, <2>3 DEF Writing
    <3> QED BY <1>1, <1>4, <2>1, <2>3, <3>1, <3>2 DEF RoleOK
  <2> QED BY <2>2, <2>3
<1>7. ASSUME NEW v \in Writers PROVE WriterOK(v)'
  <2>1. WriterOK(v) /\ Unset \notin system
    BY <1>2, SeedBasics DEF SeedInv, SeedStateOK
  <2>2. CASE task[v] = r
    <3>1. Elements(<<>>) = {}
      BY DEF Elements
    <3>2. spc'[v] = "idle" /\ todo'[v] = <<>> /\ task'[v] = Unset
      BY <1>3, <2>2
    <3> QED BY <1>1, <2>1, <3>1, <3>2 DEF WriterOK
  <2>3. CASE task[v] # r
    <3>1. spc'[v] = spc[v] /\ todo'[v] = todo[v] /\ task'[v] = task[v]
      BY <1>3, <2>3
    <3>2. task[v] # Unset => roleName'[task[v]] = roleName[task[v]] /\ holds'[task[v]] = holds[task[v]]
      BY <1>2, <1>4, <2>3 DEF SeedStateOK
    <3>3. \A u \in Writers : task[v] # Unset /\ task'[u] = task[v] => u = v
      BY <1>3, <2>1 DEF WriterOK
    <3> QED BY <1>1, <2>1, <3>1, <3>2, <3>3 DEF WriterOK
  <2> QED BY <2>2, <2>3
<1>8. (\A q \in Seeders : SeederOK(q)') /\ DuplicatePermissionsExplained'
  <2>1. \A q \in Seeders : (spc'[q] = spc[q] /\ at'[q] = at[q]) \/ spc'[q] = "idle"
    BY <1>1, <1>3, SeedBasics
  <2> QED BY <1>1, <2>1, SeedersUndisturbed
<1> QED BY <1>5, <1>6, <1>7, <1>8 DEF SeedInv

LEMMA SeedStep == SeedInv /\ [SeedNext]_seedVars => SeedInv'
<1> SUFFICES ASSUME SeedInv, [SeedNext]_seedVars PROVE SeedInv'
  OBVIOUS
<1>1. CASE UNCHANGED seedVars
  <2>1. UNCHANGED <<permDef, roleName, system, holds, spc, at, found, task, todo, torn,
                    seededTogether, byHand>>
    BY <1>1 DEF seedVars
  <2>2. SeedStateOK' /\ \A w \in Writers : WriterOK(w)'
    <3>1. SeedStateOK'
      BY <2>1 DEF SeedInv, SeedStateOK
    <3>2. \A w \in Writers : WriterOK(w)'
      BY <2>1 DEF SeedInv, WriterOK
    <3> QED BY <3>1, <3>2
  <2>3. \A r \in RoleIds : (Granted(r)' = Granted(r)) /\ (Writing(r)' <=> Writing(r))
    BY <2>1 DEF Granted, Writing
  <2>4. \A r \in RoleIds : RoleOK(r)'
    BY <2>1, <2>3 DEF SeedInv, RoleOK
  <2>5. (\A q \in Seeders : SeederOK(q)') /\ DuplicatePermissionsExplained'
    BY <2>1, SeedersUndisturbed
  <2> QED BY <2>2, <2>4, <2>5 DEF SeedInv
<1>2. ASSUME SeedNext PROVE SeedInv'
  BY <1>2, LookingStep, SavePermissionStep, SaveRoleStep, AddPermissionStep, LeavingStep,
     CreateRoleStep, DeleteRoleStep, CreatePermissionStep DEF SeedNext
<1> QED BY <1>1, <1>2

\* However many instances seed at once beside however many administrators, and
\* wherever they break off: a system role that nobody writes holds exactly what
\* its definition lists or was torn, and a second row of a permission comes from
\* an overlap or from createPermission (initializeSystemRoles).
THEOREM SeedingIsExplained == SeedSpec => []SeedingExplained
<1>1. SeedInit => SeedInv
  <2> SUFFICES ASSUME SeedInit PROVE SeedInv
    OBVIOUS
  <2>1. SeedStateOK
    BY DEF SeedInit, SeedStateOK
  <2>2. \A r \in RoleIds : RoleOK(r)
    BY <2>1 DEF SeedInit, RoleOK
  <2>3. \A w \in Writers : WriterOK(w)
    <3>1. Elements(<<>>) = {}
      BY DEF Elements
    <3> QED BY <3>1 DEF SeedInit, WriterOK
  <2>4. \A s \in Seeders : SeederOK(s)
    BY DEF SeedInit, SeederOK, Writers
  <2>5. DuplicatePermissionsExplained
    BY DEF SeedInit, DuplicatePermissionsExplained
  <2> QED BY <2>1, <2>2, <2>3, <2>4, <2>5 DEF SeedInv
<1>2. SeedInv => SeedingExplained
  BY DEF SeedInv, RoleOK, SeedStateOK, SeedingExplained, SystemRolesComplete
<1> QED BY <1>1, <1>2, SeedStep, PTL DEF SeedSpec

-----------------------------------------------------------------------------
(***************************************************************************)
(* Tokens.  A token of a stored session was signed before the session      *)
(* ended, unless a refresh had read the session before that; and the end   *)
(* of a session is noted once.                                             *)
(***************************************************************************)

TokenRecord == [kind : TokenKinds, sid : Sids \cup {NoToken}, iat : TokenTimes, late : BOOLEAN]

\* What a token says of its session: one of a stored session was signed before
\* the session ended, unless a refresh had read the session before that.
InTime(t) ==
    /\ t.iat <= time
    /\ t.kind \in MailKinds => t.sid = NoToken
    /\ t.kind \in SessionKinds => t.sid \in Sids
    /\ t.kind \in SessionKinds /\ ~ t.late /\ t.sid \in LoginSessions => t.iat <= goneAt[t.sid]

\* A session that has not ended.
Lasting(s) == stored[s] \in {"live", "revoked"} /\ time <= until[s]

EndsNoted ==
    /\ goneAt \in [Sids -> Int]
    /\ \A s \in LoginSessions : stored[s] = "none" \/ Lasting(s) => goneAt[s] = NotYet
    /\ \A r \in Refreshes :
         holding[r] \in LoginSessions /\ r \notin readBefore => Lasting(holding[r])
    /\ stored[Unstored] = "none"

ChainInv == TokenTypeOK /\ (\A t \in tokens : InTime(t)) /\ EndsNoted

LEMMA LivesArePositive == \A k \in TokenKinds : Life(k) \in Nat \ {0}
BY TokenAssumption DEF TokenKinds, SessionKinds, MailKinds, Life

\* Half seconds and seconds.
LEMMA HalfSeconds ==
  ASSUME NEW t \in Nat PROVE Second(t) \in Nat /\ 2 * Second(t) <= t /\ t <= 2 * Second(t) + 1
BY DEF Second

\* The tokens after a step that signs new ones for the session sid.
LEMMA SignedTokens ==
  ASSUME ChainInv, NEW kinds \in SUBSET TokenKinds, NEW sid \in Sids \cup {NoToken},
         NEW late \in BOOLEAN,
         tokens' = tokens \cup Signed(kinds, sid, late), UNCHANGED <<time, goneAt>>,
         sid \in Sids <=> kinds \cap SessionKinds # {},
         sid = NoToken <=> kinds \cap MailKinds # {},
         ~ late /\ sid \in LoginSessions => time <= goneAt[sid]
  PROVE  tokens' \subseteq TokenRecord /\ \A t \in tokens' : InTime(t)'
<1>1. time \in TokenTimes /\ time \in Nat /\ tokens \subseteq TokenRecord
  BY TokenAssumption DEF ChainInv, TokenTypeOK, TokenTimes, TokenRecord
<1>2. ASSUME NEW k \in kinds
      PROVE  /\ [kind |-> k, sid |-> sid, iat |-> time, late |-> late] \in TokenRecord
             /\ k \in MailKinds => sid = NoToken
             /\ k \in SessionKinds => sid \in Sids
  BY <1>1 DEF TokenRecord
<1>3. \A t \in Signed(kinds, sid, late) : t \in TokenRecord /\ InTime(t)
  BY <1>1, <1>2 DEF Signed, InTime
<1>4. \A t \in tokens' : t \in TokenRecord /\ InTime(t)
  BY <1>1, <1>3 DEF ChainInv
<1> QED BY <1>4 DEF InTime

LEMMA ChainStep == ChainInv /\ [TokenNext]_tokenVars => ChainInv'
<1> SUFFICES ASSUME ChainInv, [TokenNext]_tokenVars PROVE ChainInv'
  OBVIOUS
<1> USE TokenAssumption
<1>1. /\ time \in Nat /\ time <= MaxTokenTime /\ tokens \subseteq TokenRecord
      /\ stored \in [Sids -> {"none", "live", "revoked", "gone"}]
      /\ until \in [Sids -> 0..(MaxTokenTime + 2 * SessionLife)]
      /\ holding \in [Refreshes -> Sids \cup {NoToken}]
      /\ readBefore \in SUBSET Refreshes
      /\ goneAt \in [Sids -> Int] /\ NotYet \in Nat /\ MaxTokenTime \in Nat /\ SessionLife \in Nat
      /\ NotYet > MaxTokenTime /\ NotYet > time
      /\ LoginSessions \subseteq Sids /\ NoToken \notin Sids /\ Unstored \in Sids
  BY DEF ChainInv, TokenTypeOK, TokenTimes, TokenRecord, EndsNoted, NotYet, Sids
<1>2. \A s \in LoginSessions : stored[s] = "none" \/ Lasting(s) => time <= goneAt[s]
  BY <1>1 DEF ChainInv, EndsNoted
<1>3. NotYet' = NotYet
  BY DEF NotYet
<1>4. ASSUME NEW s \in LoginSessions, Login(s) PROVE ChainInv'
  <2>1. /\ stored[s] = "none" /\ stored' = [stored EXCEPT ![s] = "live"]
        /\ until' = [until EXCEPT ![s] = time + 2 * SessionLife]
        /\ UNCHANGED <<time, holding, readBefore, goneAt>>
    BY <1>4 DEF Login
  <2>2. tokens' \subseteq TokenRecord /\ \A t \in tokens' : InTime(t)'
    <3>1. /\ tokens' = tokens \cup Signed(SessionKinds, s, FALSE)
          /\ SessionKinds \in SUBSET TokenKinds /\ SessionKinds \cap MailKinds = {}
          /\ SessionKinds \cap SessionKinds # {} /\ FALSE \in BOOLEAN
          /\ s \in Sids /\ s # NoToken
      BY <1>1, <1>4 DEF Login, GenerateTokens, SessionKinds, TokenKinds, MailKinds
    <3>2. time <= goneAt[s]
      BY <1>2, <2>1
    <3> QED BY <2>1, <3>1, <3>2, SignedTokens
  <2>3. time + 2 * SessionLife \in 0..(MaxTokenTime + 2 * SessionLife)
    BY <1>1
  <2>4. TokenTypeOK'
    BY <1>1, <2>1, <2>2, <2>3 DEF ChainInv, TokenTypeOK, TokenRecord
  <2>5. \A q \in LoginSessions : q # s => stored'[q] = stored[q] /\ until'[q] = until[q]
    BY <1>1, <2>1
  <2>6. EndsNoted'
    <3>1. \A q \in LoginSessions : stored'[q] = "none" \/ Lasting(q)' => goneAt'[q] = NotYet
      BY <1>1, <2>1, <2>5 DEF ChainInv, EndsNoted, Lasting
    <3>2. stored'[Unstored] = "none"
      BY <1>1, <2>1 DEF ChainInv, EndsNoted
    <3>3. ASSUME NEW r \in Refreshes, holding[r] \in LoginSessions, r \notin readBefore
          PROVE  Lasting(holding[r])'
      <4>1. Lasting(holding[r]) /\ holding[r] # s
        BY <2>1, <3>3 DEF ChainInv, EndsNoted, Lasting
      <4> QED BY <2>1, <2>5, <3>3, <4>1 DEF Lasting
    <3> QED BY <1>1, <1>3, <2>1, <3>1, <3>2, <3>3 DEF EndsNoted
  <2> QED BY <2>2, <2>4, <2>6 DEF ChainInv
<1>5. CASE Register \/ \E k \in MailKinds : GenerateMailToken(k)
  <2>1. /\ UNCHANGED <<time, stored, until, holding, readBefore, goneAt>>
        /\ \/ tokens' = tokens \cup Signed(SessionKinds, Unstored, FALSE)
           \/ \E k \in MailKinds : tokens' = tokens \cup Signed({k}, NoToken, FALSE)
    BY <1>5 DEF Register, GenerateMailToken, GenerateTokens
  <2>2. tokens' \subseteq TokenRecord /\ \A t \in tokens' : InTime(t)'
    <3>1. CASE tokens' = tokens \cup Signed(SessionKinds, Unstored, FALSE)
      <4>1. /\ SessionKinds \in SUBSET TokenKinds /\ SessionKinds \cap MailKinds = {}
            /\ SessionKinds \cap SessionKinds # {} /\ FALSE \in BOOLEAN
            /\ Unstored # NoToken /\ Unstored \notin LoginSessions
        BY <1>1 DEF SessionKinds, TokenKinds, MailKinds
      <4> QED BY <1>1, <2>1, <3>1, <4>1, SignedTokens
    <3>2. ASSUME NEW k \in MailKinds, tokens' = tokens \cup Signed({k}, NoToken, FALSE)
          PROVE  tokens' \subseteq TokenRecord /\ \A t \in tokens' : InTime(t)'
      <4>1. /\ {k} \in SUBSET TokenKinds /\ {k} \cap SessionKinds = {}
            /\ {k} \cap MailKinds # {} /\ FALSE \in BOOLEAN
            /\ NoToken \notin LoginSessions
        BY <1>1 DEF SessionKinds, TokenKinds, MailKinds
      <4> QED BY <1>1, <2>1, <3>2, <4>1, SignedTokens
    <3> QED BY <2>1, <3>1, <3>2
  <2>3. TokenTypeOK' /\ EndsNoted'
    BY <1>1, <1>3, <2>1, <2>2 DEF ChainInv, TokenTypeOK, TokenRecord, EndsNoted, Lasting
  <2> QED BY <2>2, <2>3 DEF ChainInv
<1>6. ASSUME NEW s \in LoginSessions, Revoke(s) PROVE ChainInv'
  <2>1. /\ stored[s] = "live" /\ stored' = [stored EXCEPT ![s] = "revoked"]
        /\ UNCHANGED <<time, tokens, until, holding, readBefore, goneAt>>
    BY <1>6 DEF Revoke
  <2>2. \A q \in Sids : q # s => stored'[q] = stored[q]
    BY <1>1, <2>1
  <2>3. stored'[s] = "revoked"
    BY <1>1, <2>1
  <2>4. \A q \in LoginSessions : Lasting(q)' <=> Lasting(q)
    BY <1>1, <2>1, <2>2, <2>3 DEF Lasting
  <2>5. TokenTypeOK' /\ \A t \in tokens' : InTime(t)'
    BY <1>1, <2>1 DEF ChainInv, TokenTypeOK, InTime
  <2>6. EndsNoted'
    BY <1>1, <1>3, <2>1, <2>2, <2>3, <2>4 DEF ChainInv, EndsNoted
  <2> QED BY <2>5, <2>6 DEF ChainInv
<1>7. ASSUME NEW s \in LoginSessions, Delete(s) PROVE ChainInv'
  <2>1. /\ stored' = [stored EXCEPT ![s] = "gone"]
        /\ goneAt' = [goneAt EXCEPT ![s] = IF goneAt[s] < time THEN goneAt[s] ELSE time]
        /\ readBefore' = readBefore \cup {r \in Refreshes : holding[r] = s}
        /\ UNCHANGED <<time, tokens, until, holding>>
    BY <1>7 DEF Delete, EndSession
  <2>2. \A q \in Sids : q # s => stored'[q] = stored[q] /\ goneAt'[q] = goneAt[q]
    BY <1>1, <2>1
  <2>3. /\ stored'[s] = "gone" /\ goneAt' \in [Sids -> Int]
        /\ goneAt'[s] = IF goneAt[s] < time THEN goneAt[s] ELSE time
    BY <1>1, <2>1
  <2>4. \A q \in LoginSessions : q # s => (Lasting(q)' <=> Lasting(q))
    BY <1>1, <2>1, <2>2 DEF Lasting
  <2>5. TokenTypeOK'
    BY <1>1, <2>1 DEF ChainInv, TokenTypeOK
  <2>6. ASSUME NEW t \in tokens' PROVE InTime(t)'
    <3>1. t \in TokenRecord /\ InTime(t) /\ t.iat \in Nat
      BY <1>1, <2>1 DEF ChainInv, TokenRecord, TokenTimes
    <3>2. CASE t.sid = s
      BY <1>1, <2>1, <2>3, <3>1, <3>2 DEF InTime
    <3>3. CASE t.sid # s
      BY <1>1, <2>1, <2>2, <3>1, <3>3 DEF InTime
    <3> QED BY <3>2, <3>3
  <2>7. EndsNoted'
    <3>1. ASSUME NEW q \in LoginSessions, stored'[q] = "none" \/ Lasting(q)'
          PROVE  goneAt'[q] = NotYet
      <4>1. q # s
        BY <2>3, <3>1 DEF Lasting
      <4>2. stored[q] = "none" \/ Lasting(q)
        BY <1>1, <2>2, <2>4, <3>1, <4>1
      <4> QED BY <1>1, <2>2, <4>1, <4>2 DEF ChainInv, EndsNoted
    <3>2. ASSUME NEW r \in Refreshes, holding[r] \in LoginSessions, r \notin readBefore'
          PROVE  Lasting(holding[r])'
      BY <2>1, <2>4, <3>2 DEF ChainInv, EndsNoted
    <3>3. stored'[Unstored] = "none"
      BY <1>1, <2>2 DEF ChainInv, EndsNoted
    <3> QED BY <1>3, <2>1, <2>3, <3>1, <3>2, <3>3 DEF EndsNoted
  <2> QED BY <2>5, <2>6, <2>7 DEF ChainInv
<1>8. CASE Tick
  <2> DEFINE ending == {s \in LoginSessions :
                          stored[s] \in {"live", "revoked"} /\ until[s] = time}
  <2>1. /\ time < MaxTokenTime /\ time' = time + 1
        /\ goneAt' = [s \in Sids |-> IF s \in ending THEN time ELSE goneAt[s]]
        /\ readBefore' = readBefore \cup {r \in Refreshes : holding[r] \in ending}
        /\ UNCHANGED <<tokens, stored, until, holding>>
    BY <1>8 DEF Tick
  <2>2. /\ goneAt' \in [Sids -> Int] /\ time' \in TokenTimes
        /\ \A s \in Sids : goneAt'[s] = IF s \in ending THEN time ELSE goneAt[s]
    BY <1>1, <2>1 DEF TokenTimes
  <2>3. TokenTypeOK'
    BY <1>1, <2>1, <2>2 DEF ChainInv, TokenTypeOK
  <2>4. ASSUME NEW t \in tokens' PROVE InTime(t)'
    <3>1. t \in TokenRecord /\ InTime(t) /\ t.iat \in Nat
      BY <1>1, <2>1 DEF ChainInv, TokenRecord, TokenTimes
    <3> QED BY <1>1, <2>1, <2>2, <3>1 DEF InTime
  <2>5. \A s \in LoginSessions : Lasting(s)' => Lasting(s) /\ s \notin ending
    BY <1>1, <2>1 DEF Lasting
  <2>6. \A s \in LoginSessions : Lasting(s) /\ s \notin ending => Lasting(s)'
    <3>1. \A s \in LoginSessions : until[s] \in Nat
      BY <1>1
    <3> QED BY <1>1, <2>1, <3>1 DEF Lasting
  <2>7. EndsNoted'
    <3>1. ASSUME NEW q \in LoginSessions, stored'[q] = "none" \/ Lasting(q)'
          PROVE  goneAt'[q] = NotYet
      <4>1. q \notin ending /\ (stored[q] = "none" \/ Lasting(q))
        BY <2>1, <2>5, <3>1
      <4> QED BY <1>1, <2>2, <4>1 DEF ChainInv, EndsNoted
    <3>2. ASSUME NEW r \in Refreshes, holding[r] \in LoginSessions, r \notin readBefore'
          PROVE  Lasting(holding[r])'
      <4>1. r \notin readBefore /\ holding[r] \notin ending
        BY <2>1, <3>2
      <4>2. Lasting(holding[r])
        BY <3>2, <4>1 DEF ChainInv, EndsNoted
      <4>3. holding' = holding
        BY <2>1
      <4> HIDE DEF ending
      <4> QED BY <2>6, <3>2, <4>1, <4>2, <4>3
    <3> HIDE DEF ending
    <3> QED BY <1>3, <2>1, <2>2, <3>1, <3>2 DEF ChainInv, EndsNoted
  <2> QED BY <2>3, <2>4, <2>7 DEF ChainInv
<1>9. ASSUME NEW r \in Refreshes, NEW t \in tokens, FindSession(r, t) PROVE ChainInv'
  <2>1. /\ stored[t.sid] \in {"live", "revoked"} /\ ~ Expired(t.sid) /\ t.sid # NoToken
        /\ holding' = [holding EXCEPT ![r] = t.sid]
        /\ UNCHANGED <<time, tokens, stored, until, readBefore, goneAt>>
    BY <1>9 DEF FindSession, VerifiedByService
  <2>2. t.sid \in Sids
    BY <1>1, <2>1 DEF TokenRecord
  <2>3. t.sid \in LoginSessions => Lasting(t.sid)
    BY <1>1, <2>1, <2>2 DEF Lasting, Expired
  <2>4. TokenTypeOK' /\ \A q \in tokens' : InTime(q)'
    BY <1>1, <2>1, <2>2 DEF ChainInv, TokenTypeOK, InTime
  <2>5. \A q \in Refreshes : holding'[q] = IF q = r THEN t.sid ELSE holding[q]
    BY <1>1, <2>1
  <2>6. EndsNoted'
    BY <1>1, <1>3, <2>1, <2>3, <2>5 DEF ChainInv, EndsNoted, Lasting
  <2> QED BY <2>4, <2>6 DEF ChainInv
<1>10. ASSUME NEW r \in Refreshes, RefreshTokens(r) \/ RefreshFails(r) PROVE ChainInv'
  <2>1. /\ holding[r] # NoToken /\ holding' = [holding EXCEPT ![r] = NoToken]
        /\ readBefore' = readBefore \ {r}
        /\ UNCHANGED <<time, stored, until, goneAt>>
        /\ \/ tokens' = tokens \cup Signed(SessionKinds, holding[r], r \in readBefore)
           \/ tokens' = tokens
    BY <1>10 DEF RefreshTokens, RefreshFails, GenerateTokens
  <2>2. tokens' \subseteq TokenRecord /\ \A t \in tokens' : InTime(t)'
    <3>1. CASE tokens' = tokens
      BY <1>1, <2>1, <3>1 DEF ChainInv, InTime
    <3>2. CASE tokens' = tokens \cup Signed(SessionKinds, holding[r], r \in readBefore)
      <4>1. /\ SessionKinds \in SUBSET TokenKinds /\ SessionKinds \cap MailKinds = {}
            /\ SessionKinds \cap SessionKinds # {} /\ (r \in readBefore) \in BOOLEAN
            /\ holding[r] \in Sids
        BY <1>1, <2>1 DEF SessionKinds, TokenKinds, MailKinds
      <4>2. ~ (r \in readBefore) /\ holding[r] \in LoginSessions => time <= goneAt[holding[r]]
        BY <1>2 DEF ChainInv, EndsNoted
      <4> QED BY <1>1, <2>1, <3>2, <4>1, <4>2, SignedTokens
    <3> QED BY <2>1, <3>1, <3>2
  <2>3. TokenTypeOK'
    BY <1>1, <2>1, <2>2 DEF ChainInv, TokenTypeOK, TokenRecord
  <2>4. \A q \in Refreshes : holding'[q] = IF q = r THEN NoToken ELSE holding[q]
    BY <1>1, <2>1
  <2>5. EndsNoted'
    BY <1>1, <1>3, <2>1, <2>4 DEF ChainInv, EndsNoted, Lasting
  <2> QED BY <2>2, <2>3, <2>5 DEF ChainInv
<1>11. CASE UNCHANGED tokenVars
  BY <1>11 DEF tokenVars, ChainInv, TokenTypeOK, InTime, EndsNoted, Lasting, NotYet
<1> QED BY <1>4, <1>5, <1>6, <1>7, <1>8, <1>9, <1>10, <1>11 DEF TokenNext

\* Whatever is logged in, refreshed, revoked and deleted while time passes: the
\* verifiers agree on the kind and the end of every token, and no chain of
\* refreshes outlives its session (JwtService, refreshTokens).
THEOREM TokensStayHonest == TokenSpec => []TokensHonest
<1>1. TokenInit => ChainInv
  <2> SUFFICES ASSUME TokenInit PROVE ChainInv
    OBVIOUS
  <2>1. Unstored \in Sids /\ LoginSessions \subseteq Sids /\ Unstored \notin LoginSessions
        /\ 0 \in TokenTimes /\ NotYet \in Int
    BY TokenAssumption DEF Sids, TokenTimes, NotYet
  <2>2. TokenTypeOK
    BY <2>1, TokenAssumption DEF TokenInit, TokenTypeOK
  <2>3. EndsNoted
    BY <2>1, TokenAssumption DEF TokenInit, EndsNoted, Lasting
  <2> QED BY <2>2, <2>3 DEF TokenInit, ChainInv
<1>2. ChainInv => TokensHonest
  <2> SUFFICES ASSUME ChainInv PROVE TokensHonest
    OBVIOUS
  <2>1. time \in Nat
    BY TokenAssumption DEF ChainInv, TokenTypeOK, TokenTimes
  <2>2. SUFFICES ASSUME NEW t \in tokens
                 PROVE  /\ Verified(t.kind, t) => time - t.iat < 2 * Life(t.kind)
                        /\ time - t.iat <= 2 * Life(t.kind) - 2 => Verified(t.kind, t)
                        /\ IsExpired(t) <=> ~ Verified(t.kind, t)
                        /\ AcceptedBySocket(t) <=> AcceptedByMiddleware(t)
                        /\ Verified("access", t) /\ ~ t.late /\ t.sid \in LoginSessions
                             => time - goneAt[t.sid] < 2 * AccessLife
    BY DEF TokensHonest, LifeIsKept, ExpiryAgrees, NoConfusion, SocketAgrees, ChainEnds, Verified
  <2>3. t.kind \in TokenKinds /\ t.sid \in Sids \cup {NoToken} /\ t.iat \in Nat
    BY TokenAssumption DEF ChainInv, TokenTypeOK, TokenTimes
  <2>4. PICK life \in Nat \ {0} : life = Life(t.kind)
    BY <2>3, LivesArePositive
  <2>5. Verified(t.kind, t) <=> Second(time) < Second(t.iat) + life
    BY <2>3, <2>4 DEF Verified, Exp, TokenKinds, SessionKinds, MailKinds, Audience
  <2>6. IsExpired(t) <=> time >= 2 * (Second(t.iat) + life)
    BY <2>4 DEF IsExpired, Exp
  <2>7. PICK current \in Nat, then \in Nat :
          /\ current = Second(time) /\ 2 * current <= time /\ time <= 2 * current + 1
          /\ then = Second(t.iat) /\ 2 * then <= t.iat /\ t.iat <= 2 * then + 1
    BY <2>1, <2>3, HalfSeconds
  <2>8. /\ Verified(t.kind, t) => time - t.iat < 2 * life
        /\ time - t.iat <= 2 * life - 2 => Verified(t.kind, t)
        /\ IsExpired(t) <=> ~ Verified(t.kind, t)
    BY <2>1, <2>3, <2>5, <2>6, <2>7
  <2>9. AcceptedBySocket(t) <=> AcceptedByMiddleware(t)
    <3>1. NoToken \notin Sids
      BY TokenAssumption DEF Sids
    <3>2. InTime(t)
      BY DEF ChainInv
    <3> QED BY <2>3, <3>1, <3>2
            DEF AcceptedBySocket, AcceptedByMiddleware, Verified, Secret, Audience, TokenKinds,
                SessionKinds, MailKinds, InTime
  <2>10. ASSUME Verified("access", t), ~ t.late, t.sid \in LoginSessions
         PROVE  time - goneAt[t.sid] < 2 * AccessLife
    <3>1. t.kind = "access" /\ life = AccessLife
      BY <2>4, <2>10 DEF Verified, Life
    <3>2. t.iat <= goneAt[t.sid] /\ goneAt[t.sid] \in Int
      BY <2>10, <3>1 DEF ChainInv, InTime, EndsNoted, SessionKinds, Sids
    <3>3. time - t.iat < 2 * AccessLife
      BY <2>8, <2>10, <3>1
    <3> QED BY <2>1, <2>3, <3>2, <3>3, TokenAssumption
  <2> QED BY <2>4, <2>8, <2>9, <2>10
<1> QED BY <1>1, <1>2, ChainStep, PTL DEF TokenSpec

-----------------------------------------------------------------------------
(***************************************************************************)
(* The WebSocket registry.  A walk misses a socket only behind one that it *)
(* removed; the other steps add or take out one socket in both maps.       *)
(***************************************************************************)

\* An array without its k-th element, place by place.
LEMMA RemovedAt ==
  ASSUME NEW S, NEW seq \in Seq(S), NEW k \in 1..Len(seq)
  PROVE  /\ RemoveAt(seq, k) \in Seq(S) /\ Len(RemoveAt(seq, k)) = Len(seq) - 1
         /\ \A i \in 1..(Len(seq) - 1) :
              RemoveAt(seq, k)[i] = seq[IF i < k THEN i ELSE i + 1]
<1>1. PICK n \in Nat : n = Len(seq) /\ k \in 1..n
  OBVIOUS
<1>2. PICK a, b : a = SubSeq(seq, 1, k - 1) /\ b = SubSeq(seq, k + 1, n)
  OBVIOUS
<1>3. a \in Seq(S) /\ Len(a) = k - 1 /\ \A i \in 1..(k - 1) : a[i] = seq[i]
  BY <1>1, <1>2
<1>4. b \in Seq(S) /\ Len(b) = n - k /\ \A i \in 1..(n - k) : b[i] = seq[k + i]
  BY <1>1, <1>2
<1>5. RemoveAt(seq, k) = a \o b
  BY <1>1, <1>2 DEF RemoveAt
<1>6. a \o b \in Seq(S) /\ Len(a \o b) = n - 1
  BY <1>1, <1>3, <1>4
<1>7. ASSUME NEW i \in 1..(n - 1) PROVE (a \o b)[i] = seq[IF i < k THEN i ELSE i + 1]
  <2>1. (a \o b)[i] = IF i <= k - 1 THEN a[i] ELSE b[i - (k - 1)]
    BY <1>1, <1>3, <1>4
  <2>2. CASE i < k
    BY <1>1, <1>3, <2>1, <2>2
  <2>3. CASE ~ i < k
    <3>1. i - (k - 1) \in 1..(n - k) /\ k + (i - (k - 1)) = i + 1
      BY <1>1, <2>3
    <3> QED BY <1>1, <1>4, <2>1, <2>3, <3>1
  <2> QED BY <2>2, <2>3
<1> QED BY <1>1, <1>5, <1>6, <1>7

\* RemoveFirst takes out one occurrence, if there is one.
LEMMA RemoveTakesOne ==
  ASSUME NEW S, NEW seq \in Seq(S), NEW e
  PROVE  \/ (\A i \in 1..Len(seq) : seq[i] # e) /\ RemoveFirst(seq, e) = seq
         \/ \E k \in 1..Len(seq) : seq[k] = e /\ RemoveFirst(seq, e) = RemoveAt(seq, k)
<1>1. CASE \A i \in 1..Len(seq) : seq[i] # e
  BY <1>1 DEF RemoveFirst
<1>2. CASE ~ \A i \in 1..Len(seq) : seq[i] # e
  <2> DEFINE I == {i \in 1..Len(seq) : seq[i] = e}
  <2>1. I # {} /\ I \in SUBSET Nat
    BY <1>2
  <2>2. SelectInSeq(seq, LAMBDA v : v = e) = Min(I)
    BY <2>1 DEF SelectInSeq
  <2>3. \E x \in I : \A y \in I : x <= y
    <3> HIDE DEF I
    <3> QED BY <2>1, LeastElement
  <2>4. Min(I) \in I
    BY <2>3 DEF Min
  <2>5. RemoveFirst(seq, e) = RemoveAt(seq, Min(I))
    BY <1>2, <2>2 DEF RemoveFirst
  <2> QED BY <2>4, <2>5
<1> QED BY <1>1, <1>2

\* Visits stay among the sockets S.
VisitsAmong(S, to, bad) ==
    \A p \in [list : Seq(S), got : SUBSET S] : \A i \in Nat \ {0} :
        SendNext(p, i, to, bad) \in [list : Seq(S), got : SUBSET S]

WalksAlong(v, S, list, to, bad) ==
    /\ v \in [Nat -> [list : Seq(S), got : SUBSET S]]
    /\ v[0] = [list |-> list, got |-> {}]
    /\ \A n \in Nat : v[n + 1] = SendNext(v[n], n + 1, to, bad)
    /\ Walk(list, to, bad) = v[Len(list)]

\* The walk follows the visits from place to place.
LEMMA WalkVisits ==
  ASSUME NEW S, NEW list \in Seq(S), NEW to, NEW bad, VisitsAmong(S, to, bad)
  PROVE  \E v : WalksAlong(v, S, list, to, bad)
<1> DEFINE P == [list : Seq(S), got : SUBSET S]
           start == [list |-> list, got |-> {}]
           Def(f) == f = [i \in Nat |-> IF i = 0 THEN start ELSE SendNext(f[i - 1], i, to, bad)]
           g == [n \in Nat |-> [p \in P |-> SendNext(p, n + 1, to, bad)]]
<1>1. Walk(list, to, bad) = (CHOOSE f : Def(f))[Len(list)]
  BY DEF Walk
<1>2. start \in P
  OBVIOUS
<1>3. Steps(P, g)
  <2> HIDE DEF P
  <2>1. ASSUME NEW n \in Nat, NEW p \in P PROVE SendNext(p, n + 1, to, bad) \in P
    <3>1. n + 1 \in Nat \ {0}
      OBVIOUS
    <3> QED BY <3>1 DEF P, VisitsAmong
  <2>2. \A n \in Nat : [p \in P |-> SendNext(p, n + 1, to, bad)] \in [P -> P]
    BY <2>1
  <2> QED BY <2>2 DEF Steps
<1>4. PICK f : Recurs(f, P, start, g)
  <2> HIDE DEF g, P, start
  <2> QED BY <1>2, <1>3, Recursion
<1> HIDE DEF P, start
<1>5. f \in [Nat -> P] /\ f[0] = start /\ \A n \in Nat : f[n + 1] = SendNext(f[n], n + 1, to, bad)
  BY <1>4 DEF Recurs
<1>6. Def(f)
  <2>1. \A i \in Nat : f[i] = IF i = 0 THEN start ELSE SendNext(f[i - 1], i, to, bad)
    <3> SUFFICES ASSUME NEW i \in Nat, i # 0 PROVE f[i] = SendNext(f[i - 1], i, to, bad)
      BY <1>5
    <3>1. i - 1 \in Nat /\ i = i - 1 + 1
      OBVIOUS
    <3> QED BY <1>5, <3>1
  <2> QED BY <1>5, <2>1
<1> DEFINE v == CHOOSE h : Def(h)
<1>7. Def(v)
  <2> HIDE DEF Def
  <2> QED BY <1>6
<1>8. v[0] = start /\ \A n \in Nat : v[n + 1] = SendNext(v[n], n + 1, to, bad)
  <2> HIDE DEF v
  <2>1. \A i \in Nat : v[i] = IF i = 0 THEN start ELSE SendNext(v[i - 1], i, to, bad)
    BY <1>7
  <2>2. ASSUME NEW n \in Nat PROVE v[n + 1] = SendNext(v[n], n + 1, to, bad)
    <3>1. n + 1 \in Nat /\ n + 1 # 0 /\ n + 1 - 1 = n
      OBVIOUS
    <3> QED BY <2>1, <3>1
  <2> QED BY <2>1, <2>2
<1>9. v \in [Nat -> P]
  <2> HIDE DEF v
  <2>1. DOMAIN v = Nat /\ v = [i \in Nat |-> v[i]]
    BY <1>7
  <2> DEFINE T == {n \in Nat : v[n] \in P}
  <2>2. 0 \in T
    BY <1>2, <1>8
  <2>3. ASSUME NEW n \in Nat, n \in T PROVE n + 1 \in T
    <3>1. n + 1 \in Nat \ {0}
      OBVIOUS
    <3> QED BY <1>8, <2>3, <3>1 DEF P, VisitsAmong
  <2>4. Nat \subseteq T
    <3> HIDE DEF T
    <3> QED BY <2>2, <2>3, InductiveSet
  <2> QED BY <2>1, <2>4
<1>10. Walk(list, to, bad) = v[Len(list)]
  BY <1>1
<1> HIDE DEF v
<1> QED BY <1>8, <1>9, <1>10 DEF P, start, WalksAlong

\* After i visits of the walk over `list` has become p: the places behind i
\* hold what stood there, and a socket the walk has passed was served, or
\* followed one that was removed.
Passed(list, to, bad, p, k) ==
    (list[k] \in to /\ list[k] \notin bad) => (list[k] \in p.got \/ (k > 1 /\ list[k - 1] \notin ToSet(p.list)))

Walked(list, to, bad, i, p) ==
    /\ IsInjective(p.list) /\ Len(p.list) <= Len(list)
    /\ ToSet(p.list) \subseteq ToSet(list)
    /\ \A s \in ToSet(list) : s \notin ToSet(p.list) => s \in to /\ s \in bad
    /\ \A s \in p.got : s \in ToSet(list) /\ s \in to /\ s \notin bad
    /\ \A j \in DOMAIN p.list : j > i => p.list[j] = list[j + (Len(list) - Len(p.list))]
    /\ \A k \in DOMAIN list : k <= i + (Len(list) - Len(p.list)) => Passed(list, to, bad, p, k)

\* What RemoveAt takes out of an array without repetitions is gone.
LEMMA RemovedIsGone ==
  ASSUME NEW S, NEW seq \in Seq(S), NEW k \in 1..Len(seq), IsInjective(seq)
  PROVE  /\ IsInjective(RemoveAt(seq, k))
         /\ ToSet(RemoveAt(seq, k)) = ToSet(seq) \ {seq[k]}
<1>1. PICK n, t : n = Len(seq) /\ t = RemoveAt(seq, k)
  OBVIOUS
<1>2. n \in Nat /\ k \in 1..n /\ DOMAIN seq = 1..n
  BY <1>1
<1>3. t \in Seq(S) /\ Len(t) = n - 1 /\ \A i \in 1..(n - 1) : t[i] = seq[IF i < k THEN i ELSE i + 1]
  BY <1>1, RemovedAt
<1>4. DOMAIN t = 1..(n - 1)
  BY <1>2, <1>3
<1>5. \A i, j \in 1..n : seq[i] = seq[j] => i = j
  BY <1>2 DEF IsInjective
<1>6. \A i \in 1..(n - 1) : (IF i < k THEN i ELSE i + 1) \in 1..n
  BY <1>2
<1>7. \A i, j \in 1..(n - 1) : t[i] = t[j] => i = j
  <2> SUFFICES ASSUME NEW i \in 1..(n - 1), NEW j \in 1..(n - 1), t[i] = t[j] PROVE i = j
    OBVIOUS
  <2>1. (IF i < k THEN i ELSE i + 1) = (IF j < k THEN j ELSE j + 1)
    BY <1>3, <1>5, <1>6
  <2> QED BY <1>2, <2>1
<1>8. ASSUME NEW x \in ToSet(t) PROVE x \in ToSet(seq) /\ x # seq[k]
  <2>1. PICK i \in 1..(n - 1) : x = t[i]
    BY <1>4 DEF ToSet
  <2>2. PICK j : j = (IF i < k THEN i ELSE i + 1)
    OBVIOUS
  <2>3. j \in 1..n /\ j # k /\ x = seq[j]
    BY <1>2, <1>3, <2>1, <2>2
  <2> QED BY <1>2, <1>5, <2>3 DEF ToSet
<1>9. ASSUME NEW x \in ToSet(seq), x # seq[k] PROVE x \in ToSet(t)
  <2>1. PICK j \in 1..n : x = seq[j]
    BY <1>2 DEF ToSet
  <2>2. j # k
    BY <1>9, <2>1
  <2>3. PICK i : i = (IF j < k THEN j ELSE j - 1)
    OBVIOUS
  <2>4. i \in 1..(n - 1) /\ j = (IF i < k THEN i ELSE i + 1)
    BY <1>2, <2>2, <2>3
  <2>5. t[i] = x
    BY <1>3, <2>1, <2>4
  <2> QED BY <1>4, <2>4, <2>5 DEF ToSet
<1>10. IsInjective(t)
  BY <1>4, <1>7 DEF IsInjective
<1>11. ToSet(t) = ToSet(seq) \ {seq[k]}
  BY <1>8, <1>9
<1> QED BY <1>1, <1>10, <1>11

\* A visit keeps the walk's books.
LEMMA VisitWalks ==
  ASSUME NEW S, NEW list \in Seq(S), NEW to, NEW bad, NEW i \in Nat,
         NEW p \in [list : Seq(S), got : SUBSET S],
         Walked(list, to, bad, i, p), IsInjective(list)
  PROVE  Walked(list, to, bad, i + 1, SendNext(p, i + 1, to, bad))
<1>1. PICK n, m, q, v : n = Len(list) /\ m = Len(p.list) /\ q = p.list /\ v = SendNext(p, i + 1, to, bad)
  OBVIOUS
<1>2. n \in Nat /\ m \in Nat /\ m <= n /\ DOMAIN list = 1..n /\ DOMAIN q = 1..m /\ q \in Seq(S)
  BY <1>1 DEF Walked
<1>3. /\ IsInjective(q) /\ ToSet(q) \subseteq ToSet(list)
      /\ \A s \in ToSet(list) : s \notin ToSet(q) => s \in to /\ s \in bad
      /\ \A s \in p.got : s \in ToSet(list) /\ s \in to /\ s \notin bad
      /\ \A j \in 1..m : j > i => q[j] = list[j + (n - m)]
      /\ \A k \in 1..n : k <= i + (n - m) => Passed(list, to, bad, p, k)
  BY <1>1, <1>2 DEF Walked
<1>4. CASE i + 1 > m
  <2>1. v = p
    BY <1>1, <1>4 DEF SendNext
  <2>2. \A k \in 1..n : k <= i + (n - m)
    BY <1>2, <1>4
  <2>3. \A j \in 1..m : ~ (j > i + 1)
    BY <1>2, <1>4
  <2> QED BY <1>1, <1>2, <1>3, <2>1, <2>2, <2>3 DEF Walked
<1>5. CASE i + 1 <= m
  <2>1. PICK x, r : x = q[i + 1] /\ r = i + 1 + (n - m)
    OBVIOUS
  <2>2. i + 1 \in 1..m /\ r \in 1..n /\ x = list[r] /\ x \in ToSet(q) /\ x \in ToSet(list)
    <3>1. i + 1 \in 1..m /\ i + 1 > i /\ r \in 1..n
      BY <1>2, <1>5, <2>1
    <3> QED BY <1>2, <1>3, <2>1, <3>1 DEF ToSet
  <2>3. \A k \in 1..n : k <= r => k <= i + (n - m) \/ k = r
    BY <1>2, <2>1
  <2>4. CASE x \notin to
    <3>1. v = p
      BY <1>1, <2>1, <2>4 DEF SendNext
    <3>2. Passed(list, to, bad, p, r)
      BY <2>2, <2>4 DEF Passed
    <3>3. \A k \in 1..n : k <= r => Passed(list, to, bad, p, k)
      BY <1>2, <1>3, <2>2, <2>3, <3>2
    <3>4. \A j \in 1..m : j > i + 1 => j > i
      OBVIOUS
    <3> QED BY <1>1, <1>2, <1>3, <2>1, <3>1, <3>3, <3>4 DEF Walked
  <2>5. CASE x \in to /\ x \notin bad
    <3>1. v = [p EXCEPT !.got = @ \cup {x}]
      BY <1>1, <1>2, <1>5, <2>1, <2>5 DEF SendNext
    <3>2. v.list = q /\ v.got = p.got \cup {x}
      BY <1>1, <3>1
    <3>3. \A k \in 1..n : k <= r => Passed(list, to, bad, v, k)
      <4>1. \A k \in 1..n : Passed(list, to, bad, p, k) => Passed(list, to, bad, v, k)
        BY <1>1, <3>2 DEF Passed
      <4>2. Passed(list, to, bad, v, r)
        BY <2>2, <3>2 DEF Passed
      <4> QED BY <1>2, <1>3, <2>2, <2>3, <4>1, <4>2
    <3>4. \A j \in 1..m : j > i + 1 => j > i
      OBVIOUS
    <3>5. \A s \in v.got : s \in ToSet(list) /\ s \in to /\ s \notin bad
      BY <1>3, <2>2, <2>5, <3>2
    <3> QED BY <1>1, <1>2, <1>3, <2>1, <3>2, <3>3, <3>4, <3>5 DEF Walked
  <2>6. CASE x \in to /\ x \in bad
    <3>1. v = [p EXCEPT !.list = RemoveAt(q, i + 1)]
      BY <1>1, <1>2, <1>5, <2>1, <2>6 DEF SendNext
    <3>2. PICK t : t = RemoveAt(q, i + 1)
      OBVIOUS
    <3>3. v.list = t /\ v.got = p.got
      BY <3>1, <3>2
    <3>4. t \in Seq(S) /\ Len(t) = m - 1 /\ \A j \in 1..(m - 1) : t[j] = q[IF j < i + 1 THEN j ELSE j + 1]
      BY <1>1, <1>2, <2>2, <3>2, RemovedAt
    <3>5. IsInjective(t) /\ ToSet(t) = ToSet(q) \ {x}
      BY <1>1, <1>2, <1>3, <2>1, <2>2, <3>2, RemovedIsGone
    <3>6. DOMAIN t = 1..(m - 1) /\ n - Len(t) = n - m + 1
      BY <1>2, <3>4
    <3>7. ASSUME NEW j \in 1..(m - 1), j > i + 1 PROVE t[j] = list[j + (n - m + 1)]
      <4>1. j + 1 \in 1..m /\ j + 1 > i /\ ~ (j < i + 1) /\ j + 1 + (n - m) = j + (n - m + 1)
        BY <1>2, <3>7
      <4>2. t[j] = q[j + 1]
        BY <3>4, <4>1
      <4> QED BY <1>3, <4>1, <4>2
    <3>8. ASSUME NEW k \in 1..n, k <= i + 1 + (n - m + 1) PROVE Passed(list, to, bad, v, k)
      <4>1. \/ k <= i + (n - m)
            \/ k = r
            \/ k = r + 1
        BY <1>2, <2>1, <3>8
      <4>2. CASE k <= i + (n - m)
        <5>1. Passed(list, to, bad, p, k)
          BY <1>3, <4>2
        <5> QED BY <1>1, <3>3, <3>5, <5>1 DEF Passed
      <4>3. CASE k = r
        BY <2>2, <2>6, <4>3 DEF Passed
      <4>4. CASE k = r + 1
        <5>1. k > 1 /\ k - 1 = r
          BY <1>2, <2>2, <4>4
        <5>2. list[k - 1] \notin ToSet(v.list)
          BY <2>2, <3>3, <3>5, <5>1
        <5> QED BY <5>1, <5>2 DEF Passed
      <4> QED BY <4>1, <4>2, <4>3, <4>4
    <3>9. \A s \in ToSet(list) : s \notin ToSet(t) => s \in to /\ s \in bad
      BY <1>3, <2>6, <3>5
    <3>10. Len(t) <= n /\ ToSet(t) \subseteq ToSet(list)
      BY <1>2, <1>3, <3>4, <3>5
    <3> QED BY <1>1, <1>2, <1>3, <3>3, <3>5, <3>6, <3>7, <3>8, <3>9, <3>10 DEF Walked
  <2> QED BY <2>4, <2>5, <2>6
<1> QED BY <1>1, <1>2, <1>4, <1>5

\* Every walk keeps its books, and stays among the sockets.
LEMMA WalkFacts ==
  ASSUME NEW S, NEW list \in Seq(S), NEW to, NEW bad, IsInjective(list)
  PROVE  /\ Walk(list, to, bad) \in [list : Seq(S), got : SUBSET S]
         /\ Walked(list, to, bad, Len(list), Walk(list, to, bad))
<1>1. ASSUME NEW p \in [list : Seq(S), got : SUBSET S], NEW i \in Nat \ {0}
      PROVE  SendNext(p, i, to, bad) \in [list : Seq(S), got : SUBSET S]
  <2>1. CASE i > Len(p.list) \/ p.list[i] \notin to
    BY <2>1 DEF SendNext
  <2>2. CASE ~ (i > Len(p.list) \/ p.list[i] \notin to)
    <3>1. i \in 1..Len(p.list) /\ p.list \in Seq(S)
      BY <2>2
    <3>2. p.list[i] \in S /\ RemoveAt(p.list, i) \in Seq(S)
      BY <3>1, RemovedAt
    <3> QED BY <2>2, <3>2 DEF SendNext
  <2> QED BY <2>1, <2>2
<1>2. VisitsAmong(S, to, bad)
  BY <1>1 DEF VisitsAmong
<1>7. \E v : WalksAlong(v, S, list, to, bad)
  BY <1>2, WalkVisits
<1>8. PICK v : WalksAlong(v, S, list, to, bad)
  BY <1>7
<1>9. /\ v \in [Nat -> [list : Seq(S), got : SUBSET S]]
      /\ v[0] = [list |-> list, got |-> {}]
      /\ \A n \in Nat : v[n + 1] = SendNext(v[n], n + 1, to, bad)
      /\ Walk(list, to, bad) = v[Len(list)]
  BY <1>8 DEF WalksAlong
<1> DEFINE T == {n \in Nat : Walked(list, to, bad, n, v[n])}
<1>3. 0 \in T
  <2>1. PICK n, p : n = Len(list) /\ p = v[0]
    OBVIOUS
  <2>2. p.list = list /\ p.got = {} /\ n \in Nat /\ Len(list) = n /\ DOMAIN list = 1..n
    BY <1>9, <2>1
  <2>3. /\ n <= n /\ n - n = 0
        /\ \A j \in 1..n : j + (n - n) = j
        /\ \A k \in 1..n : ~ (k <= 0 + (n - n))
    BY <2>2
  <2>4. Walked(list, to, bad, 0, p)
    BY <2>2, <2>3 DEF Walked
  <2> QED BY <2>1, <2>4
<1>4. ASSUME NEW n \in Nat, n \in T PROVE n + 1 \in T
  <2>1. Walked(list, to, bad, n, v[n]) /\ v[n] \in [list : Seq(S), got : SUBSET S]
    BY <1>9, <1>4
  <2>2. Walked(list, to, bad, n + 1, SendNext(v[n], n + 1, to, bad))
    BY <2>1, VisitWalks
  <2> QED BY <1>9, <2>2
<1>5. Nat \subseteq T
  <2> HIDE DEF T
  <2> QED BY <1>3, <1>4, InductiveSet
<1>6. Len(list) \in Nat
  OBVIOUS
<1> QED BY <1>9, <1>5, <1>6

\* A walk that is over passed every place.
LEMMA WalkEnds ==
  ASSUME NEW S, NEW list \in Seq(S), NEW to, NEW bad, IsInjective(list),
         NEW w, w = Walk(list, to, bad)
  PROVE  /\ w.list \in Seq(S) /\ w.got \in SUBSET S
         /\ IsInjective(w.list)
         /\ ToSet(w.list) \subseteq ToSet(list)
         /\ Removed(list, w.list) \subseteq to \cap bad
         /\ w.got \subseteq (ToSet(list) \cap to) \ bad
         /\ \A k \in 1..Len(list) : list[k] \in (to \ bad) \ w.got =>
               k > 1 /\ list[k - 1] \in Removed(list, w.list)
<1>1. w \in [list : Seq(S), got : SUBSET S] /\ Walked(list, to, bad, Len(list), w)
  BY WalkFacts
<1>2. Len(list) \in Nat /\ Len(w.list) \in Nat /\ DOMAIN list = 1..Len(list)
  BY <1>1
<1>3. \A k \in 1..Len(list) : Passed(list, to, bad, w, k)
  <2>1. Len(w.list) <= Len(list)
    BY <1>1 DEF Walked
  <2>2. \A k \in 1..Len(list) : k <= Len(list) + (Len(list) - Len(w.list))
    BY <1>2, <2>1
  <2> QED BY <1>1, <1>2, <2>2 DEF Walked
<1>4. \A k \in 1..Len(list) : k > 1 => list[k - 1] \in ToSet(list)
  BY <1>2 DEF ToSet
<1> QED BY <1>1, <1>2, <1>3, <1>4 DEF Walked, Passed, Removed

-----------------------------------------------------------------------------
\* The arrays c and the keys k of socketToUser agree.
Books(c, k) ==
    /\ c \in [Users -> Seq(Sockets)] /\ k \in SUBSET Sockets
    /\ \A u \in Users : ToSet(c[u]) = {s \in k : UserOf[s] = u} /\ IsInjective(c[u])

\* Whom the registry may hold: no socket before it was added or after it was
\* closed, and every open one that no failed send has dropped.
Held(r, k, d) ==
    /\ r \in [Sockets -> {"new", "open", "closing", "closed"}] /\ d \in SUBSET Sockets
    /\ \A s \in Sockets : /\ s \in k => r[s] # "new" /\ r[s] # "closed"
                          /\ r[s] = "open" /\ s \notin d => s \in k

\* A broadcast b reached whom it should, up to one per failed send.
Sent(b) ==
    /\ b.kind \in {"none", "user", "others", "channel"}
    /\ b.due \in SUBSET Sockets /\ b.got \subseteq b.due /\ b.failed \in SUBSET Sockets
    /\ b.kind = "others" => b.got = b.due
    /\ Cardinality(b.due \ b.got) <= Cardinality(b.failed)

\* The inductive invariant.
Registered ==
    /\ Books(conns, known) /\ Held(ready, known, dropped) /\ Sent(last)
    /\ subs \in [Sockets -> SUBSET Channels]

\* No array is longer than there are sockets.
LEMMA LengthBounded ==
  ASSUME NEW c \in Seq(Sockets), IsInjective(c)
  PROVE  Len(c) <= Cardinality(Sockets)
<1>1. PICK n : n = Len(c)
  OBVIOUS
<1>2. n \in Nat /\ 1 \in Int /\ n \in Int /\ c \in [1..n -> Sockets]
  BY <1>1
<1>3. IsFiniteSet(Sockets)
  BY ConnectionAssumption
<1>4. Cardinality(Sockets) \in Nat
  BY <1>3, FS_CardinalityType
<1>5. CASE n = 0
  BY <1>1, <1>4, <1>5
<1>6. CASE n # 0
  <2>1. c \in Injection(1..n, Sockets)
    BY <1>2, <1>6 DEF Injection
  <2>2. Cardinality(1..n) <= Cardinality(Sockets)
    BY <1>3, <2>1, FS_Injection
  <2>3. Cardinality(1..n) = n
    <3>1. n \in Nat /\ 1 \in Int /\ n \in Int
      BY <1>2, <1>6
    <3>2. Cardinality(1..n) = IF 1 > n THEN 0 ELSE n - 1 + 1
      BY <3>1, FS_Interval
    <3> QED BY <1>6, <3>1, <3>2
  <2> QED BY <1>1, <2>2, <2>3
<1> QED BY <1>5, <1>6

\* The invariant is what the runs check, and more.
LEMMA RegisteredServes == Registered => SocketsServed
<1> SUFFICES ASSUME Registered PROVE SocketsServed
  OBVIOUS
<1>1. Books(conns, known) /\ Held(ready, known, dropped) /\ Sent(last) /\ subs \in [Sockets -> SUBSET Channels]
  BY DEF Registered
<1>2. \A u \in Users : conns[u] \in Seq(Sockets) /\ Len(conns[u]) <= Cardinality(Sockets)
  BY <1>1, LengthBounded DEF Books
<1>3. TypeOK
  BY <1>1, <1>2 DEF TypeOK, Books, Held, Sent
<1>4. MapsAgree
  BY <1>1 DEF MapsAgree, Books
<1>5. OpenIsRegistered
  BY <1>1, ConnectionAssumption DEF OpenIsRegistered, Books, Held, Open
<1>6. ClosedIsForgotten
  BY <1>1 DEF ClosedIsForgotten, Books, Held
<1>7. OthersReached /\ MissesBounded
  BY <1>1 DEF OthersReached, MissesBounded, Sent
<1> QED BY <1>3, <1>4, <1>5, <1>6, <1>7 DEF SocketsServed

\* A step that sends nothing.
LEMMA NothingSent == Sent(NoSend)
<1>1. NoSend.kind = "none" /\ NoSend.due = {} /\ NoSend.got = {} /\ NoSend.failed = {}
  BY DEF NoSend
<1>2. Cardinality({}) = 0 /\ {} \ {} = {}
  BY FS_EmptySet
<1> QED BY <1>1, <1>2 DEF Sent

\* Appending a socket that has no key keeps the maps in step.
LEMMA AddKeepsBooks ==
  ASSUME NEW c, NEW k, Books(c, k), NEW s \in Sockets, s \notin k
  PROVE  Books([c EXCEPT ![UserOf[s]] = Append(@, s)], k \cup {s})
<1>1. PICK u, d, q : u = UserOf[s] /\ q = c[u] /\ d = [c EXCEPT ![u] = Append(q, s)]
  OBVIOUS
<1>2. u \in Users /\ q \in Seq(Sockets) /\ ToSet(q) = {x \in k : UserOf[x] = u} /\ IsInjective(q)
  BY <1>1, ConnectionAssumption DEF Books
<1>3. PICK n, t : n = Len(q) /\ t = Append(q, s)
  OBVIOUS
<1>4. /\ n \in Nat /\ DOMAIN q = 1..n /\ t \in Seq(Sockets) /\ DOMAIN t = 1..(n + 1)
      /\ t[n + 1] = s /\ \A i \in 1..n : t[i] = q[i]
  BY <1>2, <1>3
<1>5. \A i \in 1..n : q[i] # s /\ q[i] \in ToSet(q)
  BY <1>2, <1>4 DEF ToSet
<1>6. \A i \in 1..(n + 1) : i \in 1..n \/ i = n + 1
  BY <1>4
<1>7. IsInjective(t)
  <2>1. \A i, j \in 1..(n + 1) : t[i] = t[j] => i = j
    BY <1>2, <1>4, <1>5, <1>6 DEF IsInjective
  <2> QED BY <1>4, <2>1 DEF IsInjective
<1>8. ToSet(t) = ToSet(q) \cup {s}
  <2>1. ASSUME NEW x \in ToSet(t) PROVE x \in ToSet(q) \cup {s}
    BY <1>4, <1>5, <1>6 DEF ToSet
  <2>2. ASSUME NEW x \in ToSet(q) PROVE x \in ToSet(t)
    <3>1. PICK i \in 1..n : x = q[i]
      BY <1>4 DEF ToSet
    <3>2. i \in 1..(n + 1) /\ t[i] = x
      BY <1>4, <3>1
    <3> QED BY <1>4, <3>2 DEF ToSet
  <2>3. s \in ToSet(t)
    <3>1. n + 1 \in 1..(n + 1)
      BY <1>4
    <3> QED BY <1>4, <3>1 DEF ToSet
  <2> QED BY <2>1, <2>2, <2>3
<1>9. d = [c EXCEPT ![u] = t] /\ d \in [Users -> Seq(Sockets)]
  BY <1>1, <1>2, <1>3, <1>4 DEF Books
<1>10. ASSUME NEW v \in Users
       PROVE  ToSet(d[v]) = {x \in k \cup {s} : UserOf[x] = v} /\ IsInjective(d[v])
  <2>1. CASE v = u
    <3>1. d[v] = t
      BY <1>9, <2>1 DEF Books
    <3> QED BY <1>1, <1>2, <1>7, <1>8, <2>1, <3>1
  <2>2. CASE v # u
    <3>1. d[v] = c[v]
      BY <1>9, <2>2 DEF Books
    <3> QED BY <1>1, <2>2, <3>1 DEF Books
  <2> QED BY <2>1, <2>2
<1>11. Books(d, k \cup {s})
  BY <1>9, <1>10 DEF Books
<1> QED BY <1>1, <1>11

\* RemoveFirst takes the one occurrence of a socket that has a key.
LEMMA RemoveKeepsBooks ==
  ASSUME NEW c, NEW k, Books(c, k), NEW s \in k
  PROVE  Books([c EXCEPT ![UserOf[s]] = RemoveFirst(@, s)], k \ {s})
<1>1. PICK u, d, q : u = UserOf[s] /\ q = c[u] /\ d = [c EXCEPT ![u] = RemoveFirst(q, s)]
  OBVIOUS
<1>2. /\ s \in Sockets /\ u \in Users /\ q \in Seq(Sockets)
      /\ ToSet(q) = {x \in k : UserOf[x] = u} /\ IsInjective(q)
  BY <1>1, ConnectionAssumption DEF Books
<1>3. \E i \in 1..Len(q) : q[i] = s
  <2>1. s \in ToSet(q) /\ DOMAIN q = 1..Len(q)
    BY <1>1, <1>2
  <2> QED BY <2>1 DEF ToSet
<1>4. PICK i \in 1..Len(q) : q[i] = s /\ RemoveFirst(q, s) = RemoveAt(q, i)
  BY <1>2, <1>3, RemoveTakesOne
<1>5. PICK t : t = RemoveAt(q, i)
  OBVIOUS
<1>6. t \in Seq(Sockets) /\ IsInjective(t) /\ ToSet(t) = ToSet(q) \ {s}
  BY <1>2, <1>4, <1>5, RemovedAt, RemovedIsGone
<1>7. d = [c EXCEPT ![u] = t] /\ d \in [Users -> Seq(Sockets)]
  BY <1>1, <1>2, <1>4, <1>5, <1>6 DEF Books
<1>8. ASSUME NEW v \in Users
      PROVE  ToSet(d[v]) = {x \in k \ {s} : UserOf[x] = v} /\ IsInjective(d[v])
  <2>1. CASE v = u
    <3>1. d[v] = t
      BY <1>7, <2>1 DEF Books
    <3> QED BY <1>1, <1>2, <1>6, <2>1, <3>1
  <2>2. CASE v # u
    <3>1. d[v] = c[v]
      BY <1>7, <2>2 DEF Books
    <3> QED BY <1>1, <2>2, <3>1 DEF Books
  <2> QED BY <2>1, <2>2
<1>9. Books(d, k \ {s})
  BY <1>7, <1>8 DEF Books
<1> QED BY <1>1, <1>9

\* What filtering leaves of an array without repetitions.
LEMMA FilteredIsKept ==
  ASSUME NEW q \in Seq(Sockets), IsInjective(q), NEW gone
  PROVE  LET t == Subsequence(q, {i \in DOMAIN q : q[i] \notin gone})
         IN  t \in Seq(Sockets) /\ IsInjective(t) /\ ToSet(t) = ToSet(q) \ gone
<1>7. PICK I : I = {i \in DOMAIN q : q[i] \notin gone}
  OBVIOUS
<1>2. I \in SUBSET (DOMAIN q) /\ \A i \in DOMAIN q : i \in I <=> q[i] \notin gone
  BY <1>7
<1>1. PICK t : t = Subsequence(q, I)
  OBVIOUS
<1>3. /\ t \in Seq(Sockets)
      /\ \A j \in DOMAIN t : Place(I, j) \in I /\ t[j] = q[Place(I, j)]
      /\ \A j, k \in DOMAIN t : Place(I, j) = Place(I, k) => j = k
      /\ \A i \in I : \E j \in DOMAIN t : Place(I, j) = i
  BY <1>1, <1>2, SubsequenceOf
<1>4. \A j, k \in DOMAIN t : t[j] = t[k] => j = k
  BY <1>2, <1>3 DEF IsInjective
<1>5. ToSet(t) = ToSet(q) \ gone
  <2>1. ASSUME NEW x \in ToSet(t) PROVE x \in ToSet(q) \ gone
    BY <1>2, <1>3 DEF ToSet
  <2>2. ASSUME NEW x \in ToSet(q) \ gone PROVE x \in ToSet(t)
    <3>1. PICK i \in DOMAIN q : x = q[i]
      BY DEF ToSet
    <3>2. PICK j \in DOMAIN t : Place(I, j) = i
      BY <1>2, <1>3, <3>1
    <3> QED BY <1>3, <3>1, <3>2 DEF ToSet
  <2> QED BY <2>1, <2>2
<1>6. IsInjective(t)
  BY <1>4 DEF IsInjective
<1> QED BY <1>1, <1>3, <1>5, <1>6, <1>7

\* Dropping the sockets `gone` keeps who else is held.
LEMMA DroppingHolds ==
  ASSUME NEW r, NEW k, NEW d, Held(r, k, d), NEW gone \in SUBSET Sockets
  PROVE  Held(r, k \ gone, d \cup gone)
BY DEF Held

\* Before a walk: whom it is for, and the users it visits.
Aimed(us, to) == us \in SUBSET Users /\ to \in SUBSET Sockets /\ \A s \in to : UserOf[s] \in us

\* What the walk over the array q leaves, for the sockets `to`.
WalkLeaves(q, w, to, bad) ==
    /\ w.list \in Seq(Sockets) /\ w.got \in SUBSET Sockets
    /\ IsInjective(w.list) /\ ToSet(w.list) \subseteq ToSet(q)
    /\ Removed(q, w.list) \subseteq to \cap bad
    /\ w.got \subseteq (ToSet(q) \cap to) \ bad
    /\ \A k \in 1..Len(q) : q[k] \in (to \ bad) \ w.got => k > 1 /\ q[k - 1] \in Removed(q, w.list)

LEMMA EachWalkLeaves ==
  ASSUME NEW c, NEW k, Books(c, k), NEW u \in Users, NEW to, NEW bad
  PROVE  WalkLeaves(c[u], Walk(c[u], to, bad), to, bad)
<1>1. PICK q, w : q = c[u] /\ w = Walk(q, to, bad)
  OBVIOUS
<1>2. q \in Seq(Sockets) /\ IsInjective(q)
  BY <1>1 DEF Books
<1>3. WalkLeaves(q, w, to, bad)
  BY <1>1, <1>2, WalkEnds DEF WalkLeaves
<1> QED BY <1>1, <1>3

\* The walks over the arrays c of the users us: whom they remove and reach.
Walking(c, us, to, bad, walks, gone, got) ==
    /\ walks = [u \in us |-> Walk(c[u], to, bad)]
    /\ gone = UNION {Removed(c[u], walks[u].list) : u \in us}
    /\ got = UNION {walks[u].got : u \in us}

\* A walk misses a socket only behind one that it removed, so it misses at
\* most one for each.
LEMMA MissesFollowFailures ==
  ASSUME NEW c, NEW k, Books(c, k), NEW us, NEW to, NEW bad, Aimed(us, to),
         NEW walks, NEW gone, NEW got, Walking(c, us, to, bad, walks, gone, got)
  PROVE  Cardinality(((to \cap k) \ bad) \ got) <= Cardinality(gone)
<1>1. \A u \in us : u \in Users /\ WalkLeaves(c[u], walks[u], to, bad)
  BY EachWalkLeaves DEF Aimed, Walking
<1> DEFINE missed == ((to \cap k) \ bad) \ got
<1>2. ASSUME NEW s \in missed
      PROVE  \E i \in 1..Len(c[UserOf[s]]) :
                i > 1 /\ c[UserOf[s]][i] = s /\ c[UserOf[s]][i - 1] \in gone
  <2>1. PICK u, q, w : u = UserOf[s] /\ q = c[u] /\ w = walks[u]
    OBVIOUS
  <2>2. u \in us /\ u \in Users /\ q \in Seq(Sockets) /\ s \in ToSet(q) /\ WalkLeaves(q, w, to, bad)
    BY <1>1, <2>1 DEF Aimed, Books
  <2>3. PICK i \in 1..Len(q) : q[i] = s
    <3>1. DOMAIN q = 1..Len(q)
      BY <2>2
    <3> QED BY <2>2, <3>1 DEF ToSet
  <2>4. w.got \subseteq got /\ Removed(q, w.list) \subseteq gone
    BY <2>1, <2>2 DEF Walking
  <2>5. s \in (to \ bad) \ w.got
    BY <2>4
  <2>6. i > 1 /\ q[i - 1] \in Removed(q, w.list)
    BY <2>2, <2>3, <2>5 DEF WalkLeaves
  <2> QED BY <2>1, <2>3, <2>4, <2>6
<1> DEFINE At(s) == CHOOSE i \in 1..Len(c[UserOf[s]]) :
                       i > 1 /\ c[UserOf[s]][i] = s /\ c[UserOf[s]][i - 1] \in gone
           before == [s \in missed |-> c[UserOf[s]][At(s) - 1]]
<1> HIDE DEF missed
<1>3. \A s \in missed : /\ At(s) \in 1..Len(c[UserOf[s]]) /\ At(s) > 1
                        /\ c[UserOf[s]][At(s)] = s /\ c[UserOf[s]][At(s) - 1] \in gone
  BY <1>2
<1>4. \A s \in missed : s \in Sockets /\ s \in k /\ UserOf[s] \in Users
  BY ConnectionAssumption DEF missed, Aimed
<1> HIDE DEF At
<1>5. ASSUME NEW s \in missed
      PROVE  before[s] = c[UserOf[s]][At(s) - 1] /\ before[s] \in gone /\ UserOf[before[s]] = UserOf[s]
  <2>1. PICK u, q, i : u = UserOf[s] /\ q = c[u] /\ i = At(s)
    OBVIOUS
  <2>2. u \in Users /\ q \in Seq(Sockets) /\ ToSet(q) = {x \in k : UserOf[x] = u}
    BY <1>4, <2>1 DEF Books
  <2>3. i \in 1..Len(q) /\ i > 1 /\ before[s] = q[i - 1] /\ q[i - 1] \in gone
    BY <1>3, <2>1
  <2>4. i - 1 \in DOMAIN q
    BY <2>2, <2>3
  <2>5. q[i - 1] \in ToSet(q)
    BY <2>4 DEF ToSet
  <2> QED BY <2>1, <2>2, <2>3, <2>5
<1>6. before \in [missed -> gone]
  BY <1>5
<1>7. ASSUME NEW s \in missed, NEW t \in missed, before[s] = before[t] PROVE s = t
  <2>1. UserOf[s] = UserOf[t]
    BY <1>5, <1>7
  <2>2. PICK u, q, i, j : u = UserOf[s] /\ q = c[u] /\ i = At(s) /\ j = At(t)
    OBVIOUS
  <2>3. u \in Users /\ q \in Seq(Sockets) /\ IsInjective(q)
    BY <1>4, <2>2 DEF Books
  <2>4. /\ i \in 1..Len(q) /\ i > 1 /\ q[i] = s /\ before[s] = q[i - 1]
        /\ j \in 1..Len(q) /\ j > 1 /\ q[j] = t /\ before[t] = q[j - 1]
    BY <1>3, <1>5, <2>1, <2>2
  <2>5. i - 1 \in DOMAIN q /\ j - 1 \in DOMAIN q
    BY <2>3, <2>4
  <2>6. i - 1 = j - 1
    BY <1>7, <2>3, <2>4, <2>5 DEF IsInjective
  <2> QED BY <2>4, <2>6
<1>8. before \in Injection(missed, gone)
  <2> HIDE DEF before
  <2>1. DOMAIN before = missed
    BY <1>6
  <2> QED BY <1>6, <1>7, <2>1 DEF Injection, IsInjective
<1>9. IsFiniteSet(gone)
  <2>1. gone \subseteq Sockets
    <3>1. \A u \in us : Removed(c[u], walks[u].list) \subseteq to
      BY <1>1 DEF WalkLeaves
    <3> QED BY <3>1 DEF Aimed, Walking
  <2> QED BY <2>1, ConnectionAssumption, FS_Subset
<1>10. Cardinality(missed) <= Cardinality(gone)
  <2> HIDE DEF before
  <2> QED BY <1>8, <1>9, FS_Injection
<1> QED BY <1>10 DEF missed

LEMMA BroadcastServes ==
  ASSUME Registered, NEW kind \in {"user", "channel"}, NEW us, NEW to, NEW bad, Aimed(us, to),
         Broadcast(kind, us, to, bad)
  PROVE  Registered'
<1>1. PICK walks : walks = [u \in us |-> Walk(conns[u], to, bad)]
  OBVIOUS
<1>2. PICK gone, got : /\ gone = UNION {Removed(conns[u], walks[u].list) : u \in us}
                       /\ got = UNION {walks[u].got : u \in us}
  OBVIOUS
<1>3. /\ conns' = [u \in Users |-> IF u \in us THEN walks[u].list ELSE conns[u]]
      /\ known' = known \ gone /\ dropped' = dropped \cup gone
      /\ last' = [kind |-> kind, due |-> (to \cap known) \ bad, got |-> got, failed |-> gone \cap bad]
      /\ subs' = [s \in Sockets |-> IF s \in gone THEN {} ELSE subs[s]]
      /\ ready' = ready
  BY <1>1, <1>2 DEF Broadcast
<1>4. Books(conns, known) /\ Held(ready, known, dropped) /\ subs \in [Sockets -> SUBSET Channels]
  BY DEF Registered
<1>5. \A u \in us : u \in Users /\ WalkLeaves(conns[u], walks[u], to, bad)
  BY <1>1, <1>4, EachWalkLeaves DEF Aimed
<1>6. gone \subseteq to /\ gone \subseteq bad /\ gone \subseteq Sockets
  BY <1>2, <1>5 DEF WalkLeaves, Aimed
<1>7. got \subseteq (to \cap known) \ bad
  <2>1. \A u \in us : ToSet(conns[u]) \subseteq known
    BY <1>4, <1>5 DEF Books
  <2> QED BY <1>2, <1>5, <2>1 DEF WalkLeaves
<1>8. Books(conns', known')
  <2>1. conns' \in [Users -> Seq(Sockets)] /\ known' \in SUBSET Sockets
    BY <1>3, <1>4, <1>5 DEF WalkLeaves, Books
  <2>2. ASSUME NEW u \in Users
        PROVE  ToSet(conns'[u]) = {s \in known' : UserOf[s] = u} /\ IsInjective(conns'[u])
    <3>1. ToSet(conns[u]) = {s \in known : UserOf[s] = u} /\ IsInjective(conns[u])
      BY <1>4 DEF Books
    <3>2. \A v \in us : Removed(conns[v], walks[v].list) \subseteq {s \in known : UserOf[s] = v}
      BY <1>4, <1>5 DEF Books, Removed
    <3>3. CASE u \in us
      <4>1. conns'[u] = walks[u].list /\ WalkLeaves(conns[u], walks[u], to, bad)
        BY <1>3, <1>5, <3>3
      <4>2. \A s \in Sockets : UserOf[s] = u => (s \in gone <=> s \in Removed(conns[u], walks[u].list))
        BY <1>2, <3>2, <3>3
      <4>3. \A s \in ToSet(walks[u].list) : s \in ToSet(conns[u]) /\ s \notin Removed(conns[u], walks[u].list)
        BY <4>1 DEF WalkLeaves, Removed
      <4>4. \A s \in ToSet(conns[u]) : s \in ToSet(walks[u].list) \/ s \in Removed(conns[u], walks[u].list)
        BY DEF Removed
      <4>5. known \subseteq Sockets
        BY <1>4 DEF Books
      <4>6. ToSet(walks[u].list) = {s \in known' : UserOf[s] = u}
        BY <1>3, <3>1, <4>2, <4>3, <4>4, <4>5
      <4> QED BY <4>1, <4>6 DEF WalkLeaves
    <3>4. CASE u \notin us
      <4>1. conns'[u] = conns[u]
        BY <1>3, <3>4
      <4>2. \A s \in gone : UserOf[s] # u
        BY <1>2, <3>2, <3>4
      <4> QED BY <1>3, <3>1, <4>1, <4>2
    <3> QED BY <3>3, <3>4
  <2> QED BY <2>1, <2>2 DEF Books
<1>9. Held(ready', known', dropped')
  <2>1. Held(ready, known \ gone, dropped \cup gone)
    BY <1>4, <1>6, DroppingHolds
  <2> QED BY <1>3, <2>1
<1>10. Sent(last')
  <2>1. gone \cap bad = gone
    BY <1>6
  <2>2. Cardinality(((to \cap known) \ bad) \ got) <= Cardinality(gone)
    <3>1. PICK c, k : c = conns /\ k = known
      OBVIOUS
    <3>2. Books(c, k) /\ Walking(c, us, to, bad, walks, gone, got)
      BY <1>1, <1>2, <1>4, <3>1 DEF Walking
    <3>4. Cardinality(((to \cap k) \ bad) \ got) <= Cardinality(gone)
      BY <3>2, MissesFollowFailures
    <3> QED BY <3>1, <3>4
  <2>3. PICK b : b = last'
    OBVIOUS
  <2>4. b.kind = kind /\ b.due = (to \cap known) \ bad /\ b.got = got /\ b.failed = gone
    BY <1>3, <2>1, <2>3
  <2>5. Sent(b)
    BY <1>6, <1>7, <2>2, <2>4 DEF Sent, Aimed
  <2> QED BY <2>3, <2>5
<1>11. subs' \in [Sockets -> SUBSET Channels]
  BY <1>3, <1>4
<1> QED BY <1>8, <1>9, <1>10, <1>11 DEF Registered

LEMMA CopySendServes ==
  ASSUME Registered, NEW u \in Users, NEW x, NEW bad, SendToUserExceptSession(u, x, bad)
  PROVE  Registered'
<1>1. PICK others, copy : /\ others = {s \in Open : UserOf[s] = u /\ SessionOf[s] # x}
                          /\ copy = {s \in ToSet(conns[u]) : SessionOf[s] # x}
  OBVIOUS
<1>2. PICK gone, got : gone = copy \cap others \cap bad /\ got = {s \in copy \cap others : s \notin bad}
  OBVIOUS
<1>3. PICK rest : rest = Subsequence(conns[u], {i \in DOMAIN conns[u] : conns[u][i] \notin gone})
  OBVIOUS
<1>4. /\ conns' = [conns EXCEPT ![u] = rest]
      /\ known' = known \ gone /\ dropped' = dropped \cup gone
      /\ last' = [kind |-> "others", due |-> (others \cap known) \ bad, got |-> got, failed |-> gone \cap bad]
      /\ subs' = [s \in Sockets |-> IF s \in gone THEN {} ELSE subs[s]]
      /\ ready' = ready
  BY <1>1, <1>2, <1>3 DEF SendToUserExceptSession
<1>5. Books(conns, known) /\ Held(ready, known, dropped) /\ subs \in [Sockets -> SUBSET Channels]
  BY DEF Registered
<1>6. conns[u] \in Seq(Sockets) /\ IsInjective(conns[u]) /\ ToSet(conns[u]) = {s \in known : UserOf[s] = u}
  BY <1>5 DEF Books
<1>7. rest \in Seq(Sockets) /\ IsInjective(rest) /\ ToSet(rest) = ToSet(conns[u]) \ gone
  BY <1>3, <1>6, FilteredIsKept
<1>8. known \subseteq Sockets /\ others \subseteq Sockets
  BY <1>1, <1>5 DEF Books, Open
<1>9. gone \subseteq Sockets /\ \A s \in gone : UserOf[s] = u
  BY <1>1, <1>2, <1>8
<1>10. Books(conns', known')
  <2>1. conns' \in [Users -> Seq(Sockets)] /\ known' \in SUBSET Sockets
    BY <1>4, <1>5, <1>7 DEF Books
  <2>2. ASSUME NEW v \in Users
        PROVE  ToSet(conns'[v]) = {s \in known' : UserOf[s] = v} /\ IsInjective(conns'[v])
    <3>1. CASE v = u
      <4>1. conns'[v] = rest
        BY <1>4, <1>5, <3>1 DEF Books
      <4> QED BY <1>4, <1>6, <1>7, <3>1, <4>1
    <3>2. CASE v # u
      <4>1. conns'[v] = conns[v]
        BY <1>4, <1>5, <3>2 DEF Books
      <4>2. ToSet(conns[v]) = {s \in known : UserOf[s] = v} /\ IsInjective(conns[v])
        BY <1>5 DEF Books
      <4> QED BY <1>4, <1>9, <3>2, <4>1, <4>2
    <3> QED BY <3>1, <3>2
  <2> QED BY <2>1, <2>2 DEF Books
<1>11. Held(ready', known', dropped')
  <2>1. Held(ready, known \ gone, dropped \cup gone)
    BY <1>5, <1>9, DroppingHolds
  <2> QED BY <1>4, <2>1
<1>12. Sent(last')
  <2>1. PICK b : b = last'
    OBVIOUS
  <2>2. b.kind = "others" /\ b.due = (others \cap known) \ bad /\ b.got = got /\ b.failed = gone \cap bad
    BY <1>4, <2>1
  <2>3. got = (others \cap known) \ bad
    BY <1>1, <1>2, <1>6
  <2>4. Cardinality(b.due \ b.got) = 0
    <3>1. b.due \ b.got = {}
      BY <2>2, <2>3
    <3> QED BY <3>1, FS_EmptySet
  <2>5. Cardinality(b.failed) \in Nat
    <3>1. b.failed \subseteq Sockets
      BY <1>9, <2>2
    <3>2. IsFiniteSet(b.failed)
      BY <3>1, ConnectionAssumption, FS_Subset
    <3> QED BY <3>2, FS_CardinalityType
  <2>6. b.due \in SUBSET Sockets /\ b.got \subseteq b.due /\ b.failed \in SUBSET Sockets
    BY <1>8, <1>9, <2>2, <2>3
  <2>7. Sent(b)
    BY <2>2, <2>3, <2>4, <2>5, <2>6 DEF Sent
  <2> QED BY <2>1, <2>7
<1>13. subs' \in [Sockets -> SUBSET Channels]
  BY <1>4, <1>5
<1> QED BY <1>10, <1>11, <1>12, <1>13 DEF Registered

\* A socket's first steps, a step of its events, a subscription, a broadcast:
\* each keeps the registry.
LEMMA AddServes ==
  ASSUME Registered, NEW s \in Sockets, SetupConnection(s) \/ WelcomeFails(s)
  PROVE  Registered'
<1>1. Books(conns, known) /\ Held(ready, known, dropped) /\ subs \in [Sockets -> SUBSET Channels]
  BY DEF Registered
<1>2. PICK after \in {"open", "closing"} :
         /\ ready[s] = "new" /\ ready' = [ready EXCEPT ![s] = after]
         /\ conns' = [conns EXCEPT ![UserOf[s]] = Append(@, s)]
         /\ known' = known \cup {s} /\ subs' = [subs EXCEPT ![s] = {Notifications}]
         /\ last' = NoSend /\ dropped' = dropped
  BY DEF SetupConnection, AddConnection, WelcomeFails
<1>3. s \notin known
  BY <1>1, <1>2 DEF Held
<1>4. Books(conns', known')
  <2>1. Books([conns EXCEPT ![UserOf[s]] = Append(@, s)], known \cup {s})
    BY <1>1, <1>3, AddKeepsBooks
  <2> QED BY <1>2, <2>1
<1>5. Held(ready', known', dropped')
  <2>1. \A x \in Sockets : ready'[x] = IF x = s THEN after ELSE ready[x]
    BY <1>1, <1>2 DEF Held
  <2>2. ready' \in [Sockets -> {"new", "open", "closing", "closed"}]
    BY <1>1, <1>2 DEF Held
  <2> QED BY <1>1, <1>2, <2>1, <2>2 DEF Held
<1>6. subs' \in [Sockets -> SUBSET Channels]
  BY <1>1, <1>2, ConnectionAssumption
<1> QED BY <1>2, <1>4, <1>5, <1>6, NothingSent DEF Registered

LEMMA EventServes ==
  ASSUME Registered, NEW s \in Sockets, CloseEvent(s) \/ ErrorEvent(s)
  PROVE  Registered'
<1>1. Books(conns, known) /\ Held(ready, known, dropped) /\ subs \in [Sockets -> SUBSET Channels]
  BY DEF Registered
<1>2. /\ RemoveConnection(s) /\ last' = NoSend /\ ready[s] \in {"open", "closing"}
      /\ \/ ready' = [ready EXCEPT ![s] = "closed"] /\ dropped' = dropped \ {s}
         \/ ready' = [ready EXCEPT ![s] = "closing"] /\ dropped' = dropped
  BY DEF CloseEvent, ErrorEvent
<1>3. Books(conns', known') /\ known' = known \ {s} /\ subs' \in [Sockets -> SUBSET Channels]
  <2>1. CASE s \in known
    <3>1. Books([conns EXCEPT ![UserOf[s]] = RemoveFirst(@, s)], known \ {s})
      BY <1>1, <2>1, RemoveKeepsBooks
    <3> QED BY <1>1, <1>2, <2>1, <3>1 DEF RemoveConnection
  <2>2. CASE s \notin known
    BY <1>1, <1>2, <2>2 DEF RemoveConnection
  <2> QED BY <2>1, <2>2
<1>4. Held(ready', known', dropped')
  <2>1. /\ ready' \in [Sockets -> {"new", "open", "closing", "closed"}]
        /\ ready'[s] \in {"closing", "closed"} /\ \A x \in Sockets : x # s => ready'[x] = ready[x]
    BY <1>1, <1>2 DEF Held
  <2>2. dropped' \in SUBSET Sockets /\ \A x \in Sockets : x # s => (x \in dropped' <=> x \in dropped)
    BY <1>1, <1>2 DEF Held
  <2> QED BY <1>1, <1>3, <2>1, <2>2 DEF Held
<1> QED BY <1>2, <1>3, <1>4, NothingSent DEF Registered

\* A socket that begins to close, or is turned away.
LEMMA ClosingServes ==
  ASSUME Registered, last' = NoSend,
         ready' \in [Sockets -> {"new", "open", "closing", "closed"}],
         \A s \in Sockets : \/ ready'[s] = ready[s]
                            \/ ready[s] = "open" /\ ready'[s] = "closing"
                            \/ ready[s] = "new" /\ ready'[s] = "closed",
         UNCHANGED <<conns, known, subs, dropped>>
  PROVE  Registered'
<1>1. Books(conns, known) /\ Held(ready, known, dropped) /\ subs \in [Sockets -> SUBSET Channels]
  BY DEF Registered
<1>2. Held(ready', known, dropped)
  BY <1>1 DEF Held
<1> QED BY <1>1, <1>2, NothingSent DEF Registered

LEMMA StepServes == Registered /\ [Next]_vars => Registered'
<1> SUFFICES ASSUME Registered, [Next]_vars PROVE Registered'
  OBVIOUS
<1>1. Books(conns, known) /\ Held(ready, known, dropped) /\ subs \in [Sockets -> SUBSET Channels]
  BY DEF Registered
<1>2. ready \in [Sockets -> {"new", "open", "closing", "closed"}]
  BY <1>1 DEF Held
<1>3. ASSUME NEW s \in Sockets, SetupConnection(s) \/ WelcomeFails(s) PROVE Registered'
  BY <1>3, AddServes
<1>4. ASSUME NEW s \in Sockets, RejectConnection(s) \/ PeerClose(s) PROVE Registered'
  <2>1. /\ ready' \in [Sockets -> {"new", "open", "closing", "closed"}]
        /\ \A x \in Sockets : \/ ready'[x] = ready[x]
                              \/ ready[x] = "open" /\ ready'[x] = "closing"
                              \/ ready[x] = "new" /\ ready'[x] = "closed"
    BY <1>2, <1>4 DEF RejectConnection, PeerClose
  <2>2. last' = NoSend /\ UNCHANGED <<conns, known, subs, dropped>>
    BY <1>4 DEF RejectConnection, PeerClose
  <2> QED BY <2>1, <2>2, ClosingServes
<1>5. ASSUME NEW s \in Sockets, CloseEvent(s) \/ ErrorEvent(s) PROVE Registered'
  BY <1>5, EventServes
<1>6. ASSUME NEW s \in Sockets, NEW ch \in Channels, HandleIncomingMessage(s, ch) PROVE Registered'
  <2>1. /\ last' = NoSend /\ UNCHANGED <<ready, conns, known, dropped>>
        /\ \/ subs' = [subs EXCEPT ![s] = @ \cup {ch}]
           \/ subs' = [subs EXCEPT ![s] = @ \ {ch}]
    BY <1>6 DEF HandleIncomingMessage, SubscribeToChannel, UnsubscribeFromChannel
  <2>2. subs' \in [Sockets -> SUBSET Channels]
    BY <1>1, <2>1
  <2> QED BY <1>1, <2>1, <2>2, NothingSent DEF Registered
<1>7. ASSUME CloseAllConnections \/ \E u \in Users : CloseUserConnections(u) PROVE Registered'
  <2>1. /\ ready' \in [Sockets -> {"new", "open", "closing", "closed"}]
        /\ \A x \in Sockets : \/ ready'[x] = ready[x]
                              \/ ready[x] = "open" /\ ready'[x] = "closing"
                              \/ ready[x] = "new" /\ ready'[x] = "closed"
    BY <1>2, <1>7 DEF CloseAllConnections, CloseUserConnections
  <2>2. last' = NoSend /\ UNCHANGED <<conns, known, subs, dropped>>
    BY <1>7 DEF CloseAllConnections, CloseUserConnections
  <2> QED BY <2>1, <2>2, ClosingServes
<1>8. ASSUME NEW u \in Users, NEW bad, NotifyUser(u, bad) PROVE Registered'
  <2>1. Aimed({u}, {s \in Open : UserOf[s] = u})
    BY DEF Aimed, Open
  <2>2. Broadcast("user", {u}, {s \in Open : UserOf[s] = u}, bad)
    BY <1>8 DEF NotifyUser, SendToUser
  <2> QED BY <2>1, <2>2, BroadcastServes
<1>9. ASSUME NEW u \in Users, NEW bad, NEW x, NotifyOtherSessions(u, x, bad) PROVE Registered'
  <2>1. SendToUserExceptSession(u, x, bad)
    BY <1>9 DEF NotifyOtherSessions
  <2> QED BY <2>1, CopySendServes
<1>10. ASSUME NEW ch, NEW bad, SendToChannel(ch, bad) PROVE Registered'
  <2>1. Aimed(Users, {s \in Open : ch \in subs[s]})
    BY ConnectionAssumption DEF Aimed, Open
  <2>2. Broadcast("channel", Users, {s \in Open : ch \in subs[s]}, bad)
    BY <1>10 DEF SendToChannel
  <2> QED BY <2>1, <2>2, BroadcastServes
<1>11. CASE UNCHANGED vars
  BY <1>11 DEF vars, Registered
<1> QED BY <1>3, <1>4, <1>5, <1>6, <1>7, <1>8, <1>9, <1>10, <1>11 DEF Next

\* The two maps of the registry agree and mirror the open sockets, whatever
\* events and failing sends come in whatever order; a notification to the
\* other sessions misses nobody, and a broadcast over the live arrays at most
\* one socket per failing send, for any number of users and sockets
\* (ConnectionManager).
THEOREM SocketsAreServed == Spec => []SocketsServed
<1>1. Init => Registered
  <2> SUFFICES ASSUME Init PROVE Registered
    OBVIOUS
  <2>1. conns \in [Users -> Seq(Sockets)] /\ \A u \in Users : conns[u] = <<>>
    BY DEF Init
  <2>2. Books(conns, known)
    BY <2>1 DEF Init, Books, ToSet, IsInjective
  <2>3. Held(ready, known, dropped)
    BY DEF Init, Held
  <2> QED BY <2>2, <2>3, NothingSent DEF Init, Registered
<1> QED BY <1>1, StepServes, RegisteredServes, PTL DEF Spec

-----------------------------------------------------------------------------
(***************************************************************************)
(* The event emitter.  As long as nothing was unsubscribed, the array that *)
(* an emit walks begins with the handlers that are due, and those called   *)
(* are the first of them.                                                  *)
(***************************************************************************)

PlacesOf(seq, h) == {i \in 1..Len(seq) : seq[i] = h}

LEMMA TimesCounts ==
  ASSUME NEW seq \in Seq(Handlers), NEW h
  PROVE  /\ IsFiniteSet(PlacesOf(seq, h)) /\ Times(seq, h) = Cardinality(PlacesOf(seq, h))
         /\ Times(seq, h) \in Nat /\ Times(seq, h) <= Len(seq)
<1>1. DOMAIN seq = 1..Len(seq) /\ Len(seq) \in Nat
  OBVIOUS
<1>2. IsFiniteSet(1..Len(seq)) /\ Cardinality(1..Len(seq)) = Len(seq)
  BY <1>1, FS_Interval
<1>3. PlacesOf(seq, h) \subseteq 1..Len(seq)
  BY DEF PlacesOf
<1>4. {i \in DOMAIN seq : seq[i] = h} = PlacesOf(seq, h)
  BY <1>1 DEF PlacesOf
<1>5. IsFiniteSet(PlacesOf(seq, h)) /\ Cardinality(PlacesOf(seq, h)) <= Cardinality(1..Len(seq))
  BY <1>2, <1>3, FS_Subset
<1> QED BY <1>2, <1>4, <1>5, FS_CardinalityType DEF Times

\* One handler more at the end.
LEMMA TimesAfterAppend ==
  ASSUME NEW seq \in Seq(Handlers), NEW h \in Handlers, NEW g \in Handlers
  PROVE  Times(Append(seq, h), g) = Times(seq, g) + (IF g = h THEN 1 ELSE 0)
<1>1. PICK n \in Nat : n = Len(seq)
  OBVIOUS
<1>2. PICK new : new = Append(seq, h)
  OBVIOUS
<1>3. /\ new \in Seq(Handlers) /\ Len(new) = n + 1
      /\ new[n + 1] = h /\ \A i \in 1..n : new[i] = seq[i]
  BY <1>1, <1>2
<1>4. IsFiniteSet(PlacesOf(seq, g)) /\ Times(seq, g) = Cardinality(PlacesOf(seq, g))
      /\ Times(seq, g) \in Nat /\ Times(new, g) = Cardinality(PlacesOf(new, g))
  BY <1>3, TimesCounts
<1>5. n + 1 \notin PlacesOf(seq, g)
  BY <1>1 DEF PlacesOf
<1>6. CASE g = h
  <2>1. PlacesOf(new, g) = PlacesOf(seq, g) \cup {n + 1}
    BY <1>1, <1>3, <1>6 DEF PlacesOf
  <2>2. Cardinality(PlacesOf(seq, g) \cup {n + 1}) = Cardinality(PlacesOf(seq, g)) + 1
    BY <1>4, <1>5, FS_AddElement
  <2> QED BY <1>2, <1>4, <1>6, <2>1, <2>2
<1>7. CASE g # h
  <2>1. PlacesOf(new, g) = PlacesOf(seq, g)
    BY <1>1, <1>3, <1>7 DEF PlacesOf
  <2> QED BY <1>2, <1>4, <1>7, <2>1
<1> QED BY <1>6, <1>7

LEMMA TimesAfterRemoval ==
  ASSUME NEW seq \in Seq(Handlers), NEW k \in 1..Len(seq), NEW g
  PROVE  Times(RemoveAt(seq, k), g) = Times(seq, g) - (IF g = seq[k] THEN 1 ELSE 0)
<1> PICK n : n = Len(seq)
  OBVIOUS
<1> PICK new : new = RemoveAt(seq, k)
  OBVIOUS
<1>1. /\ new \in Seq(Handlers) /\ n \in Nat /\ n = Len(seq) /\ k \in 1..n
      /\ new = RemoveAt(seq, k) /\ Len(new) = n - 1
      /\ \A i \in 1..(n - 1) : new[i] = seq[IF i < k THEN i ELSE i + 1]
  BY RemovedAt
<1> PICK S, T : S = PlacesOf(new, g) /\ T = PlacesOf(seq, g) \ {k}
  OBVIOUS
<1> PICK f : f = [i \in S |-> IF i < k THEN i ELSE i + 1]
  OBVIOUS
<1>2. S \subseteq 1..(n - 1) /\ T \subseteq 1..n
  BY <1>1 DEF PlacesOf
<1>3. ASSUME NEW i \in S PROVE f[i] \in T
  <2>1. i \in 1..(n - 1) /\ new[i] = g /\ f[i] = IF i < k THEN i ELSE i + 1
    BY <1>1 DEF PlacesOf
  <2>2. f[i] \in 1..n /\ f[i] # k /\ seq[f[i]] = g
    BY <1>1, <2>1
  <2> QED BY <1>1, <2>2 DEF PlacesOf
<1>4. \A i, j \in S : f[i] = f[j] => i = j
  BY <1>1, <1>2
<1>5. ASSUME NEW t \in T PROVE \E i \in S : f[i] = t
  <2>1. t \in 1..n /\ t # k /\ seq[t] = g
    BY <1>1 DEF PlacesOf
  <2>2. PICK i \in 1..(n - 1) : t = IF i < k THEN i ELSE i + 1
    <3>1. CASE t < k
      BY <1>1, <2>1, <3>1
    <3>2. CASE t > k
      <4>1. t - 1 \in 1..(n - 1) /\ ~ (t - 1 < k) /\ t = (t - 1) + 1
        BY <1>1, <2>1, <3>2
      <4> QED BY <4>1
    <3> QED BY <1>1, <2>1, <3>1, <3>2
  <2>3. i \in S
    BY <1>1, <2>1, <2>2 DEF PlacesOf
  <2> QED BY <2>2, <2>3
<1>6. f \in Bijection(S, T)
  <2>1. f \in [S -> T]
    BY <1>3
  <2> QED BY <2>1, <1>4, <1>5 DEF Bijection, Injection, Surjection, IsInjective
<1>7. IsFiniteSet(S) /\ Times(new, g) = Cardinality(S)
  BY <1>1, TimesCounts
<1>8. Cardinality(T) = Cardinality(S)
  BY <1>6, <1>7, FS_Bijection DEF ExistsBijection
<1>9. IsFiniteSet(PlacesOf(seq, g)) /\ Times(seq, g) = Cardinality(PlacesOf(seq, g))
      /\ Times(seq, g) \in Nat
  BY TimesCounts
<1>10. k \in PlacesOf(seq, g) <=> g = seq[k]
  BY <1>1 DEF PlacesOf
<1>11. Cardinality(T) = IF k \in PlacesOf(seq, g) THEN Cardinality(PlacesOf(seq, g)) - 1
                        ELSE Cardinality(PlacesOf(seq, g))
  BY <1>9, FS_RemoveElement
<1> QED BY <1>1, <1>7, <1>8, <1>9, <1>10, <1>11

LEMMA IndexOfFinds ==
  ASSUME handlers \in Seq(Handlers), NEW h
  PROVE  \/ IndexOf(h) = 0 /\ PlacesOf(handlers, h) = {}
         \/ IndexOf(h) \in 1..Len(handlers) /\ handlers[IndexOf(h)] = h
<1>1. Len(handlers) \in Nat
  OBVIOUS
<1>2. IndexOf(h) = IF PlacesOf(handlers, h) # {} THEN Min(PlacesOf(handlers, h)) ELSE 0
  BY DEF IndexOf, SelectInSeq, PlacesOf
<1>3. CASE PlacesOf(handlers, h) # {}
  <2>1. PlacesOf(handlers, h) \in SUBSET Nat
    BY <1>1 DEF PlacesOf
  <2>2. \E x \in PlacesOf(handlers, h) : \A y \in PlacesOf(handlers, h) : x <= y
    BY <1>3, <2>1, LeastElement
  <2>3. Min(PlacesOf(handlers, h)) \in PlacesOf(handlers, h)
    BY <2>2 DEF Min
  <2> QED BY <1>2, <1>3, <2>3 DEF PlacesOf
<1> QED BY <1>2, <1>3

Emit == [pc : {"none", "walk", "returned", "thrown"}, walked : Seq(Handlers), live : BOOLEAN,
         i : Nat, len : Nat, calls : Seq(Handlers), due : Seq(Handlers), disturbed : BOOLEAN]

\* As long as nothing was unsubscribed, the array walked begins with the
\* handlers that are due, and those called are the first of them.
InTurn ==
    /\ emitting.i \in 1..(emitting.len + 1) /\ emitting.len = Len(emitting.due)
    /\ emitting.len <= Len(emitting.walked)
    /\ \A k \in 1..emitting.len : emitting.walked[k] = emitting.due[k]
    /\ Len(emitting.calls) = emitting.i - 1
    /\ \A k \in 1..(emitting.i - 1) : emitting.calls[k] = emitting.due[k]

EmitterInv ==
    /\ EmitterTypeOK
    /\ emitting \in Emit
    /\ SubscriptionsKept
    /\ emitting.pc \in {"walk", "returned"} /\ ~ emitting.disturbed => InTurn
    /\ emitting.pc = "walk" => emitting.i > 0
    /\ emitting.pc = "returned" => emitting.i > emitting.len

LEMMA OnHandlerStep ==
  ASSUME EmitterInv, NEW h \in Handlers, OnHandler(h), emitting.pc # "returned"
  PROVE EmitterInv'
<1> PICK old, new, n : old = handlers /\ new = handlers' /\ n = Len(old)
  OBVIOUS
<1>1. /\ old \in Seq(Handlers) /\ new \in Seq(Handlers) /\ n \in Nat
      /\ old = handlers /\ new = handlers' /\ new = Append(old, h) /\ n = Len(old)
      /\ Len(new) = n + 1 /\ n + 1 <= MaxHandlers /\ \A i \in 1..n : new[i] = old[i]
  <2>1. old \in Seq(Handlers) /\ new = Append(old, h) /\ n < MaxHandlers
    BY DEF OnHandler, EmitterInv, EmitterTypeOK
  <2> QED BY <2>1, EmitterAssumption
<1>2. /\ emitting \in Emit /\ subscribed \in [Handlers -> 0..MaxHandlers]
      /\ subscribed' = [subscribed EXCEPT ![h] = @ + 1]
      /\ emitting' = IF emitting.live THEN [emitting EXCEPT !.walked = new] ELSE emitting
  BY <1>1 DEF OnHandler, EmitterInv, EmitterTypeOK
<1>3. SubscriptionsKept' /\ subscribed' \in [Handlers -> 0..MaxHandlers]
  <2>1. ASSUME NEW g \in Handlers PROVE Times(new, g) = subscribed'[g]
    <3>1. Times(old, g) = subscribed[g] /\ Times(old, g) \in Nat
      BY <1>1, TimesCounts DEF EmitterInv, SubscriptionsKept
    <3> QED BY <1>1, <1>2, <3>1, TimesAfterAppend
  <2>2. ASSUME NEW g \in Handlers PROVE Times(new, g) \in 0..MaxHandlers
    <3>1. Times(new, g) \in Nat /\ Times(new, g) <= Len(new)
      BY <1>1, TimesCounts
    <3> QED BY <1>1, <3>1, EmitterAssumption
  <2> QED BY <1>1, <1>2, <2>1, <2>2 DEF SubscriptionsKept
<1>4. CASE emitting.live
  <2>1. /\ emitting' \in Emit /\ emitting'.walked = new /\ emitting'.live
        /\ emitting'.pc = emitting.pc /\ emitting'.i = emitting.i /\ emitting'.len = emitting.len
        /\ emitting'.calls = emitting.calls /\ emitting'.due = emitting.due
        /\ emitting'.disturbed = emitting.disturbed
    BY <1>1, <1>2, <1>4 DEF Emit
  <2>2. emitting.walked = old
    BY <1>1, <1>4 DEF EmitterInv, EmitterTypeOK
  <2>3. InTurn => InTurn'
    BY <1>1, <1>2, <2>1, <2>2 DEF InTurn, Emit
  <2>4. EmitterTypeOK'
    BY <1>1, <1>3, <2>1 DEF EmitterTypeOK, Emit
  <2> QED BY <1>3, <2>1, <2>3, <2>4 DEF EmitterInv
<1>5. CASE ~ emitting.live
  <2>1. emitting' = emitting
    BY <1>2, <1>5
  <2>2. InTurn' <=> InTurn
    BY <2>1 DEF InTurn
  <2>3. EmitterTypeOK'
    BY <1>1, <1>2, <1>3, <1>5, <2>1 DEF EmitterTypeOK, Emit
  <2> QED BY <1>3, <2>1, <2>2, <2>3 DEF EmitterInv
<1> QED BY <1>4, <1>5

LEMMA OffHandlerStep ==
  ASSUME EmitterInv, NEW h \in Handlers, OffHandler(h), emitting.pc # "returned"
  PROVE EmitterInv'
<1>1. PICK old \in Seq(Handlers), new \in Seq(Handlers) :
        /\ old = handlers /\ new = handlers' /\ new = Without(h) /\ Len(new) <= MaxHandlers
        /\ \A g \in Handlers :
             Times(new, g) = IF g = h /\ Times(old, g) > 0 THEN Times(old, g) - 1
                             ELSE Times(old, g)
  <2>1. handlers \in Seq(Handlers) /\ handlers' = Without(h) /\ Len(handlers) <= MaxHandlers
    BY DEF OffHandler, EmitterInv, EmitterTypeOK
  <2>2. CASE IndexOf(h) = 0
    <3>1. PlacesOf(handlers, h) = {}
      BY <2>1, <2>2, IndexOfFinds
    <3>2. Times(handlers, h) = 0
      BY <2>1, <3>1, TimesCounts, FS_EmptySet
    <3> QED BY <2>1, <2>2, <3>2 DEF Without
  <2>3. CASE IndexOf(h) # 0
    <3>1. PICK k \in 1..Len(handlers) : k = IndexOf(h) /\ handlers[k] = h
      BY <2>1, <2>3, IndexOfFinds
    <3>2. Without(h) = RemoveAt(handlers, k)
      BY <2>3, <3>1 DEF Without
    <3>3. RemoveAt(handlers, k) \in Seq(Handlers) /\ Len(RemoveAt(handlers, k)) <= MaxHandlers
      <4>1. Len(RemoveAt(handlers, k)) = Len(handlers) - 1
        BY <2>1, RemovedAt
      <4> QED BY <2>1, <4>1, RemovedAt, EmitterAssumption
    <3>4. k \in PlacesOf(handlers, h) /\ Times(handlers, h) > 0
      <4>1. k \in PlacesOf(handlers, h)
        BY <3>1 DEF PlacesOf
      <4> QED BY <2>1, <4>1, TimesCounts, FS_EmptySet
    <3>5. ASSUME NEW g \in Handlers
          PROVE  Times(Without(h), g) = IF g = h /\ Times(handlers, g) > 0
                                        THEN Times(handlers, g) - 1 ELSE Times(handlers, g)
      <4>1. Times(Without(h), g) = Times(handlers, g) - (IF g = h THEN 1 ELSE 0)
        BY <2>1, <3>1, <3>2, TimesAfterRemoval
      <4>2. Times(handlers, g) \in Nat
        BY <2>1, TimesCounts
      <4> QED BY <3>4, <4>1, <4>2
    <3> QED BY <2>1, <3>2, <3>3, <3>5
  <2> QED BY <2>2, <2>3
<1>2. /\ emitting \in Emit /\ subscribed \in [Handlers -> 0..MaxHandlers]
      /\ subscribed' = [subscribed EXCEPT ![h] = IF @ > 0 THEN @ - 1 ELSE 0]
      /\ emitting' = IF emitting.live
                     THEN [emitting EXCEPT !.walked = new, !.live = new # <<>>,
                                           !.disturbed = emitting.disturbed \/ new # old]
                     ELSE emitting
  BY <1>1 DEF OffHandler, EmitterInv, EmitterTypeOK
<1>3. SubscriptionsKept' /\ subscribed' \in [Handlers -> 0..MaxHandlers]
  <2>1. ASSUME NEW g \in Handlers PROVE Times(new, g) = subscribed'[g]
    <3>1. Times(old, g) = subscribed[g] /\ Times(old, g) \in Nat
      BY <1>1, TimesCounts DEF EmitterInv, SubscriptionsKept
    <3> QED BY <1>1, <1>2, <3>1
  <2>2. ASSUME NEW g \in Handlers PROVE Times(new, g) \in 0..MaxHandlers
    <3>1. Times(new, g) \in Nat /\ Times(new, g) <= Len(new)
      BY <1>1, TimesCounts
    <3> QED BY <1>1, <3>1, EmitterAssumption
  <2> QED BY <1>1, <1>2, <2>1, <2>2 DEF SubscriptionsKept
<1>4. CASE emitting.live
  <2>1. /\ emitting' \in Emit /\ emitting'.walked = new
        /\ emitting'.pc = emitting.pc /\ emitting'.i = emitting.i /\ emitting'.len = emitting.len
        /\ emitting'.calls = emitting.calls /\ emitting'.due = emitting.due
    BY <1>1, <1>2, <1>4 DEF Emit
  <2>2. emitting'.disturbed = (emitting.disturbed \/ new # old)
    BY <1>2, <1>4 DEF Emit
  <2>3. emitting.walked = old
    BY <1>1, <1>4 DEF EmitterInv, EmitterTypeOK
  <2>4. ~ emitting'.disturbed => ~ emitting.disturbed /\ emitting'.walked = emitting.walked
    BY <1>1, <2>1, <2>2, <2>3
  <2>5. emitting'.walked = emitting.walked => (InTurn => InTurn')
    BY <2>1 DEF InTurn
  <2>6. EmitterTypeOK'
    BY <1>1, <1>3, <2>1 DEF EmitterTypeOK, Emit
  <2> QED BY <1>3, <2>1, <2>4, <2>5, <2>6 DEF EmitterInv
<1>5. CASE ~ emitting.live
  <2>1. emitting' = emitting
    BY <1>2, <1>5
  <2>2. InTurn' <=> InTurn
    BY <2>1 DEF InTurn
  <2>3. EmitterTypeOK'
    BY <1>1, <1>2, <1>3, <1>5, <2>1 DEF EmitterTypeOK, Emit
  <2> QED BY <1>3, <2>1, <2>2, <2>3 DEF EmitterInv
<1> QED BY <1>4, <1>5

LEMMA ClearHandlersStep == ASSUME EmitterInv, ClearHandlers PROVE EmitterInv'
<1> PICK none : none = handlers'
  OBVIOUS
<1>1. none \in Seq(Handlers) /\ none = handlers' /\ Len(none) = 0
  BY DEF ClearHandlers
<1>2. /\ emitting \in Emit /\ subscribed' = [h \in Handlers |-> 0]
      /\ emitting' = [emitting EXCEPT !.live = FALSE]
  BY DEF ClearHandlers, EmitterInv
<1>3. ASSUME NEW h PROVE Times(none, h) = 0
  <2>1. Times(none, h) \in Nat /\ Times(none, h) <= Len(none)
    BY <1>1, TimesCounts
  <2> QED BY <1>1, <2>1
<1>4. /\ emitting' \in Emit /\ emitting'.walked = emitting.walked /\ emitting'.live = FALSE
      /\ emitting'.pc = emitting.pc /\ emitting'.i = emitting.i /\ emitting'.len = emitting.len
      /\ emitting'.calls = emitting.calls /\ emitting'.due = emitting.due
      /\ emitting'.disturbed = emitting.disturbed
  BY <1>2 DEF Emit
<1>5. InTurn' <=> InTurn
  BY <1>4 DEF InTurn
<1>6. subscribed' \in [Handlers -> 0..MaxHandlers]
  BY <1>2, EmitterAssumption
<1>7. EmitterTypeOK'
  BY <1>1, <1>4, <1>6, EmitterAssumption DEF EmitterTypeOK, Emit
<1>8. SubscriptionsKept'
  BY <1>1, <1>2, <1>3 DEF SubscriptionsKept
<1> QED BY <1>4, <1>5, <1>7, <1>8 DEF EmitterInv

LEMMA EmitStep ==
  ASSUME EmitterInv, BeginEmit \/ Visit \/ Throws \/ Returns PROVE EmitterInv'
<1>1. /\ handlers' = handlers /\ subscribed' = subscribed
      /\ handlers \in Seq(Handlers) /\ emitting \in Emit
  BY DEF BeginEmit, Visit, Throws, Returns, EmitterInv, EmitterTypeOK
<1>2. SubscriptionsKept'
  BY <1>1 DEF EmitterInv, SubscriptionsKept
<1>3. emitting' \in Emit /\ (emitting'.live => emitting'.walked = handlers) => EmitterTypeOK'
  BY <1>1 DEF EmitterInv, EmitterTypeOK, Emit
<1>4. CASE BeginEmit
  <2> PICK len, none : len = Len(handlers) /\ none = <<>>
    OBVIOUS
  <2> PICK live \in BOOLEAN : live <=> handlers # <<>>
    OBVIOUS
  <2>0. len \in Nat /\ none \in Seq(Handlers) /\ Len(none) = 0
    BY <1>1
  <2>1. emitting' = [pc |-> "walk", walked |-> handlers, live |-> live, i |-> 1, len |-> len,
                     calls |-> none, due |-> handlers, disturbed |-> FALSE]
    BY <1>4 DEF BeginEmit
  <2>2. emitting' \in Emit
    BY <1>1, <2>0, <2>1 DEF Emit
  <2>3. InTurn'
    BY <1>1, <2>0, <2>1 DEF InTurn
  <2> QED BY <1>2, <1>3, <2>1, <2>2, <2>3 DEF EmitterInv
<1>5. CASE Visit
  <2> PICK i, calls :
        /\ i = emitting.i + 1
        /\ calls = IF emitting.i <= Len(emitting.walked)
                   THEN Append(emitting.calls, emitting.walked[emitting.i]) ELSE emitting.calls
    OBVIOUS
  <2>0. emitting.i \in Nat \ {0}
    BY <1>5 DEF EmitterInv, Emit, Visit
  <2>1. /\ i \in Nat /\ calls \in Seq(Handlers)
        /\ emitting.pc = "walk" /\ emitting.i <= emitting.len /\ i = emitting.i + 1
        /\ calls = IF emitting.i <= Len(emitting.walked)
                   THEN Append(emitting.calls, emitting.walked[emitting.i]) ELSE emitting.calls
        /\ emitting' = [emitting EXCEPT !.i = i, !.calls = calls]
    <3>1. emitting.walked \in Seq(Handlers) /\ emitting.calls \in Seq(Handlers)
      BY <1>1 DEF Emit
    <3>2. emitting.i <= Len(emitting.walked) => emitting.walked[emitting.i] \in Handlers
      BY <2>0, <3>1
    <3> QED BY <1>5, <2>0, <3>1, <3>2 DEF Visit
  <2>2. /\ emitting' \in Emit /\ emitting'.i = i /\ emitting'.calls = calls
        /\ emitting'.pc = emitting.pc /\ emitting'.live = emitting.live
        /\ emitting'.walked = emitting.walked /\ emitting'.len = emitting.len
        /\ emitting'.due = emitting.due /\ emitting'.disturbed = emitting.disturbed
    BY <1>1, <2>1 DEF Emit
  <2>3. InTurn => InTurn'
    <3> HAVE InTurn
    <3>1. calls = Append(emitting.calls, emitting.walked[emitting.i])
      BY <2>1 DEF InTurn
    <3>2. Len(calls) = i - 1 /\ \A k \in 1..(i - 1) : calls[k] = emitting.due[k]
      BY <1>1, <2>1, <3>1 DEF InTurn, Emit
    <3>3. emitting.i \in 1..emitting.len /\ emitting.len \in Nat
      BY <1>1, <2>1 DEF InTurn, Emit
    <3>4. i \in 1..(emitting.len + 1)
      BY <2>1, <3>3
    <3> QED BY <2>2, <3>2, <3>4 DEF InTurn
  <2>4. EmitterTypeOK'
    BY <1>3, <2>2 DEF EmitterInv, EmitterTypeOK
  <2> QED BY <1>2, <2>0, <2>1, <2>2, <2>3, <2>4 DEF EmitterInv
<1>6. CASE Throws
  <2>1. emitting' = [emitting EXCEPT !.pc = "thrown", !.live = FALSE]
    BY <1>6 DEF Throws
  <2>2. emitting' \in Emit /\ emitting'.pc = "thrown" /\ emitting'.live = FALSE
    BY <1>1, <2>1 DEF Emit
  <2> QED BY <1>2, <1>3, <2>2 DEF EmitterInv
<1>7. CASE Returns
  <2>1. /\ emitting' = [emitting EXCEPT !.pc = "returned", !.live = FALSE]
        /\ emitting.pc = "walk" /\ emitting.i > emitting.len
    BY <1>7 DEF Returns
  <2>2. /\ emitting' \in Emit /\ emitting'.pc = "returned" /\ emitting'.live = FALSE
        /\ emitting'.walked = emitting.walked /\ emitting'.i = emitting.i
        /\ emitting'.len = emitting.len /\ emitting'.calls = emitting.calls
        /\ emitting'.due = emitting.due /\ emitting'.disturbed = emitting.disturbed
    BY <1>1, <2>1 DEF Emit
  <2>3. InTurn' <=> InTurn
    BY <2>2 DEF InTurn
  <2> QED BY <1>2, <1>3, <2>1, <2>2, <2>3 DEF EmitterInv
<1> QED BY <1>4, <1>5, <1>6, <1>7

\* Whatever handlers do to the array while an emit walks it, each stays
\* subscribed as often as on and off say, and an emit that returns has called
\* those it found, each in its turn, unless one was unsubscribed meanwhile (on,
\* off, clear, emit).
THEOREM HandlersAreServed == EmitterSpec => []HandlersServed
<1>1. EmitterInit => EmitterInv
  <2> SUFFICES ASSUME EmitterInit PROVE EmitterInv
    OBVIOUS
  <2> PICK one, none : one = <<Notifier>> /\ none = <<>>
    OBVIOUS
  <2>1. /\ one \in Seq(Handlers) /\ none \in Seq(Handlers)
        /\ one = <<Notifier>> /\ Len(one) = 1 /\ one[1] = Notifier
        /\ none = <<>> /\ Len(none) = 0
    BY EmitterAssumption
  <2>2. handlers = one /\ emitting = NoEmit
        /\ subscribed = [h \in Handlers |-> IF h = Notifier THEN 1 ELSE 0]
    BY <2>1 DEF EmitterInit
  <2>3. emitting \in Emit /\ emitting.pc = "none" /\ emitting.live = FALSE
    BY <2>1, <2>2 DEF NoEmit, Emit
  <2>4. ASSUME NEW h \in Handlers PROVE Times(one, h) = subscribed[h]
    <3>1. Append(none, Notifier) = one
      BY <2>1
    <3>2. Times(none, h) = 0
      <4>1. Times(none, h) \in Nat /\ Times(none, h) <= Len(none)
        BY <2>1, TimesCounts
      <4> QED BY <2>1, <4>1
    <3>3. Times(one, h) = Times(none, h) + (IF h = Notifier THEN 1 ELSE 0)
      <4>1. none \in Seq(Handlers) /\ Notifier \in Handlers
        BY <2>1, EmitterAssumption
      <4>2. Times(Append(none, Notifier), h) = Times(none, h) + (IF h = Notifier THEN 1 ELSE 0)
        BY <4>1, TimesAfterAppend
      <4> QED BY <3>1, <4>2
    <3> QED BY <2>2, <3>2, <3>3
  <2>5. EmitterTypeOK
    BY <2>1, <2>2, <2>3, EmitterAssumption DEF EmitterTypeOK, Emit
  <2> QED BY <2>2, <2>3, <2>4, <2>5 DEF EmitterInv, SubscriptionsKept
<1>2. EmitterInv /\ [EmitterNext]_emitterVars => EmitterInv'
  <2> SUFFICES ASSUME EmitterInv, [EmitterNext]_emitterVars PROVE EmitterInv'
    OBVIOUS
  <2>1. CASE UNCHANGED emitterVars
    <3>1. UNCHANGED <<handlers, emitting, subscribed>>
      BY <2>1 DEF emitterVars
    <3>2. (InTurn' <=> InTurn) /\ (EmitterTypeOK' <=> EmitterTypeOK)
          /\ (SubscriptionsKept' <=> SubscriptionsKept)
      BY <3>1 DEF InTurn, EmitterTypeOK, SubscriptionsKept
    <3> QED BY <3>1, <3>2 DEF EmitterInv
  <2>2. CASE EmitterNext
    BY <2>2, OnHandlerStep, OffHandlerStep, ClearHandlersStep, EmitStep DEF EmitterNext, Call
  <2> QED BY <2>1, <2>2
<1>3. EmitterInv => HandlersServed
  <2> SUFFICES ASSUME EmitterInv, emitting.pc = "returned", ~ emitting.disturbed
               PROVE  emitting.calls = emitting.due
    BY DEF EmitterInv, HandlersServed, EmitReachesAll
  <2>1. PICK n \in Nat : n = emitting.len /\ emitting.i = n + 1
    BY DEF EmitterInv, InTurn, Emit
  <2>2. emitting.calls \in Seq(Handlers) /\ emitting.due \in Seq(Handlers)
    BY DEF EmitterInv, Emit
  <2>3. Len(emitting.calls) = n /\ Len(emitting.due) = n
        /\ \A k \in 1..n : emitting.calls[k] = emitting.due[k]
    BY <2>1 DEF EmitterInv, InTurn
  <2> QED BY <2>2, <2>3
<1> QED BY <1>1, <1>2, <1>3, PTL DEF EmitterSpec

-----------------------------------------------------------------------------
(***************************************************************************)
(* The login risk.  A score is made of counts and of conditions on the     *)
(* attempts; more failures, more reasons and more speed never make it      *)
(* smaller, and each step moves them one way.                              *)
(***************************************************************************)

\* The score, from the numbers it is made of.
Total(failures, weights, velocity) ==
    Min({100, Min({30, 10 * failures}) + weights + Min({15, 3 * velocity})})

\* More failures, more reasons and more speed never make a score smaller.
LEMMA TotalGrows ==
  ASSUME NEW f \in Nat, NEW g \in Nat, f <= g, NEW w \in Nat, NEW x \in Nat, w <= x,
         NEW v \in Nat, NEW y \in Nat, v <= y
  PROVE  Total(f, w, v) <= Total(g, x, y)
<1>1. /\ Min({30, 10 * f}) = (IF 30 <= 10 * f THEN 30 ELSE 10 * f)
      /\ Min({30, 10 * g}) = (IF 30 <= 10 * g THEN 30 ELSE 10 * g)
      /\ Min({15, 3 * v}) = (IF 15 <= 3 * v THEN 15 ELSE 3 * v)
      /\ Min({15, 3 * y}) = (IF 15 <= 3 * y THEN 15 ELSE 3 * y)
  BY MinOfTwo
<1>2. PICK a, b : /\ a = Min({30, 10 * f}) + w + Min({15, 3 * v})
                  /\ b = Min({30, 10 * g}) + x + Min({15, 3 * y})
  OBVIOUS
<1>3. a \in Int /\ b \in Int /\ a <= b
  BY <1>1, <1>2
<1>4. Min({100, a}) = (IF 100 <= a THEN 100 ELSE a) /\ Min({100, b}) = (IF 100 <= b THEN 100 ELSE b)
  BY <1>3, MinOfTwo
<1> QED BY <1>2, <1>3, <1>4 DEF Total

\* The parts of a score, for any history h.
SuccessesIn(h) == {i \in DOMAIN h : h[i].success}
FailuresIn(h) == {i \in DOMAIN h : ~ h[i].success /\ h[i].age < 15}
HastyIn(h) == {i \in DOMAIN h : h[i].age < 1}
NewPlaceIn(h, place) == place # NoPlace /\ \A i \in SuccessesIn(h) : h[i].place # place
NewDeviceIn(h, device) == \A i \in SuccessesIn(h) : h[i].device # device
LastIn(h) == h[Max(SuccessesIn(h))]
TravelIn(h, place) ==
    place # NoPlace /\ SuccessesIn(h) # {} /\ LastIn(h).place \notin {NoPlace, place} /\ LastIn(h).age < 7
WeightsIn(h, r) ==
    Worth(NewPlaceIn(h, r[1]), 10) + Worth(TravelIn(h, r[1]), 40) + Worth(NewDeviceIn(h, r[2]), 15) + r[3]
ScoreIn(h, r) == Total(Cardinality(FailuresIn(h)), WeightsIn(h, r), Cardinality(HastyIn(h)))

History(h) == h \in Seq(Attempts)

\* A set of attempts is finite.
LEMMA AttemptsFinite ==
  ASSUME NEW h, History(h), NEW T \in SUBSET (DOMAIN h)
  PROVE  IsFiniteSet(T) /\ Cardinality(T) \in Nat
<1>1. PICK n : n = Len(h)
  OBVIOUS
<1>2. n \in Nat /\ DOMAIN h = 1..n
  BY <1>1 DEF History
<1>3. 1 \in Int /\ n \in Int
  BY <1>2
<1>4. IsFiniteSet(1..n)
  BY <1>3, FS_Interval
<1> QED BY <1>2, <1>4, FS_Subset, FS_CardinalityType

LEMMA WeightsNatural ==
  ASSUME NEW h, NEW r \in Logins PROVE WeightsIn(h, r) \in Nat
<1>1. r[3] \in Nat
  BY DEF Logins, Reputations
<1>2. \A b \in BOOLEAN : Worth(b, 10) \in Nat /\ Worth(b, 40) \in Nat /\ Worth(b, 15) \in Nat
  BY DEF Worth
<1>3. NewPlaceIn(h, r[1]) \in BOOLEAN /\ TravelIn(h, r[1]) \in BOOLEAN /\ NewDeviceIn(h, r[2]) \in BOOLEAN
  BY DEF NewPlaceIn, TravelIn, NewDeviceIn
<1>4. PICK a, b, c : /\ a = Worth(NewPlaceIn(h, r[1]), 10) /\ b = Worth(TravelIn(h, r[1]), 40)
                     /\ c = Worth(NewDeviceIn(h, r[2]), 15)
  OBVIOUS
<1>5. a \in Nat /\ b \in Nat /\ c \in Nat
  BY <1>2, <1>3, <1>4
<1>6. WeightsIn(h, r) = a + b + c + r[3]
  BY <1>4 DEF WeightsIn
<1> QED BY <1>1, <1>5, <1>6

\* The score of a login is that of the history.
LEMMA ScoreIsOfHistory ==
  ASSUME NEW r \in Logins, NEW h, History(h), h = attempts
  PROVE  ScoreOf(r) = ScoreIn(h, r)
<1>1. /\ Successes = SuccessesIn(h) /\ RecentFailures = Cardinality(FailuresIn(h))
      /\ Velocity = Cardinality(HastyIn(h))
  BY DEF Successes, RecentFailures, Velocity, Where, SuccessesIn, FailuresIn, HastyIn
<1>2. NewPlace(r[1]) = NewPlaceIn(h, r[1]) /\ NewDevice(r[2]) = NewDeviceIn(h, r[2])
  BY <1>1 DEF NewPlace, NewDevice, NewPlaceIn, NewDeviceIn
<1>3. ImpossibleTravel(r[1]) = TravelIn(h, r[1])
  BY <1>1 DEF ImpossibleTravel, WasElsewhere, TravelIn, LastIn
<1>4. PICK a, b, c : /\ a = Worth(NewPlaceIn(h, r[1]), 10) /\ b = Worth(TravelIn(h, r[1]), 40)
                     /\ c = Worth(NewDeviceIn(h, r[2]), 15)
  OBVIOUS
<1>5. a \in Nat /\ b \in Nat /\ c \in Nat /\ r[3] \in Nat
  BY <1>4 DEF Worth, Logins, Reputations
<1>6. PICK f, v : f = Cardinality(FailuresIn(h)) /\ v = Cardinality(HastyIn(h))
  OBVIOUS
<1>7. f \in Nat /\ v \in Nat
  BY <1>6, AttemptsFinite DEF FailuresIn, HastyIn
<1>8. PICK x, y : x = Min({30, 10 * f}) /\ y = Min({15, 3 * v})
  OBVIOUS
<1>9. x \in Int /\ y \in Int
  <2>1. 10 * f \in Int /\ 3 * v \in Int
    BY <1>7
  <2> QED BY <1>8, <2>1, MinOfTwo
<1>10. ScoreOf(r) = Min({100, x + a + b + c + r[3] + y})
  BY <1>1, <1>2, <1>3, <1>4, <1>6, <1>8 DEF ScoreOf, RiskScore
<1>11. x + a + b + c + r[3] + y = x + (a + b + c + r[3]) + y
  BY <1>5, <1>9
<1> QED BY <1>4, <1>6, <1>8, <1>10, <1>11 DEF ScoreIn, Total, WeightsIn

LEMMA ScoresAreNumbers ==
  ASSUME NEW r \in Logins, NEW h, History(h) PROVE ScoreIn(h, r) \in Int
<1>1. PICK f, v, w : f = Cardinality(FailuresIn(h)) /\ v = Cardinality(HastyIn(h)) /\ w = WeightsIn(h, r)
  OBVIOUS
<1>2. f \in Nat /\ v \in Nat /\ w \in Nat
  BY <1>1, AttemptsFinite, WeightsNatural DEF FailuresIn, HastyIn
<1>3. PICK x, y : x = Min({30, 10 * f}) /\ y = Min({15, 3 * v})
  OBVIOUS
<1>4. x \in Int /\ y \in Int
  <2>1. 10 * f \in Int /\ 3 * v \in Int
    BY <1>2
  <2> QED BY <1>3, <2>1, MinOfTwo
<1>5. x + w + y \in Int
  BY <1>2, <1>4
<1>6. Min({100, x + w + y}) \in Int
  BY <1>5, MinOfTwo
<1> QED BY <1>1, <1>3, <1>6 DEF ScoreIn, Total

\* A history with no fewer attempts of either kind and no fewer reasons scores
\* no less.
LEMMA MoreScoresMore ==
  ASSUME NEW g, NEW h, History(g), History(h), NEW r \in Logins,
         FailuresIn(g) \subseteq FailuresIn(h), HastyIn(g) \subseteq HastyIn(h),
         NewPlaceIn(g, r[1]) => NewPlaceIn(h, r[1]), NewDeviceIn(g, r[2]) => NewDeviceIn(h, r[2]),
         TravelIn(g, r[1]) => TravelIn(h, r[1])
  PROVE  ScoreIn(g, r) <= ScoreIn(h, r)
<1>1. /\ FailuresIn(g) \subseteq DOMAIN g /\ HastyIn(g) \subseteq DOMAIN g
      /\ FailuresIn(h) \subseteq DOMAIN h /\ HastyIn(h) \subseteq DOMAIN h
  BY DEF FailuresIn, HastyIn
<1>2. /\ Cardinality(FailuresIn(g)) \in Nat /\ Cardinality(FailuresIn(h)) \in Nat
      /\ Cardinality(HastyIn(g)) \in Nat /\ Cardinality(HastyIn(h)) \in Nat
      /\ IsFiniteSet(FailuresIn(h)) /\ IsFiniteSet(HastyIn(h))
  BY <1>1, AttemptsFinite
<1>3. /\ Cardinality(FailuresIn(g)) <= Cardinality(FailuresIn(h))
      /\ Cardinality(HastyIn(g)) <= Cardinality(HastyIn(h))
  BY <1>2, FS_Subset
<1>4. WeightsIn(g, r) \in Nat /\ WeightsIn(h, r) \in Nat
  BY WeightsNatural
<1>5. WeightsIn(g, r) <= WeightsIn(h, r)
  <2>1. PICK a, b, c, d, e, f :
           /\ a = Worth(NewPlaceIn(g, r[1]), 10) /\ b = Worth(TravelIn(g, r[1]), 40)
           /\ c = Worth(NewDeviceIn(g, r[2]), 15)
           /\ d = Worth(NewPlaceIn(h, r[1]), 10) /\ e = Worth(TravelIn(h, r[1]), 40)
           /\ f = Worth(NewDeviceIn(h, r[2]), 15)
    OBVIOUS
  <2>2. a \in Nat /\ b \in Nat /\ c \in Nat /\ d \in Nat /\ e \in Nat /\ f \in Nat /\ r[3] \in Nat
    BY <2>1 DEF Worth, Logins, Reputations
  <2>3. a <= d /\ b <= e /\ c <= f
    BY <2>1 DEF Worth
  <2>4. WeightsIn(g, r) = a + b + c + r[3] /\ WeightsIn(h, r) = d + e + f + r[3]
    BY <2>1 DEF WeightsIn
  <2> QED BY <2>2, <2>3, <2>4
<1> QED BY <1>2, <1>3, <1>4, <1>5, TotalGrows DEF ScoreIn

\* Waiting: every attempt is older, nothing else has changed.
Older(g, h) ==
    /\ DOMAIN h = DOMAIN g
    /\ \A i \in DOMAIN g : /\ h[i].success = g[i].success /\ h[i].place = g[i].place
                           /\ h[i].device = g[i].device /\ g[i].age <= h[i].age

\* The last of the successes is one of them.
LEMMA LastIsSuccess ==
  ASSUME NEW h, History(h), SuccessesIn(h) # {}
  PROVE  Max(SuccessesIn(h)) \in SuccessesIn(h)
<1>1. PICK n, T : n = Len(h) /\ T = SuccessesIn(h)
  OBVIOUS
<1>2. n \in Nat /\ T \in SUBSET (0..n) /\ T # {}
  BY <1>1 DEF History, SuccessesIn
<1>3. PICK x \in T : \A y \in T : y <= x
  BY <1>2, GreatestElement
<1>4. \A y \in T : x >= y
  BY <1>2, <1>3
<1>5. Max(T) \in T
  BY <1>4 DEF Max
<1> QED BY <1>1, <1>5

LEMMA OlderScoresLess ==
  ASSUME NEW g, NEW h, History(g), History(h), Older(g, h), NEW r \in Logins
  PROVE  ScoreIn(h, r) <= ScoreIn(g, r)
<1>1. /\ DOMAIN h = DOMAIN g
      /\ \A i \in DOMAIN g : /\ h[i].success = g[i].success /\ h[i].place = g[i].place
                             /\ h[i].device = g[i].device /\ g[i].age <= h[i].age
                             /\ g[i].age \in Int /\ h[i].age \in Int
  <2>1. \A a \in Attempts : a.age \in Int
    BY DEF Attempts, Old
  <2>2. \A i \in DOMAIN g : g[i] \in Attempts
    BY DEF History
  <2>3. \A i \in DOMAIN h : h[i] \in Attempts
    BY DEF History
  <2> QED BY <2>1, <2>2, <2>3 DEF Older
<1>2. SuccessesIn(h) = SuccessesIn(g)
  BY <1>1 DEF SuccessesIn
<1>3. FailuresIn(h) \subseteq FailuresIn(g) /\ HastyIn(h) \subseteq HastyIn(g)
  BY <1>1 DEF FailuresIn, HastyIn
<1>4. SuccessesIn(g) \subseteq DOMAIN g
  BY DEF SuccessesIn
<1>5. NewPlaceIn(h, r[1]) => NewPlaceIn(g, r[1])
  BY <1>1, <1>2, <1>4 DEF NewPlaceIn
<1>6. NewDeviceIn(h, r[2]) => NewDeviceIn(g, r[2])
  BY <1>1, <1>2, <1>4 DEF NewDeviceIn
<1>7. TravelIn(h, r[1]) => TravelIn(g, r[1])
  <2> SUFFICES ASSUME TravelIn(h, r[1]) PROVE TravelIn(g, r[1])
    OBVIOUS
  <2>1. PICK m : m = Max(SuccessesIn(g))
    OBVIOUS
  <2>2. SuccessesIn(g) # {} /\ r[1] # NoPlace /\ h[m].place \notin {NoPlace, r[1]} /\ h[m].age < 7
    BY <1>2, <2>1 DEF TravelIn, LastIn
  <2>3. m \in DOMAIN g
    BY <1>4, <2>1, <2>2, LastIsSuccess
  <2>4. g[m].place = h[m].place /\ g[m].age < 7
    BY <1>1, <2>2, <2>3
  <2> QED BY <2>1, <2>2, <2>4 DEF TravelIn, LastIn
<1> QED BY <1>3, <1>5, <1>6, <1>7, MoreScoresMore

\* One more attempt, made just now.
Longer(g, h, n, e) ==
    /\ n \in Nat /\ DOMAIN g = 1..n /\ DOMAIN h = 1..(n + 1)
    /\ h[n + 1] = e /\ e.age = 0 /\ \A i \in 1..n : h[i] = g[i]

LEMMA LongerCounts ==
  ASSUME NEW g, NEW h, NEW n, NEW e, Longer(g, h, n, e)
  PROVE  /\ FailuresIn(g) \subseteq FailuresIn(h) /\ HastyIn(g) \subseteq HastyIn(h)
         /\ SuccessesIn(g) \subseteq SuccessesIn(h) /\ SuccessesIn(g) \subseteq 1..n
         /\ ~ e.success => SuccessesIn(h) = SuccessesIn(g)
         /\ e.success => SuccessesIn(h) = SuccessesIn(g) \cup {n + 1}
<1>1. \A i \in 1..(n + 1) : i \in 1..n \/ i = n + 1
  BY DEF Longer
<1>2. \A i \in 1..n : i \in 1..(n + 1)
  BY DEF Longer
<1>3. n + 1 \in 1..(n + 1) /\ n + 1 \notin 1..n
  BY DEF Longer
<1> QED BY <1>1, <1>2, <1>3 DEF Longer, FailuresIn, HastyIn, SuccessesIn

LEMMA FailureScoresMore ==
  ASSUME NEW g, NEW h, History(g), History(h), NEW n, NEW e, Longer(g, h, n, e), ~ e.success,
         NEW r \in Logins
  PROVE  ScoreIn(g, r) <= ScoreIn(h, r)
<1>1. /\ FailuresIn(g) \subseteq FailuresIn(h) /\ HastyIn(g) \subseteq HastyIn(h)
      /\ SuccessesIn(h) = SuccessesIn(g) /\ SuccessesIn(g) \subseteq 1..n
  BY LongerCounts
<1>2. \A i \in SuccessesIn(g) : h[i] = g[i]
  BY <1>1 DEF Longer
<1>3. NewPlaceIn(g, r[1]) => NewPlaceIn(h, r[1])
  BY <1>1, <1>2 DEF NewPlaceIn
<1>4. NewDeviceIn(g, r[2]) => NewDeviceIn(h, r[2])
  BY <1>1, <1>2 DEF NewDeviceIn
<1>5. TravelIn(g, r[1]) => TravelIn(h, r[1])
  <2> SUFFICES ASSUME TravelIn(g, r[1]) PROVE TravelIn(h, r[1])
    OBVIOUS
  <2>1. Max(SuccessesIn(g)) \in SuccessesIn(g)
    BY LastIsSuccess DEF TravelIn
  <2>2. LastIn(h) = LastIn(g)
    BY <1>1, <1>2, <2>1 DEF LastIn
  <2> QED BY <1>1, <2>2 DEF TravelIn
<1> QED BY <1>1, <1>3, <1>4, <1>5, MoreScoresMore

LEMMA SuccessScoresMore ==
  ASSUME NEW g, NEW h, History(g), History(h), NEW n, NEW e, Longer(g, h, n, e), e.success,
         NEW r \in Logins, r[1] # e.place, r[2] # e.device,
         ~ (TravelIn(g, r[1]) /\ e.place = NoPlace)
  PROVE  ScoreIn(g, r) <= ScoreIn(h, r)
<1>1. /\ FailuresIn(g) \subseteq FailuresIn(h) /\ HastyIn(g) \subseteq HastyIn(h)
      /\ SuccessesIn(h) = SuccessesIn(g) \cup {n + 1} /\ SuccessesIn(g) \subseteq 1..n
  BY LongerCounts
<1>2. h[n + 1] = e /\ e.age = 0 /\ n \in Nat /\ \A i \in SuccessesIn(g) : h[i] = g[i]
  BY <1>1 DEF Longer
<1>3. NewPlaceIn(g, r[1]) => NewPlaceIn(h, r[1])
  BY <1>1, <1>2 DEF NewPlaceIn
<1>4. NewDeviceIn(g, r[2]) => NewDeviceIn(h, r[2])
  BY <1>1, <1>2 DEF NewDeviceIn
<1>5. TravelIn(g, r[1]) => TravelIn(h, r[1])
  <2> SUFFICES ASSUME TravelIn(g, r[1]) PROVE TravelIn(h, r[1])
    OBVIOUS
  <2>1. Max(SuccessesIn(h)) = n + 1
    <3>1. \A y \in SuccessesIn(h) : n + 1 >= y
      BY <1>1, <1>2
    <3>2. \A x \in SuccessesIn(h) : (\A y \in SuccessesIn(h) : x >= y) => x = n + 1
      BY <1>1, <1>2
    <3>3. n + 1 \in SuccessesIn(h)
      BY <1>1
    <3> QED BY <3>1, <3>2, <3>3 DEF Max
  <2>2. LastIn(h) = e
    BY <1>2, <2>1 DEF LastIn
  <2>3. e.place \notin {NoPlace, r[1]} /\ e.age < 7 /\ r[1] # NoPlace
    BY <1>2 DEF TravelIn
  <2> QED BY <1>1, <2>2, <2>3 DEF TravelIn
<1> QED BY <1>1, <1>3, <1>4, <1>5, MoreScoresMore

\* The inductive invariant: the history holds attempts.
RiskInv == History(attempts)

LEMMA AttemptLengthens ==
  ASSUME RiskInv, NEW p \in Places \cup {NoPlace}, NEW d \in Devices, NEW ok \in BOOLEAN,
         LoginAttempt(p, d, ok)
  PROVE  /\ History(attempts') /\ Len(attempts') = Len(attempts) + 1 /\ Len(attempts) \in Nat
         /\ \E e : /\ e = [place |-> p, device |-> d, success |-> ok, age |-> 0]
                   /\ attempts'[Len(attempts')] = e
                   /\ Longer(attempts, attempts', Len(attempts), e)
<1>1. PICK e, g, n : e = [place |-> p, device |-> d, success |-> ok, age |-> 0] /\ g = attempts /\ n = Len(g)
  OBVIOUS
<1>2. e \in Attempts /\ e.age = 0
  BY <1>1 DEF Attempts, Old
<1>3. g \in Seq(Attempts) /\ n \in Nat /\ DOMAIN g = 1..n
  BY <1>1 DEF RiskInv, History
<1>4. attempts' = Append(g, e)
  BY <1>1 DEF LoginAttempt
<1>5. PICK h : h = Append(g, e)
  OBVIOUS
<1>6. /\ h \in Seq(Attempts) /\ Len(h) = n + 1 /\ DOMAIN h = 1..(n + 1) /\ h[n + 1] = e
      /\ \A i \in 1..n : h[i] = g[i]
  BY <1>1, <1>2, <1>3, <1>5
<1> QED BY <1>1, <1>2, <1>3, <1>4, <1>5, <1>6 DEF Longer, History

LEMMA PauseAges ==
  ASSUME RiskInv, NEW m \in Pauses, Pause(m)
  PROVE  History(attempts') /\ Len(attempts') = Len(attempts) /\ Older(attempts, attempts')
<1>1. PICK g, n : g = attempts /\ n = Len(g)
  OBVIOUS
<1>2. g \in Seq(Attempts) /\ n \in Nat /\ DOMAIN g = 1..n /\ \A i \in 1..n : g[i] \in Attempts
  BY <1>1 DEF RiskInv, History
<1>3. m \in Nat
  BY RiskAssumption
<1>4. ASSUME NEW a \in Attempts
      PROVE  LET b == [a EXCEPT !.age = Min({Old, @ + m})]
             IN  /\ b \in Attempts /\ b.success = a.success /\ b.place = a.place
                 /\ b.device = a.device /\ a.age <= b.age
  <2>1. PICK k : k = Min({Old, a.age + m})
    OBVIOUS
  <2>2. a.age \in 0..15
    BY DEF Attempts, Old
  <2>3. k = (IF 15 <= a.age + m THEN 15 ELSE a.age + m)
    BY <1>3, <2>1, <2>2, MinOfTwo DEF Old
  <2>4. k \in 0..15 /\ a.age <= k
    BY <1>3, <2>2, <2>3
  <2>5. PICK b : b = [a EXCEPT !.age = k]
    OBVIOUS
  <2>6. /\ b \in Attempts /\ b.success = a.success /\ b.place = a.place
        /\ b.device = a.device /\ b.age = k
    BY <2>4, <2>5 DEF Attempts, Old
  <2> QED BY <2>1, <2>4, <2>5, <2>6
<1>5. PICK h : h = [i \in 1..n |-> [g[i] EXCEPT !.age = Min({Old, @ + m})]]
  OBVIOUS
<1>6. attempts' = h
  BY <1>1, <1>2, <1>5 DEF Pause
<1>7. DOMAIN h = 1..n /\ \A i \in 1..n : h[i] = [g[i] EXCEPT !.age = Min({Old, @ + m})]
  BY <1>5
<1>8. \A i \in 1..n : /\ h[i] \in Attempts /\ h[i].success = g[i].success /\ h[i].place = g[i].place
                      /\ h[i].device = g[i].device /\ g[i].age <= h[i].age
  BY <1>2, <1>4, <1>7
<1>9. h \in [1..n -> Attempts]
  BY <1>5, <1>7, <1>8
<1>10. h \in Seq(Attempts) /\ Len(h) = n
  BY <1>2, <1>9
<1> QED BY <1>1, <1>2, <1>6, <1>7, <1>8, <1>10 DEF History, Older

\* What the state says of the score is what the history says of it.
ScoresAreOfHistory ==
    \A r \in Logins : History(attempts) => ScoreOf(r) = ScoreIn(attempts, r) /\ ScoreIn(attempts, r) \in Int

\* The score of the next login moves with the history in the direction that
\* each attempt justifies, for any history, places, devices and pauses
\* (RiskAssessmentService).
THEOREM ScoresAlwaysMoveRight == RiskSpec => ScoresMoveRight
<1> DEFINE Right == WaitingCalms /\ FailureNeverHelps /\ SuccessForgivesItsOwn
<1>1. RiskInit => RiskInv
  <2>1. <<>> \in Seq(Attempts)
    OBVIOUS
  <2> QED BY <2>1 DEF RiskInit, RiskInv, History
<1>2. RiskInv /\ [RiskNext]_riskVars => RiskInv'
  <2> SUFFICES ASSUME RiskInv, [RiskNext]_riskVars PROVE RiskInv'
    OBVIOUS
  <2>1. CASE UNCHANGED riskVars
    BY <2>1 DEF riskVars, RiskInv
  <2>2. ASSUME NEW p \in Places \cup {NoPlace}, NEW d \in Devices, NEW ok \in BOOLEAN, LoginAttempt(p, d, ok)
        PROVE  RiskInv'
    BY <2>2, AttemptLengthens DEF RiskInv
  <2>3. ASSUME NEW m \in Pauses, Pause(m) PROVE RiskInv'
    BY <2>3, PauseAges DEF RiskInv
  <2> QED BY <2>1, <2>2, <2>3 DEF RiskNext
<1>3. ScoresAreOfHistory
  BY ScoreIsOfHistory, ScoresAreNumbers DEF ScoresAreOfHistory
<1>4. ScoresAreOfHistory'
  BY <1>3, PTL
<1>5. \A place : ImpossibleTravel(place) <=> TravelIn(attempts, place)
  BY DEF ImpossibleTravel, WasElsewhere, TravelIn, LastIn, Successes, Where, SuccessesIn
<1>6. RiskInv /\ [RiskNext]_riskVars => [Right]_riskVars
  <2> SUFFICES ASSUME RiskInv, RiskNext PROVE Right
    OBVIOUS
  <2>1. History(attempts)
    BY DEF RiskInv
  <2>2. ASSUME NEW p \in Places \cup {NoPlace}, NEW d \in Devices, NEW ok \in BOOLEAN, LoginAttempt(p, d, ok)
        PROVE  Right
    <3>1. History(attempts') /\ Len(attempts') = Len(attempts) + 1 /\ Len(attempts) \in Nat
      BY <2>2, AttemptLengthens
    <3>2. PICK e : /\ e = [place |-> p, device |-> d, success |-> ok, age |-> 0]
                   /\ attempts'[Len(attempts')] = e
                   /\ Longer(attempts, attempts', Len(attempts), e)
      BY <2>2, AttemptLengthens
    <3>3. Attempted /\ Newest = e /\ ~ Waited
      BY <3>1, <3>2 DEF Attempted, Newest, Waited
    <3>4. WaitingCalms
      BY <3>3 DEF WaitingCalms
    <3>5. FailureNeverHelps
      <4> SUFFICES ASSUME ~ e.success, NEW r \in Logins PROVE ScoreOf(r)' >= ScoreOf(r)
        BY <3>3 DEF FailureNeverHelps
      <4>1. ScoreIn(attempts, r) <= ScoreIn(attempts', r)
        BY <2>1, <3>1, <3>2, FailureScoresMore
      <4> QED BY <1>3, <1>4, <2>1, <3>1, <4>1 DEF ScoresAreOfHistory
    <3>6. SuccessForgivesItsOwn
      <4> SUFFICES ASSUME e.success, NEW r \in Logins, ScoreOf(r)' < ScoreOf(r),
                          r[1] # e.place, r[2] # e.device,
                          ~ (ImpossibleTravel(r[1]) /\ e.place = NoPlace)
                   PROVE  FALSE
        BY <3>3 DEF SuccessForgivesItsOwn
      <4>1. ScoreIn(attempts, r) <= ScoreIn(attempts', r)
        BY <1>5, <2>1, <3>1, <3>2, SuccessScoresMore
      <4> QED BY <1>3, <1>4, <2>1, <3>1, <4>1 DEF ScoresAreOfHistory
    <3> QED BY <3>4, <3>5, <3>6
  <2>3. ASSUME NEW m \in Pauses, Pause(m) PROVE Right
    <3>1. History(attempts') /\ Len(attempts') = Len(attempts) /\ Older(attempts, attempts')
      BY <2>3, PauseAges
    <3>2. Len(attempts) \in Nat
      BY <2>1 DEF History
    <3>3. ~ Attempted
      BY <3>1, <3>2 DEF Attempted
    <3>4. \A r \in Logins : ScoreOf(r)' <= ScoreOf(r)
      <4> SUFFICES ASSUME NEW r \in Logins PROVE ScoreOf(r)' <= ScoreOf(r)
        OBVIOUS
      <4>1. ScoreIn(attempts', r) <= ScoreIn(attempts, r)
        BY <2>1, <3>1, OlderScoresLess
      <4> QED BY <1>3, <1>4, <2>1, <3>1, <4>1 DEF ScoresAreOfHistory
    <3> QED BY <3>3, <3>4 DEF WaitingCalms, FailureNeverHelps, SuccessForgivesItsOwn
  <2> QED BY <2>2, <2>3 DEF RiskNext
<1> QED BY <1>1, <1>2, <1>6, PTL DEF RiskSpec, ScoresMoveRight

-----------------------------------------------------------------------------
(***************************************************************************)
(* The metrics reports.  A report has counted the entries before the start *)
(* of its next period, and that period has a greater label than those      *)
(* before it.                                                              *)
(***************************************************************************)

(***************************************************************************)
(* Months                                                                  *)
(***************************************************************************)

\* The days are numbers from 0 without a gap.
LEMMA DaysAreNumbers ==
  /\ 0 \in Days
  /\ \A d \in Days : d \in Nat /\ \A e \in 0..d : e \in Days
<1> DEFINE n == Len(MonthStarts)
<1>1. n \in Nat /\ n > 1 /\ n - 1 \in 1..n /\ n \in 2..n /\ \A m \in 1..n : MonthStarts[m] \in Nat
  BY ReportAssumption
<1>2. MonthStarts[n - 1] < MonthStarts[n]
  BY <1>1, ReportAssumption
<1>3. PICK l : l = Last(MonthStarts)
  OBVIOUS
<1>4. l \in Nat /\ l > 0
  <2>1. l = MonthStarts[n] /\ n \in 1..n
    BY <1>1, <1>3 DEF Last
  <2> QED BY <1>1, <1>2, <2>1
<1> QED BY <1>3, <1>4 DEF Days

\* The month of a day is the last one that does not start after it.
LEMMA MonthOfDay ==
  ASSUME NEW day \in Nat
  PROVE  /\ MonthOf(day) \in 1..Len(MonthStarts) /\ MonthStarts[MonthOf(day)] <= day
         /\ \A m \in 1..Len(MonthStarts) : MonthStarts[m] <= day => m <= MonthOf(day)
<1> DEFINE T == {m \in DOMAIN MonthStarts : MonthStarts[m] <= day}
           n == Len(MonthStarts)
<1>1. n \in Nat /\ n > 1 /\ DOMAIN MonthStarts = 1..n /\ MonthStarts[1] = 0
  BY ReportAssumption
<1>2. T \in SUBSET (0..n) /\ T # {}
  BY <1>1
<1>3. PICK x \in T : \A y \in T : y <= x
  <2> HIDE DEF T, n
  <2> QED BY <1>1, <1>2, GreatestElement
<1>4. Max(T) = x
  <2>1. \A y \in T : x >= y
    BY <1>1, <1>3
  <2>2. \A z \in T : (\A y \in T : z >= y) => z = x
    BY <1>1, <1>3
  <2> HIDE DEF T
  <2> QED BY <1>3, <2>1, <2>2 DEF Max
<1> QED BY <1>1, <1>3, <1>4 DEF MonthOf

\* A day before the end of the last month lies in a month that ends after it.
LEMMA MonthEnds ==
  ASSUME NEW day \in Days
  PROVE  /\ day \in Nat /\ MonthOf(day) + 1 \in 1..Len(MonthStarts)
         /\ MonthStarts[MonthOf(day) + 1] \in Nat /\ day < MonthStarts[MonthOf(day) + 1]
<1> DEFINE n == Len(MonthStarts)  m == MonthOf(day)
<1>1. n \in Nat /\ n > 1 /\ \A k \in 1..n : MonthStarts[k] \in Nat
  BY ReportAssumption
<1>2. day \in Nat /\ ~ (MonthStarts[n] <= day)
  BY <1>1 DEF Days, Last
<1>3. m \in 1..n /\ MonthStarts[m] <= day /\ \A k \in 1..n : MonthStarts[k] <= day => k <= m
  BY <1>2, MonthOfDay
<1> HIDE DEF n, m
<1>4. m # n
  BY <1>2, <1>3
<1>5. m + 1 \in 1..n /\ ~ (m + 1 <= m)
  BY <1>1, <1>3, <1>4
<1>6. ~ (MonthStarts[m + 1] <= day)
  BY <1>3, <1>5
<1> QED BY <1>1, <1>2, <1>5, <1>6 DEF n, m

\* A period ends after it starts, and the next one has a greater label.
LEMMA PeriodAdvances ==
  ASSUME NEW start \in Days, NEW g \in Granularities
  PROVE  /\ PeriodEnd(start, g) \in Nat /\ start < PeriodEnd(start, g)
         /\ Label(start, g) \in Nat /\ Label(start, g) < Label(PeriodEnd(start, g), g)
<1>1. start \in Nat
  BY MonthEnds
<1>2. CASE g = "day"
  BY <1>1, <1>2 DEF PeriodEnd, Label
<1>3. CASE g = "week"
  BY <1>1, <1>3, ReportAssumption DEF PeriodEnd, Label
<1>4. CASE g = "month"
  <2>1. PICK m, s, t, d : /\ m = MonthOf(start) /\ s = MonthStarts[m] /\ t = MonthStarts[m + 1]
                          /\ d = AddMonth(start)
    OBVIOUS
  <2>2. m \in 1..Len(MonthStarts) /\ m + 1 \in 1..Len(MonthStarts)
    BY <1>1, <2>1, MonthOfDay, MonthEnds
  <2>3. s \in Nat /\ t \in Nat /\ s <= start /\ start < t
    <3>1. s \in Nat
      BY <2>1, <2>2, ReportAssumption
    <3>2. s <= start
      BY <1>1, <2>1, MonthOfDay
    <3>3. t \in Nat /\ start < t
      BY <2>1, MonthEnds
    <3> QED BY <3>1, <3>2, <3>3
  <2>4. d = t + (start - s)
    BY <2>1 DEF AddMonth
  <2>5. d \in Nat /\ start < d /\ t <= d
    BY <1>1, <2>3, <2>4
  <2>6. m + 1 <= MonthOf(d) /\ MonthOf(d) \in Nat
    <3>1. MonthOf(d) \in 1..Len(MonthStarts)
      BY <2>5, MonthOfDay
    <3>2. MonthStarts[m + 1] <= d => m + 1 <= MonthOf(d)
      BY <2>2, <2>5, MonthOfDay
    <3> QED BY <2>1, <2>5, <3>1, <3>2
  <2>7. Label(start, g) = m /\ PeriodEnd(start, g) = d /\ Label(d, g) = MonthOf(d)
    BY <1>4, <2>1 DEF Label, PeriodEnd
  <2> QED BY <1>1, <2>2, <2>5, <2>6, <2>7
<1> QED BY <1>2, <1>3, <1>4 DEF Granularities

(***************************************************************************)
(* Counting                                                                *)
(***************************************************************************)

Entries == [day : Days, action : Actions]
Log(logs) == logs \in SUBSET Entries /\ IsFiniteSet(logs)

\* The entries of a log before a day.
Before(logs, day) == {e \in logs : e.day < day}
From(logs, start, end) == {e \in logs : InPeriod(e, start, end)}

LEMMA CountIsNatural ==
  ASSUME NEW logs, Log(logs), NEW action PROVE Count(logs, action) \in Nat
<1>1. IsFiniteSet({e \in logs : e.action = action})
  BY FS_Subset DEF Log
<1> QED BY <1>1, FS_CardinalityType DEF Count

\* Two logs without a common entry count as one.
LEMMA CountsAdd ==
  ASSUME NEW A, NEW B, Log(A), Log(B), A \cap B = {}, NEW action
  PROVE  Count(A \cup B, action) = Count(A, action) + Count(B, action)
<1>1. PICK S, T : S = {e \in A : e.action = action} /\ T = {e \in B : e.action = action}
  OBVIOUS
<1>2. S \subseteq A /\ T \subseteq B /\ S \cap T = {}
  BY <1>1
<1>3. IsFiniteSet(S) /\ IsFiniteSet(T)
  BY <1>2, FS_Subset DEF Log
<1>4. Cardinality(S \cup T) = Cardinality(S) + Cardinality(T) - Cardinality(S \cap T)
  BY <1>3, FS_Union
<1>5. Cardinality(S \cap T) = 0 /\ Cardinality(S) \in Nat /\ Cardinality(T) \in Nat
  BY <1>2, <1>3, FS_EmptySet, FS_CardinalityType
<1>6. {e \in A \cup B : e.action = action} = S \cup T
  BY <1>1
<1>7. Cardinality(S \cup T) = Cardinality(S) + Cardinality(T)
  BY <1>4, <1>5
<1> QED BY <1>1, <1>6, <1>7 DEF Count

\* The next period adds what lies between its ends.
LEMMA GrowthAdds ==
  ASSUME NEW logs, Log(logs), NEW start \in Int, NEW end \in Int, start <= end
  PROVE  /\ NetGrowth(Before(logs, end)) = NetGrowth(Before(logs, start)) + NetGrowth(From(logs, start, end))
         /\ NetGrowth(From(logs, start, end)) \in Int /\ Log(From(logs, start, end))
<1>1. PICK A, B, C : A = Before(logs, start) /\ B = From(logs, start, end) /\ C = Before(logs, end)
  OBVIOUS
<1>2. A \subseteq logs /\ B \subseteq logs
  BY <1>1 DEF Before, From
<1>3. Log(A) /\ Log(B)
  BY <1>2, FS_Subset DEF Log
<1>4. \A e \in logs : e.day \in Int
  BY DEF Log, Entries, Days
<1>5. ASSUME NEW e \in logs PROVE (e \in C <=> e \in A \/ e \in B) /\ ~ (e \in A /\ e \in B)
  <2>1. PICK d : d = e.day
    OBVIOUS
  <2>2. d \in Int /\ (d < end <=> (d < start \/ (start <= d /\ d < end))) /\ ~ (d < start /\ start <= d)
    BY <1>4, <2>1
  <2> QED BY <1>1, <2>1, <2>2 DEF Before, From, InPeriod
<1>6. C \subseteq logs
  BY <1>1 DEF Before
<1>7. C = A \cup B /\ A \cap B = {}
  BY <1>2, <1>5, <1>6
<1>8. \A a : Count(C, a) = Count(A, a) + Count(B, a) /\ Count(A, a) \in Nat /\ Count(B, a) \in Nat
  BY <1>3, <1>7, CountsAdd, CountIsNatural
<1>9. PICK r1, r2, d1, d2 : /\ r1 = Count(A, "user_registered") /\ r2 = Count(B, "user_registered")
                            /\ d1 = Count(A, "user_deleted") /\ d2 = Count(B, "user_deleted")
  OBVIOUS
<1>10. /\ NetGrowth(C) = (r1 + r2) - (d1 + d2) /\ NetGrowth(A) = r1 - d1 /\ NetGrowth(B) = r2 - d2
       /\ r1 \in Nat /\ r2 \in Nat /\ d1 \in Nat /\ d2 \in Nat
  BY <1>8, <1>9 DEF NetGrowth
<1> QED BY <1>1, <1>3, <1>10

(***************************************************************************)
(* The report                                                              *)
(***************************************************************************)

Periods == [label : Nat, registrations : Nat, deletions : Nat]
Reports ==
    [at : {"counting", "done"}, start : Days, end : Days, granularity : Granularities,
     current : Nat, total : Int, periods : Seq(Periods), logs : SUBSET Entries]

\* The report r has counted the entries before r.current, once each.
Counted(r) ==
    /\ Log(r.logs) /\ \A e \in r.logs : r.start <= e.day
    /\ r.start <= r.current /\ (r.current <= r.end \/ r.current = r.start)
    /\ r.total = NetGrowth(Before(r.logs, r.current))
    /\ r.at = "done" => r.end <= r.current

\* The labels of the report r grow, up to that of the next period.
Labelled(r) ==
    /\ \A i, j \in DOMAIN r.periods : i < j => r.periods[i].label < r.periods[j].label
    /\ r.current < r.end =>
         \A i \in DOMAIN r.periods : r.periods[i].label < Label(r.current, r.granularity)

ReportInv ==
    /\ Log(logged) /\ today \in Days
    /\ report.at # "idle" => report \in Reports /\ Counted(report) /\ Labelled(report)

LEMMA NothingBefore ==
  ASSUME NEW logs, Log(logs), NEW d \in Int, \A e \in logs : d <= e.day
  PROVE  Before(logs, d) = {} /\ NetGrowth(Before(logs, d)) = 0
<1>1. \A e \in logs : e.day \in Int
  BY DEF Log, Entries, Days
<1>2. Before(logs, d) = {}
  BY <1>1 DEF Before
<1>3. \A a : {e \in {} : e.action = a} = {}
  OBVIOUS
<1>4. \A a : Count({}, a) = 0
  BY <1>3, FS_EmptySet DEF Count
<1> QED BY <1>2, <1>4 DEF NetGrowth

LEMMA ReportStarts ==
  ASSUME ReportInv, NEW start \in Days, NEW end \in Days, NEW g \in Granularities,
         QueryLogs(start, end, g)
  PROVE  ReportInv'
<1>1. PICK r : r = [at |-> "counting", start |-> start, end |-> end,
                    granularity |-> g, current |-> start, total |-> 0, periods |-> <<>>,
                    logs |-> {e \in logged : start <= e.day /\ e.day <= end}]
  OBVIOUS
<1>2. report' = r /\ logged' = logged /\ today' = today
  BY <1>1 DEF QueryLogs
<1>3. r.logs \subseteq logged /\ \A e \in r.logs : start <= e.day
  BY <1>1
<1>4. Log(r.logs)
  BY <1>3, FS_Subset DEF ReportInv, Log
<1>5. start \in Nat /\ end \in Nat
  BY DaysAreNumbers
<1>6. /\ r.at = "counting" /\ r.start = start /\ r.end = end /\ r.granularity = g
      /\ r.current = start /\ r.total = 0 /\ r.periods = <<>>
  BY <1>1
<1>7. r \in Reports
  <2>1. r.logs \in SUBSET Entries
    BY <1>4 DEF Log
  <2>2. <<>> \in Seq(Periods)
    OBVIOUS
  <2> QED BY <1>1, <1>5, <2>1, <2>2 DEF Reports
<1>8. Counted(r)
  <2>1. NetGrowth(Before(r.logs, start)) = 0
    BY <1>3, <1>4, <1>5, NothingBefore
  <2> QED BY <1>3, <1>4, <1>5, <1>6, <2>1 DEF Counted
<1>9. Labelled(r)
  BY <1>6 DEF Labelled
<1> QED BY <1>2, <1>7, <1>8, <1>9 DEF ReportInv

LEMMA ReportGoesOn ==
  ASSUME ReportInv, NextPeriod
  PROVE  ReportInv'
<1>1. PICK r, c, g, e : r = report /\ c = r.current /\ g = r.granularity /\ e = r.end
  OBVIOUS
<1>2. r \in Reports /\ Counted(r) /\ Labelled(r) /\ r.at = "counting" /\ c < e
  BY <1>1 DEF ReportInv, NextPeriod
<1>3. c \in Nat /\ e \in Days /\ e \in Nat /\ g \in Granularities /\ r.start \in Nat /\ c \in Days /\ r.total \in Int
  <2>1. e \in Days /\ r.start \in Days /\ c \in Nat /\ g \in Granularities /\ r.total \in Int
    BY <1>1, <1>2 DEF Reports
  <2>2. e \in Nat /\ r.start \in Nat
    BY <2>1, DaysAreNumbers
  <2>3. c \in Days
    <3>1. c \in 0..e
      BY <1>2, <2>1, <2>2
    <3> QED BY <2>1, <3>1, DaysAreNumbers
  <2> QED BY <2>1, <2>2, <2>3
<1>4. PICK p, end : p = PeriodEnd(c, g) /\ end = Min({p, e})
  OBVIOUS
<1>5. /\ p \in Nat /\ c < p /\ Label(c, g) \in Nat /\ Label(c, g) < Label(p, g)
  BY <1>3, <1>4, PeriodAdvances
<1>6. end = (IF p <= e THEN p ELSE e)
  BY <1>3, <1>4, <1>5, MinOfTwo
<1>7. end \in Nat /\ c < end /\ end <= e /\ (end < e => end = p)
  BY <1>2, <1>3, <1>5, <1>6
<1>8. PICK L, q : /\ L = From(r.logs, c, end)
                  /\ q = [label |-> Label(c, g), registrations |-> Count(L, "user_registered"),
                          deletions |-> Count(L, "user_deleted")]
  OBVIOUS
<1>9. /\ NetGrowth(Before(r.logs, end)) = NetGrowth(Before(r.logs, c)) + NetGrowth(L)
      /\ NetGrowth(L) \in Int /\ Log(L)
  BY <1>2, <1>3, <1>7, <1>8, GrowthAdds DEF Counted
<1>10. q \in Periods /\ q.label = Label(c, g)
  BY <1>5, <1>8, <1>9, CountIsNatural DEF Periods
<1>11. PICK s, t, ps : /\ s = [r EXCEPT !.current = end, !.total = t, !.periods = ps]
                       /\ t = r.total + NetGrowth(L) /\ ps = Append(r.periods, q)
  OBVIOUS
<1>12. report' = s /\ logged' = logged /\ today' = today
  BY <1>1, <1>4, <1>8, <1>11 DEF NextPeriod, From
<1>13. ps \in Seq(Periods) /\ r.periods \in Seq(Periods)
  BY <1>2, <1>10, <1>11 DEF Reports
<1>14. s \in Reports
  <2>1. t \in Int
    BY <1>3, <1>9, <1>11
  <2> QED BY <1>2, <1>7, <1>11, <1>13, <2>1 DEF Reports
<1>15. /\ s.at = "counting" /\ s.start = r.start /\ s.end = e /\ s.granularity = g
       /\ s.current = end /\ s.total = r.total + NetGrowth(L) /\ s.periods = ps /\ s.logs = r.logs
  BY <1>1, <1>2, <1>11 DEF Reports
<1>16. Counted(s)
  <2>1. /\ Log(r.logs) /\ \A x \in r.logs : r.start <= x.day
        /\ r.start <= c /\ r.total = NetGrowth(Before(r.logs, c))
    BY <1>1, <1>2 DEF Counted
  <2>2. s.total = NetGrowth(Before(s.logs, end))
    BY <1>9, <1>15, <2>1
  <2>3. r.start <= end
    BY <1>3, <1>7, <2>1
  <2> QED BY <1>7, <1>15, <2>1, <2>2, <2>3 DEF Counted
<1>17. Labelled(s)
  <2>1. PICK n : n = Len(r.periods)
    OBVIOUS
  <2>2. /\ n \in Nat /\ DOMAIN r.periods = 1..n /\ DOMAIN ps = 1..(n + 1) /\ ps[n + 1] = q
        /\ \A i \in 1..n : ps[i] = r.periods[i] /\ r.periods[i].label \in Nat
    <3>1. /\ n \in Nat /\ DOMAIN r.periods = 1..n /\ DOMAIN ps = 1..(n + 1) /\ ps[n + 1] = q
          /\ \A i \in 1..n : ps[i] = r.periods[i] /\ r.periods[i] \in Periods
      BY <1>10, <1>11, <1>13, <2>1
    <3>2. \A x \in Periods : x.label \in Nat
      BY DEF Periods
    <3> QED BY <3>1, <3>2
  <2>3. /\ \A i, j \in 1..n : i < j => r.periods[i].label < r.periods[j].label
        /\ \A i \in 1..n : r.periods[i].label < Label(c, g)
    BY <1>1, <1>2, <2>2 DEF Labelled
  <2>4. ASSUME NEW i \in 1..(n + 1), NEW j \in 1..(n + 1), i < j PROVE ps[i].label < ps[j].label
    <3>1. i \in 1..n /\ (j = n + 1 \/ j \in 1..n)
      BY <2>2, <2>4
    <3> QED BY <1>10, <2>2, <2>3, <2>4, <3>1
  <2>5. ASSUME end < e, NEW i \in 1..(n + 1) PROVE ps[i].label < Label(end, g)
    <3>1. Label(c, g) < Label(end, g)
      BY <1>5, <1>7, <2>5
    <3>2. Label(end, g) \in Nat
      <4>1. end \in Days
        <5>1. end \in 0..e
          BY <1>3, <1>7
        <5> QED BY <1>3, <5>1, DaysAreNumbers
      <4> QED BY <1>3, <4>1, PeriodAdvances
    <3>3. i = n + 1 \/ i \in 1..n
      BY <2>2
    <3> QED BY <1>5, <1>10, <2>2, <2>3, <3>1, <3>2, <3>3
  <2> QED BY <1>15, <2>2, <2>4, <2>5 DEF Labelled
<1> QED BY <1>2, <1>12, <1>14, <1>16, <1>17 DEF ReportInv

\* Every entry of the range of a finished report is counted once, and its
\* lines have different labels, for any calendar, range and granularity
\* (getUserMetrics, generateTimePeriods).
THEOREM ReportsAlwaysAddUp == ReportSpec => []ReportsAddUp
<1>1. ReportInit => ReportInv
  <2> SUFFICES ASSUME ReportInit PROVE ReportInv
    OBVIOUS
  <2>1. Log(logged) /\ today \in Days
    BY FS_EmptySet, DaysAreNumbers DEF ReportInit, Log
  <2>2. report.at = "idle"
    BY DEF ReportInit
  <2> QED BY <2>1, <2>2 DEF ReportInv
<1>2. ReportInv /\ [ReportNext]_reportVars => ReportInv'
  <2> SUFFICES ASSUME ReportInv, [ReportNext]_reportVars PROVE ReportInv'
    OBVIOUS
  <2>1. CASE UNCHANGED reportVars
    BY <2>1 DEF reportVars, ReportInv
  <2>2. ASSUME NEW action \in Actions, LogEntry(action) PROVE ReportInv'
    <3>1. PICK e : e = [day |-> today, action |-> action]
      OBVIOUS
    <3>2. e \in Entries /\ logged' = logged \cup {e} /\ today' = today /\ report' = report
      BY <2>2, <3>1 DEF LogEntry, ReportInv, Entries
    <3>3. Log(logged)'
      BY <3>2, FS_AddElement DEF ReportInv, Log
    <3> QED BY <3>2, <3>3 DEF ReportInv
  <2>3. ASSUME Tomorrow PROVE ReportInv'
    BY <2>3 DEF Tomorrow, ReportInv
  <2>4. ASSUME NEW start \in Days, NEW end \in Days, NEW g \in Granularities, QueryLogs(start, end, g)
        PROVE  ReportInv'
    BY <2>4, ReportStarts
  <2>5. ASSUME NextPeriod PROVE ReportInv'
    BY <2>5, ReportGoesOn
  <2>6. ASSUME Reported PROVE ReportInv'
    <3>1. PICK r, s : r = report /\ s = [r EXCEPT !.at = "done"]
      OBVIOUS
    <3>2. r \in Reports /\ Counted(r) /\ Labelled(r) /\ r.current >= r.end
      BY <2>6, <3>1 DEF Reported, ReportInv
    <3>3. report' = s /\ logged' = logged /\ today' = today
      BY <2>6, <3>1 DEF Reported
    <3>4. r.current \in Nat /\ r.end \in Nat
      BY <3>2, DaysAreNumbers DEF Reports
    <3>5. /\ s \in Reports /\ s.start = r.start /\ s.end = r.end /\ s.granularity = r.granularity
          /\ s.current = r.current /\ s.total = r.total /\ s.periods = r.periods /\ s.logs = r.logs
      BY <3>1, <3>2 DEF Reports
    <3>6. Counted(s)
      BY <3>2, <3>4, <3>5 DEF Counted
    <3>7. Labelled(s)
      BY <3>2, <3>5 DEF Labelled
    <3> QED BY <2>6, <3>3, <3>5, <3>6, <3>7 DEF ReportInv
  <2> QED BY <2>1, <2>2, <2>3, <2>4, <2>5, <2>6 DEF ReportNext
<1>3. ReportInv => ReportsAddUp
  <2> SUFFICES ASSUME ReportInv, report.at = "done" PROVE ReportsAddUp
    BY DEF ReportsAddUp, GrowthAddsUp, LabelsDiffer
  <2>1. PICK r, L : r = report /\ L = r.logs
    OBVIOUS
  <2>2. r \in Reports /\ Counted(r) /\ Labelled(r) /\ r.at = "done"
    BY <2>1 DEF ReportInv
  <2>3. r.start \in Nat /\ r.end \in Nat /\ r.current \in Nat
    BY <2>2, DaysAreNumbers DEF Reports
  <2>4. r.total = NetGrowth(Before(L, r.end))
    <3>1. CASE r.current = r.end
      BY <2>1, <2>2, <3>1 DEF Counted
    <3>2. CASE r.current # r.end
      <4>1. r.current = r.start /\ r.end <= r.start /\ Log(L) /\ \A e \in L : r.start <= e.day
        BY <2>1, <2>2, <2>3, <3>2 DEF Counted
      <4>2. \A e \in L : r.end <= e.day
        BY <2>3, <4>1 DEF Log, Entries, Days
      <4>3. NetGrowth(Before(L, r.start)) = 0 /\ NetGrowth(Before(L, r.end)) = 0
        BY <2>3, <4>1, <4>2, NothingBefore
      <4> QED BY <2>1, <2>2, <4>1, <4>3 DEF Counted
    <3> QED BY <3>1, <3>2
  <2>5. ASSUME NEW i \in DOMAIN r.periods, NEW j \in DOMAIN r.periods, i # j
        PROVE  r.periods[i].label # r.periods[j].label
    <3>1. r.periods \in Seq(Periods)
      BY <2>2 DEF Reports
    <3>2. i \in Nat /\ j \in Nat /\ r.periods[i].label \in Nat /\ r.periods[j].label \in Nat
      <4>1. /\ i \in Nat /\ j \in Nat /\ r.periods[i] \in Periods /\ r.periods[j] \in Periods
        BY <3>1
      <4>2. \A x \in Periods : x.label \in Nat
        BY DEF Periods
      <4> QED BY <4>1, <4>2
    <3>3. i < j \/ j < i
      BY <2>5, <3>2
    <3> QED BY <2>2, <3>2, <3>3 DEF Labelled
  <2> QED BY <2>1, <2>4, <2>5 DEF ReportsAddUp, GrowthAddsUp, LabelsDiffer, Before
<1> QED BY <1>1, <1>2, <1>3, PTL DEF ReportSpec
=============================================================================
