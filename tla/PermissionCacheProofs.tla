------------------------- MODULE PermissionCacheProofs -------------------------
(***************************************************************************)
(* StaleExplained, ReadExplained and UpdateExact for any number of users,  *)
(* roles, permissions, checks and administrators.                          *)
(***************************************************************************)
EXTENDS PermissionCache, TLAPS

-----------------------------------------------------------------------------
(* Types                                                                   *)

\* The history variables of a database change keep their types.
LEMMA OvertakeType ==
    ASSUME NEW us, Overtake(us)
    PROVE  late' \in [Checks -> BOOLEAN]
<1>1. \A c \in Checks : (late[c] \/ (cpc[c] = "fill" /\ cuser[c] \in us)) \in BOOLEAN
  BY Zenon
<1> QED
  BY <1>1, Zenon DEF Overtake

\* Every step keeps the types.
LEMMA TypeStep ==
    ASSUME TypeOK, [Next]_vars
    PROVE  TypeOK'
<1> USE PermissionAssumption DEF TypeOK, AllOps
<1>1. ASSUME NEW c \in Checks, NEW u \in Users, CheckMiss(c, u)
      PROVE  TypeOK'
  BY <1>1 DEF CheckMiss, db, admin
<1>2. ASSUME NEW c \in Checks, CheckQuery(c)
      PROVE  TypeOK'
  <2>1. Granted(cuser[c]) \in SUBSET Permissions
    BY DEF Granted
  <2> QED
    BY <1>2, <2>1 DEF CheckQuery, db, admin
<1>3. ASSUME NEW c \in Checks, CheckFill(c) \/ CheckFillFails(c)
      PROVE  TypeOK'
  <2>1. CASE CheckFill(c)
    <3>1. {seen[c]} \in Entries
      BY DEF Entries
    <3> QED
      BY <2>1, <3>1 DEF CheckFill, CheckDone, db, admin
  <2>2. CASE CheckFillFails(c)
    BY <2>2 DEF CheckFillFails, CheckDone, db, admin
  <2> QED
    BY <1>3, <2>1, <2>2
<1>4. ASSUME NEW a \in Admins, NEW op \in AllOps, NEW u \in Users, NEW r \in Roles,
             FindRole(a, op, u, r)
      PROVE  TypeOK'
  BY <1>4 DEF FindRole, db, check
<1>5. ASSUME NEW a \in Admins, AssignToUser(a) \/ RemoveFromUser(a)
      PROVE  TypeOK'
  <2>1. CASE apc'[a] = "idle"
    BY <1>5, <2>1 DEF AssignToUser, RemoveFromUser, check
  <2>2. CASE apc'[a] # "idle"
    <3>1. late' \in [Checks -> BOOLEAN]
      BY <1>5, <2>2, OvertakeType DEF AssignToUser, RemoveFromUser
    <3> QED
      BY <1>5, <2>2, <3>1 DEF AssignToUser, RemoveFromUser, check
  <2> QED
    BY <2>1, <2>2
<1>6. ASSUME NEW a \in Admins, Invalidate(a)
      PROVE  TypeOK'
  <2>1. {} \in Entries
    BY DEF Entries
  <2>2. cache' \in [Users -> Entries]
    BY <1>6, <2>1 DEF Invalidate
  <2>3. why' \in [Users -> {"fresh", "late", "failed", "role"}]
    <3>1. CASE cache[auser[a]] = {}
      BY <1>6, <3>1 DEF Invalidate
    <3>2. CASE cache[auser[a]] # {}
      BY <1>6, <3>2 DEF Invalidate
    <3> QED
      BY <3>1, <3>2
  <2>4. apc' \in [Admins -> {"idle", "assign", "unassign", "del", "strip", "add", "flush"}]
    BY <1>6 DEF Invalidate
  <2> QED
    BY <1>6, <2>2, <2>3, <2>4 DEF Invalidate, db, check
<1>7. ASSUME NEW a \in Admins, NEW r \in Roles, NEW ps \in SUBSET Permissions,
             UpdateRole(a, r, ps)
      PROVE  TypeOK'
  BY <1>7 DEF UpdateRole, Overlap, Updating, db, check
<1>8. ASSUME NEW a \in Admins, NEW q \in Permissions, RemovePermission(a, q) \/ AddPermission(a, q)
      PROVE  TypeOK'
  <2>1. late' \in [Checks -> BOOLEAN]
    BY <1>8, OvertakeType DEF RemovePermission, AddPermission, LeaveBehind
  <2>2. why' \in [Users -> {"fresh", "late", "failed", "role"}]
    BY <1>8 DEF RemovePermission, AddPermission, LeaveBehind
  <2>3. CASE RemovePermission(a, q)
    BY <2>1, <2>2, <2>3 DEF RemovePermission, check
  <2>4. CASE AddPermission(a, q)
    BY <2>1, <2>2, <2>4 DEF AddPermission, check
  <2> QED
    BY <1>8, <2>3, <2>4
<1>9. ASSUME NEW a \in Admins,
             StartAdding(a) \/ UpdateFails(a) \/ InvalidateRole(a) \/ UpdateAnswer(a)
      PROVE  TypeOK'
  BY <1>9 DEF StartAdding, UpdateFails, InvalidateRole, UpdateAnswer, db, check
<1>10. ASSUME NEW a \in Admins, NEW r \in Roles, DeleteRole(a, r)
       PROVE  TypeOK'
  <2>1. late' \in [Checks -> BOOLEAN]
    BY <1>10, OvertakeType DEF DeleteRole, LeaveBehind
  <2> QED
    BY <1>10, <2>1 DEF DeleteRole, LeaveBehind, Overlap, Updating, check, admin
<1>11. ASSUME NEW u \in Users, Expire(u)
       PROVE  TypeOK'
  BY <1>11 DEF Expire, Entries, db, check, admin
<1>12. CASE UNCHANGED vars
  BY <1>12 DEF vars, db, check, admin
<1> QED
  BY <1>1, <1>2, <1>3, <1>4, <1>5, <1>6, <1>7, <1>8, <1>9, <1>10, <1>11, <1>12
  DEF Next, CheckStep, AdminCall, AdminStep

-----------------------------------------------------------------------------
(* Staleness                                                               *)

\* The inductive invariant: a stale entry has a reason, and so has a check
\* about to store a stale answer.
Explained == TypeOK /\ StaleExplained /\ ReadExplained

\* A user's permissions change only with his roles or with a role he holds.
LEMMA GrantedFrame ==
    ASSUME TypeOK, NEW u \in Users, userRoles'[u] = userRoles[u],
           \A r \in userRoles[u] : rolePerms'[r] = rolePerms[r]
    PROVE  Granted(u)' = Granted(u)
BY DEF Granted

\* A change of the permissions of the users us, recorded by Overtake, leaves
\* every check that is not late with the right answer.
LEMMA OvertakeKeepsReads ==
    ASSUME Explained, NEW us, Overtake(us), UNCHANGED check,
           \A u \in Users \ us : Granted(u)' = Granted(u)
    PROVE  ReadExplained'
BY DEF Explained, TypeOK, ReadExplained, Overtake, check

\* A role-level change recorded by LeaveBehind explains what it makes stale.
LEMMA LeaveBehindExplains ==
    ASSUME Explained, NEW us \in SUBSET Users, LeaveBehind(us), UNCHANGED <<cache, apc, auser>>,
           \A u \in Users \ us : Granted(u)' = Granted(u)
    PROVE  StaleExplained'
<1> SUFFICES ASSUME NEW u \in Users, Stale(u)'
             PROVE  Changing(u)' \/ why'[u] # "fresh"
  BY DEF StaleExplained
<1>1. CASE u \in us
  BY <1>1 DEF LeaveBehind, Stale, Explained, TypeOK
<1>2. CASE u \notin us
  BY <1>2 DEF LeaveBehind, Stale, Explained, StaleExplained, Changing
<1> QED
  BY <1>1, <1>2

\* Every step keeps the invariant.
LEMMA ExplainedStep ==
    ASSUME Explained, [Next]_vars
    PROVE  Explained'
<1> TypeOK'
  BY TypeStep DEF Explained
<1> USE DEF Explained, TypeOK
<1>frame. ASSUME UNCHANGED db
          PROVE  \A u \in Users : Granted(u)' = Granted(u)
  BY <1>frame DEF db, Granted
<1>1. ASSUME NEW c \in Checks, NEW u \in Users, CheckMiss(c, u)
      PROVE  Explained'
  BY <1>1, <1>frame DEF CheckMiss, admin, StaleExplained, ReadExplained, Stale, Changing
<1>2. ASSUME NEW c \in Checks, CheckQuery(c)
      PROVE  Explained'
  BY <1>2, <1>frame DEF CheckQuery, admin, StaleExplained, ReadExplained, Stale, Changing
<1>3. ASSUME NEW c \in Checks, CheckFill(c)
      PROVE  Explained'
  <2>1. ReadExplained'
    BY <1>3, <1>frame DEF CheckFill, CheckDone, ReadExplained
  <2>2. ASSUME NEW u \in Users, Stale(u)'
        PROVE  Changing(u)' \/ why'[u] # "fresh"
    <3>1. CASE u = cuser[c]
      BY <1>3, <1>frame, <2>2, <3>1 DEF CheckFill, CheckDone, ReadExplained, Stale
    <3>2. CASE u # cuser[c]
      BY <1>3, <1>frame, <2>2, <3>2
      DEF CheckFill, CheckDone, StaleExplained, Stale, Changing, admin
    <3> QED
      BY <3>1, <3>2
  <2> QED
    BY <2>1, <2>2 DEF StaleExplained
<1>4. ASSUME NEW c \in Checks, CheckFillFails(c)
      PROVE  Explained'
  BY <1>4, <1>frame
  DEF CheckFillFails, CheckDone, admin, StaleExplained, ReadExplained, Stale, Changing
<1>5. ASSUME NEW a \in Admins, NEW op \in AllOps, NEW u \in Users, NEW r \in Roles,
             FindRole(a, op, u, r)
      PROVE  Explained'
  <2>1. ReadExplained'
    BY <1>5, <1>frame DEF FindRole, check, ReadExplained
  <2>2. \A v \in Users : Changing(v) => Changing(v)'
    BY <1>5 DEF FindRole, Changing
  <2> QED
    BY <1>5, <1>frame, <2>1, <2>2 DEF FindRole, StaleExplained, Stale
<1>6. ASSUME NEW a \in Admins, AssignToUser(a) \/ RemoveFromUser(a)
      PROVE  Explained'
  <2>1. CASE apc'[a] = "idle"
    <3>1. UNCHANGED <<db, check, cache, late, why>> /\ apc[a] = "assign" /\ auser' = auser
             /\ \A b \in Admins : b # a => apc'[b] = apc[b]
      BY <1>6, <2>1 DEF AssignToUser, RemoveFromUser, db
    <3>2. \A v \in Users : Changing(v) => Changing(v)'
      BY <3>1 DEF Changing
    <3> QED
      BY <3>1, <3>2, <1>frame DEF StaleExplained, ReadExplained, Stale, check
  <2>2. CASE apc'[a] # "idle"
    <3>1. /\ apc' = [apc EXCEPT ![a] = "del"]
          /\ Overtake({auser[a]})
          /\ UNCHANGED <<check, cache, why, auser, rolePerms>>
          /\ \A v \in Users : v # auser[a] => userRoles'[v] = userRoles[v]
      BY <1>6, <2>2 DEF AssignToUser, RemoveFromUser
    <3>2. \A v \in Users \ {auser[a]} : Granted(v)' = Granted(v)
      BY <3>1, GrantedFrame
    <3>3. ReadExplained'
      BY <3>1, <3>2, OvertakeKeepsReads
    <3>4. Changing(auser[a])' /\ \A v \in Users : Changing(v) => Changing(v)'
      BY <3>1 DEF Changing
    <3>5. StaleExplained'
      BY <3>1, <3>2, <3>4 DEF StaleExplained, Stale
    <3> QED
      BY <3>3, <3>5
  <2> QED
    BY <2>1, <2>2
<1>7. ASSUME NEW a \in Admins, Invalidate(a)
      PROVE  Explained'
  <2>1. ReadExplained'
    BY <1>7, <1>frame DEF Invalidate, check, ReadExplained
  <2>2. ASSUME NEW u \in Users, Stale(u)'
        PROVE  Changing(u)' \/ why'[u] # "fresh"
    <3>1. CASE u = auser[a]
      BY <1>7, <2>2, <3>1 DEF Invalidate, Stale
    <3>2. CASE u # auser[a]
      <4>1. Stale(u) /\ why'[u] = why[u]
        BY <1>7, <1>frame, <2>2, <3>2 DEF Invalidate, Stale
      <4>2. Changing(u) => Changing(u)'
        BY <1>7, <3>2 DEF Invalidate, Changing
      <4> QED
        BY <4>1, <4>2 DEF StaleExplained
    <3> QED
      BY <3>1, <3>2
  <2> QED
    BY <2>1, <2>2 DEF StaleExplained
<1>8. ASSUME NEW a \in Admins, NEW r \in Roles, NEW ps \in SUBSET Permissions,
             UpdateRole(a, r, ps)
      PROVE  Explained'
  <2>1. \A v \in Users : Changing(v) => Changing(v)'
    BY <1>8 DEF UpdateRole, Changing
  <2> QED
    BY <1>8, <1>frame, <2>1 DEF UpdateRole, check, StaleExplained, ReadExplained, Stale
<1>9. ASSUME NEW a \in Admins, NEW q \in Permissions, RemovePermission(a, q) \/ AddPermission(a, q)
      PROVE  Explained'
  <2>1. /\ LeaveBehind(Holders(arole[a]))
        /\ UNCHANGED <<check, cache, apc, auser, userRoles>>
        /\ \A r \in Roles : r # arole[a] => rolePerms'[r] = rolePerms[r]
    BY <1>9 DEF RemovePermission, AddPermission
  <2>2. \A v \in Users \ Holders(arole[a]) : Granted(v)' = Granted(v)
    BY <2>1, GrantedFrame DEF Holders
  <2>3. Holders(arole[a]) \in SUBSET Users
    BY DEF Holders
  <2>4. StaleExplained'
    BY <2>1, <2>2, <2>3, LeaveBehindExplains
  <2> QED
    BY <2>1, <2>2, <2>4, OvertakeKeepsReads DEF LeaveBehind
<1>10. ASSUME NEW a \in Admins,
              StartAdding(a) \/ UpdateFails(a) \/ InvalidateRole(a) \/ UpdateAnswer(a)
       PROVE  Explained'
  <2>1. /\ UNCHANGED <<db, check, cache, late, why, auser>>
        /\ apc[a] # "del"
        /\ \A b \in Admins : b # a => apc'[b] = apc[b]
    BY <1>10 DEF StartAdding, UpdateFails, InvalidateRole, UpdateAnswer
  <2>2. \A v \in Users : Changing(v) => Changing(v)'
    BY <2>1 DEF Changing
  <2> QED
    BY <1>frame, <2>1, <2>2 DEF check, StaleExplained, ReadExplained, Stale
<1>11. ASSUME NEW a \in Admins, NEW r \in Roles, DeleteRole(a, r)
       PROVE  Explained'
  <2>1. /\ LeaveBehind(Holders(r))
        /\ UNCHANGED <<check, cache, apc, auser>>
        /\ \A s \in Roles : s # r => rolePerms'[s] = rolePerms[s]
        /\ \A v \in Users : userRoles'[v] = userRoles[v] \ {r}
    BY <1>11 DEF DeleteRole, admin
  <2>2. \A v \in Users \ Holders(r) : Granted(v)' = Granted(v)
    <3> SUFFICES ASSUME NEW v \in Users \ Holders(r)
                 PROVE  Granted(v)' = Granted(v)
      OBVIOUS
    <3>1. r \notin userRoles[v]
      BY DEF Holders
    <3>2. userRoles[v] \ {r} = userRoles[v]
      BY <3>1
    <3> QED
      BY <2>1, <3>1, <3>2, GrantedFrame
  <2>3. Holders(r) \in SUBSET Users
    BY DEF Holders
  <2>4. StaleExplained'
    BY <2>1, <2>2, <2>3, LeaveBehindExplains
  <2> QED
    BY <2>1, <2>2, <2>4, OvertakeKeepsReads DEF LeaveBehind
<1>12. ASSUME NEW u \in Users, Expire(u)
       PROVE  Explained'
  BY <1>12, <1>frame DEF Expire, check, admin, StaleExplained, ReadExplained, Stale, Changing
<1>13. CASE UNCHANGED vars
  BY <1>13, <1>frame DEF vars, check, admin, StaleExplained, ReadExplained, Stale, Changing
<1> QED
  BY <1>1, <1>2, <1>3, <1>4, <1>5, <1>6, <1>7, <1>8, <1>9, <1>10, <1>11, <1>12, <1>13
  DEF Next, CheckStep, AdminCall, AdminStep

\* A cached permission set is stale only for one of the four known reasons:
\* a change about to invalidate it, a check that stored late, a failed DEL, a
\* change of the role itself.
THEOREM StalenessExplained == Spec => []StaleExplained
<1>1. Init => Explained
  BY DEF Init, Explained, TypeOK, StaleExplained, ReadExplained, Stale, Entries
<1>2. Explained /\ [Next]_vars => Explained'
  BY ExplainedStep
<1>3. Explained => StaleExplained
  BY DEF Explained
<1> QED
  BY <1>1, <1>2, <1>3, PTL DEF Spec

\* What a check is about to store is the database's answer unless a change
\* overtook it between its query and its SETEX.
THEOREM ReadsExplained == Spec => []ReadExplained
<1>1. Init => Explained
  BY DEF Init, Explained, TypeOK, StaleExplained, ReadExplained, Stale, Entries
<1>2. Explained /\ [Next]_vars => Explained'
  BY ExplainedStep
<1>3. Explained => ReadExplained
  BY DEF Explained
<1> QED
  BY <1>1, <1>2, <1>3, PTL DEF Spec

-----------------------------------------------------------------------------
(* updateRole                                                              *)

\* What an update that nothing overlapped has left to do.
Progress(a) ==
    /\ apc[a] = "strip" => rolePerms[arole[a]] = todo[a]
    /\ apc[a] = "add" => rolePerms[arole[a]] = want[a] \ todo[a] /\ todo[a] \subseteq want[a]
    /\ apc[a] = "flush" => rolePerms[arole[a]] = want[a]

Alone == \A a \in Admins \ clash, r \in Roles : a \in Updating(r) => Updating(r) = {a}

\* The inductive invariant: an update outside clash is alone with its role
\* and has got exactly as far as its loops say.
Exact ==
    /\ TypeOK
    /\ \A a \in Admins \ clash : Progress(a)
    /\ Alone

\* Every step keeps the invariant.
LEMMA ExactStep ==
    ASSUME Exact, [Next]_vars
    PROVE  Exact'
<1> TypeOK'
  BY TypeStep DEF Exact
<1>alone. ASSUME UNCHANGED clash, \A r \in Roles : Updating(r)' \subseteq Updating(r)
          PROVE  Alone'
  BY <1>alone DEF Exact, Alone
<1> USE DEF Exact, TypeOK, Progress, Updating
<1>1. ASSUME UNCHANGED <<rolePerms, apc, arole, want, todo, clash>>
      PROVE  Exact'
  BY <1>1 DEF Alone
<1>2. ASSUME NEW a \in Admins, UNCHANGED <<rolePerms, want, todo, clash>>,
             apc[a] \notin {"strip", "add"}, apc'[a] \notin {"strip", "add", "flush"},
             \A b \in Admins \ {a} : apc'[b] = apc[b] /\ arole'[b] = arole[b]
      PROVE  Exact'
  <2>1. \A r \in Roles : Updating(r)' \subseteq Updating(r)
    BY <1>2
  <2>2. \A b \in Admins \ clash' : Progress(b)'
    BY <1>2
  <2> QED
    BY <1>2, <1>alone, <2>1, <2>2
<1>3. ASSUME NEW a \in Admins, NEW r \in Roles, NEW ps \in SUBSET Permissions,
             UpdateRole(a, r, ps)
      PROVE  Exact'
  <2>1. CASE Updating(r) = {}
    BY <1>3, <2>1 DEF UpdateRole, Alone, Overlap, db
  <2>2. CASE Updating(r) # {}
    BY <1>3, <2>2 DEF UpdateRole, Alone, Overlap, db
  <2> QED
    BY <2>1, <2>2
<1>4. ASSUME NEW a \in Admins, NEW q \in Permissions, RemovePermission(a, q)
      PROVE  Exact'
  <2>1. \A r \in Roles : Updating(r)' = Updating(r)
    BY <1>4 DEF RemovePermission
  <2>2. \A b \in Admins \ clash :
           b # a /\ apc[b] \in {"strip", "add", "flush"} => arole[b] # arole[a]
    <3>1. a \in Updating(arole[a])
      BY <1>4 DEF RemovePermission
    <3> QED
      BY <3>1 DEF Alone
  <2>3. ASSUME NEW b \in Admins \ clash'
        PROVE  Progress(b)'
    <3>1. CASE b = a
      <4>1. rolePerms'[arole[a]] = rolePerms[arole[a]] \ {q} /\ todo'[a] = todo[a] \ {q}
        BY <1>4 DEF RemovePermission
      <4> QED
        BY <1>4, <2>3, <3>1, <4>1 DEF RemovePermission
    <3>2. CASE b # a
      <4>1. apc[b] \in {"strip", "add", "flush"} => arole[b] # arole[a]
        BY <1>4, <2>2, <3>2 DEF RemovePermission
      <4> QED
        BY <1>4, <3>2, <4>1 DEF RemovePermission
    <3> QED
      BY <3>1, <3>2
  <2>4. UNCHANGED clash
    BY <1>4 DEF RemovePermission
  <2> QED
    BY <1>alone, <2>1, <2>3, <2>4
<1>5. ASSUME NEW a \in Admins, NEW q \in Permissions, AddPermission(a, q)
      PROVE  Exact'
  <2>1. \A r \in Roles : Updating(r)' = Updating(r)
    BY <1>5 DEF AddPermission
  <2>2. \A b \in Admins \ clash :
           b # a /\ apc[b] \in {"strip", "add", "flush"} => arole[b] # arole[a]
    <3>1. a \in Updating(arole[a])
      BY <1>5 DEF AddPermission
    <3> QED
      BY <3>1 DEF Alone
  <2>3. ASSUME NEW b \in Admins \ clash'
        PROVE  Progress(b)'
    <3>1. CASE b = a
      BY <1>5, <3>1 DEF AddPermission
    <3>2. CASE b # a
      <4>1. apc[b] \in {"strip", "add", "flush"} => arole[b] # arole[a]
        BY <1>5, <2>2, <3>2 DEF AddPermission
      <4> QED
        BY <1>5, <3>2, <4>1 DEF AddPermission
    <3> QED
      BY <3>1, <3>2
  <2>4. UNCHANGED clash
    BY <1>5 DEF AddPermission
  <2> QED
    BY <1>alone, <2>1, <2>3, <2>4
<1>6. ASSUME NEW a \in Admins, StartAdding(a)
      PROVE  Exact'
  BY <1>6 DEF StartAdding, Alone, db
<1>7. ASSUME NEW a \in Admins, UpdateFails(a)
      PROVE  Exact'
  <2>1. \A b \in Admins \ {a} : apc'[b] = apc[b] /\ todo'[b] = todo[b]
    BY <1>7 DEF UpdateFails
  <2>2. apc'[a] = "idle" /\ UNCHANGED <<rolePerms, arole, want, clash>>
    BY <1>7 DEF UpdateFails, db
  <2>3. \A r \in Roles : Updating(r)' = Updating(r) \ {a}
    BY <2>1, <2>2
  <2>4. \A b \in Admins \ clash' : Progress(b)'
    BY <2>1, <2>2
  <2> QED
    BY <1>alone, <2>2, <2>3, <2>4
<1>8. ASSUME NEW a \in Admins, InvalidateRole(a)
      PROVE  Exact'
  <2>1. \A b \in Admins \ {a} : apc'[b] = apc[b]
    BY <1>8 DEF InvalidateRole
  <2>2. apc'[a] = "flush" /\ UNCHANGED <<rolePerms, arole, want, todo, clash>>
    BY <1>8 DEF InvalidateRole, db
  <2>3. apc[a] = "add" /\ todo[a] = {}
    BY <1>8 DEF InvalidateRole
  <2>4. \A r \in Roles : Updating(r)' = Updating(r)
    BY <2>1, <2>2, <2>3
  <2>5. ASSUME NEW b \in Admins \ clash'
        PROVE  Progress(b)'
    <3>1. CASE b = a
      <4>1. rolePerms[arole[a]] = want[a]
        <5>1. Progress(a)
          BY <2>2, <2>5, <3>1
        <5>2. rolePerms[arole[a]] = want[a] \ todo[a]
          BY <2>3, <5>1
        <5>3. want[a] \ todo[a] = want[a]
          BY <2>3
        <5> QED
          BY <5>2, <5>3
      <4> QED
        BY <2>2, <3>1, <4>1
    <3>2. CASE b # a
      BY <2>1, <2>2, <2>5, <3>2
    <3> QED
      BY <3>1, <3>2
  <2> QED
    BY <1>alone, <2>2, <2>4, <2>5
<1>9. ASSUME NEW a \in Admins, NEW r \in Roles, DeleteRole(a, r)
      PROVE  Exact'
  <2>1. CASE Updating(r) = {}
    BY <1>9, <2>1 DEF DeleteRole, Alone, Overlap, admin
  <2>2. CASE Updating(r) # {}
    BY <1>9, <2>2 DEF DeleteRole, Alone, Overlap, admin
  <2> QED
    BY <2>1, <2>2
<1>10. ASSUME NEW a \in Admins, NEW op \in AllOps, NEW u \in Users, NEW r \in Roles,
              FindRole(a, op, u, r)
       PROVE  Exact'
  BY <1>2, <1>10 DEF FindRole, db
<1>11. ASSUME NEW a \in Admins,
              AssignToUser(a) \/ RemoveFromUser(a) \/ Invalidate(a) \/ UpdateAnswer(a)
       PROVE  Exact'
  BY <1>2, <1>11 DEF AssignToUser, RemoveFromUser, Invalidate, UpdateAnswer, db
<1>12. ASSUME NEW c \in Checks, CheckStep(c) \/ \E u \in Users : CheckMiss(c, u)
       PROVE  Exact'
  BY <1>1, <1>12 DEF CheckStep, CheckMiss, CheckQuery, CheckFill, CheckFillFails, CheckDone,
                     db, admin
<1>13. ASSUME NEW u \in Users, Expire(u)
       PROVE  Exact'
  BY <1>1, <1>13 DEF Expire, db, admin
<1>14. CASE UNCHANGED vars
  BY <1>1, <1>14 DEF vars, db, admin
<1> QED
  BY <1>3, <1>4, <1>5, <1>6, <1>7, <1>8, <1>9, <1>10, <1>11, <1>12, <1>13, <1>14
  DEF Next, AdminCall, AdminStep

\* updateRole answers with exactly the wanted permissions unless another
\* change of the same role overlapped it.
THEOREM UpdatesExact == Spec => []UpdateExact
<1>1. Init => Exact
  BY DEF Init, Exact, Alone, TypeOK, Progress, Updating, Entries
<1>2. Exact /\ [Next]_vars => Exact'
  BY ExactStep
<1>3. Exact => UpdateExact
  BY DEF Exact, Progress, UpdateExact
<1> QED
  BY <1>1, <1>2, <1>3, PTL DEF Spec
=============================================================================
