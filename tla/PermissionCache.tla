---------------------------- MODULE PermissionCache ----------------------------
(***************************************************************************)
(* AuthorizationService: permission checks read user:permissions:<u> in    *)
(* Redis and fall back to Postgres (cache aside, 5 minutes); role changes  *)
(* write Postgres and then invalidate.  Checks and role changes are        *)
(* separate requests: each Redis or Postgres call is one action.           *)
(***************************************************************************)
EXTENDS FiniteSets

CONSTANTS
    Users, Permissions,
    Roles,               \* the roles that are not system roles: those deleteRole deletes
    Checks, Admins,      \* concurrent permission checks, concurrent role changes
    Ops,                 \* the role operations the administrators use
    CacheFails           \* may a Redis call fail?

AllOps == {"assign", "unassign", "update", "delete"}

ASSUME PermissionAssumption == Ops \subseteq AllOps /\ CacheFails \in BOOLEAN

VARIABLES
    roles, userRoles, rolePerms,  \* Postgres: roles, user_roles, role_permissions
    cache,                        \* Redis: user:permissions:<u>, {} or one permission set
    cpc, cuser, seen,             \* a check: its point, its user, what it read
    apc, auser, arole, want,      \* an admin request: its point and arguments
    todo,                         \* permissions it has still to remove or add
    late, why, clash              \* history: see StaleExplained and UpdateExact

db == <<roles, userRoles, rolePerms>>
check == <<cpc, cuser, seen>>
admin == <<apc, auser, arole, want, todo>>
vars == <<db, cache, check, admin, late, why, clash>>

\* permissionRepository.findByUserId: the union over the user's roles.
Granted(u) == UNION {rolePerms[r] : r \in userRoles[u]}

Entries == {{}} \cup {{ps} : ps \in SUBSET Permissions}

TypeOK ==
    /\ roles \in SUBSET Roles
    /\ userRoles \in [Users -> SUBSET Roles]
    /\ rolePerms \in [Roles -> SUBSET Permissions]
    /\ cache \in [Users -> Entries]
    /\ cpc \in [Checks -> {"idle", "query", "fill"}]
    /\ cuser \in [Checks -> Users]
    /\ seen \in [Checks -> SUBSET Permissions]
    /\ apc \in [Admins -> {"idle", "assign", "unassign", "del", "strip", "add", "flush"}]
    /\ auser \in [Admins -> Users]
    /\ arole \in [Admins -> Roles]
    /\ want \in [Admins -> SUBSET Permissions]
    /\ todo \in [Admins -> SUBSET Permissions]
    /\ late \in [Checks -> BOOLEAN]
    /\ why \in [Users -> {"fresh", "late", "failed", "role"}]
    /\ clash \in SUBSET Admins

Init ==
    /\ roles = Roles
    /\ userRoles = [u \in Users |-> {}]
    /\ rolePerms \in [Roles -> SUBSET Permissions]
    /\ cache = [u \in Users |-> {}]
    /\ cpc = [c \in Checks |-> "idle"]
    /\ cuser \in [Checks -> Users]
    /\ seen = [c \in Checks |-> {}]
    /\ apc = [a \in Admins |-> "idle"]
    /\ auser \in [Admins -> Users]
    /\ arole \in [Admins -> Roles]
    /\ want = [a \in Admins |-> {}]
    /\ todo = [a \in Admins |-> {}]
    /\ late = [c \in Checks |-> FALSE]
    /\ why = [u \in Users |-> "fresh"]
    /\ clash = {}

-----------------------------------------------------------------------------
(* getUserPermissions: GET, then on a miss (or a Redis error) the query,   *)
(* then SETEX.  A hit answers at once and changes nothing.                 *)

CheckMiss(c, u) ==
    /\ cpc[c] = "idle"
    /\ cache[u] = {} \/ CacheFails
    /\ cpc' = [cpc EXCEPT ![c] = "query"]
    /\ cuser' = [cuser EXCEPT ![c] = u]
    /\ UNCHANGED <<db, cache, seen, admin, late, why, clash>>

CheckQuery(c) ==
    /\ cpc[c] = "query"
    /\ cpc' = [cpc EXCEPT ![c] = "fill"]
    /\ seen' = [seen EXCEPT ![c] = Granted(cuser[c])]
    /\ UNCHANGED <<db, cache, cuser, admin, late, why, clash>>

CheckDone(c) ==
    /\ cpc[c] = "fill"
    /\ cpc' = [cpc EXCEPT ![c] = "idle"]
    /\ seen' = [seen EXCEPT ![c] = {}]
    /\ late' = [late EXCEPT ![c] = FALSE]
    /\ UNCHANGED <<db, cuser, admin, clash>>

CheckFill(c) ==
    /\ CheckDone(c)
    /\ cache' = [cache EXCEPT ![cuser[c]] = {seen[c]}]
    /\ why' = [why EXCEPT ![cuser[c]] = IF late[c] THEN "late" ELSE "fresh"]

\* A failed SETEX is only logged.
CheckFillFails(c) ==
    /\ CacheFails
    /\ CheckDone(c)
    /\ UNCHANGED <<cache, why>>

-----------------------------------------------------------------------------
(* History: a change of u's permissions in Postgres overtakes the checks   *)
(* that have read the old ones and not yet stored them; a change of a role *)
(* leaves the entries of its holders behind.                               *)

Overtake(us) ==
    late' = [c \in Checks |-> late[c] \/ (cpc[c] = "fill" /\ cuser[c] \in us)]

Holders(r) == {u \in Users : r \in userRoles[u]}

LeaveBehind(us) ==
    /\ Overtake(us)
    /\ why' = [u \in Users |-> IF u \in us /\ cache[u] # {} THEN "role" ELSE why[u]]

-----------------------------------------------------------------------------
(* assignRole / removeRole: look the role up, write user_roles, then DEL   *)
(* the user's entry.                                                       *)

FindRole(a, op, u, r) ==
    /\ op \in Ops \cap {"assign", "unassign"}
    /\ apc[a] = "idle"
    /\ r \in roles
    /\ apc' = [apc EXCEPT ![a] = op]
    /\ auser' = [auser EXCEPT ![a] = u]
    /\ arole' = [arole EXCEPT ![a] = r]
    /\ UNCHANGED <<db, cache, check, want, todo, late, why, clash>>

\* A role deleted since fails the foreign key: NotFoundError.
AssignToUser(a) ==
    /\ apc[a] = "assign"
    /\ \/ /\ arole[a] \in roles
          /\ userRoles' = [userRoles EXCEPT ![auser[a]] = @ \cup {arole[a]}]
          /\ apc' = [apc EXCEPT ![a] = "del"]
          /\ Overtake({auser[a]})
       \/ /\ arole[a] \notin roles
          /\ apc' = [apc EXCEPT ![a] = "idle"]
          /\ UNCHANGED <<userRoles, late>>
    /\ UNCHANGED <<roles, rolePerms, cache, check, auser, arole, want, todo, why, clash>>

\* Slip: the handler answers without invalidating.
RemoveFromUser_NoInvalidation(a) ==
    /\ apc[a] = "unassign"
    /\ userRoles' = [userRoles EXCEPT ![auser[a]] = @ \ {arole[a]}]
    /\ apc' = [apc EXCEPT ![a] = "idle"]
    /\ Overtake({auser[a]})
    /\ UNCHANGED <<roles, rolePerms, cache, check, auser, arole, want, todo, why, clash>>

RemoveFromUser(a) ==
    /\ apc[a] = "unassign"
    /\ userRoles' = [userRoles EXCEPT ![auser[a]] = @ \ {arole[a]}]
    /\ apc' = [apc EXCEPT ![a] = "del"]
    /\ Overtake({auser[a]})
    /\ UNCHANGED <<roles, rolePerms, cache, check, auser, arole, want, todo, why, clash>>

\* invalidateUserPermissionCache: DEL; a failure is logged and swallowed.
Invalidate(a) ==
    /\ apc[a] = "del"
    /\ apc' = [apc EXCEPT ![a] = "idle"]
    /\ \/ /\ cache' = [cache EXCEPT ![auser[a]] = {}]
          /\ why' = [why EXCEPT ![auser[a]] = "fresh"]
       \/ /\ CacheFails
          /\ UNCHANGED cache
          /\ why' = [why EXCEPT ![auser[a]] = IF cache[auser[a]] = {} THEN @ ELSE "failed"]
    /\ UNCHANGED <<db, check, auser, arole, want, todo, late, clash>>

-----------------------------------------------------------------------------
(* AdminController.updateRole: read the role's permissions, remove them    *)
(* one by one, add the wanted ones one by one, then                        *)
(* invalidateRolePermissionCache.  That calls KEYS user:permissions:*      *)
(* without the client's keyPrefix, finds no key and deletes nothing.       *)

Updating(r) == {b \in Admins : apc[b] \in {"strip", "add", "flush"} /\ arole[b] = r}

Overlap(a, r) ==
    clash' = IF Updating(r) = {} THEN clash \ {a} ELSE clash \cup Updating(r) \cup {a}

UpdateRole(a, r, ps) ==
    /\ "update" \in Ops
    /\ apc[a] = "idle"
    /\ r \in roles
    /\ apc' = [apc EXCEPT ![a] = "strip"]
    /\ arole' = [arole EXCEPT ![a] = r]
    /\ want' = [want EXCEPT ![a] = ps]
    /\ todo' = [todo EXCEPT ![a] = rolePerms[r]]
    /\ Overlap(a, r)
    /\ UNCHANGED <<db, cache, check, auser, late, why>>

RemovePermission(a, q) ==
    /\ apc[a] = "strip"
    /\ q \in todo[a]
    /\ rolePerms' = [rolePerms EXCEPT ![arole[a]] = @ \ {q}]
    /\ todo' = [todo EXCEPT ![a] = @ \ {q}]
    /\ LeaveBehind(Holders(arole[a]))
    /\ UNCHANGED <<roles, userRoles, cache, check, apc, auser, arole, want, clash>>

StartAdding(a) ==
    /\ apc[a] = "strip"
    /\ todo[a] = {}
    /\ apc' = [apc EXCEPT ![a] = "add"]
    /\ todo' = [todo EXCEPT ![a] = want[a]]
    /\ UNCHANGED <<db, cache, check, auser, arole, want, late, why, clash>>

\* Slip: the loop over the permissions ends after the first.
AddPermission_First(a, q) ==
    /\ apc[a] = "add"
    /\ q \in todo[a]
    /\ arole[a] \in roles
    /\ rolePerms' = [rolePerms EXCEPT ![arole[a]] = @ \cup {q}]
    /\ todo' = [todo EXCEPT ![a] = {}]
    /\ LeaveBehind(Holders(arole[a]))
    /\ UNCHANGED <<roles, userRoles, cache, check, apc, auser, arole, want, clash>>

AddPermission(a, q) ==
    /\ apc[a] = "add"
    /\ q \in todo[a]
    /\ arole[a] \in roles
    /\ rolePerms' = [rolePerms EXCEPT ![arole[a]] = @ \cup {q}]
    /\ todo' = [todo EXCEPT ![a] = @ \ {q}]
    /\ LeaveBehind(Holders(arole[a]))
    /\ UNCHANGED <<roles, userRoles, cache, check, apc, auser, arole, want, clash>>

\* A Postgres call fails, or the foreign key of an add does (the role was
\* deleted, the request names an unknown permission): the request ends there.
UpdateFails(a) ==
    /\ apc[a] \in {"strip", "add"}
    /\ apc' = [apc EXCEPT ![a] = "idle"]
    /\ todo' = [todo EXCEPT ![a] = {}]
    /\ UNCHANGED <<db, cache, check, auser, arole, want, late, why, clash>>

InvalidateRole(a) ==
    /\ apc[a] = "add"
    /\ todo[a] = {}
    /\ apc' = [apc EXCEPT ![a] = "flush"]
    /\ UNCHANGED <<db, cache, check, auser, arole, want, todo, late, why, clash>>

UpdateAnswer(a) ==
    /\ apc[a] = "flush"
    /\ apc' = [apc EXCEPT ![a] = "idle"]
    /\ UNCHANGED <<db, cache, check, auser, arole, want, todo, late, why, clash>>

\* AdminController.deleteRole: the row goes, user_roles and role_permissions
\* cascade, no cache is touched.
DeleteRole(a, r) ==
    /\ "delete" \in Ops
    /\ apc[a] = "idle"
    /\ r \in roles
    /\ roles' = roles \ {r}
    /\ userRoles' = [u \in Users |-> userRoles[u] \ {r}]
    /\ rolePerms' = [rolePerms EXCEPT ![r] = {}]
    /\ LeaveBehind(Holders(r))
    /\ Overlap(a, r)
    /\ UNCHANGED <<cache, check, admin>>

\* Redis drops an entry after PERMISSION_CACHE_TTL.
Expire(u) ==
    /\ cache[u] # {}
    /\ cache' = [cache EXCEPT ![u] = {}]
    /\ why' = [why EXCEPT ![u] = "fresh"]
    /\ UNCHANGED <<db, check, admin, late, clash>>

-----------------------------------------------------------------------------
CheckStep(c) == CheckQuery(c) \/ CheckFill(c) \/ CheckFillFails(c)

AdminCall(a) ==
    \E r \in Roles :
        \/ \E u \in Users, op \in AllOps : FindRole(a, op, u, r)
        \/ \E ps \in SUBSET Permissions : UpdateRole(a, r, ps)
        \/ DeleteRole(a, r)

AdminStep(a) ==
    \/ AssignToUser(a) \/ RemoveFromUser(a) \/ Invalidate(a)
    \/ StartAdding(a) \/ UpdateFails(a) \/ InvalidateRole(a) \/ UpdateAnswer(a)
    \/ \E q \in Permissions : RemovePermission(a, q) \/ AddPermission(a, q)

Next ==
    \/ \E c \in Checks : CheckStep(c) \/ \E u \in Users : CheckMiss(c, u)
    \/ \E a \in Admins : AdminCall(a) \/ AdminStep(a)
    \/ \E u \in Users : Expire(u)

Spec == Init /\ [][Next]_vars

\* Requests in progress go on, and Redis expires keys.
Fairness ==
    /\ \A c \in Checks : WF_vars(CheckStep(c))
    /\ \A a \in Admins : WF_vars(AdminStep(a))
    /\ \A u \in Users : WF_vars(Expire(u))

FairSpec == Spec /\ Fairness

-----------------------------------------------------------------------------
(* Properties                                                              *)

Stale(u) == cache[u] \notin {{}, {Granted(u)}}

Changing(u) == \E a \in Admins : apc[a] = "del" /\ auser[a] = u

\* A cached permission set differs from the database only while a change of
\* that user's roles is about to invalidate it, or because a check that read
\* before the change stored after it ("late"), or the DEL failed ("failed"),
\* or the change was to the role itself ("role").  There is no other way.
StaleExplained == \A u \in Users : Stale(u) => Changing(u) \/ why[u] # "fresh"

\* What a check holds between its query and its SETEX is the database's
\* answer unless a change overtook it.
ReadExplained ==
    \A c \in Checks : cpc[c] = "fill" /\ ~ late[c] => seen[c] = Granted(cuser[c])

\* An updateRole that no other change of the same role overlapped answers
\* with exactly the wanted permissions, however the checks and the changes
\* of users and other roles interleave with its 2n writes.
UpdateExact ==
    \A a \in Admins : apc[a] = "flush" /\ a \notin clash => rolePerms[arole[a]] = want[a]

\* Once roles stop changing, every cached set becomes right and stays right,
\* whatever was stale before and whichever invalidations failed.
StaleHeals ==
    <>[](\A a \in Admins : apc[a] = "idle") /\ <>[][db' = db]_vars
        => <>[](\A u \in Users : ~ Stale(u))

\* No role change hangs on the cache: every request is answered.
AdminsAnswer == \A a \in Admins : apc[a] # "idle" ~> apc[a] = "idle"

=============================================================================
