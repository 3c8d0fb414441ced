------------------------------ MODULE RoleSeeding ------------------------------
(***************************************************************************)
(* SystemRolesService.initializeSystemRoles beside the administrators'     *)
(* createRole and createPermission.  Seeding is find-or-create, one row at *)
(* a time and without a transaction: several instances may seed at once,   *)
(* and any of them may fail after any write and try again later.           *)
(***************************************************************************)
EXTENDS Integers, Sequences

CONSTANTS
    Seeders,         \* instances that call initializeSystemRoles
    Creators,        \* requests of administrators
    PermIds, RoleIds,\* ids not yet used: randomUUID
    Unset

\* The definitions and system roles the module seeds, in their order: a small
\* version of the lists in the code, with one permission two roles share.
Definitions == <<"profile:read", "*:*">>
SystemRoles == <<"admin", "user">>
RoleGrants(name) == IF name = "admin" THEN <<"*:*">> ELSE <<"profile:read">>

Elements(s) == {s[i] : i \in DOMAIN s}
Names == Elements(SystemRoles)
Defs == Elements(Definitions)

ASSUME SeedAssumption ==
    Seeders \cap Creators = {} /\ Unset \notin PermIds \cup RoleIds \cup Defs \cup Names

VARIABLES
    permDef,         \* Postgres permissions: the definition of each id, or Unset
    roleName,        \* Postgres roles: the name of each id (unique), or Unset
    system,          \* roles with isSystem
    holds,           \* Postgres role_permissions; a second row of a pair changes nothing
    spc, at,         \* a seeder: its point and the index it has reached
    found,           \* the permissionsMap of a seeder: definition -> id
    task,            \* the role a seeder or creator has saved and still writes to
    todo,            \* the permission ids it has still to add, in order
    torn,            \* history: roles whose writer failed half way
    seededTogether,        \* history: has a seeder started while another was running?
    byHand           \* history: definitions created by createPermission

seedVars == <<permDef, roleName, system, holds, spc, at, found, task, todo,
              torn, seededTogether, byHand>>
rows == <<permDef, roleName, system, holds>>
seedHistory == <<torn, seededTogether, byHand>>

Writers == Seeders \cup Creators

SeedTypeOK ==
    /\ permDef \in [PermIds -> Defs \cup {Unset}]
    /\ roleName \in [RoleIds -> Names \cup {Unset}]
    /\ system \in SUBSET RoleIds
    /\ holds \in [RoleIds -> SUBSET PermIds]
    /\ spc \in [Writers -> {"idle", "findPerm", "savePerm", "findRole", "saveRole", "add"}]
    /\ at \in [Writers -> 1..2]
    /\ found \in [Seeders -> [Defs -> PermIds \cup {Unset}]]
    /\ task \in [Writers -> RoleIds \cup {Unset}]
    /\ \A w \in Writers : Elements(todo[w]) \subseteq PermIds
    /\ torn \in SUBSET RoleIds /\ seededTogether \in BOOLEAN /\ byHand \in SUBSET Defs

SeedInit ==
    /\ permDef = [p \in PermIds |-> Unset]
    /\ roleName = [r \in RoleIds |-> Unset]
    /\ system = {}
    /\ holds = [r \in RoleIds |-> {}]
    /\ spc = [w \in Writers |-> "idle"]
    /\ at = [w \in Writers |-> 1]
    /\ found = [s \in Seeders |-> [d \in Defs |-> Unset]]
    /\ task = [w \in Writers |-> Unset]
    /\ todo = [w \in Writers |-> <<>>]
    /\ torn = {}
    /\ seededTogether = FALSE
    /\ byHand = {}

-----------------------------------------------------------------------------
(* initializeSystemRoles                                                   *)

InitializeSystemRoles(s) ==
    /\ spc[s] = "idle"
    /\ spc' = [spc EXCEPT ![s] = "findPerm"]
    /\ at' = [at EXCEPT ![s] = 1]
    /\ found' = [found EXCEPT ![s] = [d \in Defs |-> Unset]]
    /\ seededTogether' = (seededTogether \/ \E q \in Seeders \ {s} : spc[q] # "idle")
    /\ UNCHANGED <<rows, task, todo, torn, byHand>>

\* The loop over the definitions, then the roles.
NextPerm(s) == IF at[s] < Len(Definitions) THEN "findPerm" ELSE "findRole"
NextRole(s) == IF at[s] < Len(SystemRoles) THEN "findRole" ELSE "idle"
Advance(s, pc, list) ==
    /\ spc' = [spc EXCEPT ![s] = pc]
    /\ at' = [at EXCEPT ![s] = IF @ < Len(list) THEN @ + 1 ELSE 1]

\* Slip: only the permissions this pass has seen count as existing.
GetPermission_Blind(s) ==
    /\ spc[s] = "findPerm"
    /\ spc' = [spc EXCEPT ![s] = "savePerm"]
    /\ UNCHANGED <<rows, at, found, task, todo, seedHistory>>

\* createOrGetPermission: any of the rows with the resource and action, LIMIT 1.
GetPermission(s) ==
    LET d == Definitions[at[s]] IN
    /\ spc[s] = "findPerm"
    /\ IF \E p \in PermIds : permDef[p] = d
       THEN /\ \E p \in PermIds :
                  permDef[p] = d /\ found' = [found EXCEPT ![s][d] = p]
            /\ Advance(s, NextPerm(s), Definitions)
       ELSE /\ spc' = [spc EXCEPT ![s] = "savePerm"]
            /\ UNCHANGED <<at, found>>
    /\ UNCHANGED <<rows, task, todo, seedHistory>>

\* permissions has no unique key on resource and action: a second row is stored.
SavePermission(s, p) ==
    LET d == Definitions[at[s]] IN
    /\ spc[s] = "savePerm" /\ permDef[p] = Unset
    /\ permDef' = [permDef EXCEPT ![p] = d]
    /\ found' = [found EXCEPT ![s][d] = p]
    /\ Advance(s, NextPerm(s), Definitions)
    /\ UNCHANGED <<roleName, system, holds, task, todo, seedHistory>>

\* createAdminRole / createModeratorRole / createUserRole: a role of the name is
\* taken for complete, whoever stored it.
RoleExists(s) ==
    /\ spc[s] = "findRole"
    /\ \E r \in RoleIds : roleName[r] = SystemRoles[at[s]]
    /\ Advance(s, NextRole(s), SystemRoles)
    /\ UNCHANGED <<rows, found, task, todo, seedHistory>>

RoleMissing(s) ==
    /\ spc[s] = "findRole"
    /\ \A r \in RoleIds : roleName[r] # SystemRoles[at[s]]
    /\ spc' = [spc EXCEPT ![s] = "saveRole"]
    /\ UNCHANGED <<rows, at, found, task, todo, seedHistory>>

Ids(s, defs) == [i \in DOMAIN defs |-> found[s][defs[i]]]

\* save() adds the permissions of the entity, then create...Role adds them again.
Associations(s, name) == Ids(s, RoleGrants(name)) \o Ids(s, RoleGrants(name))

\* The name is unique: a second insert throws ConflictError.
SaveRole(s, r) ==
    LET name == SystemRoles[at[s]] IN
    /\ spc[s] = "saveRole" /\ roleName[r] = Unset
    /\ IF \E q \in RoleIds : roleName[q] = name
       THEN /\ spc' = [spc EXCEPT ![s] = "idle"]
            /\ at' = [at EXCEPT ![s] = 1]
            /\ UNCHANGED <<rows, task, todo>>
       ELSE /\ roleName' = [roleName EXCEPT ![r] = name]
            /\ system' = system \cup {r}
            /\ task' = [task EXCEPT ![s] = r]
            /\ todo' = [todo EXCEPT ![s] = Associations(s, name)]
            /\ spc' = [spc EXCEPT ![s] = "add"]
            /\ UNCHANGED <<permDef, holds, at>>
    /\ UNCHANGED <<found, seedHistory>>

\* addPermission, one insert at a time.
AddPermission(w) ==
    /\ spc[w] = "add" /\ todo[w] # <<>>
    /\ holds' = [holds EXCEPT ![task[w]] = @ \cup {Head(todo[w])}]
    /\ todo' = [todo EXCEPT ![w] = Tail(@)]
    /\ UNCHANGED <<permDef, roleName, system, spc, at, found, task, seedHistory>>

RoleWritten(w) ==
    /\ spc[w] = "add" /\ todo[w] = <<>>
    /\ task' = [task EXCEPT ![w] = Unset]
    /\ IF w \in Seeders
       THEN Advance(w, NextRole(w), SystemRoles)
       ELSE spc' = [spc EXCEPT ![w] = "idle"] /\ UNCHANGED at
    /\ UNCHANGED <<rows, found, todo, seedHistory>>

\* A database call throws, or the process stops: what is written stays.  The
\* next initializeSystemRoles starts from the first definition.
Breaks(w) ==
    /\ spc[w] # "idle"
    /\ spc' = [spc EXCEPT ![w] = "idle"]
    /\ at' = [at EXCEPT ![w] = 1]
    /\ torn' = IF todo[w] # <<>> THEN torn \cup {task[w]} ELSE torn
    /\ task' = [task EXCEPT ![w] = Unset]
    /\ todo' = [todo EXCEPT ![w] = <<>>]
    /\ UNCHANGED <<rows, found, seededTogether, byHand>>

-----------------------------------------------------------------------------
(* AdminController.createRole and createPermission                         *)

CreateRole(c, r, name, ps) ==
    /\ spc[c] = "idle" /\ roleName[r] = Unset
    /\ \A q \in RoleIds : roleName[q] # name
    /\ roleName' = [roleName EXCEPT ![r] = name]
    /\ task' = [task EXCEPT ![c] = r]
    /\ todo' = [todo EXCEPT ![c] = ps]
    /\ spc' = [spc EXCEPT ![c] = "add"]
    /\ UNCHANGED <<permDef, system, holds, at, found, seedHistory>>

\* deleteRole, for roles that are not system roles: the rows of role_permissions
\* go with it, and a creator that is still adding to it gets NotFoundError.
DeleteRole(r) ==
    /\ roleName[r] # Unset /\ r \notin system
    /\ roleName' = [roleName EXCEPT ![r] = Unset]
    /\ holds' = [holds EXCEPT ![r] = {}]
    /\ spc' = [w \in Writers |-> IF task[w] = r THEN "idle" ELSE spc[w]]
    /\ todo' = [w \in Writers |-> IF task[w] = r THEN <<>> ELSE todo[w]]
    /\ task' = [w \in Writers |-> IF task[w] = r THEN Unset ELSE task[w]]
    /\ UNCHANGED <<permDef, system, at, found, seedHistory>>

\* createPermission does not look for an existing row.
CreatePermission(c, p, d) ==
    /\ spc[c] = "idle" /\ permDef[p] = Unset
    /\ permDef' = [permDef EXCEPT ![p] = d]
    /\ byHand' = byHand \cup {d}
    /\ UNCHANGED <<roleName, system, holds, spc, at, found, task, todo, torn, seededTogether>>

Stored(ps) == \A p \in Elements(ps) : permDef[p] # Unset

SeedNext ==
    \/ \E s \in Seeders :
         \/ InitializeSystemRoles(s) \/ GetPermission(s)
         \/ RoleExists(s) \/ RoleMissing(s)
         \/ \E p \in PermIds : SavePermission(s, p)
         \/ \E r \in RoleIds : SaveRole(s, r)
    \/ \E w \in Writers : AddPermission(w) \/ RoleWritten(w) \/ Breaks(w)
    \/ \E c \in Creators, r \in RoleIds, name \in Names,
          ps \in {<<>>} \cup {<<p>> : p \in PermIds} :
         Stored(ps) /\ CreateRole(c, r, name, ps)
    \/ \E r \in RoleIds : DeleteRole(r)
    \/ \E c \in Creators, p \in PermIds, d \in Defs : CreatePermission(c, p, d)

SeedSpec == SeedInit /\ [][SeedNext]_seedVars

-----------------------------------------------------------------------------
(* Properties                                                              *)

Granted(r) == {permDef[p] : p \in holds[r]}
Writing(r) == \E w \in Writers : task[w] = r

\* A system role holds exactly what its definition lists, once nobody writes to
\* it any more, unless its writer failed half way; a later seeding takes such a
\* role for complete and never repairs it.
SystemRolesComplete ==
    \A r \in system : Granted(r) = Elements(RoleGrants(roleName[r]))
                      \/ Writing(r) \/ r \in torn

\* Two rows of one resource and action come from overlapping seedings or from
\* createPermission.
DuplicatePermissionsExplained ==
    \A p, q \in PermIds :
        p # q /\ permDef[p] = permDef[q] /\ permDef[p] # Unset
            => seededTogether \/ permDef[p] \in byHand

\* What seeding leaves behind is complete and unique, or explained.
SeedingExplained == SystemRolesComplete /\ DuplicatePermissionsExplained
=============================================================================
