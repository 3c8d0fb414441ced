----------------------------- MODULE UserAccount -----------------------------
(***************************************************************************)
(* The users row and the requests that change it: AuthenticationService    *)
(* (register, login, verifyEmail, resetPassword) and UserService.  Every   *)
(* change reads the row, works on the entity and writes the whole row back *)
(* (UserRepository.update), with Argon2 and Postgres awaits in between, so *)
(* a request is two actions: reading (which computes the image) and Update.*)
(*                                                                         *)
(* The columns are those that UserRepository reads and writes; what it does*)
(* not store (lastFailedLoginAt, MFA, image) is null on every read.        *)
(***************************************************************************)
EXTENDS Naturals, FiniteSets

CONSTANTS
    Users, Passwords, Tokens, Procs,
    None,
    MaxAttempts,     \* failed logins before the account is locked (5)
    Ops              \* the operations the environment calls

AllOps == {"register", "login", "verify", "reset", "change", "profile",
           "lock", "unlock", "delete"}

Row == [pw : Passwords, verified : BOOLEAN, lock : {"open", "locked", "lapsed"},
        attempts : 0 .. MaxAttempts, deleted : BOOLEAN]

ASSUME AccountAssumption ==
    /\ MaxAttempts \in Nat \ {0}
    /\ Ops \subseteq AllOps
    /\ None \notin Users \cup Passwords \cup Tokens \cup Row

VARIABLES
    row,          \* Postgres: each user's row, or None
    live,         \* the tokens in the two maps of the process's tokenStore
    purpose,      \* what a token was drawn for: "verify" or "reset"
    owner,        \* its userId
    pc, op, usr,  \* a request: its point, operation and user
    arg,          \* the password it was called with
    token,        \* the token it was called with
    image,        \* the entity it will write
    late,         \* history: the row was written since this request read it
    spent         \* history: the tokens of requests that succeeded

vars == <<row, live, purpose, owner, pc, op, usr, arg, token, image, late, spent>>
tokens == <<live, purpose, owner, spent>>
request == <<op, usr, arg, token>>

TypeOK ==
    /\ row \in [Users -> Row \cup {None}]
    /\ live \subseteq Tokens /\ spent \subseteq Tokens
    /\ purpose \in [Tokens -> {"verify", "reset", None}]
    /\ owner \in [Tokens -> Users \cup {None}]
    /\ pc \in [Procs -> {"idle", "insert", "update", "drop"}]
    /\ op \in [Procs -> Ops \cup {None}]
    /\ usr \in [Procs -> Users \cup {None}]
    /\ arg \in [Procs -> Passwords \cup {None}]
    /\ token \in [Procs -> Tokens \cup {None}]
    /\ image \in [Procs -> Row \cup {None}]
    /\ late \in [Procs -> BOOLEAN]

Init ==
    /\ row = [u \in Users |-> None]
    /\ live = {} /\ spent = {}
    /\ purpose = [t \in Tokens |-> None]
    /\ owner = [t \in Tokens |-> None]
    /\ pc = [p \in Procs |-> "idle"]
    /\ op = [p \in Procs |-> None]
    /\ usr = [p \in Procs |-> None]
    /\ arg = [p \in Procs |-> None]
    /\ token = [p \in Procs |-> None]
    /\ image = [p \in Procs |-> None]
    /\ late = [p \in Procs |-> FALSE]

-----------------------------------------------------------------------------
(* The entity (domain/entities/user.entity.ts)                             *)

\* findById / findByEmail: deleted rows are not found.
Found(u) == row[u] # None /\ ~ row[u].deleted

Unlocked(r) == [r EXCEPT !.lock = "open", !.attempts = 0]

\* isAccountLocked unlocks the entity when the lock has lapsed.
Current(r) == IF r.lock = "lapsed" THEN Unlocked(r) ELSE r

\* Slip: the lock forgets the count.
Failed_Uncounted(r) ==
    IF r.attempts + 1 >= MaxAttempts THEN [r EXCEPT !.lock = "locked"] ELSE r

\* incrementFailedAttempts.  Its fifteen-minute window never applies, because
\* lastFailedLoginAt is null in every entity that was read.
Failed(r) ==
    [r EXCEPT !.attempts = @ + 1, !.lock = IF r.attempts + 1 >= MaxAttempts THEN "locked" ELSE @]

\* What an operation called with the password w makes of the row r.
Effect(o, w, r) ==
    CASE o = "login"   -> IF w = r.pw THEN [Current(r) EXCEPT !.attempts = 0]
                          ELSE Failed(Current(r))
      [] o \in {"reset", "change"} -> [r EXCEPT !.pw = w]
      [] o = "verify"  -> [r EXCEPT !.verified = TRUE]
      [] o = "profile" -> r
      [] o = "lock"    -> [r EXCEPT !.lock = "locked"]
      [] o = "unlock"  -> Unlocked(r)
      [] o = "delete"  -> [r EXCEPT !.deleted = TRUE]
      [] OTHER         -> r

-----------------------------------------------------------------------------
(* Reading: a request finds the user, changes the entity and hashes.       *)

Begin(p, o, u, w, t, point, r) ==
    /\ o \in Ops
    /\ pc[p] = "idle"
    /\ pc' = [pc EXCEPT ![p] = point]
    /\ op' = [op EXCEPT ![p] = o]
    /\ usr' = [usr EXCEPT ![p] = u]
    /\ arg' = [arg EXCEPT ![p] = w]
    /\ token' = [token EXCEPT ![p] = t]
    /\ image' = [image EXCEPT ![p] = r]
    /\ UNCHANGED <<row, tokens, late>>

Change(p, o, u, w, t) ==
    /\ Found(u)
    /\ Begin(p, o, u, w, t, "update", Effect(o, w, row[u]))

\* A locked account is refused before the password is looked at.
Login(p, u, w) ==
    /\ Found(u)
    /\ row[u].lock # "locked"
    /\ Change(p, "login", u, w, None)

ChangePassword(p, u, old, w) ==
    /\ Found(u)
    /\ old = row[u].pw
    /\ Change(p, "change", u, w, None)

VerifyEmail(p, t) ==
    /\ t \in live /\ purpose[t] = "verify"
    /\ Change(p, "verify", owner[t], None, t)

ResetPassword(p, t, w) ==
    /\ t \in live /\ purpose[t] = "reset"
    /\ Change(p, "reset", owner[t], w, t)

UserChange(p, u) ==
    \E o \in {"profile", "lock", "unlock", "delete"} : Change(p, o, u, None, None)

\* register: findByEmail finds nobody.
Register(p, u, w) ==
    /\ ~ Found(u)
    /\ Begin(p, "register", u, w, None, "insert", None)

-----------------------------------------------------------------------------
(* Writing                                                                 *)

\* The request is answered, or goes on to delete its token.
GoTo(p, point) ==
    /\ pc' = [pc EXCEPT ![p] = point]
    /\ image' = [image EXCEPT ![p] = None]
    /\ arg' = [arg EXCEPT ![p] = None]
    /\ IF point = "idle"
       THEN /\ op' = [op EXCEPT ![p] = None]
            /\ usr' = [usr EXCEPT ![p] = None]
            /\ token' = [token EXCEPT ![p] = None]
       ELSE UNCHANGED <<op, usr, token>>

\* Who holds an entity of this user now holds an old one.
Overtake(p) ==
    late' = [q \in Procs |-> /\ q # p
                             /\ late[q] \/ (pc[q] = "update" /\ usr[q] = usr[p])]

Fresh(w) == [pw |-> w, verified |-> FALSE, lock |-> "open", attempts |-> 0, deleted |-> FALSE]

Draw(t, o, u) ==
    /\ owner[t] = None
    /\ owner' = [owner EXCEPT ![t] = u]
    /\ purpose' = [purpose EXCEPT ![t] = o]
    /\ live' = live \cup {t}

\* Slip: on a conflict the insert replaces the row.
Insert_Upsert(p) ==
    /\ pc[p] = "insert"
    /\ row' = [row EXCEPT ![usr[p]] = Fresh(arg[p])]
    /\ (\E t \in Tokens : Draw(t, "verify", usr[p])) \/ UNCHANGED <<live, purpose, owner>>
    /\ GoTo(p, "idle")
    /\ UNCHANGED <<spent, late>>

\* UserRepository.save, and the token of the verification mail, which may be
\* one that is never presented.  The unique index on email refuses a second
\* row, also beside a deleted one.
Insert(p) ==
    /\ pc[p] = "insert"
    /\ \/ /\ row[usr[p]] = None
          /\ row' = [row EXCEPT ![usr[p]] = Fresh(arg[p])]
          /\ (\E t \in Tokens : Draw(t, "verify", usr[p])) \/ UNCHANGED <<live, purpose, owner>>
       \/ /\ row[usr[p]] # None
          /\ UNCHANGED <<row, live, purpose, owner>>
    /\ GoTo(p, "idle")
    /\ UNCHANGED <<spent, late>>

\* Slip: the lock is left out of the UPDATE.
Update_NoLock(p) ==
    /\ pc[p] = "update"
    /\ row' = [row EXCEPT ![usr[p]] = [image[p] EXCEPT !.lock = row[usr[p]].lock]]
    /\ GoTo(p, IF op[p] \in {"verify", "reset"} THEN "drop" ELSE "idle")
    /\ Overtake(p)
    /\ UNCHANGED tokens

\* UserRepository.update: every column.
Update(p) ==
    /\ pc[p] = "update"
    /\ row' = [row EXCEPT ![usr[p]] = image[p]]
    /\ GoTo(p, IF op[p] \in {"verify", "reset"} THEN "drop" ELSE "idle")
    /\ Overtake(p)
    /\ UNCHANGED tokens

\* The Postgres call fails: the request ends with an error.
WriteFails(p) ==
    /\ pc[p] \in {"insert", "update"}
    /\ GoTo(p, "idle")
    /\ late' = [late EXCEPT ![p] = FALSE]
    /\ UNCHANGED <<row, tokens>>

\* Slip: the token stays in the map.
DropToken_Kept(p) ==
    /\ pc[p] = "drop"
    /\ spent' = spent \cup {token[p]}
    /\ GoTo(p, "idle")
    /\ UNCHANGED <<row, live, purpose, owner, late>>

\* verifyEmail and resetPassword delete the token after the update.
DropToken(p) ==
    /\ pc[p] = "drop"
    /\ live' = live \ {token[p]}
    /\ spent' = spent \cup {token[p]}
    /\ GoTo(p, "idle")
    /\ UNCHANGED <<row, purpose, owner, late>>

-----------------------------------------------------------------------------
(* Tokens, time and restarts                                               *)

\* requestPasswordReset: a fresh token for a user who exists.
RequestReset(u, t) ==
    /\ Found(u)
    /\ Draw(t, "reset", u)
    /\ UNCHANGED <<row, pc, request, image, late, spent>>

\* The hour of a reset token, or the day of a verification token, passes: it
\* is refused from now on, and deleted when it is presented.
ExpireToken(t) ==
    /\ t \in live
    /\ live' = live \ {t}
    /\ UNCHANGED <<row, purpose, owner, pc, request, image, late, spent>>

Lapsed(r) == IF r # None /\ r.lock = "locked" THEN [r EXCEPT !.lock = "lapsed"] ELSE r

Locked(u) == row[u] # None /\ row[u].lock = "locked"

\* The fifteen minutes of a lock pass, for the row or for an entity that was
\* read with it.  A request does not outlive a lock that it sets itself.
LapseRow(u) ==
    /\ Locked(u)
    /\ row' = [row EXCEPT ![u] = Lapsed(row[u])]
    /\ UNCHANGED <<tokens, pc, request, image, late>>

LapseImage(p) ==
    /\ image[p] # None /\ image[p].lock = "locked"
    /\ op[p] \notin {"login", "lock"}
    /\ image' = [image EXCEPT ![p] = Lapsed(image[p])]
    /\ UNCHANGED <<row, tokens, pc, request, late>>

\* The process restarts: requests and both token maps are gone.
Restart ==
    /\ pc' = [p \in Procs |-> "idle"]
    /\ op' = [p \in Procs |-> None]
    /\ usr' = [p \in Procs |-> None]
    /\ arg' = [p \in Procs |-> None]
    /\ token' = [p \in Procs |-> None]
    /\ image' = [p \in Procs |-> None]
    /\ late' = [p \in Procs |-> FALSE]
    /\ live' = {}
    /\ UNCHANGED <<row, purpose, owner, spent>>

-----------------------------------------------------------------------------
Call(p) ==
    \/ \E u \in Users, w \in Passwords :
          \/ Register(p, u, w) \/ Login(p, u, w)
          \/ \E old \in Passwords : ChangePassword(p, u, old, w)
    \/ \E t \in Tokens : VerifyEmail(p, t) \/ \E w \in Passwords : ResetPassword(p, t, w)
    \/ \E u \in Users : UserChange(p, u)

Step(p) == Insert(p) \/ Update(p) \/ DropToken(p)

Passage ==
    \/ \E t \in Tokens : ExpireToken(t) \/ \E u \in Users : RequestReset(u, t)
    \/ \E u \in Users : LapseRow(u)
    \/ \E p \in Procs : LapseImage(p)
    \/ Restart

Next ==
    \/ \E p \in Procs : Call(p) \/ Step(p) \/ WriteFails(p)
    \/ Passage

Spec == Init /\ [][Next]_vars

FairSpec == Spec /\ \A p \in Procs : WF_vars(Step(p))

-----------------------------------------------------------------------------
(* Properties                                                              *)

Sound(r) == r = None \/ (r.attempts >= MaxAttempts => r.lock # "open")

\* However logins, resets, admin changes and lapsing locks overwrite each
\* other's rows, no row and no entity about to be written is at the limit of
\* failed attempts without being locked: counter and lock never tear apart.
LockMatchesAttempts ==
    /\ \A u \in Users : Sound(row[u])
    /\ \A p \in Procs : Sound(image[p])

\* Once a verification or a reset has succeeded with a token, the token
\* starts nothing more, in this life of the process or the next, whatever
\* else overlapped with it.
UsedTokenDies == spent \cap live = {}

\* A request whose row nobody wrote in the meantime changes it exactly as
\* its operation says, up to the lapse of a lock: no update is lost unless two
\* requests of the same user overlapped.
AtomicUnlessOvertaken ==
    \A p \in Procs : pc[p] = "update" /\ ~ late[p] =>
        Lapsed(image[p]) = Lapsed(Effect(op[p], arg[p], row[usr[p]]))

WrongLogin(p, u) == Found(u) /\ \E w \in Passwords : w # row[u].pw /\ Login(p, u, w)

\* When from some point only wrong passwords are submitted for u, and they
\* keep coming, u is locked again and again: overlapping failures may lose
\* counts, never all of them.
GuessingLocks ==
    \A u \in Users :
        /\ <>[][\E p \in Procs : WrongLogin(p, u) \/ Step(p) \/ LapseRow(u)]_vars
        /\ []<>(\E p \in Procs : pc[p] = "update" /\ usr[p] = u)
        => []<>Locked(u)

-----------------------------------------------------------------------------
(* What the documents say and the code does not do                         *)

\* requirements.md:158: a reset with a valid token updates the password.  So
\* the stored password changes when a user resets or changes it, and at no
\* other time.
PasswordSticks ==
    [][\A u \in Users : row[u] # None /\ row'[u].pw # row[u].pw =>
          \E p \in Procs : /\ pc[p] = "update" /\ usr[p] = u
                           /\ op[p] \in {"reset", "change"} /\ row'[u] = image[p]]_vars
=============================================================================
