----------------------------- MODULE ProfileCache -----------------------------
(***************************************************************************)
(* UserService over UserRepository and CacheService: getUserById fills the *)
(* cached profile, every change reads the account, writes its whole row    *)
(* and deletes the cached profile.  AuthenticationService writes the same  *)
(* row at a login and leaves the cache alone.  One account.                *)
(***************************************************************************)
EXTENDS Integers

CONSTANTS
    ProfileRequests,    \* requests in flight
    NoProfile,
    MaxVersion          \* bound on how often the row is written

ASSUME ProfileAssumption == MaxVersion \in Nat

VARIABLES
    account,        \* the row, with the number of times it was written
    profile,        \* user:profile:<id> in Redis, or NoProfile; stray marks an
                    \* entry stored late, or whose deletion has failed
    preq,           \* what a request does, and the copy it has read
    acknowledged,   \* history: the last version a change was answered for
    wanted,         \* history: what the last change of each flag asked for
    reverted        \* history: the row was written from an outdated copy

profileVars == <<account, profile, preq, acknowledged, wanted, reverted>>

Account == [ver : 0..MaxVersion, locked : BOOLEAN, deleted : BOOLEAN]
Fresh == [ver |-> 0, locked |-> FALSE, deleted |-> FALSE]
NoRequest == [op |-> "idle", at |-> "idle", copy |-> NoProfile]

ProfileInit ==
    /\ account = Fresh
    /\ profile = NoProfile
    /\ preq = [r \in ProfileRequests |-> NoRequest]
    /\ acknowledged = 0
    /\ wanted = Fresh
    /\ reverted = FALSE

\* What the entity's methods make of a copy: updateProfile and changePassword,
\* lockAccount, unlockAccount, deleteAccount, and a login.
Changed(op, copy) ==
    CASE op = "lock"   -> [copy EXCEPT !.locked = TRUE]
      [] op = "unlock" -> [copy EXCEPT !.locked = FALSE]
      [] op = "delete" -> [copy EXCEPT !.deleted = TRUE]
      [] OTHER         -> copy

Changes == {"edit", "lock", "unlock", "delete", "login"}

At(r, op, at, copy) == preq' = [preq EXCEPT ![r] = [op |-> op, at |-> at, copy |-> copy]]
DoneWith(r) == preq' = [preq EXCEPT ![r] = NoRequest]

-----------------------------------------------------------------------------
(* Reading                                                                 *)

\* getUserById: a hit is answered from the cache.  A miss, or Redis failing,
\* goes on to the database.
GetUserProfile(r) ==
    /\ preq[r].at = "idle"
    /\ At(r, "get", "find", NoProfile)
    /\ UNCHANGED <<account, profile, acknowledged, wanted, reverted>>

\* findById leaves deleted users out.
FindForCache(r) ==
    /\ preq[r].at = "find"
    /\ IF account.deleted THEN DoneWith(r) ELSE At(r, "get", "fill", account)
    /\ UNCHANGED <<account, profile, acknowledged, wanted, reverted>>

\* setUserProfile, which is late when the row has changed since it was read.
SetUserProfile(r) ==
    /\ preq[r].at = "fill"
    /\ \/ profile' = [of |-> preq[r].copy, stray |-> preq[r].copy.ver # account.ver]
       \/ profile' = profile     \* Redis fails: logged
    /\ DoneWith(r)
    /\ UNCHANGED <<account, acknowledged, wanted, reverted>>

-----------------------------------------------------------------------------
(* Changing                                                                *)

\* findById; NotFoundError for a deleted user.  The cache is not asked.
FindUser(r, op) ==
    /\ preq[r].at = "idle" /\ ~ account.deleted
    /\ At(r, op, "write", account)
    /\ UNCHANGED <<account, profile, acknowledged, wanted, reverted>>

Overwritten(r) == reverted' = (reverted \/ preq[r].copy.ver # account.ver)

\* Slip: the cached profile is deleted before the row is written.
UpdateAccount_DropsFirst(r) ==
    /\ preq[r].at \in {"write", "drop"} /\ account.ver < MaxVersion
    /\ IF preq[r].at = "write"
       THEN /\ profile' = NoProfile
            /\ At(r, preq[r].op, "drop", preq[r].copy)
            /\ UNCHANGED <<account, acknowledged, wanted, reverted>>
       ELSE /\ account' = [Changed(preq[r].op, preq[r].copy) EXCEPT !.ver = account.ver + 1]
            /\ wanted' = Changed(preq[r].op, wanted)
            /\ Overwritten(r)
            /\ acknowledged' = account.ver + 1
            /\ DoneWith(r)
            /\ UNCHANGED profile

\* UserRepository.update: every column of the copy.  It does not ask whether
\* the user was deleted meanwhile.  A login ends here.
UpdateAccount(r) ==
    /\ preq[r].at = "write" /\ account.ver < MaxVersion
    /\ account' = [Changed(preq[r].op, preq[r].copy) EXCEPT !.ver = account.ver + 1]
    /\ wanted' = Changed(preq[r].op, wanted)
    /\ Overwritten(r)
    /\ IF preq[r].op = "login" THEN DoneWith(r)
       ELSE At(r, preq[r].op, "drop", [preq[r].copy EXCEPT !.ver = account.ver + 1])
    /\ UNCHANGED <<profile, acknowledged>>

\* changePassword's current password is wrong, or the database fails.
UpdateThrows(r) ==
    /\ preq[r].at \in {"find", "write"}
    /\ DoneWith(r)
    /\ UNCHANGED <<account, profile, acknowledged, wanted, reverted>>

LaterOf(a, b) == IF a > b THEN a ELSE b

\* invalidateUserProfile, and the answer.  deleteAccount then deletes the
\* user's permissions too, which are in PermissionCache.
InvalidateUserProfile(r) ==
    /\ preq[r].at = "drop"
    /\ \/ profile' = NoProfile
       \/ profile' = IF profile = NoProfile THEN NoProfile      \* Redis fails: logged
                     ELSE [profile EXCEPT !.stray = TRUE]
    /\ acknowledged' = LaterOf(acknowledged, preq[r].copy.ver)
    /\ DoneWith(r)
    /\ UNCHANGED <<account, wanted, reverted>>

\* The 300 s of the entry are over.
ProfileExpires ==
    /\ profile # NoProfile
    /\ profile' = NoProfile
    /\ UNCHANGED <<account, preq, acknowledged, wanted, reverted>>

ProfileNext ==
    \/ \E r \in ProfileRequests :
         \/ GetUserProfile(r) \/ FindForCache(r) \/ SetUserProfile(r)
         \/ \E op \in Changes : FindUser(r, op)
         \/ UpdateAccount(r) \/ UpdateThrows(r) \/ InvalidateUserProfile(r)
    \/ ProfileExpires

ProfileSpec == ProfileInit /\ [][ProfileNext]_profileVars

-----------------------------------------------------------------------------
(* Properties                                                              *)

\* A profile answered from the cache is no older than the last change whose
\* caller was answered, unless that change's deletion failed, or the entry was
\* stored by a reader that a change had overtaken (getUserById).
HitIsCurrent ==
    profile # NoProfile /\ profile.of.ver < acknowledged => profile.stray

\* A lock, an unlock and a deletion hold until the next one: no profile edit and
\* no login undoes them, unless it wrote a row it had read before them.
DecisionsHold == ~ reverted => account.locked = wanted.locked /\ account.deleted = wanted.deleted

\* Neither the cached profile nor the row itself falls behind an answered
\* change without a reason.
ProfileTruthful == HitIsCurrent /\ DecisionsHold
===============================================================================
