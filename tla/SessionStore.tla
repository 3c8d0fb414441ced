----------------------------- MODULE SessionStore -----------------------------
(***************************************************************************)
(* The Redis session store (SessionRepository) and the requests that work  *)
(* on it: AuthenticationService.createSession / logout / refreshTokens /   *)
(* resetPassword, SessionService.revokeSession / revokeAllSessions... /    *)
(* updateSessionActivity and DeviceService.removeDevice.                   *)
(*                                                                         *)
(* A session lives in three keys: session:<id> (sess), session:token:<h>   *)
(* (tok) and its membership of session:user:<u> (idx).  Every Redis        *)
(* command is one action, because another request may run at any await     *)
(* between two commands.                                                   *)
(***************************************************************************)
EXTENDS FiniteSets

CONSTANTS
    Users, Sessions, Procs,   \* accounts, session ids, requests in flight
    Nobody,                   \* no user, no session
    Ops,                      \* the operations the environment calls
    MayFail,                  \* may a Redis call fail or the server crash?
    Aging                     \* may the 7 days of a session elapse?

AllOps == {"create", "revoke", "logout", "touch", "others", "device",
           "purge", "refresh"}

ASSUME ConstantsAssumption ==
    /\ Ops \subseteq AllOps
    /\ Nobody \notin Users \cup Sessions
    /\ MayFail \in BOOLEAN
    /\ Aging \in BOOLEAN

VARIABLES
    sess,     \* session:<id>: "absent", "live" or "revoked" (revokedAt set)
    tok,      \* does session:token:<hash> exist?
    idx,      \* session:user:<u>: the set of session ids
    lease,    \* its members when EXPIRE last armed its TTL ({}: no TTL)
    owner,    \* the userId of an issued session id
    handed,   \* sessions whose creation was answered (a client holds tokens)
    expired,  \* sessions whose expiresAt has passed
    pc, op,   \* where a request is, and which operation it runs
    usr,      \* the user the request acts for
    cur,      \* the session id being worked on
    todo,     \* the ids its loop has still to visit
    found,    \* the ids its loop committed to
    rest,     \* the members delete() will write back
    due       \* history: the sessions a purge is asked to end

store == <<sess, tok, idx, lease, owner>>
clock == <<handed, expired>>
locals == <<op, usr, cur, todo, found, rest, due>>
vars == <<store, clock, pc, locals>>

Loading  == {"create_tok", "create_add", "create_expire"}
Updating == {"exists", "set"}
Deleting == {"del_get", "del_sess", "del_tok", "del_members", "del_index",
             "del_add", "del_expire", "purge_index"}
Ended    == {"ok", "failed"}
PCs == {"idle", "read"} \cup Loading \cup Updating \cup Deleting \cup Ended

TypeOK ==
    /\ sess \in [Sessions -> {"absent", "live", "revoked"}]
    /\ tok \in [Sessions -> BOOLEAN]
    /\ idx \in [Users -> SUBSET Sessions]
    /\ lease \in [Users -> SUBSET Sessions]
    /\ owner \in [Sessions -> Users \cup {Nobody}]
    /\ handed \subseteq Sessions
    /\ expired \subseteq Sessions
    /\ pc \in [Procs -> PCs]
    /\ op \in [Procs -> Ops \cup {"none"}]
    /\ usr \in [Procs -> Users \cup {Nobody}]
    /\ cur \in [Procs -> Sessions \cup {Nobody}]
    /\ todo \in [Procs -> SUBSET Sessions]
    /\ found \in [Procs -> SUBSET Sessions]
    /\ rest \in [Procs -> SUBSET Sessions]
    /\ due \in [Procs -> SUBSET Sessions]

Init ==
    /\ sess = [s \in Sessions |-> "absent"]
    /\ tok = [s \in Sessions |-> FALSE]
    /\ idx = [u \in Users |-> {}]
    /\ lease = [u \in Users |-> {}]
    /\ owner = [s \in Sessions |-> Nobody]
    /\ handed = {}
    /\ expired = {}
    /\ pc = [p \in Procs |-> "idle"]
    /\ op = [p \in Procs |-> "none"]
    /\ usr = [p \in Procs |-> Nobody]
    /\ cur = [p \in Procs |-> Nobody]
    /\ todo = [p \in Procs |-> {}]
    /\ found = [p \in Procs |-> {}]
    /\ rest = [p \in Procs |-> {}]
    /\ due = [p \in Procs |-> {}]

-----------------------------------------------------------------------------
(* Request bookkeeping.  Begin starts an operation, Goto moves a request,  *)
(* Answer returns its result; the next request reuses the idle slot.       *)

Begin(p, o, u, s, label) ==
    /\ o \in Ops
    /\ pc[p] = "idle"
    /\ pc' = [pc EXCEPT ![p] = label]
    /\ op' = [op EXCEPT ![p] = o]
    /\ usr' = [usr EXCEPT ![p] = u]
    /\ cur' = [cur EXCEPT ![p] = s]

Goto(p, from, to) ==
    /\ pc[p] = from
    /\ pc' = [pc EXCEPT ![p] = to]

Answer(p) ==
    /\ pc[p] \in Ended
    /\ pc' = [pc EXCEPT ![p] = "idle"]
    /\ op' = [op EXCEPT ![p] = "none"]
    /\ usr' = [usr EXCEPT ![p] = Nobody]
    /\ cur' = [cur EXCEPT ![p] = Nobody]
    /\ todo' = [todo EXCEPT ![p] = {}]
    /\ found' = [found EXCEPT ![p] = {}]
    /\ rest' = [rest EXCEPT ![p] = {}]
    /\ due' = [due EXCEPT ![p] = {}]
    /\ UNCHANGED <<store, clock>>

\* A Redis call throws, or the server dies: the request goes no further.
Abort(p) ==
    /\ MayFail
    /\ pc[p] \notin Ended \cup {"idle"}
    /\ pc' = [pc EXCEPT ![p] = "failed"]
    /\ UNCHANGED <<store, clock, locals>>

-----------------------------------------------------------------------------
(* create: SETEX session, SETEX token, SADD index, EXPIRE index.           *)

CreateSession(p, u, s) ==
    /\ owner[s] = Nobody
    /\ Begin(p, "create", u, s, "create_tok")
    /\ owner' = [owner EXCEPT ![s] = u]
    /\ sess' = [sess EXCEPT ![s] = "live"]
    /\ UNCHANGED <<tok, idx, lease, clock, todo, found, rest, due>>

CreateToken(p) ==
    /\ Goto(p, "create_tok", "create_add")
    /\ tok' = [tok EXCEPT ![cur[p]] = TRUE]
    /\ UNCHANGED <<sess, idx, lease, owner, clock, locals>>

\* Slip: one index key for all users.
CreateIndex_SharedKey(p) ==
    /\ Goto(p, "create_add", "create_expire")
    /\ idx' = [u \in Users |-> idx[u] \cup {cur[p]}]
    /\ UNCHANGED <<sess, tok, lease, owner, clock, locals>>

CreateIndex(p) ==
    /\ Goto(p, "create_add", "create_expire")
    /\ idx' = [idx EXCEPT ![usr[p]] = @ \cup {cur[p]}]
    /\ UNCHANGED <<sess, tok, lease, owner, clock, locals>>

\* EXPIRE answers; the caller now issues tokens for the session.
CreateLease(p) ==
    /\ Goto(p, "create_expire", "ok")
    /\ lease' = [lease EXCEPT ![usr[p]] = idx[usr[p]]]
    /\ handed' = handed \cup {cur[p]}
    /\ UNCHANGED <<sess, tok, idx, owner, expired, locals>>

-----------------------------------------------------------------------------
(* Read-modify-write: GET the session, change the copy, then update():     *)
(* EXISTS and SETEX of the whole copy.  revoke and logout write revokedAt, *)
(* touch (activity, trust score) writes back the un-revoked copy it read.  *)

\* Slip: no check that the session belongs to the caller.
Revoke_AnyOwner(p, u, s) ==
    /\ sess[s] # "absent"
    /\ Begin(p, "revoke", u, s, "exists")
    /\ todo' = [todo EXCEPT ![p] = {s}]
    /\ UNCHANGED <<store, clock, found, rest, due>>

Revoke(p, u, s) ==
    /\ owner[s] = u
    /\ sess[s] # "absent"
    /\ Begin(p, "revoke", u, s, "exists")
    /\ todo' = [todo EXCEPT ![p] = {s}]
    /\ UNCHANGED <<store, clock, found, rest, due>>

Logout(p, s) ==
    /\ sess[s] # "absent"
    /\ Begin(p, "logout", Nobody, s, "exists")
    /\ todo' = [todo EXCEPT ![p] = {s}]
    /\ UNCHANGED <<store, clock, found, rest, due>>

\* Slip: findById in place of getSession, which refuses a revoked session.
Touch_AnyStatus(p, s) ==
    /\ sess[s] # "absent"
    /\ s \notin expired
    /\ Begin(p, "touch", Nobody, s, "exists")
    /\ todo' = [todo EXCEPT ![p] = {s}]
    /\ UNCHANGED <<store, clock, found, rest, due>>

Touch(p, s) ==
    /\ sess[s] = "live"
    /\ s \notin expired
    /\ Begin(p, "touch", Nobody, s, "exists")
    /\ todo' = [todo EXCEPT ![p] = {s}]
    /\ UNCHANGED <<store, clock, found, rest, due>>

\* EXISTS: update() throws NotFoundError for a missing key, which ends a
\* loop over several sessions as well.
UpdateExists(p, s) ==
    /\ pc[p] = "exists"
    /\ s \in todo[p]
    /\ pc' = [pc EXCEPT ![p] = IF sess[s] = "absent" THEN "failed" ELSE "set"]
    /\ cur' = [cur EXCEPT ![p] = s]
    /\ UNCHANGED <<store, clock, op, usr, todo, found, rest, due>>

\* Slips: revoke() forgotten before update(); the wrong field written.
Copy_Unrevoked(p) == "live"
Copy(p) == IF op[p] = "touch" THEN "live" ELSE "revoked"

\* Slip: return inside the loop.
UpdateSet_First(p) ==
    /\ Goto(p, "set", "ok")
    /\ sess' = [sess EXCEPT ![cur[p]] = Copy(p)]
    /\ todo' = [todo EXCEPT ![p] = @ \ {cur[p]}]
    /\ UNCHANGED <<tok, idx, lease, owner, clock, op, usr, cur, found, rest, due>>

UpdateSet(p) ==
    /\ Goto(p, "set", IF todo[p] = {cur[p]} THEN "ok" ELSE "exists")
    /\ sess' = [sess EXCEPT ![cur[p]] = Copy(p)]
    /\ todo' = [todo EXCEPT ![p] = @ \ {cur[p]}]
    /\ UNCHANGED <<tok, idx, lease, owner, clock, op, usr, cur, found, rest, due>>

-----------------------------------------------------------------------------
(* revokeAllSessionsExceptCurrent and removeDevice: findByUserId (SMEMBERS,*)
(* one GET per id, keeping the un-revoked), choose, update each.           *)

BulkMembers(p, u, o) ==
    /\ o \in {"others", "device"}
    /\ Begin(p, o, u, Nobody, "read")
    /\ todo' = [todo EXCEPT ![p] = idx[u]]
    /\ UNCHANGED <<store, clock, found, rest, due>>

BulkRead(p, s) ==
    /\ pc[p] = "read"
    /\ s \in todo[p]
    /\ todo' = [todo EXCEPT ![p] = @ \ {s}]
    /\ found' = [found EXCEPT ![p] = IF sess[s] = "live" THEN @ \cup {s} ELSE @]
    /\ UNCHANGED <<store, clock, pc, op, usr, cur, rest, due>>

\* others keeps the caller's session, device keeps those of other devices.
Chosen(p) == IF op[p] = "others"
             THEN {found[p] \ {s} : s \in Sessions} \cup {found[p]}
             ELSE SUBSET found[p]

BulkSelect(p) ==
    /\ todo[p] = {}
    /\ \E chosen \in Chosen(p) :
         /\ Goto(p, "read", IF chosen = {} THEN "ok" ELSE "exists")
         /\ todo' = [todo EXCEPT ![p] = chosen]
         /\ found' = [found EXCEPT ![p] = chosen]
    /\ UNCHANGED <<store, clock, op, usr, cur, rest, due>>

-----------------------------------------------------------------------------
(* deleteByUserId: SMEMBERS, delete() each member, DEL the index.          *)

Due(u) == {s \in handed \ expired : owner[s] = u /\ sess[s] = "live"}

PurgeMembers(p, u) ==
    /\ Begin(p, "purge", u, Nobody, IF idx[u] = {} THEN "purge_index" ELSE "del_get")
    /\ todo' = [todo EXCEPT ![p] = idx[u]]
    /\ found' = [found EXCEPT ![p] = idx[u]]
    /\ due' = [due EXCEPT ![p] = Due(u)]
    /\ UNCHANGED <<store, clock, rest>>

\* The loop of deleteByUserId moves on after session s.
Visited(p, s) ==
    /\ todo' = [todo EXCEPT ![p] = @ \ {s}]
    /\ pc' = [pc EXCEPT ![p] = IF todo[p] = {s} THEN "purge_index" ELSE "del_get"]

\* GET: delete() has nothing to do for a missing session.
DeleteGet(p, s) ==
    /\ pc[p] = "del_get"
    /\ s \in todo[p]
    /\ cur' = [cur EXCEPT ![p] = s]
    /\ IF sess[s] = "absent"
       THEN Visited(p, s)
       ELSE /\ pc' = [pc EXCEPT ![p] = "del_sess"]
            /\ UNCHANGED todo
    /\ UNCHANGED <<store, clock, op, usr, found, rest, due>>

DeleteSession(p) ==
    /\ Goto(p, "del_sess", "del_tok")
    /\ sess' = [sess EXCEPT ![cur[p]] = "absent"]
    /\ UNCHANGED <<tok, idx, lease, owner, clock, locals>>

DeleteToken(p) ==
    /\ Goto(p, "del_tok", "del_members")
    /\ tok' = [tok EXCEPT ![cur[p]] = FALSE]
    /\ UNCHANGED <<sess, idx, lease, owner, clock, locals>>

DeleteMembers(p) ==
    /\ Goto(p, "del_members", "del_index")
    /\ rest' = [rest EXCEPT ![p] = idx[owner[cur[p]]] \ {cur[p]}]
    /\ UNCHANGED <<store, clock, op, usr, cur, todo, found, due>>

DeleteIndex(p) ==
    /\ pc[p] = "del_index"
    /\ idx' = [idx EXCEPT ![owner[cur[p]]] = {}]
    /\ lease' = [lease EXCEPT ![owner[cur[p]]] = {}]
    /\ IF rest[p] = {}
       THEN Visited(p, cur[p])
       ELSE /\ pc' = [pc EXCEPT ![p] = "del_add"]
            /\ UNCHANGED todo
    /\ UNCHANGED <<sess, tok, owner, clock, op, usr, cur, found, rest, due>>

DeleteAdd(p) ==
    /\ Goto(p, "del_add", "del_expire")
    /\ idx' = [idx EXCEPT ![owner[cur[p]]] = @ \cup rest[p]]
    /\ UNCHANGED <<sess, tok, lease, owner, clock, locals>>

DeleteExpire(p) ==
    /\ pc[p] = "del_expire"
    /\ lease' = [lease EXCEPT ![owner[cur[p]]] = idx[owner[cur[p]]]]
    /\ Visited(p, cur[p])
    /\ UNCHANGED <<sess, tok, idx, owner, clock, op, usr, cur, found, rest, due>>

\* Slip: a pattern delete of every user's index.
PurgeIndex_Everyone(p) ==
    /\ Goto(p, "purge_index", "ok")
    /\ idx' = [u \in Users |-> {}]
    /\ lease' = [u \in Users |-> {}]
    /\ UNCHANGED <<sess, tok, owner, clock, locals>>

PurgeIndex(p) ==
    /\ Goto(p, "purge_index", "ok")
    /\ idx' = [idx EXCEPT ![usr[p]] = {}]
    /\ lease' = [lease EXCEPT ![usr[p]] = {}]
    /\ UNCHANGED <<sess, tok, owner, clock, locals>>

-----------------------------------------------------------------------------
(* refreshTokens: GET the session, refuse a missing or an expired one.     *)

Refresh(p, s) ==
    /\ sess[s] # "absent"
    /\ s \notin expired
    /\ Begin(p, "refresh", Nobody, s, "ok")
    /\ UNCHANGED <<store, clock, todo, found, rest, due>>

-----------------------------------------------------------------------------
(* Time.  expiresAt is 7 days after the id is issued and the keys are      *)
(* written (and rewritten) later with a TTL of 7 days, so a key can only   *)
(* drop out once its session has expired.  The index drops out 7 days      *)
(* after the last EXPIRE, when all its members of that moment have.        *)

Expire(s) ==
    /\ Aging
    /\ owner[s] # Nobody
    /\ expired' = expired \cup {s}
    /\ UNCHANGED <<store, handed, pc, locals>>

DropSession(s) ==
    /\ s \in expired
    /\ sess' = [sess EXCEPT ![s] = "absent"]
    /\ UNCHANGED <<tok, idx, lease, owner, clock, pc, locals>>

DropToken(s) ==
    /\ s \in expired
    /\ tok' = [tok EXCEPT ![s] = FALSE]
    /\ UNCHANGED <<sess, idx, lease, owner, clock, pc, locals>>

DropIndex(u) ==
    /\ lease[u] # {}
    /\ lease[u] \subseteq expired
    /\ idx' = [idx EXCEPT ![u] = {}]
    /\ lease' = [lease EXCEPT ![u] = {}]
    /\ UNCHANGED <<sess, tok, owner, clock, pc, locals>>

-----------------------------------------------------------------------------
\* A client's call: the first Redis command of an operation.
Call(p) ==
    \/ \E u \in Users :
         \/ \E s \in Sessions : CreateSession(p, u, s) \/ Revoke(p, u, s)
         \/ \E o \in {"others", "device"} : BulkMembers(p, u, o)
         \/ PurgeMembers(p, u)
    \/ \E s \in Sessions : Logout(p, s) \/ Touch(p, s) \/ Refresh(p, s)

\* The next Redis command of a request, or its answer.
Step(p) ==
    \/ CreateToken(p) \/ CreateIndex(p) \/ CreateLease(p)
    \/ \E s \in Sessions : UpdateExists(p, s) \/ BulkRead(p, s) \/ DeleteGet(p, s)
    \/ UpdateSet(p) \/ BulkSelect(p)
    \/ DeleteSession(p) \/ DeleteToken(p) \/ DeleteMembers(p) \/ DeleteIndex(p)
    \/ DeleteAdd(p) \/ DeleteExpire(p) \/ PurgeIndex(p)
    \/ Answer(p)

Passage ==
    \/ \E s \in Sessions : Expire(s) \/ DropSession(s) \/ DropToken(s)
    \/ \E u \in Users : DropIndex(u)

Next ==
    \/ \E p \in Procs : Call(p) \/ Step(p) \/ Abort(p)
    \/ Passage

Spec == Init /\ [][Next]_vars

-----------------------------------------------------------------------------
(* Properties                                                              *)

Owned(u) == {s \in Sessions : owner[s] = u}

\* A request that writes a live copy of s back: updateSessionActivity or
\* reduceTrustScoreForNewLocation between its GET and its SETEX.
Touching(p, s) == op[p] = "touch" /\ pc[p] \in Updating /\ s \in todo[p]

Bulk == {"others", "device"}

\* A stored session was issued, and every index holds only its user's ids.
IndexOwnership ==
    /\ \A s \in Sessions : sess[s] # "absent" => owner[s] # Nobody
    /\ \A u \in Users : idx[u] \cup lease[u] \subseteq Owned(u)

\* What a request knows at each point of its program is right: it works on
\* issued sessions only, those of its own user where it acts for one, and an
\* index it is about to write back holds that user's sessions.
RequestOwnership ==
    \A p \in Procs :
      /\ pc[p] = "idle" => op[p] = "none" /\ todo[p] = {} /\ found[p] = {}
      /\ pc[p] \in Loading => op[p] = "create" /\ usr[p] \in Users /\ cur[p] \in Owned(usr[p])
      /\ pc[p] = "read" => op[p] \in Bulk /\ cur[p] = Nobody
      /\ pc[p] \in Updating => op[p] \in {"revoke", "logout", "touch"} \cup Bulk
      /\ pc[p] \in Deleting => op[p] = "purge"
      /\ op[p] \in Bulk \cup {"revoke", "purge"} =>
            usr[p] \in Users /\ todo[p] \cup found[p] \subseteq Owned(usr[p])
      /\ \A s \in todo[p] \cup found[p] \cup {cur[p]} : s \in Sessions => owner[s] # Nobody
      /\ pc[p] \in {"set", "del_sess", "del_tok", "del_members", "del_index", "del_add",
                    "del_expire"} => cur[p] \in todo[p]
      /\ pc[p] \in {"del_index", "del_add"} => rest[p] \subseteq Owned(owner[cur[p]])

\* A live session ends early only through a request for its owner, or through
\* logout of that very session: no user's request ends another's session,
\* whatever index rewrites run concurrently.
NoForeignTermination ==
    [][\A s \in Sessions :
         sess[s] = "live" /\ sess'[s] # "live" /\ s \notin expired =>
            \E p \in Procs : /\ cur[p] = s
                             /\ pc[p] \in {"set", "del_sess"}
                             /\ op[p] = "logout" \/ usr[p] = owner[s]]_vars

\* s was opened, has ended, and nobody holds a live copy of it.
Settled(s) ==
    /\ owner[s] # Nobody
    /\ sess[s] # "live"
    /\ \A p \in Procs : ~ Touching(p, s)

\* Once a session has ended and the activity updates that had read it live
\* are over, no interleaving of requests, failures or key expiries makes it
\* live again.
SettledStaysSettled == [][\A s \in Sessions : Settled(s) => Settled(s)']_vars

Terminators == Bulk \cup {"revoke", "logout", "purge"}

\* A termination request that answered "ok" has ended every session it
\* committed to, and they are still ended (checked without activity updates).
AnsweredMeansEnded ==
    \A p \in Procs : pc[p] = "ok" /\ op[p] \in Terminators =>
        \A s \in found[p] \cup {cur[p]} : s \in Sessions => sess[s] # "live"

\* On the way there: what has left todo has ended.  (A strengthening of
\* AnsweredMeansEnded that every step preserves.)
DoneMeansEnded ==
    \A p \in Procs :
      /\ op[p] \in Bulk \cup {"purge"} /\ pc[p] \in Updating \cup Deleting \cup {"ok"} =>
            /\ todo[p] \subseteq found[p] /\ cur[p] \in found[p] \cup {Nobody}
            /\ \A s \in found[p] \ todo[p] : sess[s] # "live"
      /\ op[p] \in {"revoke", "logout"} => found[p] = {}
      /\ op[p] \in Terminators /\ pc[p] \in {"ok", "purge_index"} => todo[p] = {}
      /\ op[p] \in {"revoke", "logout"} /\ pc[p] = "ok" => sess[cur[p]] # "live"
      /\ pc[p] \in {"del_tok", "del_members", "del_index", "del_add", "del_expire"} =>
            sess[cur[p]] # "live"

Quiet == \A p \in Procs : pc[p] \in Ended \cup {"idle"}

\* The user's index may have timed out, between the SADD and the EXPIRE of a
\* login: an older session of the user has expired.
MayLapse(u) == \E s \in expired : owner[s] = u

\* The owner's index lists every session a client can still use, unless it
\* may have lapsed; a session missing from it survives a password reset and
\* removeDevice.
IndexComplete ==
    Quiet => \A s \in handed \ expired :
        sess[s] = "live" /\ ~ MayLapse(owner[s]) => s \in idx[owner[s]]

\* After a password reset (or an admin's revokeAllSessions) answered, none of
\* the user's sessions that were usable when it was requested is live, unless
\* the index may have lapsed.
ResetTerminatesAll ==
    \A p \in Procs : pc[p] = "ok" /\ op[p] = "purge" /\ ~ MayLapse(usr[p]) =>
        \A s \in due[p] : sess[s] # "live"

\* Between requests a session has its token key exactly while it has its
\* session key (before any of them times out).
TokenPaired == Quiet => \A s \in Sessions \ expired : tok[s] <=> sess[s] # "absent"

\* The client's view of the store, for the refinement of SessionLifecycle.
Life == [s \in Sessions |->
            IF owner[s] = Nobody THEN "unborn"
            ELSE IF sess[s] = "live" THEN "active" ELSE "terminated"]

Lifecycle == INSTANCE SessionLifecycle WITH life <- Life

\* The store implements the lifecycle: no terminated session comes back.
LifecycleSpec == Lifecycle!Spec

\* requirements.md:119 and design.md:701: revoking a session terminates it.
\* It must not come back (request by request: an overlapping write brings one back).
RevokedStaysRevoked == \A s \in Sessions : sess[s] = "revoked" => sess'[s] # "live"

\* The repository used by one request after the other: every stored session is
\* in the index of its user, a reset leaves nothing, session and token keys go
\* together, and a revoked session is never used again.
StoreInOrder ==
    [][IndexComplete' /\ ResetTerminatesAll' /\ TokenPaired' /\ RevokedStaysRevoked]_vars
=============================================================================
