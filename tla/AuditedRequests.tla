---------------------------- MODULE AuditedRequests ----------------------------
(***************************************************************************)
(* A request on its way through the audit hook, authenticationMiddleware,  *)
(* one of the authorization guards and its handler, while the rights of    *)
(* its user change; and the entries it leaves in the audit queue.  How a   *)
(* right is looked up, cache included, is in PermissionCache; the queue is *)
(* in JobQueue.                                                            *)
(*                                                                         *)
(* The audit hook and authenticationMiddleware are synchronous and take    *)
(* two parameters, for which Fastify waits; they are modelled as though    *)
(* they had ended by calling done.                                         *)
(***************************************************************************)
EXTENDS FiniteSets, Integers

CONSTANTS
    GuardRequests,      \* requests of one user
    Rights,             \* permissions, of which
    Admin,              \* one stands for the admin role
    MaxGrants           \* bound on how often the rights change

ASSUME GuardAssumption == Admin \in Rights /\ MaxGrants \in Nat

VARIABLES
    rights,         \* the user's rights now
    grants,         \* how often they have changed
    request,        \* each request
    queued          \* the entries added to the audit queue

guardVars == <<rights, grants, request, queued>>

\* The guards, with the rights each looks up.
Guards ==
    [kind : {"all", "any"}, needs : (SUBSET Rights) \ {{}}]
        \cup [kind : {"owner"}, needs : {{Admin}}]

Arrived == [at |-> "idle"]

GuardInit ==
    /\ rights \in SUBSET Rights
    /\ grants = 0
    /\ request = [r \in GuardRequests |-> Arrived]
    /\ queued = {}

Move(r, at) == request' = [request EXCEPT ![r].at = at]

\* The reply: its status is what the finish event will report.
Reply(r, status) == [request[r] EXCEPT !.at = "replied", !.status = status]

-----------------------------------------------------------------------------
(* Hooks                                                                   *)

\* auditLoggingMiddleware registers its listener on the routes that
\* isSecurityRelevantRoute names, and AdminController notes its own actions.
\* ever and always are history: the rights the user had at some time since the
\* guard began, and all the time.
Arrive(r, guard, relevant, admin) ==
    /\ request[r].at = "idle"
    /\ admin => relevant /\ guard = [kind |-> "all", needs |-> {Admin}]
    /\ request' = [request EXCEPT ![r] =
         [at |-> "authenticate", guard |-> guard, relevant |-> relevant, admin |-> admin,
          yes |-> {}, asked |-> {}, ever |-> {}, always |-> {}, effect |-> "none",
          status |-> "success", denied |-> FALSE, lost |-> FALSE]]
    /\ UNCHANGED <<rights, grants, queued>>

\* authenticationMiddleware; an owner passes the guard at once.
Authenticate(r, owns) ==
    /\ request[r].at = "authenticate"
    /\ owns => request[r].guard.kind = "owner"
    /\ request' = [request EXCEPT ![r].at = IF owns THEN "handle" ELSE "check",
                                  ![r].ever = rights, ![r].always = rights]
    /\ UNCHANGED <<rights, grants, queued>>

\* 401, or 500 when a lookup throws, or what the handler throws before it has
\* done anything; setErrorHandler answers.
Throws(r) ==
    /\ request[r].at \in {"authenticate", "check", "handle"}
    /\ request' = [request EXCEPT ![r] = Reply(r, "failure")]
    /\ UNCHANGED <<rights, grants, queued>>

-----------------------------------------------------------------------------
(* The guards                                                              *)

\* checkPermission and getUserRoles answer at different times (Promise.all).
CheckPermission(r, right) ==
    /\ request[r].at = "check" /\ right \in request[r].guard.needs \ request[r].asked
    /\ request' = [request EXCEPT ![r].asked = @ \cup {right},
                                  ![r].yes = IF right \in rights THEN @ \cup {right} ELSE @]
    /\ UNCHANGED <<rights, grants, queued>>

\* Slip: one of all the permissions is enough.
Allows_SomeOfAll(guard, yes) == yes # {}

\* requirePermission, requireAllPermissions and requireAdmin need all of what
\* they look up, requireAnyPermission one, requireOwnershipOrAdmin the role.
Allows(guard, yes) ==
    IF guard.kind = "any" THEN yes # {} ELSE guard.needs \subseteq yes

Decide(r) ==
    /\ request[r].at = "check" /\ request[r].asked = request[r].guard.needs
    /\ request' = [request EXCEPT
         ![r].at = IF Allows(request[r].guard, request[r].yes) THEN "handle" ELSE "deny"]
    /\ UNCHANGED <<rights, grants, queued>>

\* Adding to the queue may fail, which createAuditLog logs.
QueueEntry(r, kind, status, next) ==
    \/ /\ queued' = queued \cup {[request |-> r, kind |-> kind, status |-> status]}
       /\ request' = [request EXCEPT ![r] = next]
    \/ /\ queued' = queued
       /\ request' = [request EXCEPT ![r] = [next EXCEPT !.lost = TRUE]]

\* logAuthorizationFailure, and then 403.
LogAuthorizationFailure(r) ==
    /\ request[r].at = "deny"
    /\ QueueEntry(r, "denied", "failure", [Reply(r, "failure") EXCEPT !.denied = TRUE])
    /\ UNCHANGED <<rights, grants>>

-----------------------------------------------------------------------------
(* The handler and the reply                                               *)

\* The handler does its work; authorize of OAuthController redirects (302).
Handle(r, status) ==
    /\ request[r].at = "handle"
    /\ request[r].admin => status = "success"
    /\ request' = [request EXCEPT ![r] =
         IF request[r].admin THEN [request[r] EXCEPT !.at = "note", !.effect = "all"]
         ELSE [Reply(r, status) EXCEPT !.effect = "all"]]
    /\ UNCHANGED <<rights, grants, queued>>

\* It throws after some of its work.
HandleFails(r) ==
    /\ request[r].at = "handle"
    /\ request' = [request EXCEPT ![r] = [Reply(r, "failure") EXCEPT !.effect = "part"]]
    /\ UNCHANGED <<rights, grants, queued>>

\* AdminController awaits its own entry before it answers.
NoteAdminAction(r) ==
    /\ request[r].at = "note"
    /\ QueueEntry(r, "admin", "success", Reply(r, "success"))
    /\ UNCHANGED <<rights, grants>>

\* The reply has been handed over: finish is emitted.
Finish(r) ==
    /\ request[r].at = "replied"
    /\ Move(r, IF request[r].relevant THEN "log" ELSE "done")
    /\ UNCHANGED <<rights, grants, queued>>

\* The client has gone: close is emitted and finish is not.
ClientGone(r) ==
    /\ request[r].at = "replied"
    /\ request' = [request EXCEPT ![r].at = "done", ![r].lost = TRUE]
    /\ UNCHANGED <<rights, grants, queued>>

\* Slip: the status is taken when the listener is registered.
CreateAuditLogEntry_Early(r) ==
    /\ request[r].at = "log"
    /\ QueueEntry(r, "finish", "success", [request[r] EXCEPT !.at = "done"])
    /\ UNCHANGED <<rights, grants>>

\* The listener's createAuditLogEntry, which nothing awaits: 2xx is a success.
CreateAuditLogEntry(r) ==
    /\ request[r].at = "log"
    /\ QueueEntry(r, "finish", IF request[r].status = "success" THEN "success" ELSE "failure",
                  [request[r] EXCEPT !.at = "done"])
    /\ UNCHANGED <<rights, grants>>

\* Another request grants or withdraws a right.
ChangeRights(now) ==
    /\ grants < MaxGrants /\ now # rights
    /\ rights' = now
    /\ grants' = grants + 1
    /\ request' = [r \in GuardRequests |->
         IF request[r].at # "check" THEN request[r]
         ELSE [request[r] EXCEPT !.ever = @ \cup now, !.always = @ \cap now]]
    /\ UNCHANGED queued

GuardNext ==
    \/ \E r \in GuardRequests :
         \/ \E guard \in Guards, relevant, admin \in BOOLEAN : Arrive(r, guard, relevant, admin)
         \/ \E owns \in BOOLEAN : Authenticate(r, owns)
         \/ Throws(r)
         \/ \E right \in Rights : CheckPermission(r, right)
         \/ Decide(r) \/ LogAuthorizationFailure(r)
         \/ Handle(r, "success") \/ Handle(r, "redirect") \/ HandleFails(r) \/ NoteAdminAction(r)
         \/ Finish(r) \/ ClientGone(r) \/ CreateAuditLogEntry(r)
    \/ \E now \in SUBSET Rights : ChangeRights(now)

GuardSpec == GuardInit /\ [][GuardNext]_guardVars

-----------------------------------------------------------------------------
(* Properties                                                              *)

\* A request that reaches its handler past the guard of another's resource had
\* each right that requireAllPermissions asks for, or one that
\* requireAnyPermission does, at some time while the guard looked.  It need not
\* have had them all at one time.
PassedWasHeld ==
    \A r \in GuardRequests : request[r].at = "handle" /\ request[r].guard.kind # "owner" =>
        IF request[r].guard.kind = "any" THEN request[r].guard.needs \cap request[r].ever # {}
        ELSE request[r].guard.needs \subseteq request[r].ever

\* A request is refused only if what it needs was missing at some time.
DeniedWasMissing ==
    \A r \in GuardRequests : request[r].at = "deny" =>
        IF request[r].guard.kind = "any" THEN request[r].guard.needs \cap request[r].always = {}
        ELSE ~ (request[r].guard.needs \subseteq request[r].always)

EntriesOf(r, kinds) == {e \in queued : e.request = r /\ e.kind \in kinds}

\* Every refusal is in the audit log by the time it is answered, unless adding
\* it to the queue failed (logAuthorizationFailure).
DenialsAreTraced ==
    \A r \in GuardRequests : request[r].at \in {"replied", "done"} /\ request[r].denied =>
        EntriesOf(r, {"denied"}) # {} \/ request[r].lost

\* Whatever a security-relevant request has done is in the audit log once it is
\* over, unless an entry was lost: the queue failed or the client had gone.
EffectsAreTraced ==
    \A r \in GuardRequests :
        request[r].at = "done" /\ request[r].effect # "none" /\ request[r].relevant =>
            EntriesOf(r, {"finish"}) # {} \/ request[r].lost

\* An entry says that a request succeeded just if all its work was done; only a
\* redirect is entered as a failure (the listener reads the status at finish).
EntriesAreTrue ==
    \A e \in queued :
        IF e.status = "success" THEN request[e.request].effect = "all"
        ELSE request[e.request].effect = "all" => request[e.request].status = "redirect"

\* A guard decides on rights the user had, or lacked, while it looked.
RightsJustified == PassedWasHeld /\ DeniedWasMissing

\* The audit log tells of every refusal and every effect, and tells the truth.
EverythingTraced == DenialsAreTraced /\ EffectsAreTraced /\ EntriesAreTrue
===============================================================================
