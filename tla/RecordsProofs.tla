--------------------------- MODULE RecordsProofs ----------------------------
(***************************************************************************)
(* Proofs about the records a user or an administrator sees: the audit     *)
(* log, webhooks, profiles, trust scores and devices, for any number of    *)
(* requests that overlap.                                                  *)
(***************************************************************************)
EXTENDS AuditedRequests, Webhooks, ProfileCache, SessionTrust, AuditPages, Devices,
        FiniteSetTheorems, TLAPS

-----------------------------------------------------------------------------
(***************************************************************************)
(* The guards and the audit log.  Requests meet only in the rights they    *)
(* read and in the queue, where each adds entries of its own, so the       *)
(* invariant is one statement about a request and its entries.             *)
(***************************************************************************)

Before == {"authenticate", "check", "deny", "handle"}
After == {"replied", "log", "done"}

Underway ==
    [at : Before \cup {"note"} \cup After, guard : Guards, relevant : BOOLEAN, admin : BOOLEAN,
     yes : SUBSET Rights, asked : SUBSET Rights, ever : SUBSET Rights, always : SUBSET Rights,
     effect : {"none", "part", "all"}, status : {"success", "failure", "redirect"},
     denied : BOOLEAN, lost : BOOLEAN]

Entry ==
    [request : GuardRequests, kind : {"denied", "admin", "finish"}, status : {"success", "failure"}]

GuardTypeOK ==
    /\ rights \in SUBSET Rights
    /\ request \in [GuardRequests -> Underway \cup {Arrived}]
    /\ queued \in SUBSET Entry

\* What the guard has learned is true of some time since it began, and says all
\* of what it has asked.
Learned(q, now) ==
    /\ q.at = "authenticate" => q.asked = {} /\ q.yes = {}
    /\ q.at = "check" =>
         /\ q.asked \subseteq q.guard.needs
         /\ q.yes \subseteq q.asked /\ q.yes \subseteq q.ever
         /\ (q.asked \ q.yes) \cap q.always = {}
         /\ now \subseteq q.ever /\ q.always \subseteq now

Decided(q) ==
    /\ q.at = "handle" /\ q.guard.kind # "owner" =>
         IF q.guard.kind = "any" THEN q.guard.needs \cap q.ever # {}
         ELSE q.guard.needs \subseteq q.ever
    /\ q.at = "deny" =>
         IF q.guard.kind = "any" THEN q.guard.needs \cap q.always = {}
         ELSE ~ (q.guard.needs \subseteq q.always)

\* Work and status agree once there is a reply, and nothing is done before.
Honest(q) ==
    /\ q.at \in Before => q.effect = "none" /\ ~ q.denied /\ q.status = "success"
    /\ q.at = "note" => q.effect = "all" /\ ~ q.denied /\ q.status = "success"
    /\ q.at \in After => (q.effect = "all" <=> q.status \in {"success", "redirect"})

\* The entries of a request, found in log.
Traced(q, r, log) ==
    /\ \A e \in log : e.request = r =>
         /\ q.at \in After
         /\ IF e.status = "success" THEN q.effect = "all"
            ELSE q.effect = "all" => q.status = "redirect"
    /\ q.denied => q.lost \/ \E e \in log : e.request = r /\ e.kind = "denied"
    /\ q.at = "done" /\ q.relevant => q.lost \/ \E e \in log : e.request = r /\ e.kind = "finish"

GuardInv ==
    /\ GuardTypeOK
    /\ \A r \in GuardRequests :
         IF request[r].at = "idle" THEN \A e \in queued : e.request # r
         ELSE /\ request[r] \in Underway
              /\ Learned(request[r], rights) /\ Decided(request[r]) /\ Honest(request[r])
              /\ Traced(request[r], r, queued)

LEMMA GuardInitInv == GuardInit => GuardInv
BY DEF GuardInit, GuardInv, GuardTypeOK, Arrived

\* A step of one request, which adds only entries of its own.
LEMMA MoveStep ==
  ASSUME GuardInv, NEW r \in GuardRequests, NEW new,
         request' = [request EXCEPT ![r] = new], rights' = rights,
         queued \subseteq queued', queued' \subseteq Entry,
         \A e \in queued' \ queued : e.request = r,
         new \in Underway, new.at # "idle", Learned(new, rights), Decided(new), Honest(new),
         Traced(new, r, queued')
  PROVE  GuardInv'
<1>1. request'[r] = new /\ \A d \in GuardRequests : d # r => request'[d] = request[d]
  BY DEF GuardInv, GuardTypeOK
<1>2. GuardTypeOK'
  BY DEF GuardInv, GuardTypeOK
<1>3. ASSUME NEW d \in GuardRequests, d # r, request[d].at # "idle"
      PROVE  Traced(request[d], d, queued')
  BY <1>3 DEF GuardInv, Traced
<1> QED BY <1>1, <1>2, <1>3 DEF GuardInv

LEMMA IdleOrUnderway ==
  ASSUME GuardInv, NEW r \in GuardRequests, request[r].at # "idle"
  PROVE  /\ request[r] \in Underway /\ Learned(request[r], rights)
         /\ Decided(request[r]) /\ Honest(request[r]) /\ Traced(request[r], r, queued)
         /\ queued \subseteq Entry /\ rights \subseteq Rights
BY DEF GuardInv, GuardTypeOK

-----------------------------------------------------------------------------
(* Hooks and guards                                                        *)

LEMMA ArriveStep ==
  ASSUME GuardInv, NEW r \in GuardRequests, NEW guard \in Guards, NEW relevant \in BOOLEAN,
         NEW admin \in BOOLEAN, Arrive(r, guard, relevant, admin)
  PROVE  GuardInv'
<1> DEFINE new ==
      [at |-> "authenticate", guard |-> guard, relevant |-> relevant, admin |-> admin,
       yes |-> {}, asked |-> {}, ever |-> {}, always |-> {}, effect |-> "none",
       status |-> "success", denied |-> FALSE, lost |-> FALSE]
<1>1. /\ request[r].at = "idle" /\ request' = [request EXCEPT ![r] = new]
      /\ UNCHANGED <<rights, queued>>
  BY DEF Arrive
<1>2. new \in Underway /\ Learned(new, rights) /\ Decided(new) /\ Honest(new)
  BY DEF Underway, Before, After, Learned, Decided, Honest
<1>3. new.at # "idle" /\ Traced(new, r, queued)
  BY <1>1 DEF Traced, GuardInv
<1>4. queued \subseteq Entry
  BY DEF GuardInv, GuardTypeOK
<1> HIDE DEF new
<1> QED BY <1>1, <1>2, <1>3, <1>4, MoveStep

LEMMA AuthenticateStep ==
  ASSUME GuardInv, NEW r \in GuardRequests, NEW owns \in BOOLEAN, Authenticate(r, owns)
  PROVE  GuardInv'
<1> DEFINE q == request[r]
           new == [q EXCEPT !.at = IF owns THEN "handle" ELSE "check",
                            !.ever = rights, !.always = rights]
<1>1. /\ q.at = "authenticate" /\ (owns => q.guard.kind = "owner")
      /\ UNCHANGED <<rights, queued>>
  BY DEF Authenticate
<1>2. /\ q \in Underway /\ Honest(q) /\ Traced(q, r, queued)
      /\ queued \subseteq Entry /\ rights \subseteq Rights
  BY <1>1, IdleOrUnderway
<1>3. request' = [request EXCEPT ![r] = new]
  BY <1>2 DEF Authenticate, Underway, GuardInv, GuardTypeOK
<1>4. /\ new \in Underway /\ new.at = (IF owns THEN "handle" ELSE "check")
      /\ new.ever = rights /\ new.always = rights /\ new.guard = q.guard
      /\ new.yes = q.yes /\ new.asked = q.asked
      /\ new.effect = q.effect /\ new.denied = q.denied /\ new.status = q.status
  BY <1>1, <1>2 DEF Underway, Before
<1>5. q.asked = {} /\ q.yes = {}
  BY <1>1, IdleOrUnderway DEF Learned
<1> HIDE DEF new, q
<1>6. Learned(new, rights) /\ Decided(new) /\ Honest(new) /\ Traced(new, r, queued)
  BY <1>1, <1>2, <1>4, <1>5 DEF Learned, Decided, Honest, Traced, Before, After
<1> QED BY <1>1, <1>2, <1>3, <1>4, <1>6, MoveStep

LEMMA ThrowsStep ==
  ASSUME GuardInv, NEW r \in GuardRequests, Throws(r)
  PROVE  GuardInv'
<1> DEFINE q == request[r]
           new == [q EXCEPT !.at = "replied", !.status = "failure"]
<1>1. q.at \in {"authenticate", "check", "handle"} /\ UNCHANGED <<rights, queued>>
  BY DEF Throws
<1>2. /\ q \in Underway /\ Learned(q, rights) /\ Decided(q) /\ Honest(q) /\ Traced(q, r, queued)
      /\ queued \subseteq Entry /\ rights \subseteq Rights
  BY <1>1, IdleOrUnderway
<1>3. request' = [request EXCEPT ![r] = new]
  BY <1>1, <1>2 DEF Throws, Move, Reply, Underway, GuardInv, GuardTypeOK
<1>4. /\ new \in Underway /\ new.at = "replied" /\ new.status = "failure"
      /\ new.effect = q.effect /\ new.denied = q.denied
  BY <1>1, <1>2 DEF Underway, Before, After
<1> HIDE DEF new, q
<1>5. Learned(new, rights) /\ Decided(new) /\ Honest(new) /\ Traced(new, r, queued)
  BY <1>1, <1>2, <1>4 DEF Learned, Decided, Honest, Traced, Before, After
<1> QED BY <1>1, <1>2, <1>3, <1>4, <1>5, MoveStep

LEMMA CheckPermissionStep ==
  ASSUME GuardInv, NEW r \in GuardRequests, NEW right \in Rights, CheckPermission(r, right)
  PROVE  GuardInv'
<1> DEFINE q == request[r]
           new == [q EXCEPT !.asked = @ \cup {right}, !.yes = IF right \in rights THEN @ \cup {right} ELSE @]
<1>1. q.at = "check" /\ right \in q.guard.needs /\ UNCHANGED <<rights, queued>>
  BY DEF CheckPermission
<1>2. /\ q \in Underway /\ Learned(q, rights) /\ Decided(q) /\ Honest(q) /\ Traced(q, r, queued)
      /\ queued \subseteq Entry /\ rights \subseteq Rights
  BY <1>1, IdleOrUnderway
<1>3. request' = [request EXCEPT ![r] = new]
  BY <1>1, <1>2 DEF CheckPermission, Move, Reply, Underway, GuardInv, GuardTypeOK
<1>4. /\ new \in Underway /\ new.at = "check" /\ new.asked = q.asked \cup {right}
      /\ new.yes = (IF right \in rights THEN q.yes \cup {right} ELSE q.yes)
      /\ new.ever = q.ever /\ new.always = q.always /\ new.guard = q.guard /\ new.effect = q.effect
      /\ new.denied = q.denied /\ new.status = q.status
  BY <1>1, <1>2 DEF Underway, Before, After
<1> HIDE DEF new, q
<1>5. Learned(new, rights) /\ Decided(new) /\ Honest(new) /\ Traced(new, r, queued)
  BY <1>1, <1>2, <1>4 DEF Learned, Decided, Honest, Traced, Before, After
<1> QED BY <1>1, <1>2, <1>3, <1>4, <1>5, MoveStep

LEMMA DecideStep ==
  ASSUME GuardInv, NEW r \in GuardRequests, Decide(r)
  PROVE  GuardInv'
<1> DEFINE q == request[r]
           new == [q EXCEPT !.at = IF Allows(q.guard, q.yes) THEN "handle" ELSE "deny"]
<1>1. q.at = "check" /\ q.asked = q.guard.needs /\ UNCHANGED <<rights, queued>>
  BY DEF Decide
<1>2. /\ q \in Underway /\ Learned(q, rights) /\ Decided(q) /\ Honest(q) /\ Traced(q, r, queued)
      /\ queued \subseteq Entry /\ rights \subseteq Rights
  BY <1>1, IdleOrUnderway
<1>3. request' = [request EXCEPT ![r] = new]
  BY <1>1, <1>2 DEF Decide, Move, Reply, Underway, GuardInv, GuardTypeOK
<1>4. /\ new \in Underway /\ new.at = (IF Allows(q.guard, q.yes) THEN "handle" ELSE "deny")
      /\ new.yes = q.yes /\ new.asked = q.asked /\ new.ever = q.ever /\ new.always = q.always /\ new.guard = q.guard
      /\ new.effect = q.effect /\ new.denied = q.denied /\ new.status = q.status
  BY <1>1, <1>2 DEF Underway, Before, After
<1> HIDE DEF new, q
<1>5. Learned(new, rights) /\ Decided(new) /\ Honest(new) /\ Traced(new, r, queued)
  \* What was answered yes was held at some time, what was answered no was missing at some.
  BY <1>1, <1>2, <1>4 DEF Allows, Learned, Decided, Honest, Traced, Before, After
<1> QED BY <1>1, <1>2, <1>3, <1>4, <1>5, MoveStep

-----------------------------------------------------------------------------
(* The handler and the reply                                               *)

LEMMA HandleStep ==
  ASSUME GuardInv, NEW r \in GuardRequests, NEW status \in {"success", "redirect"}, Handle(r, status)
  PROVE  GuardInv'
<1> DEFINE q == request[r]
           new == IF q.admin THEN [q EXCEPT !.at = "note", !.effect = "all"]
                  ELSE [q EXCEPT !.at = "replied", !.status = status, !.effect = "all"]
<1>1. q.at = "handle" /\ (q.admin => status = "success") /\ UNCHANGED <<rights, queued>>
  BY DEF Handle
<1>2. /\ q \in Underway /\ Learned(q, rights) /\ Decided(q) /\ Honest(q) /\ Traced(q, r, queued)
      /\ queued \subseteq Entry /\ rights \subseteq Rights
  BY <1>1, IdleOrUnderway
<1>3. request' = [request EXCEPT ![r] = new]
  BY <1>1, <1>2 DEF Handle, Move, Reply, Underway, GuardInv, GuardTypeOK
<1>4. /\ new \in Underway /\ new.at = (IF q.admin THEN "note" ELSE "replied") /\ new.effect = "all"
      /\ new.status = (IF q.admin THEN q.status ELSE status) /\ new.denied = q.denied
  BY <1>1, <1>2 DEF Underway, Before, After
<1> HIDE DEF new, q
<1>5. Learned(new, rights) /\ Decided(new) /\ Honest(new) /\ Traced(new, r, queued)
  BY <1>1, <1>2, <1>4 DEF Learned, Decided, Honest, Traced, Before, After
<1> QED BY <1>1, <1>2, <1>3, <1>4, <1>5, MoveStep

LEMMA HandleFailsStep ==
  ASSUME GuardInv, NEW r \in GuardRequests, HandleFails(r)
  PROVE  GuardInv'
<1> DEFINE q == request[r]
           new == [q EXCEPT !.at = "replied", !.status = "failure", !.effect = "part"]
<1>1. q.at = "handle" /\ UNCHANGED <<rights, queued>>
  BY DEF HandleFails
<1>2. /\ q \in Underway /\ Learned(q, rights) /\ Decided(q) /\ Honest(q) /\ Traced(q, r, queued)
      /\ queued \subseteq Entry /\ rights \subseteq Rights
  BY <1>1, IdleOrUnderway
<1>3. request' = [request EXCEPT ![r] = new]
  BY <1>1, <1>2 DEF HandleFails, Move, Reply, Underway, GuardInv, GuardTypeOK
<1>4. /\ new \in Underway /\ new.at = "replied" /\ new.status = "failure"
      /\ new.effect = "part" /\ new.denied = q.denied
  BY <1>1, <1>2 DEF Underway, Before, After
<1> HIDE DEF new, q
<1>5. Learned(new, rights) /\ Decided(new) /\ Honest(new) /\ Traced(new, r, queued)
  BY <1>1, <1>2, <1>4 DEF Learned, Decided, Honest, Traced, Before, After
<1> QED BY <1>1, <1>2, <1>3, <1>4, <1>5, MoveStep

LEMMA FinishStep ==
  ASSUME GuardInv, NEW r \in GuardRequests, Finish(r)
  PROVE  GuardInv'
<1> DEFINE q == request[r]
           new == [q EXCEPT !.at = IF q.relevant THEN "log" ELSE "done"]
<1>1. q.at = "replied" /\ UNCHANGED <<rights, queued>>
  BY DEF Finish
<1>2. /\ q \in Underway /\ Learned(q, rights) /\ Decided(q) /\ Honest(q) /\ Traced(q, r, queued)
      /\ queued \subseteq Entry /\ rights \subseteq Rights
  BY <1>1, IdleOrUnderway
<1>3. request' = [request EXCEPT ![r] = new]
  BY <1>1, <1>2 DEF Finish, Move, Reply, Underway, GuardInv, GuardTypeOK
<1>4. /\ new \in Underway /\ new.at = (IF q.relevant THEN "log" ELSE "done")
      /\ new.relevant = q.relevant /\ new.effect = q.effect /\ new.denied = q.denied /\ new.status = q.status /\ new.lost = q.lost
  BY <1>1, <1>2 DEF Underway, Before, After
<1> HIDE DEF new, q
<1>5. Learned(new, rights) /\ Decided(new) /\ Honest(new) /\ Traced(new, r, queued)
  BY <1>1, <1>2, <1>4 DEF Learned, Decided, Honest, Traced, Before, After
<1> QED BY <1>1, <1>2, <1>3, <1>4, <1>5, MoveStep

LEMMA ClientGoneStep ==
  ASSUME GuardInv, NEW r \in GuardRequests, ClientGone(r)
  PROVE  GuardInv'
<1> DEFINE q == request[r]
           new == [q EXCEPT !.at = "done", !.lost = TRUE]
<1>1. q.at = "replied" /\ UNCHANGED <<rights, queued>>
  BY DEF ClientGone
<1>2. /\ q \in Underway /\ Learned(q, rights) /\ Decided(q) /\ Honest(q) /\ Traced(q, r, queued)
      /\ queued \subseteq Entry /\ rights \subseteq Rights
  BY <1>1, IdleOrUnderway
<1>3. request' = [request EXCEPT ![r] = new]
  BY <1>1, <1>2 DEF ClientGone, Move, Reply, Underway, GuardInv, GuardTypeOK
<1>4. /\ new \in Underway /\ new.at = "done" /\ new.lost
      /\ new.effect = q.effect /\ new.denied = q.denied /\ new.status = q.status
  BY <1>1, <1>2 DEF Underway, Before, After
<1> HIDE DEF new, q
<1>5. Learned(new, rights) /\ Decided(new) /\ Honest(new) /\ Traced(new, r, queued)
  BY <1>1, <1>2, <1>4 DEF Learned, Decided, Honest, Traced, Before, After
<1> QED BY <1>1, <1>2, <1>3, <1>4, <1>5, MoveStep

LEMMA LogFailureStep ==
  ASSUME GuardInv, NEW r \in GuardRequests, LogAuthorizationFailure(r)
  PROVE  GuardInv'
<1> DEFINE q == request[r]
           next == [q EXCEPT !.at = "replied", !.status = "failure", !.denied = TRUE]
           lost == [next EXCEPT !.lost = TRUE]
           status == "failure"
           entry == [request |-> r, kind |-> "denied", status |-> status]
<1>1. q.at = "deny" /\ UNCHANGED rights
  BY DEF LogAuthorizationFailure
<1>2. /\ q \in Underway /\ Decided(q) /\ Honest(q) /\ Traced(q, r, queued)
      /\ queued \subseteq Entry
  BY <1>1, IdleOrUnderway
<1>3. \/ queued' = queued \cup {entry} /\ request' = [request EXCEPT ![r] = next]
      \/ queued' = queued /\ request' = [request EXCEPT ![r] = lost]
  BY <1>1, <1>2 DEF LogAuthorizationFailure, QueueEntry, Reply, Underway, GuardInv, GuardTypeOK
<1>4. /\ next \in Underway /\ next.at = "replied" /\ next.status = "failure"
      /\ next.denied /\ next.effect = q.effect
  BY <1>1, <1>2 DEF Underway, Before, After
<1>5. /\ lost \in Underway /\ lost.at = next.at /\ lost.status = next.status
      /\ lost.denied = next.denied /\ lost.effect = next.effect /\ lost.lost
  BY <1>4 DEF Underway
<1>6. entry \in Entry /\ entry.request = r /\ entry.kind = "denied" /\ entry.status = status
  BY DEF Entry
<1> HIDE DEF next, lost, entry, q
<1>7. CASE queued' = queued \cup {entry} /\ request' = [request EXCEPT ![r] = next]
  <2>1. Learned(next, rights) /\ Decided(next) /\ Honest(next) /\ Traced(next, r, queued')
    BY <1>1, <1>2, <1>4, <1>6, <1>7 DEF Learned, Decided, Honest, Traced, Before, After
  <2> QED BY <1>1, <1>2, <1>4, <1>6, <1>7, <2>1, MoveStep DEF After
<1>8. CASE queued' = queued /\ request' = [request EXCEPT ![r] = lost]
  <2>1. Learned(lost, rights) /\ Decided(lost) /\ Honest(lost) /\ Traced(lost, r, queued)
    BY <1>1, <1>2, <1>4, <1>5, <1>8 DEF Learned, Decided, Honest, Traced, Before, After
  <2> QED BY <1>1, <1>2, <1>4, <1>5, <1>8, <2>1, MoveStep DEF After
<1> QED BY <1>3, <1>7, <1>8

LEMMA NoteActionStep ==
  ASSUME GuardInv, NEW r \in GuardRequests, NoteAdminAction(r)
  PROVE  GuardInv'
<1> DEFINE q == request[r]
           next == [q EXCEPT !.at = "replied", !.status = "success"]
           lost == [next EXCEPT !.lost = TRUE]
           status == "success"
           entry == [request |-> r, kind |-> "admin", status |-> status]
<1>1. q.at = "note" /\ UNCHANGED rights
  BY DEF NoteAdminAction
<1>2. /\ q \in Underway /\ Decided(q) /\ Honest(q) /\ Traced(q, r, queued)
      /\ queued \subseteq Entry
  BY <1>1, IdleOrUnderway
<1>3. \/ queued' = queued \cup {entry} /\ request' = [request EXCEPT ![r] = next]
      \/ queued' = queued /\ request' = [request EXCEPT ![r] = lost]
  BY <1>1, <1>2 DEF NoteAdminAction, QueueEntry, Reply, Underway, GuardInv, GuardTypeOK
<1>4. /\ next \in Underway /\ next.at = "replied" /\ next.status = "success"
      /\ next.denied = q.denied /\ next.effect = q.effect
  BY <1>1, <1>2 DEF Underway, Before, After
<1>5. /\ lost \in Underway /\ lost.at = next.at /\ lost.status = next.status
      /\ lost.denied = next.denied /\ lost.effect = next.effect /\ lost.lost
  BY <1>4 DEF Underway
<1>6. entry \in Entry /\ entry.request = r /\ entry.kind = "admin" /\ entry.status = status
  BY DEF Entry
<1> HIDE DEF next, lost, entry, q
<1>7. CASE queued' = queued \cup {entry} /\ request' = [request EXCEPT ![r] = next]
  <2>1. Learned(next, rights) /\ Decided(next) /\ Honest(next) /\ Traced(next, r, queued')
    BY <1>1, <1>2, <1>4, <1>6, <1>7 DEF Learned, Decided, Honest, Traced, Before, After
  <2> QED BY <1>1, <1>2, <1>4, <1>6, <1>7, <2>1, MoveStep DEF After
<1>8. CASE queued' = queued /\ request' = [request EXCEPT ![r] = lost]
  <2>1. Learned(lost, rights) /\ Decided(lost) /\ Honest(lost) /\ Traced(lost, r, queued)
    BY <1>1, <1>2, <1>4, <1>5, <1>8 DEF Learned, Decided, Honest, Traced, Before, After
  <2> QED BY <1>1, <1>2, <1>4, <1>5, <1>8, <2>1, MoveStep DEF After
<1> QED BY <1>3, <1>7, <1>8

LEMMA LogEntryStep ==
  ASSUME GuardInv, NEW r \in GuardRequests, CreateAuditLogEntry(r)
  PROVE  GuardInv'
<1> DEFINE q == request[r]
           next == [q EXCEPT !.at = "done"]
           lost == [next EXCEPT !.lost = TRUE]
           status == IF q.status = "success" THEN "success" ELSE "failure"
           entry == [request |-> r, kind |-> "finish", status |-> status]
<1>1. q.at = "log" /\ UNCHANGED rights
  BY DEF CreateAuditLogEntry
<1>2. /\ q \in Underway /\ Decided(q) /\ Honest(q) /\ Traced(q, r, queued)
      /\ queued \subseteq Entry
  BY <1>1, IdleOrUnderway
<1>3. \/ queued' = queued \cup {entry} /\ request' = [request EXCEPT ![r] = next]
      \/ queued' = queued /\ request' = [request EXCEPT ![r] = lost]
  BY <1>1, <1>2 DEF CreateAuditLogEntry, QueueEntry, Reply, Underway, GuardInv, GuardTypeOK
<1>4. /\ next \in Underway /\ next.at = "done" /\ next.status = q.status /\ next.lost = q.lost
      /\ next.denied = q.denied /\ next.effect = q.effect
  BY <1>1, <1>2 DEF Underway, Before, After
<1>5. /\ lost \in Underway /\ lost.at = next.at /\ lost.status = next.status
      /\ lost.denied = next.denied /\ lost.effect = next.effect /\ lost.lost
  BY <1>4 DEF Underway
<1>6. entry \in Entry /\ entry.request = r /\ entry.kind = "finish" /\ entry.status = status
  BY DEF Entry
<1> HIDE DEF next, lost, entry, q
<1>7. CASE queued' = queued \cup {entry} /\ request' = [request EXCEPT ![r] = next]
  <2>1. Learned(next, rights) /\ Decided(next) /\ Honest(next) /\ Traced(next, r, queued')
    BY <1>1, <1>2, <1>4, <1>6, <1>7 DEF Learned, Decided, Honest, Traced, Before, After
  <2> QED BY <1>1, <1>2, <1>4, <1>6, <1>7, <2>1, MoveStep DEF After
<1>8. CASE queued' = queued /\ request' = [request EXCEPT ![r] = lost]
  <2>1. Learned(lost, rights) /\ Decided(lost) /\ Honest(lost) /\ Traced(lost, r, queued)
    BY <1>1, <1>2, <1>4, <1>5, <1>8 DEF Learned, Decided, Honest, Traced, Before, After
  <2> QED BY <1>1, <1>2, <1>4, <1>5, <1>8, <2>1, MoveStep DEF After
<1> QED BY <1>3, <1>7, <1>8

-----------------------------------------------------------------------------
(* The specification                                                       *)

\* Guards that are looking add to what was ever held and drop from what was
\* always held.
LEMMA ChangeStep ==
  ASSUME GuardInv, NEW now \in SUBSET Rights, ChangeRights(now)
  PROVE  GuardInv'
<1> DEFINE Seen(q) == [q EXCEPT !.ever = @ \cup now, !.always = @ \cap now]
<1>1. rights' = now /\ queued' = queued
  BY DEF ChangeRights
<1>2. ASSUME NEW r \in GuardRequests, request[r].at = "check"
      PROVE  /\ request'[r] \in Underway /\ request'[r].at = "check"
             /\ Learned(request'[r], now) /\ Decided(request'[r]) /\ Honest(request'[r])
             /\ Traced(request'[r], r, queued)
  <2> DEFINE q == request[r]
             new == Seen(q)
  <2>1. /\ q \in Underway /\ Learned(q, rights) /\ Decided(q) /\ Honest(q)
        /\ Traced(q, r, queued)
    BY <1>2, IdleOrUnderway
  <2>2. request'[r] = new
    BY <1>2, <2>1 DEF ChangeRights, Underway
  <2>3. /\ new \in Underway /\ new.at = "check" /\ new.ever = q.ever \cup now
        /\ new.always = q.always \cap now /\ new.yes = q.yes /\ new.asked = q.asked
        /\ new.guard = q.guard /\ new.effect = q.effect /\ new.denied = q.denied
        /\ new.status = q.status
    BY <1>2, <2>1 DEF Underway
  <2> HIDE DEF new, q
  <2>4. Learned(new, now) /\ Decided(new) /\ Honest(new) /\ Traced(new, r, queued)
    BY <1>2, <2>1, <2>3 DEF Learned, Decided, Honest, Traced, Before, After, q
  <2> QED BY <2>2, <2>3, <2>4
<1>3. ASSUME NEW r \in GuardRequests, request[r].at # "check"
      PROVE  request'[r] = request[r] /\ (Learned(request[r], rights) => Learned(request[r], now))
  BY <1>3 DEF ChangeRights, Learned
<1>4. request' \in [GuardRequests -> Underway \cup {Arrived}]
  <2>1. request' = [r \in GuardRequests |-> request'[r]]
    BY DEF ChangeRights
  <2>2. \A r \in GuardRequests : request'[r] \in Underway \cup {Arrived}
    BY <1>2, <1>3 DEF GuardInv, GuardTypeOK
  <2> QED BY <2>1, <2>2
<1>5. GuardTypeOK'
  BY <1>1, <1>4 DEF GuardInv, GuardTypeOK
<1> QED BY <1>1, <1>2, <1>3, <1>5 DEF GuardInv

LEMMA GuardInvStep == GuardInv /\ [GuardNext]_guardVars => GuardInv'
<1> SUFFICES ASSUME GuardInv, [GuardNext]_guardVars PROVE GuardInv'
  OBVIOUS
<1>1. CASE UNCHANGED guardVars
  BY <1>1 DEF guardVars, GuardInv, GuardTypeOK
<1> QED
  BY <1>1, ArriveStep, AuthenticateStep, ThrowsStep, CheckPermissionStep, DecideStep,
     LogFailureStep, HandleStep, HandleFailsStep, NoteActionStep, FinishStep, ClientGoneStep,
     LogEntryStep, ChangeStep DEF GuardNext

\* The invariant that the theorems below are read off.
THEOREM GuardInvariant == GuardSpec => []GuardInv
BY GuardInitInv, GuardInvStep, PTL DEF GuardSpec

\* Whoever passes a guard held what it asks for at some time while it looked.
THEOREM PassingNeedsRights == GuardSpec => []PassedWasHeld
<1>1. GuardInv => PassedWasHeld
  BY DEF GuardInv, Decided, PassedWasHeld
<1> QED BY <1>1, GuardInvariant, PTL

\* Whoever is refused lacked what the guard asks for at some time.
THEOREM RefusalNeedsLack == GuardSpec => []DeniedWasMissing
<1>1. GuardInv => DeniedWasMissing
  BY DEF GuardInv, Decided, DeniedWasMissing
<1> QED BY <1>1, GuardInvariant, PTL

\* Refusals are in the audit queue unless adding them failed.
THEOREM RefusalsAreTraced == GuardSpec => []DenialsAreTraced
<1>1. GuardInv => DenialsAreTraced
  BY DEF GuardInv, Traced, DenialsAreTraced, EntriesOf
<1> QED BY <1>1, GuardInvariant, PTL

\* So is all that a security-relevant request has done.
THEOREM WorkIsTraced == GuardSpec => []EffectsAreTraced
<1>1. GuardInv => EffectsAreTraced
  BY DEF GuardInv, Traced, EffectsAreTraced, EntriesOf
<1> QED BY <1>1, GuardInvariant, PTL

\* No entry claims more, or but for a redirect less, than was done.
THEOREM EntriesTellTheTruth == GuardSpec => []EntriesAreTrue
<1>1. GuardInv => EntriesAreTrue
  <2> SUFFICES ASSUME GuardInv, NEW e \in queued
               PROVE  IF e.status = "success" THEN request[e.request].effect = "all"
                      ELSE request[e.request].effect = "all" => request[e.request].status = "redirect"
    BY DEF EntriesAreTrue
  <2>1. e.request \in GuardRequests
    BY DEF GuardInv, GuardTypeOK, Entry
  <2> QED BY <2>1 DEF GuardInv, Traced
<1> QED BY <1>1, GuardInvariant, PTL

\* Guards decide on rights that were there, or lacking, while they looked.
THEOREM GuardsDecideRightly == GuardSpec => []RightsJustified
BY PassingNeedsRights, RefusalNeedsLack, PTL DEF RightsJustified

\* The audit log is complete but for what the client or the queue lost, and true.
THEOREM LogIsComplete == GuardSpec => []EverythingTraced
BY RefusalsAreTraced, WorkIsTraced, EntriesTellTheTruth, PTL DEF EverythingTraced

-----------------------------------------------------------------------------
(***************************************************************************)
(* Webhooks.  A copy that nothing overtook is the stored row with the edit *)
(* made; so a row says what its owner was told unless it was clobbered,    *)
(* and what is on its way to the queue was read from such a row.           *)
(***************************************************************************)

Delivery == [hook : Hooks, secret : 0..MaxSecret, off : BOOLEAN, promised : 0..MaxSecret]

HooksTypeOK ==
    /\ hooks \in [Hooks -> Row \cup {NoHook}]
    /\ secrets \in [Hooks -> 0..MaxSecret]
    /\ edit \in [Editors -> [op : EditOps, hook : Hooks, copy : Row, current : BOOLEAN]
                              \cup [op : {"none"}, hook : {NoHook}, copy : {NoHook},
                                    current : BOOLEAN]]
    /\ list \in [Publishers -> SUBSET Delivery]
    /\ jobs \in SUBSET Delivery
    /\ off \in SUBSET Hooks
    /\ rotated \in [Hooks -> 0..MaxSecret]
    /\ clobbered \in SUBSET Hooks

Editing == {e \in Editors : edit[e].op # "none"}

\* A copy that nothing overtook is the stored row with the edit made; the pairs
\* in rows and copies have been issued.
EditsFollow ==
    \A e \in Editing :
        LET h == edit[e].hook IN
        /\ edit[e].copy.secret <= secrets[h]
        /\ h \notin Stored => h \in off
        /\ edit[e].current /\ h \in Stored =>
             edit[e].copy = Edited(edit[e].op, hooks[h], edit[e].copy.secret)

\* A webhook whose owner was told that it is off is deleted or off, and nobody
\* is turning it on.
OffIsOff ==
    \A h \in off \cap Stored :
        /\ \A e \in Editing : edit[e].hook = h => edit[e].op \notin {"activate", "subscribe"}
        /\ h \notin clobbered => ~ (hooks[h].active /\ hooks[h].subscribed)

\* A row holds the pair its owner was told of or a later one.
RowsKeepUp ==
    /\ \A h \in Hooks : rotated[h] <= secrets[h]
    /\ \A h \in Stored : hooks[h].secret <= secrets[h]
    /\ \A h \in Stored \ clobbered : hooks[h].secret >= rotated[h]

\* What is on its way to the queue, or there.
DeliveriesObey ==
    \A t \in jobs \cup UNION {list[p] : p \in Publishers} :
        t.hook \notin clobbered => ~ t.off /\ t.secret >= t.promised

HooksInv == HooksTypeOK /\ EditsFollow /\ OffIsOff /\ RowsKeepUp /\ DeliveriesObey

LEMMA HooksInitInv == WebhooksInit => HooksInv
BY WebhooksAssumption
   DEF WebhooksInit, HooksInv, HooksTypeOK, NoEdit, Editing, EditsFollow, OffIsOff, RowsKeepUp,
       DeliveriesObey, Stored

\* An edit that changes nothing else leaves the rest of the row alone.
LEMMA EditedRow ==
  ASSUME NEW op \in EditOps, NEW row \in Row, NEW pair \in 0..MaxSecret
  PROVE  /\ Edited(op, row, pair) \in Row
         /\ op # "rotate" => Edited(op, row, pair).secret = row.secret
         /\ op = "rotate" => Edited(op, row, pair).secret = pair
         /\ op \notin {"activate", "subscribe"} /\ ~ (row.active /\ row.subscribed)
              => ~ (Edited(op, row, pair).active /\ Edited(op, row, pair).subscribed)
         /\ op \in {"deactivate", "unsubscribe"}
              => ~ (Edited(op, row, pair).active /\ Edited(op, row, pair).subscribed)
         /\ Edited(op, row, Edited(op, row, pair).secret) = Edited(op, row, pair)
BY DEF EditOps, Row, Edited

LEMMA CreateWebhookStep ==
  ASSUME HooksInv, NEW h \in Hooks, CreateWebhook(h) PROVE HooksInv'
<1> USE DEF HooksInv
<1> DEFINE row == [secret |-> 0, active |-> TRUE, subscribed |-> TRUE]
<1>1. /\ hooks' = [hooks EXCEPT ![h] = row]
      /\ row \in Row /\ row.secret = 0 /\ h \notin off /\ h \notin Stored /\ secrets[h] = 0
  BY WebhooksAssumption DEF CreateWebhook, Row, Stored
<1> HIDE DEF row
<1>2. UNCHANGED <<secrets, edit, list, jobs, off, rotated, clobbered>>
  BY DEF CreateWebhook
<1>3. Stored' = Stored \cup {h} /\ \A g \in Hooks \ {h} : hooks'[g] = hooks[g]
  BY <1>1, WebhooksAssumption DEF Stored, HooksTypeOK
<1>4. HooksTypeOK'
  BY <1>1, <1>2 DEF HooksTypeOK
<1>5. \A e \in Editing : edit[e].hook # h
  BY <1>1 DEF EditsFollow
<1>6. EditsFollow'
  BY <1>2, <1>3, <1>5 DEF EditsFollow, Editing, HooksTypeOK
<1>7. OffIsOff'
  BY <1>1, <1>2, <1>3 DEF OffIsOff, Editing, Stored
<1>8. rotated[h] = 0
  BY <1>1 DEF HooksTypeOK, RowsKeepUp
<1>9. RowsKeepUp'
  BY <1>1, <1>2, <1>3, <1>8 DEF RowsKeepUp, HooksTypeOK, Stored
<1>10. DeliveriesObey'
  BY <1>2 DEF DeliveriesObey
<1> QED BY <1>4, <1>6, <1>7, <1>9, <1>10

LEMMA FindWebhookStep ==
  ASSUME HooksInv, NEW e \in Editors, NEW op \in EditOps, NEW h \in Hooks, FindWebhook(e, op, h)
  PROVE  HooksInv'
<1> USE DEF HooksInv
<1> DEFINE copy == Edited(op, hooks[h], secrets[h] + 1)
<1>1. /\ h \in Stored /\ hooks[h] \in Row /\ secrets[h] \in 0..MaxSecret
      /\ op = "rotate" => secrets[h] + 1 \in 0..MaxSecret
      /\ UNCHANGED <<hooks, list, jobs, rotated, clobbered>>
  BY WebhooksAssumption DEF FindWebhook, HooksTypeOK, Stored
<1>2. /\ copy \in Row /\ copy.secret \in 0..MaxSecret
      /\ copy.secret = IF op = "rotate" THEN secrets[h] + 1 ELSE hooks[h].secret
      /\ copy = Edited(op, hooks[h], copy.secret)
  <2>1. CASE op = "rotate"
    BY <1>1, <2>1, EditedRow DEF Row
  <2>2. CASE op # "rotate"
    <3>1. copy = Edited(op, hooks[h], hooks[h].secret)
      BY <2>2 DEF Edited, EditOps
    <3> QED BY <1>1, <2>2, <3>1, EditedRow DEF Row
  <2> QED BY <2>1, <2>2
<1> HIDE DEF copy
<1>3. /\ edit' = [edit EXCEPT ![e] = [op |-> op, hook |-> h, current |-> TRUE, copy |-> copy]]
      /\ off' = (IF op \in {"activate", "subscribe"} THEN off \ {h} ELSE off)
      /\ secrets' = IF op = "rotate" THEN [secrets EXCEPT ![h] = @ + 1] ELSE secrets
  BY DEF FindWebhook, copy
<1>4. /\ HooksTypeOK' /\ Stored' = Stored
      /\ \A g \in Hooks : secrets[g] <= secrets'[g]
      /\ copy.secret <= secrets'[h]
  <2>1. secrets' \in [Hooks -> 0..MaxSecret] /\ \A g \in Hooks : secrets[g] <= secrets'[g]
    BY <1>1, <1>3, WebhooksAssumption DEF HooksTypeOK
  <2>2. edit' \in [Editors -> [op : EditOps, hook : Hooks, copy : Row, current : BOOLEAN]
                              \cup [op : {"none"}, hook : {NoHook}, copy : {NoHook},
                                    current : BOOLEAN]]
    BY <1>2, <1>3 DEF HooksTypeOK
  <2>3. HooksTypeOK'
    BY <1>1, <1>3, <2>1, <2>2 DEF HooksTypeOK
  <2>4. hooks[h].secret <= secrets[h]
    BY <1>1 DEF RowsKeepUp
  <2> QED BY <1>1, <1>2, <1>3, <2>1, <2>3, <2>4 DEF Stored, HooksTypeOK
<1>5. \A f \in Editing' : f = e \/ (f \in Editing /\ edit'[f] = edit[f])
  BY <1>3 DEF Editing, HooksTypeOK
<1>6. edit'[e] = [op |-> op, hook |-> h, current |-> TRUE, copy |-> copy]
  BY <1>3 DEF HooksTypeOK
<1>7. EditsFollow'
  <2> SUFFICES ASSUME NEW f \in Editing'
               PROVE  /\ edit'[f].copy.secret <= secrets'[edit'[f].hook]
                      /\ edit'[f].hook \notin Stored => edit'[f].hook \in off'
                      /\ edit'[f].current /\ edit'[f].hook \in Stored =>
                           edit'[f].copy = Edited(edit'[f].op, hooks[edit'[f].hook],
                                                  edit'[f].copy.secret)
    BY <1>1, <1>4 DEF EditsFollow
  <2>1. CASE f = e
    BY <1>1, <1>2, <1>4, <1>6, <2>1
  <2>2. CASE f # e
    <3>1. f \in Editing /\ edit'[f] = edit[f] /\ edit[f].hook \in Hooks /\ edit[f].copy \in Row
      BY <1>5, <2>2 DEF Editing, HooksTypeOK
    <3>2. edit[f].copy.secret <= secrets'[edit[f].hook]
      BY <1>4, <3>1 DEF EditsFollow, HooksTypeOK, Row
    <3>3. edit[f].hook \notin Stored => edit[f].hook \in off'
      BY <1>1, <1>3, <3>1 DEF EditsFollow
    <3> QED BY <3>1, <3>2, <3>3 DEF EditsFollow
  <2> QED BY <2>1, <2>2
<1>8. OffIsOff'
  <2> SUFFICES ASSUME NEW g \in off' \cap Stored
               PROVE  /\ \A f \in Editing' : edit'[f].hook = g
                           => edit'[f].op \notin {"activate", "subscribe"}
                      /\ g \notin clobbered => ~ (hooks[g].active /\ hooks[g].subscribed)
    BY <1>1, <1>4 DEF OffIsOff
  <2>1. g \in off /\ (g = h => op \notin {"activate", "subscribe"})
    BY <1>3
  <2> QED BY <1>5, <1>6, <2>1 DEF OffIsOff
<1>9. RowsKeepUp'
  <2>1. \A g \in Hooks : rotated[g] \in Int /\ secrets[g] \in Int /\ secrets'[g] \in Int
    BY <1>4, WebhooksAssumption DEF HooksTypeOK
  <2>2. \A g \in Hooks : rotated[g] <= secrets'[g]
    BY <1>4, <2>1 DEF RowsKeepUp
  <2>3. \A g \in Stored : hooks[g].secret <= secrets'[g]
    <3> SUFFICES ASSUME NEW g \in Stored PROVE hooks[g].secret <= secrets'[g]
      OBVIOUS
    <3>1. g \in Hooks /\ hooks[g].secret \in Int
      BY WebhooksAssumption DEF Stored, HooksTypeOK, Row
    <3> QED BY <1>4, <2>1, <3>1 DEF RowsKeepUp
  <2>4. rotated' = rotated /\ hooks' = hooks /\ clobbered' = clobbered
    BY <1>1
  <2> QED BY <1>4, <2>2, <2>3, <2>4 DEF RowsKeepUp
<1>10. DeliveriesObey'
  BY <1>1 DEF DeliveriesObey
<1> QED BY <1>4, <1>7, <1>8, <1>9, <1>10

\* The row h is written with a copy of its editor e, of which only the edits
\* told to the owner are recorded.
LEMMA UpdateWebhookStep ==
  ASSUME HooksInv, NEW e \in Editors, UpdateWebhook(e) PROVE HooksInv'
<1> USE DEF HooksInv
<1> DEFINE h == edit[e].hook
           op == edit[e].op
           row == edit[e].copy
<1>1. /\ e \in Editing /\ h \in Stored /\ op \in EditOps /\ row \in Row /\ row # NoHook
      /\ row.secret \in 0..MaxSecret /\ edit[e].current \in BOOLEAN
      /\ hooks' = [hooks EXCEPT ![h] = row]
      /\ clobbered' = IF edit[e].current THEN clobbered ELSE clobbered \cup {h}
      /\ off' = IF op \in {"deactivate", "unsubscribe"} /\ ~ TurningOn(e, h)
                THEN off \cup {h} ELSE off
      /\ rotated' = IF op = "rotate" THEN [rotated EXCEPT ![h] = row.secret] ELSE rotated
      /\ Outdate(e, h) /\ UNCHANGED <<secrets, list, jobs>>
  BY WebhooksAssumption DEF UpdateWebhook, HooksTypeOK, Editing, Row, Stored
<1>2. h \in Hooks /\ Stored \subseteq Hooks /\ hooks[h] \in Row
  BY <1>1 DEF Stored, HooksTypeOK
<1>3. /\ Stored' = Stored /\ hooks'[h] = row
      /\ \A g \in Hooks \ {h} : hooks'[g] = hooks[g]
  BY <1>1, <1>2 DEF Stored, HooksTypeOK
<1>4. \A f \in Editing' : /\ f \in Editing \ {e} /\ edit'[f].hook = edit[f].hook
                          /\ edit'[f].op = edit[f].op /\ edit'[f].copy = edit[f].copy
                          /\ edit'[f].current => edit[f].current /\ edit[f].hook # h
  BY <1>1 DEF Outdate, NoEdit, Editing, HooksTypeOK
<1>5. HooksTypeOK'
  <2>1. edit' \in [Editors -> [op : EditOps, hook : Hooks, copy : Row, current : BOOLEAN]
                              \cup [op : {"none"}, hook : {NoHook}, copy : {NoHook},
                                    current : BOOLEAN]]
    <3>1. \A f \in Editors : \/ edit'[f] = edit[f]
                             \/ edit'[f] = NoEdit
                             \/ edit'[f] = [edit[f] EXCEPT !.current = FALSE]
      BY <1>1 DEF Outdate
    <3>2. \A f \in Editors :
            edit'[f] \in [op : EditOps, hook : Hooks, copy : Row, current : BOOLEAN]
                         \cup [op : {"none"}, hook : {NoHook}, copy : {NoHook},
                               current : BOOLEAN]
      <4> SUFFICES ASSUME NEW f \in Editors
                   PROVE  \/ edit'[f] \in [op : EditOps, hook : Hooks, copy : Row,
                                           current : BOOLEAN]
                          \/ edit'[f] \in [op : {"none"}, hook : {NoHook}, copy : {NoHook},
                                           current : BOOLEAN]
        OBVIOUS
      <4>1. \/ edit[f] \in [op : EditOps, hook : Hooks, copy : Row, current : BOOLEAN]
            \/ edit[f] \in [op : {"none"}, hook : {NoHook}, copy : {NoHook}, current : BOOLEAN]
        BY DEF HooksTypeOK
      <4>2. CASE edit'[f] = NoEdit
        BY <4>2 DEF NoEdit
      <4>3. CASE edit'[f] = [edit[f] EXCEPT !.current = FALSE]
        BY <4>1, <4>3
      <4> QED BY <3>1, <4>1, <4>2, <4>3
    <3>3. edit' = [f \in Editors |-> edit'[f]]
      BY <1>1 DEF Outdate
    <3> QED BY <3>2, <3>3
  <2> QED BY <1>1, <1>2, <2>1 DEF HooksTypeOK
<1>6. EditsFollow'
  <2> SUFFICES ASSUME NEW f \in Editing'
               PROVE  /\ edit'[f].copy.secret <= secrets'[edit'[f].hook]
                      /\ edit'[f].hook \notin Stored' => edit'[f].hook \in off'
                      /\ edit'[f].current /\ edit'[f].hook \in Stored' =>
                           edit'[f].copy = Edited(edit'[f].op, hooks'[edit'[f].hook],
                                                  edit'[f].copy.secret)
    BY DEF EditsFollow
  <2>1. f \in Editing /\ edit[f].hook \in Hooks
    BY <1>4 DEF Editing, HooksTypeOK
  <2>2. edit'[f].copy.secret <= secrets'[edit'[f].hook]
    BY <1>1, <1>4, <2>1 DEF EditsFollow
  <2>3. edit'[f].hook \notin Stored' => edit'[f].hook \in off'
    BY <1>1, <1>3, <1>4, <2>1 DEF EditsFollow
  <2>4. ASSUME edit'[f].current, edit'[f].hook \in Stored'
        PROVE  edit'[f].copy = Edited(edit'[f].op, hooks'[edit'[f].hook], edit'[f].copy.secret)
    <3>1. edit[f].current /\ edit[f].hook # h /\ edit[f].hook \in Stored
      BY <1>3, <1>4, <2>4
    <3>2. edit[f].copy = Edited(edit[f].op, hooks[edit[f].hook], edit[f].copy.secret)
      BY <2>1, <3>1 DEF EditsFollow
    <3> QED BY <1>3, <1>4, <2>1, <3>1, <3>2
  <2> QED BY <2>2, <2>3, <2>4
\* If nothing overtook the copy, it is the row with the edit made.
<1>7. edit[e].current => row = Edited(op, hooks[h], row.secret)
  BY <1>1 DEF EditsFollow
<1>8. OffIsOff'
  <2> SUFFICES ASSUME NEW g \in off' \cap Stored'
               PROVE  /\ \A f \in Editing' : edit'[f].hook = g
                           => edit'[f].op \notin {"activate", "subscribe"}
                      /\ g \notin clobbered' => ~ (hooks'[g].active /\ hooks'[g].subscribed)
    BY DEF OffIsOff
  <2>1. CASE g # h
    BY <1>1, <1>2, <1>3, <1>4, <2>1 DEF OffIsOff
  <2>2. CASE g = h
    <3>1. h \in off \/ (op \in {"deactivate", "unsubscribe"} /\ ~ TurningOn(e, h))
      BY <1>1, <2>2
    <3>2. \A f \in Editing' : edit'[f].hook = h => edit'[f].op \notin {"activate", "subscribe"}
      BY <1>1, <1>4, <3>1 DEF OffIsOff, TurningOn, Editing
    <3>3. ASSUME h \notin clobbered' PROVE ~ (row.active /\ row.subscribed)
      <4>1. edit[e].current /\ h \notin clobbered /\ row = Edited(op, hooks[h], row.secret)
        BY <1>1, <1>7, <3>3
      <4>2. CASE h \in off
        <5>1. op \notin {"activate", "subscribe"} /\ ~ (hooks[h].active /\ hooks[h].subscribed)
          BY <1>1, <4>1, <4>2 DEF OffIsOff
        <5> QED BY <1>1, <1>2, <4>1, <5>1, EditedRow
      <4>3. CASE op \in {"deactivate", "unsubscribe"}
        BY <1>1, <1>2, <4>1, <4>3, EditedRow
      <4> QED BY <3>1, <4>2, <4>3
    <3> QED BY <1>3, <2>2, <3>2, <3>3
  <2> QED BY <2>1, <2>2
<1>9. RowsKeepUp'
  <2>1. row.secret <= secrets[h]
    BY <1>1 DEF EditsFollow
  <2>2. \A g \in Hooks : rotated'[g] <= secrets'[g]
    BY <1>1, <1>2, <2>1 DEF RowsKeepUp, HooksTypeOK
  <2>3. \A g \in Stored' : hooks'[g].secret <= secrets'[g]
    BY <1>1, <1>2, <1>3, <2>1 DEF RowsKeepUp
  <2>4. ASSUME h \notin clobbered' PROVE row.secret >= rotated'[h]
    <3>1. edit[e].current /\ h \notin clobbered /\ row = Edited(op, hooks[h], row.secret)
      BY <1>1, <1>7, <2>4
    <3>2. CASE op = "rotate"
      BY <1>1, <1>2, <3>2 DEF HooksTypeOK
    <3>3. CASE op # "rotate"
      <4>1. row.secret = hooks[h].secret /\ rotated' = rotated
        BY <1>1, <1>2, <3>1, <3>3, EditedRow
      <4> QED BY <1>1, <3>1, <4>1 DEF RowsKeepUp
    <3> QED BY <3>2, <3>3
  <2>5. \A g \in Stored' \ clobbered' : hooks'[g].secret >= rotated'[g]
    BY <1>1, <1>2, <1>3, <2>4 DEF RowsKeepUp, HooksTypeOK
  <2> QED BY <2>2, <2>3, <2>5 DEF RowsKeepUp
<1>10. DeliveriesObey'
  BY <1>1 DEF DeliveriesObey
<1> QED BY <1>5, <1>6, <1>8, <1>9, <1>10

LEMMA EditThrowsStep ==
  ASSUME HooksInv, NEW e \in Editors, EditThrows(e) PROVE HooksInv'
<1> USE DEF HooksInv
<1>1. Outdate(e, NoHook) /\ UNCHANGED <<hooks, secrets, list, jobs, off, rotated, clobbered>>
  BY DEF EditThrows
<1>2. \A f \in Editing' : f \in Editing /\ edit'[f] = edit[f]
  BY <1>1, WebhooksAssumption DEF Outdate, NoEdit, Editing, HooksTypeOK
<1>3. HooksTypeOK'
  BY <1>1 DEF Outdate, NoEdit, HooksTypeOK
<1>4. EditsFollow' /\ OffIsOff' /\ RowsKeepUp' /\ DeliveriesObey'
  BY <1>1, <1>2 DEF EditsFollow, OffIsOff, RowsKeepUp, DeliveriesObey, Stored
<1> QED BY <1>3, <1>4

LEMMA DeleteWebhookStep ==
  ASSUME HooksInv, NEW h \in Hooks, DeleteWebhook(h) PROVE HooksInv'
<1> USE DEF HooksInv
<1>1. /\ hooks' = [hooks EXCEPT ![h] = NoHook] /\ off' = off \cup {h}
      /\ UNCHANGED <<secrets, edit, list, jobs, rotated, clobbered>>
  BY DEF DeleteWebhook
<1>2. Stored' = Stored \ {h} /\ \A g \in Hooks \ {h} : hooks'[g] = hooks[g]
  BY <1>1 DEF Stored, HooksTypeOK
<1>3. HooksTypeOK'
  BY <1>1 DEF HooksTypeOK
<1>4. EditsFollow'
  BY <1>1, <1>2 DEF EditsFollow, Editing, HooksTypeOK
<1>5. OffIsOff' /\ RowsKeepUp' /\ DeliveriesObey'
  BY <1>1, <1>2 DEF OffIsOff, RowsKeepUp, DeliveriesObey, Editing, Stored
<1> QED BY <1>3, <1>4, <1>5

LEMMA PublishStep ==
  ASSUME HooksInv, NEW p \in Publishers,
         FindActiveByEvent(p) \/ PublishFails(p) \/ \E t \in list[p] : PublishEvent(p, t)
  PROVE  HooksInv'
<1> USE DEF HooksInv
<1>1. /\ UNCHANGED <<hooks, secrets, edit, off, rotated, clobbered>>
      /\ HooksTypeOK' /\ DeliveriesObey'
  <2>1. CASE FindActiveByEvent(p)
    <3> DEFINE active == {g \in Stored : hooks[g].active /\ hooks[g].subscribed}
    <3>1. /\ list' = [list EXCEPT ![p] = {Taken(h) : h \in active}]
          /\ UNCHANGED <<hooks, secrets, edit, jobs, off, rotated, clobbered>>
      BY <2>1 DEF FindActiveByEvent
    <3>2. \A h \in active : /\ Taken(h) \in Delivery
                            /\ h \notin clobbered =>
                                 ~ Taken(h).off /\ Taken(h).secret >= Taken(h).promised
                            /\ Taken(h).hook = h
      <4> SUFFICES ASSUME NEW h \in active
                   PROVE  /\ Taken(h) \in Delivery
                          /\ h \notin clobbered =>
                               ~ Taken(h).off /\ Taken(h).secret >= Taken(h).promised
                          /\ Taken(h).hook = h
        OBVIOUS
      <4>1. h \in Stored /\ h \in Hooks /\ hooks[h].active /\ hooks[h].subscribed
        BY DEF Stored
      <4>2. hooks[h] \in Row /\ rotated[h] \in 0..MaxSecret
        BY <4>1 DEF HooksTypeOK, Stored
      <4>3. Taken(h) \in Delivery /\ Taken(h).hook = h
        BY <4>1, <4>2 DEF Taken, Delivery, Row
      <4>4. h \notin clobbered => h \notin off
        BY <4>1 DEF OffIsOff
      <4>5. h \notin clobbered => hooks[h].secret >= rotated[h]
        BY <4>1 DEF RowsKeepUp
      <4> QED BY <4>3, <4>4, <4>5 DEF Taken
    <3> HIDE DEF active
    <3> DEFINE new == {Taken(h) : h \in active}
    <3>3. new \in SUBSET Delivery /\ \A t \in new : \E h \in active : t = Taken(h)
      BY <3>2
    <3>4. list' = [list EXCEPT ![p] = new]
      BY <3>1
    <3> HIDE DEF new
    <3>5. list' \in [Publishers -> SUBSET Delivery] /\ list'[p] = new
          /\ \A q \in Publishers \ {p} : list'[q] = list[q]
      BY <3>3, <3>4 DEF HooksTypeOK
    <3>6. HooksTypeOK'
      BY <3>1, <3>5 DEF HooksTypeOK
    <3>7. \A t \in new : t.hook \notin clobbered => ~ t.off /\ t.secret >= t.promised
      BY <3>2, <3>3
    <3>8. DeliveriesObey'
      BY <3>1, <3>5, <3>7 DEF DeliveriesObey
    <3> QED BY <3>1, <3>6, <3>8
  <2>2. CASE PublishFails(p)
    BY <2>2 DEF PublishFails, HooksTypeOK, DeliveriesObey
  <2>3. ASSUME NEW t \in list[p], PublishEvent(p, t)
        PROVE  /\ UNCHANGED <<hooks, secrets, edit, off, rotated, clobbered>>
               /\ HooksTypeOK' /\ DeliveriesObey'
    BY <2>3 DEF PublishEvent, HooksTypeOK, DeliveriesObey
  <2> QED BY <2>1, <2>2, <2>3
<1>2. EditsFollow' /\ OffIsOff' /\ RowsKeepUp'
  BY <1>1 DEF EditsFollow, OffIsOff, RowsKeepUp, Editing, Stored
<1> QED BY <1>1, <1>2

LEMMA HooksStep == HooksInv /\ [WebhooksNext]_hookVars => HooksInv'
<1> SUFFICES ASSUME HooksInv, [WebhooksNext]_hookVars PROVE HooksInv'
  OBVIOUS
<1>1. CASE UNCHANGED hookVars
  BY <1>1 DEF hookVars, HooksInv, HooksTypeOK, EditsFollow, OffIsOff, RowsKeepUp,
              DeliveriesObey, Editing, Stored
<1>2. ASSUME NEW j \in jobs, DeliverWebhook(j) PROVE HooksInv'
  BY <1>2 DEF DeliverWebhook, HooksInv, HooksTypeOK, EditsFollow, OffIsOff, RowsKeepUp,
              DeliveriesObey, Editing, Stored
<1> QED BY <1>1, <1>2, CreateWebhookStep, DeleteWebhookStep, FindWebhookStep, UpdateWebhookStep,
           EditThrowsStep, PublishStep DEF WebhooksNext

\* Types of the webhook table, its editors and publishers.
THEOREM WebhooksTyped == WebhooksSpec => []HooksTypeOK
<1>1. HooksInv => HooksTypeOK
  BY DEF HooksInv
<1> QED BY <1>1, HooksInitInv, HooksStep, PTL DEF WebhooksSpec

\* What its owner was told of a webhook rules the publications that follow: for
\* any number of webhooks, edits and publications at once.
THEOREM WebhooksObeyOwners == WebhooksSpec => []OwnersObeyed
<1>1. HooksInv => OwnersObeyed
  BY DEF HooksInv, DeliveriesObey, OwnersObeyed, OffIsSilent, NewSecretIsUsed
<1> QED BY <1>1, HooksInitInv, HooksStep, PTL DEF WebhooksSpec

-----------------------------------------------------------------------------
(***************************************************************************)
(* The profile cache.  A copy of the row is of its present or an earlier   *)
(* version, and one of the present version that is still to be written     *)
(* differs from the row in what the request changed only.                  *)
(***************************************************************************)

\* A request that holds a copy of the row, or none.
Request ==
    [op : Changes \cup {"get"}, at : {"fill", "write", "drop"}, copy : Account]
    \cup [op : {"idle", "get"}, at : {"idle", "find"}, copy : {NoProfile}]

ProfileTypeOK ==
    /\ account \in Account /\ wanted \in Account
    /\ acknowledged \in 0..MaxVersion /\ reverted \in BOOLEAN
    /\ profile # NoProfile => profile \in [of : Account, stray : BOOLEAN]
    /\ preq \in [ProfileRequests -> Request]

\* A copy of the row is of its present or an earlier version, and one of the
\* present version that is still to be written is the row.
CopiesFollow ==
    \A r \in ProfileRequests :
        /\ preq[r].at \in {"fill", "write", "drop"} => preq[r].copy.ver <= account.ver
        /\ preq[r].at = "write" =>
             /\ preq[r].op \in Changes
             /\ preq[r].copy.ver = account.ver => preq[r].copy = account

ProfileInv ==
    /\ ProfileTypeOK /\ CopiesFollow /\ ProfileTruthful
    /\ acknowledged <= account.ver

\* A change sets its own flag and leaves the others alone.
LEMMA ChangedFlags ==
  ASSUME NEW op \in Changes, NEW copy \in Account
  PROVE  /\ Changed(op, copy) \in Account /\ Changed(op, copy).ver = copy.ver
         /\ Changed(op, copy).locked
              = (op = "lock" \/ (op # "unlock" /\ copy.locked))
         /\ Changed(op, copy).deleted = (op = "delete" \/ copy.deleted)
BY DEF Changes, Account, Changed

\* The request r moves on, the others stay where they are.
LEMMA RequestMoves ==
  ASSUME ProfileInv, NEW r \in ProfileRequests, NEW op, NEW at, NEW copy,
         At(r, op, at, copy) \/ (DoneWith(r) /\ op = "idle" /\ at = "idle" /\ copy = NoProfile),
         \/ op \in Changes \cup {"get"} /\ at \in {"fill", "write", "drop"} /\ copy \in Account
         \/ op \in {"idle", "get"} /\ at \in {"idle", "find"} /\ copy = NoProfile
  PROVE  /\ preq' \in [ProfileRequests -> Request]
         /\ preq'[r] = [op |-> op, at |-> at, copy |-> copy]
         /\ \A q \in ProfileRequests \ {r} : preq'[q] = preq[q]
<1> DEFINE new == [op |-> op, at |-> at, copy |-> copy]
<1>1. preq' = [preq EXCEPT ![r] = new]
  BY DEF At, DoneWith, NoRequest
<1>2. new \in Request
  BY DEF Request
<1> HIDE DEF new
<1>3. /\ preq' \in [ProfileRequests -> Request] /\ preq'[r] = new
      /\ \A q \in ProfileRequests \ {r} : preq'[q] = preq[q]
  BY <1>1, <1>2 DEF ProfileInv, ProfileTypeOK
<1> QED BY <1>3 DEF new

\* A request that only reads, or gives up.
LEMMA ReadStep ==
  ASSUME ProfileInv, NEW r \in ProfileRequests,
         UNCHANGED <<account, profile, acknowledged, wanted, reverted>>,
         \/ DoneWith(r) \/ At(r, "get", "find", NoProfile) \/ At(r, "get", "fill", account)
         \/ \E op \in Changes : At(r, op, "write", account)
  PROVE  ProfileInv'
<1>1. PICK op, at, copy :
        /\ At(r, op, at, copy) \/ (DoneWith(r) /\ op = "idle" /\ at = "idle" /\ copy = NoProfile)
        /\ \/ op \in Changes \cup {"get"} /\ at \in {"fill", "write"} /\ copy = account
              /\ (at = "write" => op \in Changes)
           \/ op \in {"idle", "get"} /\ at \in {"idle", "find"} /\ copy = NoProfile
  OBVIOUS
<1>2. account \in Account
  BY DEF ProfileInv, ProfileTypeOK
<1>3. /\ preq' \in [ProfileRequests -> Request]
      /\ preq'[r] = [op |-> op, at |-> at, copy |-> copy]
      /\ \A q \in ProfileRequests \ {r} : preq'[q] = preq[q]
  BY <1>1, <1>2, RequestMoves
<1>4. ProfileTypeOK'
  BY <1>3 DEF ProfileInv, ProfileTypeOK
<1>5. CopiesFollow'
  <2> SUFFICES ASSUME NEW q \in ProfileRequests
               PROVE  /\ preq'[q].at \in {"fill", "write", "drop"}
                           => preq'[q].copy.ver <= account.ver
                      /\ preq'[q].at = "write" =>
                           /\ preq'[q].op \in Changes
                           /\ preq'[q].copy.ver = account.ver => preq'[q].copy = account
    BY DEF CopiesFollow
  <2>1. CASE q = r
    BY <1>1, <1>2, <1>3, <2>1 DEF Account
  <2>2. CASE q # r
    BY <1>3, <2>2 DEF ProfileInv, CopiesFollow
  <2> QED BY <2>1, <2>2
<1> QED BY <1>4, <1>5 DEF ProfileInv, ProfileTruthful, HitIsCurrent, DecisionsHold

LEMMA SetUserProfileStep ==
  ASSUME ProfileInv, NEW r \in ProfileRequests, SetUserProfile(r) PROVE ProfileInv'
<1>1. preq[r].at = "fill" /\ DoneWith(r) /\ UNCHANGED <<account, acknowledged, wanted, reverted>>
  BY DEF SetUserProfile
<1>2. preq[r].copy \in Account
  BY <1>1 DEF ProfileInv, ProfileTypeOK, Request
<1>3. /\ preq' \in [ProfileRequests -> Request]
      /\ preq'[r] = [op |-> "idle", at |-> "idle", copy |-> NoProfile]
      /\ \A q \in ProfileRequests \ {r} : preq'[q] = preq[q]
  BY <1>1, RequestMoves
<1>4. CopiesFollow'
  BY <1>1, <1>3 DEF ProfileInv, CopiesFollow
<1>5. CASE profile' = profile
  BY <1>1, <1>3, <1>4, <1>5
     DEF ProfileInv, ProfileTypeOK, ProfileTruthful, HitIsCurrent, DecisionsHold
<1>6. CASE profile' = [of |-> preq[r].copy, stray |-> preq[r].copy.ver # account.ver]
  <2>1. /\ profile' \in [of : Account, stray : BOOLEAN] /\ profile'.of = preq[r].copy
        /\ profile'.stray = (preq[r].copy.ver # account.ver)
    BY <1>2, <1>6
  <2>2. acknowledged <= account.ver
    BY DEF ProfileInv
  <2>3. HitIsCurrent'
    BY <1>1, <1>2, <2>1, <2>2 DEF HitIsCurrent, ProfileInv, ProfileTypeOK, Account
  <2>4. ProfileTypeOK'
    BY <1>1, <1>3, <2>1 DEF ProfileInv, ProfileTypeOK
  <2> QED BY <1>1, <1>4, <2>3, <2>4 DEF ProfileInv, ProfileTruthful, DecisionsHold
<1> QED BY <1>5, <1>6 DEF SetUserProfile

\* The row written from the copy of r, whose version is then an older one.
LEMMA UpdateAccountStep ==
  ASSUME ProfileInv, NEW r \in ProfileRequests, UpdateAccount(r) PROVE ProfileInv'
<1>1. PICK op, copy :
        /\ op = preq[r].op /\ copy = preq[r].copy
        /\ preq[r].at = "write" /\ account.ver < MaxVersion
        /\ account' = [Changed(op, copy) EXCEPT !.ver = account.ver + 1]
        /\ wanted' = Changed(op, wanted)
        /\ reverted' = (reverted \/ copy.ver # account.ver)
        /\ IF op = "login" THEN DoneWith(r)
           ELSE At(r, op, "drop", [copy EXCEPT !.ver = account.ver + 1])
        /\ UNCHANGED <<profile, acknowledged>>
  BY DEF UpdateAccount, Overwritten
<1>2. /\ op \in Changes /\ copy \in Account /\ account \in Account /\ wanted \in Account
      /\ account.ver \in 0..MaxVersion /\ account.ver + 1 \in 0..MaxVersion
      /\ copy.ver = account.ver => copy = account
  BY <1>1, ProfileAssumption DEF ProfileInv, ProfileTypeOK, CopiesFollow, Account, Request
<1>3. /\ Changed(op, copy) \in Account /\ Changed(op, wanted) \in Account
      /\ Changed(op, copy).locked = (op = "lock" \/ (op # "unlock" /\ copy.locked))
      /\ Changed(op, copy).deleted = (op = "delete" \/ copy.deleted)
      /\ Changed(op, wanted).locked = (op = "lock" \/ (op # "unlock" /\ wanted.locked))
      /\ Changed(op, wanted).deleted = (op = "delete" \/ wanted.deleted)
  BY <1>2, ChangedFlags
<1>4. /\ account' \in Account /\ account'.ver = account.ver + 1
      /\ account'.locked = Changed(op, copy).locked
      /\ account'.deleted = Changed(op, copy).deleted
  <2> DEFINE c == Changed(op, copy)
  <2>1. c \in Account /\ account' = [c EXCEPT !.ver = account.ver + 1]
    BY <1>1, <1>3
  <2> HIDE DEF c
  <2>2. /\ account' \in Account /\ account'.ver = account.ver + 1
        /\ account'.locked = c.locked /\ account'.deleted = c.deleted
    BY <1>2, <2>1 DEF Account
  <2> QED BY <2>2 DEF c
<1>5.   /\ preq'[r].at \in {"idle", "drop"}
        /\ preq'[r].at = "drop" => preq'[r].copy.ver = account.ver + 1
        /\ preq' \in [ProfileRequests -> Request]
        /\ \A q \in ProfileRequests \ {r} : preq'[q] = preq[q]
  <2>1. CASE op = "login"
    <3>1. DoneWith(r)
      BY <1>1, <2>1
    <3>2. /\ preq' \in [ProfileRequests -> Request]
          /\ preq'[r] = [op |-> "idle", at |-> "idle", copy |-> NoProfile]
          /\ \A q \in ProfileRequests \ {r} : preq'[q] = preq[q]
      BY <3>1, RequestMoves
    <3> QED BY <3>2
  <2>2. CASE op # "login"
    <3> DEFINE c == [copy EXCEPT !.ver = account.ver + 1]
    <3>1. At(r, op, "drop", c)
      BY <1>1, <2>2
    <3>2. c \in Account /\ c.ver = account.ver + 1
      BY <1>2 DEF Account
    <3> HIDE DEF c
    <3>3. /\ preq' \in [ProfileRequests -> Request]
          /\ preq'[r] = [op |-> op, at |-> "drop", copy |-> c]
          /\ \A q \in ProfileRequests \ {r} : preq'[q] = preq[q]
      BY <1>2, <3>1, <3>2, RequestMoves
    <3> QED BY <3>2, <3>3
  <2> QED BY <2>1, <2>2
<1>6. ProfileTypeOK'
  BY <1>1, <1>3, <1>4, <1>5 DEF ProfileInv, ProfileTypeOK
<1>7. CopiesFollow'
  <2> SUFFICES ASSUME NEW q \in ProfileRequests
               PROVE  /\ preq'[q].at \in {"fill", "write", "drop"}
                           => preq'[q].copy.ver <= account'.ver
                      /\ preq'[q].at = "write" =>
                           /\ preq'[q].op \in Changes
                           /\ preq'[q].copy.ver = account'.ver => preq'[q].copy = account'
    BY DEF CopiesFollow
  <2>1. CASE q = r
    BY <1>2, <1>4, <1>5, <2>1
  <2>2. CASE q # r
    <3>1. preq[q].at \in {"fill", "write", "drop"}
            => preq[q].copy \in Account /\ preq[q].copy.ver <= account.ver
      BY DEF ProfileInv, ProfileTypeOK, CopiesFollow, Request
    <3>2. preq[q].at = "write" => preq[q].op \in Changes
      BY DEF ProfileInv, CopiesFollow
    <3>3. preq[q].at \in {"fill", "write", "drop"} => preq[q].copy.ver < account'.ver
      BY <1>2, <1>4, <3>1 DEF Account
    <3> QED BY <1>2, <1>4, <1>5, <2>2, <3>1, <3>2, <3>3 DEF Account
  <2> QED BY <2>1, <2>2
<1>8. HitIsCurrent' /\ acknowledged' <= account'.ver
  BY <1>1, <1>2, <1>4 DEF ProfileInv, ProfileTypeOK, ProfileTruthful, HitIsCurrent
<1>9. DecisionsHold'
  <2> SUFFICES ASSUME ~ reverted'
               PROVE  account'.locked = wanted'.locked /\ account'.deleted = wanted'.deleted
    BY DEF DecisionsHold
  <2>1. copy = account /\ account.locked = wanted.locked /\ account.deleted = wanted.deleted
    BY <1>1, <1>2 DEF ProfileInv, ProfileTruthful, DecisionsHold
  <2> QED BY <1>1, <1>3, <1>4, <2>1
<1> QED BY <1>6, <1>7, <1>8, <1>9 DEF ProfileInv, ProfileTruthful

LEMMA InvalidateUserProfileStep ==
  ASSUME ProfileInv, NEW r \in ProfileRequests, InvalidateUserProfile(r) PROVE ProfileInv'
<1>1. /\ preq[r].at = "drop" /\ DoneWith(r) /\ UNCHANGED <<account, wanted, reverted>>
      /\ acknowledged' = LaterOf(acknowledged, preq[r].copy.ver)
      /\ \/ profile' = NoProfile
         \/ profile # NoProfile /\ profile' = [profile EXCEPT !.stray = TRUE]
  BY DEF InvalidateUserProfile
<1>2. preq[r].copy \in Account /\ preq[r].copy.ver <= account.ver
  BY <1>1 DEF ProfileInv, ProfileTypeOK, CopiesFollow, Request
<1>3. /\ preq' \in [ProfileRequests -> Request]
      /\ preq'[r] = [op |-> "idle", at |-> "idle", copy |-> NoProfile]
      /\ \A q \in ProfileRequests \ {r} : preq'[q] = preq[q]
  BY <1>1, RequestMoves
<1>4. CopiesFollow'
  BY <1>1, <1>3 DEF ProfileInv, CopiesFollow
<1>5. acknowledged' \in 0..MaxVersion /\ acknowledged' <= account.ver
  BY <1>1, <1>2 DEF LaterOf, ProfileInv, ProfileTypeOK, Account
<1>6. profile' = NoProfile \/ (profile' \in [of : Account, stray : BOOLEAN] /\ profile'.stray)
  BY <1>1 DEF ProfileInv, ProfileTypeOK, Request
<1>7. ProfileTypeOK'
  BY <1>1, <1>3, <1>5, <1>6 DEF ProfileInv, ProfileTypeOK
<1> QED BY <1>1, <1>4, <1>5, <1>6, <1>7
        DEF ProfileInv, ProfileTruthful, HitIsCurrent, DecisionsHold

LEMMA ProfileStep == ProfileInv /\ [ProfileNext]_profileVars => ProfileInv'
<1> SUFFICES ASSUME ProfileInv, [ProfileNext]_profileVars PROVE ProfileInv'
  OBVIOUS
<1>1. ASSUME NEW r \in ProfileRequests,
             \/ GetUserProfile(r) \/ FindForCache(r) \/ UpdateThrows(r)
             \/ \E op \in Changes : FindUser(r, op)
      PROVE  ProfileInv'
  BY <1>1, ReadStep DEF GetUserProfile, FindForCache, UpdateThrows, FindUser
<1>2. CASE ProfileExpires
  BY <1>2 DEF ProfileExpires, ProfileInv, ProfileTypeOK, CopiesFollow, ProfileTruthful,
              HitIsCurrent, DecisionsHold
<1>3. CASE UNCHANGED profileVars
  BY <1>3 DEF profileVars, ProfileInv, ProfileTypeOK, CopiesFollow, ProfileTruthful,
              HitIsCurrent, DecisionsHold
<1> QED
  BY <1>1, <1>2, <1>3, SetUserProfileStep, UpdateAccountStep, InvalidateUserProfileStep
  DEF ProfileNext

\* A cached profile falls behind an answered change only where a deletion
\* failed or a reader was overtaken, and no edit undoes a lock or a deletion
\* it had not read (UserService, UserRepository.update).
THEOREM ProfileStaysTruthful == ProfileSpec => []ProfileTruthful
<1>1. ProfileInit => ProfileInv
  <2> SUFFICES ASSUME ProfileInit PROVE ProfileInv
    OBVIOUS
  <2>1. Fresh \in Account /\ Fresh.ver = 0
    BY ProfileAssumption DEF Fresh, Account
  <2>2. \A r \in ProfileRequests : preq[r] = NoRequest /\ preq[r].at = "idle"
    BY DEF ProfileInit, NoRequest
  <2>3. ProfileTypeOK
    <3>1. NoRequest \in Request
      BY DEF NoRequest, Request
    <3>2. preq \in [ProfileRequests -> Request]
      BY <3>1 DEF ProfileInit
    <3>3. profile = NoProfile /\ acknowledged = 0 /\ reverted = FALSE /\ 0 \in 0..MaxVersion
      BY ProfileAssumption DEF ProfileInit
    <3> QED BY <2>1, <3>2, <3>3 DEF ProfileInit, ProfileTypeOK
  <2> QED
    BY <2>1, <2>2, <2>3
    DEF ProfileInit, ProfileInv, CopiesFollow, ProfileTruthful, HitIsCurrent, DecisionsHold
<1>2. ProfileInv => ProfileTruthful
  BY DEF ProfileInv
<1> QED BY <1>1, <1>2, ProfileStep, PTL DEF ProfileSpec

-----------------------------------------------------------------------------
(***************************************************************************)
(* Trust scores.  What a sign-in has read was live at some time since it   *)
(* began, a session that was live all the time has been read or still will *)
(* be, and more sessions never make a new one less trusted.                *)
(***************************************************************************)

Kept == [status : {"live", "revoked"}, from : SignIn, recent : BOOLEAN, score : 0..100]
            \cup [status : {"none", "gone"}]
ReadSession == [id : TrustIds, from : SignIn, recent : BOOLEAN]
Reading == [at : {"read"}, new : SignIn, todo : SUBSET TrustIds, previous : SUBSET ReadSession,
            ever : SUBSET ReadSession, stayed : SUBSET ReadSession]

TrustTypeOK ==
    /\ held \in [TrustIds -> Kept]
    /\ login \in [Logins -> Reading \cup {NoLogin}]

\* What a login has read was live at some time since it began, and a session
\* that was live all the time has been read or still will be.
ReadsFollow ==
    \A l \in InFlight :
        /\ login[l].stayed \subseteq Live(held) /\ Live(held) \subseteq login[l].ever
        /\ login[l].previous \subseteq login[l].ever
        /\ \A y \in login[l].stayed : y \in login[l].previous \/ y.id \in login[l].todo

TrustInv == TrustTypeOK /\ ReadsFollow

LEMMA CapKeepsOrder ==
  ASSUME NEW m \in Int, NEW n \in Int, m <= n
  PROVE  /\ AtLeast0AtMost100(m) <= AtLeast0AtMost100(n)
         /\ AtLeast0AtMost100(m) \in 0..100
<1>1. ASSUME NEW k \in Int
      PROVE  AtLeast0AtMost100(k) = IF k < 0 THEN 0 ELSE IF k > 100 THEN 100 ELSE k
  <2>1. Min({100, k}) = IF k > 100 THEN 100 ELSE k
    BY DEF Min
  <2> DEFINE c == IF k > 100 THEN 100 ELSE k
  <2>2. c \in Int
    OBVIOUS
  <2>3. Max({0, c}) = IF c < 0 THEN 0 ELSE c
    <3> HIDE DEF c
    <3> QED BY <2>2 DEF Max
  <2> QED BY <2>1, <2>3 DEF AtLeast0AtMost100
<1> QED BY <1>1

\* More sessions never make a new one less trusted.
LEMMA ScoreKeepsOrder ==
  ASSUME NEW by, NEW x, NEW S, NEW T, S \subseteq T
  PROVE  Score(by, x, S) <= Score(by, x, T) /\ Score(by, x, S) \in 0..100
<1> DEFINE Machine(U) == \E y \in U : y.from.device = x.device
           Place(U) == \E y \in U : y.from.place = x.place
           Address(U) == \E y \in U : y.from.ip = x.ip
           Recent(U) == \E y \in U : y.recent /\ y.from.device = x.device
           s(U) == 50 + Bonus(Machine(U), 30)
                      + Bonus(x.place # NoLocation, IF Place(U) THEN 20 ELSE -20)
                      + Bonus(Address(U), 10)
           e(U) == 50 + Bonus(Machine(U), 15)
                      + Bonus(x.place # NoLocation, IF Place(U) THEN 20 ELSE -20)
                      + Bonus(Recent(U), 10)
<1>1. ASSUME NEW U
      PROVE  /\ ServiceScore(x, U) = AtLeast0AtMost100(s(U))
             /\ EntityScore(x, U) = AtLeast0AtMost100(e(U))
  BY DEF ServiceScore, EntityScore, SomeOf
<1>2. /\ Machine(S) => Machine(T)
      /\ Place(S) => Place(T)
      /\ Address(S) => Address(T)
      /\ Recent(S) => Recent(T)
  OBVIOUS
<1> HIDE DEF Machine, Place, Address, Recent
<1>3. /\ s(S) \in Int /\ s(T) \in Int /\ s(S) <= s(T)
      /\ e(S) \in Int /\ e(T) \in Int /\ e(S) <= e(T)
  BY <1>2 DEF Bonus
<1> HIDE DEF s, e
<1> QED BY <1>1, <1>3, CapKeepsOrder DEF Score

LEMMA LiveIsRead ==
  ASSUME NEW h \in [TrustIds -> Kept]
  PROVE  /\ Live(h) \subseteq ReadSession
         /\ \A y \in Live(h) : /\ y.id \in TrustIds /\ h[y.id].status = "live"
                               /\ y = AsRead(h, y.id)
BY DEF Live, AsRead, WithStatus, ReadSession, Kept

\* Whatever becomes of the sessions, those that note it notice.
LEMMA BecomeStep ==
  ASSUME TrustInv, NEW h \in [TrustIds -> Kept], NEW ls \in SUBSET InFlight, Become(h, ls)
  PROVE  TrustInv'
<1>1. held' = h /\ Live(h) \subseteq ReadSession
  BY LiveIsRead DEF Become
<1>2. ASSUME NEW l \in ls
      PROVE  LET u == [login[l] EXCEPT !.ever = @ \cup Live(h), !.stayed = @ \cap Live(h)] IN
             /\ login'[l] = u /\ u \in Reading
             /\ u.ever = login[l].ever \cup Live(h) /\ u.stayed = login[l].stayed \cap Live(h)
             /\ u.todo = login[l].todo /\ u.previous = login[l].previous
  <2>1. login[l] \in Reading
    BY DEF TrustInv, TrustTypeOK, InFlight, NoLogin
  <2>2. l \in Logins
    BY DEF InFlight
  <2> QED BY <1>1, <2>1, <2>2 DEF Become, Reading
<1>3. \A l \in Logins \ ls : login'[l] = NoLogin
  BY DEF Become
<1>4. TrustTypeOK'
  <2>1. login' = [l \in Logins |-> login'[l]]
    BY DEF Become
  <2>2. \A l \in Logins : login'[l] \in Reading \cup {NoLogin}
    BY <1>2, <1>3
  <2> QED BY <1>1, <2>1, <2>2 DEF TrustTypeOK
<1>5. \A l \in InFlight' : l \in ls
  BY <1>3 DEF InFlight, NoLogin
<1>6. ReadsFollow'
  <2> SUFFICES ASSUME NEW l \in ls
               PROVE  /\ login'[l].stayed \subseteq Live(h) /\ Live(h) \subseteq login'[l].ever
                      /\ login'[l].previous \subseteq login'[l].ever
                      /\ \A y \in login'[l].stayed :
                           y \in login'[l].previous \/ y.id \in login'[l].todo
    BY <1>1, <1>5 DEF ReadsFollow, Live, WithStatus, AsRead
  <2>1. /\ login'[l].ever = login[l].ever \cup Live(h)
        /\ login'[l].stayed = login[l].stayed \cap Live(h)
        /\ login'[l].todo = login[l].todo /\ login'[l].previous = login[l].previous
    BY <1>2
  <2>2. /\ login[l].previous \subseteq login[l].ever
        /\ \A y \in login[l].stayed : y \in login[l].previous \/ y.id \in login[l].todo
    BY DEF TrustInv, ReadsFollow
  <2> QED BY <2>1, <2>2
<1> QED BY <1>4, <1>6 DEF TrustInv

LEMMA FindPreviousStep ==
  ASSUME TrustInv, NEW l \in Logins, NEW x \in SignIn, FindPrevious(l, x) PROVE TrustInv'
<1> DEFINE todo == WithStatus(held, "live") \cup WithStatus(held, "revoked")
           u == [at |-> "read", new |-> x, todo |-> todo, previous |-> {},
                 ever |-> Live(held), stayed |-> Live(held)]
<1>1. login' = [login EXCEPT ![l] = u] /\ held' = held
  BY DEF FindPrevious
<1>2. Live(held) \subseteq ReadSession /\ \A y \in Live(held) : y.id \in todo
  BY LiveIsRead DEF TrustInv, TrustTypeOK, WithStatus
<1>3. todo \in SUBSET TrustIds
  BY DEF WithStatus
<1> HIDE DEF todo
<1>4. /\ u \in Reading /\ u.stayed = Live(held) /\ u.ever = Live(held) /\ u.previous = {}
      /\ u.todo = todo
  BY <1>2, <1>3 DEF Reading
<1> HIDE DEF u
<1>5. TrustTypeOK'
  BY <1>1, <1>4 DEF TrustInv, TrustTypeOK
<1>6. \A m \in InFlight' : \/ m = l /\ login'[m] = u
                           \/ m \in InFlight /\ login'[m] = login[m]
  BY <1>1 DEF TrustInv, TrustTypeOK, InFlight
<1>7. Live(held)' = Live(held)
  BY <1>1 DEF Live, WithStatus, AsRead
<1>8. ReadsFollow'
  BY <1>2, <1>4, <1>6, <1>7 DEF TrustInv, ReadsFollow
<1> QED BY <1>5, <1>8 DEF TrustInv

LEMMA ReadPreviousStep ==
  ASSUME TrustInv, NEW l \in Logins, NEW s \in TrustIds, ReadPrevious(l, s) PROVE TrustInv'
<1> DEFINE previous == IF held[s].status = "live" THEN login[l].previous \cup {AsRead(held, s)}
                       ELSE login[l].previous
           u == [login[l] EXCEPT !.todo = @ \ {s}, !.previous = previous]
<1>1. /\ l \in InFlight /\ held' = held /\ login[l] \in Reading
      /\ login' = [login EXCEPT ![l] = u]
  <2>1. l \in InFlight /\ held' = held
    BY DEF ReadPrevious
  <2>2. login[l] \in Reading
    BY <2>1 DEF InFlight, TrustInv, TrustTypeOK, NoLogin
  <2> QED BY <2>1, <2>2 DEF ReadPrevious, Reading
<1>2. held[s].status = "live" => AsRead(held, s) \in Live(held) /\ AsRead(held, s) \in ReadSession
  <2>1. held[s].status = "live" => AsRead(held, s) \in Live(held)
    BY DEF Live, WithStatus
  <2> QED BY <2>1, LiveIsRead DEF TrustInv, TrustTypeOK
<1>3. /\ previous \in SUBSET ReadSession /\ previous \subseteq login[l].ever
      /\ login[l].previous \subseteq previous
      /\ held[s].status = "live" => AsRead(held, s) \in previous
  BY <1>1, <1>2 DEF TrustInv, ReadsFollow, Reading
<1> HIDE DEF previous
<1>4. /\ u \in Reading /\ u.stayed = login[l].stayed /\ u.ever = login[l].ever
      /\ u.previous = previous /\ u.todo = login[l].todo \ {s}
  BY <1>1, <1>3 DEF Reading
<1> HIDE DEF u
<1>5. TrustTypeOK'
  BY <1>1, <1>4 DEF TrustInv, TrustTypeOK
<1>6. \A m \in InFlight' : \/ m = l /\ login'[m] = u
                           \/ m \in InFlight /\ login'[m] = login[m]
  BY <1>1 DEF TrustInv, TrustTypeOK, InFlight
<1>7. Live(held)' = Live(held)
  BY <1>1 DEF Live, WithStatus, AsRead
<1>8. ASSUME NEW y \in u.stayed PROVE y \in u.previous \/ y.id \in u.todo
  <2>1. /\ y \in login[l].previous \/ y.id \in login[l].todo
        /\ held[y.id].status = "live" /\ y = AsRead(held, y.id)
    BY <1>1, <1>4, <1>8, LiveIsRead DEF TrustInv, TrustTypeOK, ReadsFollow
  <2> QED BY <1>3, <1>4, <2>1
<1>9. ReadsFollow'
  BY <1>1, <1>3, <1>4, <1>6, <1>7, <1>8 DEF TrustInv, ReadsFollow
<1> QED BY <1>5, <1>9 DEF TrustInv

LEMMA TrustStep == TrustInv /\ [TrustNext]_trustVars => TrustInv'
<1> SUFFICES ASSUME TrustInv, [TrustNext]_trustVars PROVE TrustInv'
  OBVIOUS
<1>0. held \in [TrustIds -> Kept] /\ \A l \in InFlight : l \in Logins /\ login[l] \in Reading
  BY DEF TrustInv, TrustTypeOK, InFlight, NoLogin
<1>1. ASSUME NEW l \in Logins, NEW s \in TrustIds, NEW by, StoreScored(l, by, s) PROVE TrustInv'
  <2> DEFINE new == [status |-> "live", from |-> login[l].new, recent |-> TRUE,
                     score |-> Score(by, login[l].new, login[l].previous)]
             h == [held EXCEPT ![s] = new]
  <2>1. new \in Kept
    <3>1. Score(by, login[l].new, login[l].previous) \in 0..100
      BY ScoreKeepsOrder
    <3>2. login[l].new \in SignIn
      BY <1>0, <1>1 DEF StoreScored, Reading
    <3> QED BY <3>1, <3>2 DEF Kept
  <2>2. Become(h, InFlight \ {l})
    BY <1>1 DEF StoreScored
  <2> HIDE DEF new
  <2>3. h \in [TrustIds -> Kept]
    BY <1>0, <2>1
  <2> HIDE DEF h
  <2> QED BY <2>2, <2>3, BecomeStep
<1>2. ASSUME NEW s \in TrustIds, NEW status \in {"revoked", "gone"}, EndSession(s, status)
      PROVE  TrustInv'
  <2> DEFINE new == IF status = "gone" THEN [status |-> "gone"]
                    ELSE [held[s] EXCEPT !.status = "revoked"]
             h == [held EXCEPT ![s] = new]
  <2>1. new \in Kept
    <3>1. CASE status = "gone"
      BY <3>1 DEF Kept
    <3>2. CASE status # "gone"
      <4>1. held[s] \in [status : {"live", "revoked"}, from : SignIn, recent : BOOLEAN,
                         score : 0..100]
        BY <1>0, <1>2, <3>2 DEF EndSession, Kept
      <4> QED BY <3>2, <4>1 DEF Kept
    <3> QED BY <3>1, <3>2
  <2>2. Become(h, InFlight)
    BY <1>2 DEF EndSession
  <2> HIDE DEF new
  <2>3. h \in [TrustIds -> Kept]
    BY <1>0, <2>1
  <2> HIDE DEF h
  <2> QED BY <2>2, <2>3, BecomeStep
<1>3. CASE DayPasses
  <2> DEFINE new(s) == IF held[s].status = "live" THEN [held[s] EXCEPT !.recent = FALSE]
                       ELSE held[s]
             h == [s \in TrustIds |-> new(s)]
  <2>1. ASSUME NEW s \in TrustIds PROVE new(s) \in Kept
    <3>1. CASE held[s].status = "live"
      <4>1. held[s] \in [status : {"live", "revoked"}, from : SignIn, recent : BOOLEAN,
                         score : 0..100]
        BY <1>0, <3>1 DEF Kept
      <4> QED BY <3>1, <4>1 DEF Kept
    <3>2. CASE held[s].status # "live"
      BY <1>0, <3>2
    <3> QED BY <3>1, <3>2
  <2>2. Become(h, {})
    BY <1>3 DEF DayPasses
  <2> HIDE DEF new
  <2>3. h \in [TrustIds -> Kept]
    BY <2>1
  <2> HIDE DEF h
  <2> QED BY <2>2, <2>3, BecomeStep
<1>4. ASSUME NEW l \in Logins, LoginFails(l) PROVE TrustInv'
  <2>1. login' = [login EXCEPT ![l] = NoLogin] /\ held' = held
    BY <1>4 DEF LoginFails
  <2>2. \A m \in InFlight' : m \in InFlight /\ login'[m] = login[m]
    BY <2>1 DEF TrustInv, TrustTypeOK, InFlight, NoLogin
  <2>3. Live(held)' = Live(held)
    BY <2>1 DEF Live, WithStatus, AsRead
  <2> QED BY <2>1, <2>2, <2>3 DEF TrustInv, TrustTypeOK, ReadsFollow
<1>5. CASE UNCHANGED trustVars
  <2>1. held' = held /\ login' = login
    BY <1>5 DEF trustVars
  <2> QED BY <2>1 DEF TrustInv, TrustTypeOK, ReadsFollow, InFlight, Live, WithStatus, AsRead
<1> QED
  BY <1>1, <1>2, <1>3, <1>4, <1>5, FindPreviousStep, ReadPreviousStep DEF TrustNext

\* A new session is trusted for the sessions its user had while it was created,
\* however many they are and whatever ends meanwhile (findByUserId,
\* calculateTrustScore).
THEOREM ScoresAreOfTheirTime == TrustSpec => []ScoreOfItsTime
<1>1. TrustInit => TrustInv
  <2> SUFFICES ASSUME TrustInit PROVE TrustInv
    OBVIOUS
  <2>1. NoSession \in Kept
    BY DEF NoSession, Kept
  <2>2. InFlight = {}
    BY DEF TrustInit, InFlight, NoLogin
  <2> QED BY <2>1, <2>2 DEF TrustInit, TrustInv, TrustTypeOK, ReadsFollow
<1>2. TrustInv => ScoreOfItsTime
  <2> SUFFICES ASSUME TrustInv, NEW l \in InFlight, NEW by \in {"entity", "service"},
                      login[l].todo = {}
               PROVE  /\ Score(by, login[l].new, login[l].stayed)
                           <= Score(by, login[l].new, login[l].previous)
                      /\ Score(by, login[l].new, login[l].previous)
                           <= Score(by, login[l].new, login[l].ever)
    BY DEF ScoreOfItsTime
  <2>1. /\ login[l].stayed \subseteq login[l].previous
        /\ login[l].previous \subseteq login[l].ever
    BY DEF TrustInv, ReadsFollow
  <2> QED BY <2>1, ScoreKeepsOrder
<1> QED BY <1>1, <1>2, TrustStep, PTL DEF TrustSpec

-----------------------------------------------------------------------------
(***************************************************************************)
(* Pages of the audit log.  An entry that a reader has not seen is tied    *)
(* with another, or has at least as many entries before it as the pages so *)
(* far can hold; new entries only add to those.                            *)
(***************************************************************************)

LEMMA ProductsGrow ==
  ASSUME NEW a \in Nat, NEW b \in Nat, NEW y \in Nat, a <= b PROVE a * y <= b * y
OBVIOUS

LEMMA Quotient ==
  ASSUME NEW x \in Nat, NEW y \in Nat \ {0}
  PROVE  y * (x \div y) <= x /\ x < y * (x \div y) + y /\ x \div y \in Nat
OBVIOUS

\* There is a next page exactly when this one and those before do not hold all.
LEMMA NextPageNeeded ==
  ASSUME NEW page \in Nat, NEW limit \in Nat \ {0}, NEW total \in Nat
  PROVE  HasNext(page, limit, total) <=> page * limit < total
<1>1. PICK q \in Nat : /\ q = (total + limit - 1) \div limit
                       /\ limit * q <= total + limit - 1 /\ total + limit - 1 < limit * q + limit
  BY Quotient
<1>2. ASSUME page < q PROVE page * limit < total
  <2>1. (page + 1) * limit <= q * limit
    BY <1>2, ProductsGrow
  <2> QED BY <1>1, <2>1
<1>3. ASSUME q <= page PROVE total <= page * limit
  <2>1. q * limit <= page * limit
    BY <1>3, ProductsGrow
  <2> QED BY <1>1, <2>1
<1>4. page * limit \in Nat
  OBVIOUS
<1> QED BY <1>1, <1>2, <1>3, <1>4 DEF HasNext

LEMMA MinOfTwo ==
  ASSUME NEW a \in Int, NEW b \in Int, NEW S, S = {a, b}
  PROVE  Min(S) \in Int /\ (Min(S) = a \/ Min(S) = b) /\ Min(S) <= a /\ Min(S) <= b
<1>1. \E x \in S : \A y \in S : x <= y
  <2>1. CASE a <= b
    BY <2>1
  <2>2. CASE b <= a
    BY <2>2
  <2> QED BY <2>1, <2>2
<1> QED BY <1>1 DEF Min

LEMMA LimitIsPositive == ASSUME NEW limit \in Int PROVE ValidLimit(limit) \in Nat \ {0}
<1>1. PICK m \in Int : m = Min({limit, MaxLimit})
  <2>1. MaxLimit \in Int
    BY PagesAssumption
  <2> QED BY <2>1, MinOfTwo
<1>2. \E x \in {1, m} : \A y \in {1, m} : x >= y
  <2>1. CASE m <= 1
    BY <2>1
  <2>2. CASE 1 <= m
    BY <2>2
  <2> QED BY <2>1, <2>2
<1>3. Max({1, m}) \in {1, m} /\ Max({1, m}) >= 1
  BY <1>2 DEF Max
<1> QED BY <1>1, <1>3 DEF ValidLimit

\* The entries that come before e whatever the database does about ties.
Ahead(e, order) ==
    {f \in Entries : IF order = "desc" THEN trail[f] > trail[e] ELSE trail[f] < trail[e]}
Rank(e, order) == Cardinality(Ahead(e, order))

LEMMA EntriesFinite ==
  ASSUME trail \in Seq(Int)
  PROVE  /\ Entries = 1..Len(trail) /\ Len(trail) \in Nat /\ IsFiniteSet(Entries)
         /\ Cardinality(Entries) = Len(trail)
         /\ \A S \in SUBSET Entries : IsFiniteSet(S) /\ Cardinality(S) \in Nat
                                      /\ Cardinality(S) <= Len(trail)
<1>1. Entries = 1..Len(trail) /\ Len(trail) \in Nat
  BY DEF Entries
<1>2. IsFiniteSet(Entries) /\ Cardinality(Entries) = Len(trail)
  BY <1>1, FS_Interval
<1> QED BY <1>1, <1>2, FS_Subset, FS_CardinalityType

LEMMA ProperSubset ==
  ASSUME NEW S, IsFiniteSet(S), NEW T, T \subseteq S, NEW e \in S, e \notin T
  PROVE  /\ Cardinality(T) \in Nat /\ Cardinality(S) \in Nat
         /\ Cardinality(T) < Cardinality(S)
<1>1. IsFiniteSet(T) /\ Cardinality(T) <= Cardinality(S) /\ Cardinality(T) # Cardinality(S)
  BY FS_Subset
<1> QED BY <1>1, FS_CardinalityType

LEMMA RankIsSmall ==
  ASSUME trail \in Seq(Int), NEW e \in Entries, NEW order
  PROVE  Rank(e, order) \in Nat /\ Rank(e, order) < Len(trail)
<1>1. Ahead(e, order) \subseteq Entries /\ e \notin Ahead(e, order)
  BY EntriesFinite DEF Ahead
<1>2. IsFiniteSet(Entries)
  BY EntriesFinite
<1>3. Cardinality(Ahead(e, order)) < Cardinality(Entries)
  BY <1>1, <1>2, ProperSubset
<1> QED BY <1>1, <1>3, EntriesFinite DEF Rank

\* What a page does not hold of the entries from its offset on comes after it.
LEMMA SliceCovers ==
  ASSUME trail \in Seq(Int), NEW offset \in Nat, NEW limit \in Nat, NEW order,
         NEW slice \in SUBSET Entries, IsSlice(slice, offset, limit, order),
         NEW e \in Entries \ slice, ~ Tied(e), Rank(e, order) >= offset
  PROVE  Rank(e, order) >= offset + limit
<1> PICK n : n = Len(trail)
  OBVIOUS
<1>1. PICK skipped \in kSubset(Min({offset, Cardinality(Entries)}), Entries \ slice) :
        /\ Cardinality(slice) = Min({limit, Cardinality(Entries \ skipped)})
        /\ MayPrecede(skipped, Entries \ skipped, order)
        /\ MayPrecede(slice, Entries \ (skipped \cup slice), order)
  BY DEF IsSlice
<1>2. /\ skipped \subseteq Entries /\ skipped \cap slice = {} /\ n \in Nat
      /\ Cardinality(skipped) = Min({offset, n})
  BY <1>1, EntriesFinite DEF kSubset
<1>3. IsFiniteSet(skipped) /\ IsFiniteSet(slice) /\ IsFiniteSet(Entries)
      /\ IsFiniteSet(Ahead(e, order)) /\ IsFiniteSet(Entries \ skipped)
  BY <1>2, EntriesFinite DEF Ahead
<1>4. PICK s \in Nat, r \in Nat, k \in Nat :
        s = Cardinality(skipped) /\ r = Cardinality(slice) /\ k = Rank(e, order)
  BY <1>3, FS_CardinalityType DEF Rank
<1>5. \A f \in Entries : trail[f] \in Int
  BY EntriesFinite
<1>6. \A f \in Entries \ {e} : trail[f] # trail[e]
  BY DEF Tied
<1>7. (s = offset \/ s = n) /\ s <= offset /\ s <= n
  <2>1. s = Min({offset, n}) /\ offset \in Int /\ n \in Int
    BY <1>2, <1>4
  <2> QED BY <2>1, MinOfTwo
<1>8. e \notin skipped
  <2>1. SUFFICES ASSUME e \in skipped PROVE FALSE
    OBVIOUS
  <2>2. Ahead(e, order) \subseteq skipped
    BY <1>1, <1>2, <1>5, <2>1 DEF Ahead, MayPrecede
  <2>3. e \notin Ahead(e, order)
    BY <1>5 DEF Ahead
  <2>4. Cardinality(Ahead(e, order)) < Cardinality(skipped)
    BY <1>3, <2>1, <2>2, <2>3, ProperSubset
  <2> QED BY <1>4, <1>7, <2>4 DEF Rank
<1>9. skipped \cup slice \subseteq Ahead(e, order)
  <2>1. ASSUME NEW f \in skipped PROVE f \in Ahead(e, order)
    BY <1>1, <1>2, <1>5, <1>6, <1>8 DEF Ahead, MayPrecede
  <2>2. ASSUME NEW f \in slice PROVE f \in Ahead(e, order)
    BY <1>1, <1>5, <1>6, <1>8 DEF Ahead, MayPrecede
  <2> QED BY <2>1, <2>2
<1>10. s + r <= k
  <2>1. Cardinality(skipped \cup slice) = s + r
    <3>1. Cardinality(skipped \cup slice) = s + r - Cardinality(skipped \cap slice)
      BY <1>3, <1>4, FS_Union
    <3>2. Cardinality(skipped \cap slice) = 0
      BY <1>2, FS_EmptySet
    <3> QED BY <3>1, <3>2
  <2>2. Cardinality(skipped \cup slice) <= Cardinality(Ahead(e, order))
    BY <1>3, <1>9, FS_Subset
  <2> QED BY <1>4, <2>1, <2>2 DEF Rank
<1>11. k < n
  BY <1>4, RankIsSmall
<1>12. Cardinality(Entries \ skipped) = n - s
  <2>1. Entries \cap skipped = skipped /\ Cardinality(Entries) = n
    BY <1>2, EntriesFinite
  <2>2. Cardinality(Entries \ skipped) = Cardinality(Entries) - Cardinality(Entries \cap skipped)
    BY <1>3, FS_Difference
  <2> QED BY <1>4, <2>1, <2>2
<1>13. r = limit \/ r = n - s
  <2>1. PICK c : c = Cardinality(Entries \ skipped)
    OBVIOUS
  <2>2. r = Min({limit, c}) /\ limit \in Int /\ c \in Int /\ c = n - s
    BY <1>1, <1>2, <1>4, <1>12, <2>1
  <2> QED BY <2>2, MinOfTwo
<1>14. s = offset /\ r = limit
  BY <1>2, <1>4, <1>7, <1>10, <1>11, <1>13
<1> QED BY <1>4, <1>10, <1>14

\* A page that begins before the end of the log holds a row.
LEMMA SliceHasRows ==
  ASSUME trail \in Seq(Int), NEW offset \in Nat, NEW limit \in Nat \ {0}, NEW order,
         NEW slice \in SUBSET Entries, IsSlice(slice, offset, limit, order), offset < Len(trail)
  PROVE  slice # {}
<1>1. PICK skipped \in kSubset(Min({offset, Cardinality(Entries)}), Entries \ slice) :
        Cardinality(slice) = Min({limit, Cardinality(Entries \ skipped)})
  BY DEF IsSlice
<1>2. /\ skipped \subseteq Entries /\ Len(trail) \in Nat
      /\ Cardinality(skipped) = Min({offset, Len(trail)})
  BY <1>1, EntriesFinite DEF kSubset
<1>3. Cardinality(skipped) = offset
  <2>1. PICK n \in Int : n = Len(trail)
    BY <1>2
  <2>2. PICK S : S = {offset, n}
    OBVIOUS
  <2>3. Cardinality(skipped) = Min(S)
    BY <1>2, <2>1, <2>2
  <2>4. (Min(S) = offset \/ Min(S) = n) /\ Min(S) <= offset /\ Min(S) \in Int
    <3>1. offset \in Int /\ n \in Int
      BY <2>1
    <3> QED BY <2>2, <3>1, MinOfTwo
  <2> QED BY <2>1, <2>3, <2>4
<1>4. Cardinality(Entries \ skipped) = Len(trail) - offset
  <2>1. Entries \cap skipped = skipped /\ Cardinality(Entries) = Len(trail) /\ IsFiniteSet(Entries)
    BY <1>2, EntriesFinite
  <2>2. Cardinality(Entries \ skipped) = Cardinality(Entries) - Cardinality(Entries \cap skipped)
    BY <2>1, FS_Difference
  <2> QED BY <1>3, <2>1, <2>2
<1>5. Cardinality(slice) # 0
  <2>1. PICK c \in Int : c = Cardinality(Entries \ skipped) /\ c > 0
    BY <1>2, <1>4
  <2>2. PICK S : S = {limit, c}
    OBVIOUS
  <2>3. Cardinality(slice) = Min(S)
    BY <1>1, <2>1, <2>2
  <2>4. Min(S) = limit \/ Min(S) = c
    <3>1. limit \in Int /\ c \in Int
      BY <2>1
    <3> QED BY <2>2, <3>1, MinOfTwo
  <2> QED BY <2>1, <2>3, <2>4
<1> QED BY <1>5, FS_EmptySet

PageReader ==
    [at : {"asked", "done"}, by : {"query", "findPaginated"}, order : {"asc", "desc"},
     limit : Nat \ {0}, page : Nat \ {0}, total : Int, rows : SUBSET Nat, answered : BOOLEAN,
     seen : SUBSET Nat, begun : SUBSET Nat]

\* How far down the log the pages answered so far reach.
Covered == IF reader.answered THEN reader.page * reader.limit
           ELSE (reader.page - 1) * reader.limit

Asked ==
    /\ reader.begun \subseteq Entries
    \* An entry that was missed is tied, or its page is still to come: new
    \* entries only push it further down.
    /\ \A e \in reader.begun \ (reader.seen \cup reader.rows), order \in {reader.order} :
         Tied(e) \/ Rank(e, order) >= Covered
    /\ reader.total # Unasked =>
         /\ reader.total \in Nat /\ reader.total <= Len(trail)
         /\ ~ overtaken => reader.total = Len(trail)
    /\ reader.page > 1 => (reader.page - 1) * reader.limit < Len(trail)
    /\ reader.page > 1 /\ reader.answered => reader.rows # {}
    /\ ~ reader.answered => reader.rows = {}

Done ==
    /\ reader.begun \subseteq Entries
    /\ ~ overtaken => \A e \in reader.begun \ reader.seen : Tied(e)

PagesInv ==
    /\ trail \in Seq(Int) /\ overtaken \in BOOLEAN
    /\ reader = [at |-> "idle"] \/ reader \in PageReader
    /\ reader.at = "asked" => Asked
    /\ reader.at = "done" => Done

LEMMA AddEntryStep == ASSUME PagesInv, NEW time \in 0..MaxEntries, AddEntry(time) PROVE PagesInv'
<1>1. /\ trail' = Append(trail, time) /\ time \in Int /\ reader' = reader
      /\ overtaken' = (overtaken \/ (reader.at = "asked" /\ reader.total # Unasked))
  BY PagesAssumption DEF AddEntry
<1>2. trail \in Seq(Int) /\ trail' \in Seq(Int) /\ Len(trail') = Len(trail) + 1 /\ Len(trail) \in Nat
      /\ \A e \in Entries : trail'[e] = trail[e]
  BY <1>1 DEF PagesInv, Entries
<1>3. Entries \subseteq Entries' /\ IsFiniteSet(Entries')
  <2>1. Entries' = 1..Len(trail')
    BY <1>2 DEF Entries
  <2>2. Entries = 1..Len(trail)
    BY <1>2 DEF Entries
  <2>3. IsFiniteSet(1..Len(trail')) /\ 1..Len(trail) \subseteq 1..Len(trail')
    <3>1. Len(trail') \in Int /\ 1 \in Int
      BY <1>2
    <3>2. IsFiniteSet(1..Len(trail'))
      BY <3>1, FS_Interval
    <3>3. 1..Len(trail) \subseteq 1..Len(trail')
      BY <1>2
    <3> QED BY <3>2, <3>3
  <2> QED BY <2>1, <2>2, <2>3
<1>4. \A e \in Entries : Tied(e) => Tied(e)'
  BY <1>2, <1>3 DEF Tied
<1>5. ASSUME NEW e \in Entries, NEW order PROVE Rank(e, order)' >= Rank(e, order)
  <2>1. Ahead(e, order) \subseteq Ahead(e, order)' /\ Ahead(e, order)' \subseteq Entries'
    BY <1>2, <1>3 DEF Ahead
  <2>2. IsFiniteSet(Ahead(e, order)')
    BY <1>3, <2>1, FS_Subset
  <2> QED BY <2>1, <2>2, FS_Subset, FS_CardinalityType DEF Rank
<1>6. ASSUME reader.at = "asked" PROVE Asked'
  <2>1. Asked /\ reader \in PageReader
    BY <1>6 DEF PagesInv
  <2>2. Covered' = Covered /\ Covered \in Int
    BY <1>1, <2>1 DEF Covered, PageReader
  <2>3. ASSUME NEW e \in reader.begun \ (reader.seen \cup reader.rows), NEW order, order = reader.order
        PROVE  Tied(e)' \/ Rank(e, order)' >= Covered'
    <3>1. e \in Entries /\ (Tied(e) \/ Rank(e, order) >= Covered)
      BY <2>1, <2>3 DEF Asked
    <3>2. Rank(e, order)' \in Int /\ Rank(e, order) \in Int
      <4>1. Ahead(e, order)' \subseteq Entries' /\ Ahead(e, order) \subseteq Entries'
        BY <1>1, <1>3 DEF Ahead
      <4>2. IsFiniteSet(Ahead(e, order)') /\ IsFiniteSet(Ahead(e, order))
        BY <1>3, <4>1, FS_Subset
      <4> QED BY <4>2, FS_CardinalityType DEF Rank
    <3>3. Rank(e, order)' >= Rank(e, order)
      BY <1>5, <3>1
    <3> QED BY <1>4, <2>2, <3>1, <3>2, <3>3
  <2>4. reader.begun \subseteq Entries'
    BY <1>3, <2>1 DEF Asked
  <2>5. reader.total # Unasked => /\ reader.total \in Nat /\ reader.total <= Len(trail')
                                  /\ overtaken'
    <3>1. reader.total # Unasked => reader.total \in Nat /\ reader.total <= Len(trail)
      BY <2>1 DEF Asked
    <3>2. reader.total # Unasked => overtaken'
      BY <1>1, <1>6
    <3>3. reader.total # Unasked => reader.total <= Len(trail')
      BY <1>2, <3>1
    <3> QED BY <3>1, <3>2, <3>3
  <2>6. reader.page > 1 => (reader.page - 1) * reader.limit < Len(trail')
    <3>1. PICK start \in Int : start = (reader.page - 1) * reader.limit
      <4>1. reader.page \in Nat /\ reader.limit \in Nat
        BY <2>1 DEF PageReader
      <4> QED BY <4>1
    <3>2. reader.page > 1 => start < Len(trail)
      BY <2>1, <3>1 DEF Asked
    <3>3. reader.page > 1 => start < Len(trail')
      BY <1>2, <3>1, <3>2
    <3> QED BY <3>1, <3>3
  <2> QED BY <1>1, <2>1, <2>3, <2>4, <2>5, <2>6 DEF Asked
<1>7. ASSUME reader.at = "done" PROVE Done'
  BY <1>1, <1>3, <1>4, <1>7 DEF PagesInv, Done
<1> QED BY <1>1, <1>2, <1>6, <1>7 DEF PagesInv

LEMMA ReaderStep ==
  ASSUME PagesInv,
         \/ \E by \in {"query", "findPaginated"}, order \in {"asc", "desc"},
               limit \in AskedLimits : AskFirstPage(by, order, limit)
         \/ CountEntries \/ AnswerPage \/ \E slice \in SUBSET Entries : QueryEntries(slice)
  PROVE  PagesInv'
<1>1. trail \in Seq(Int) /\ Len(trail) \in Nat /\ Entries = 1..Len(trail) /\ overtaken \in BOOLEAN
  BY EntriesFinite DEF PagesInv
<1>2. ASSUME trail' = trail
      PROVE  /\ Entries' = Entries /\ \A e : Tied(e)' <=> Tied(e)
             /\ \A e, order : Rank(e, order)' = Rank(e, order)
  <2>1. \A e, order : Ahead(e, order)' = Ahead(e, order)
    BY <1>2 DEF Ahead, Entries
  <2> QED BY <1>2, <2>1 DEF Entries, Tied, Rank
<1>3. ASSUME NEW by \in {"query", "findPaginated"}, NEW order \in {"asc", "desc"},
             NEW limit \in AskedLimits, AskFirstPage(by, order, limit)
      PROVE  PagesInv'
  <2>1. /\ reader' = [at |-> "asked", by |-> by, order |-> order, limit |-> ValidLimit(limit),
                      page |-> 1, total |-> Unasked, rows |-> {}, answered |-> FALSE,
                      seen |-> {}, begun |-> Entries]
        /\ UNCHANGED <<trail, overtaken>>
    BY <1>3 DEF AskFirstPage
  <2>2. PICK valid \in Nat \ {0} : valid = ValidLimit(limit)
    BY LimitIsPositive, PagesAssumption
  <2>3. /\ reader' \in PageReader /\ reader'.at = "asked" /\ reader'.page = 1
        /\ reader'.limit = valid /\ reader'.rows = {} /\ reader'.seen = {}
        /\ reader'.begun = Entries /\ ~ reader'.answered /\ reader'.total = Unasked
    BY <1>1, <2>1, <2>2 DEF PageReader, Unasked
  <2>4. Covered' = 0
    BY <2>2, <2>3 DEF Covered
  <2>5. ASSUME NEW e \in Entries PROVE Rank(e, order)' >= 0
    <3>1. Rank(e, order) \in Nat
      BY <1>1, RankIsSmall
    <3>2. Rank(e, order)' = Rank(e, order)
      BY <1>2, <2>1
    <3> QED BY <3>1, <3>2
  <2>6. Asked'
    <3>1. reader'.begun \subseteq Entries' /\ reader'.order = order
      BY <1>2, <2>1, <2>3
    <3>2. \A e \in reader'.begun : Rank(e, order)' >= Covered'
      BY <2>3, <2>4, <2>5, <3>1
    <3> QED BY <2>3, <3>1, <3>2 DEF Asked
  <2> QED BY <1>1, <2>1, <2>3, <2>6 DEF PagesInv
<1>4. CASE CountEntries
  <2>1. /\ reader.at = "asked" /\ reader.total = Unasked
        /\ reader' = [reader EXCEPT !.total = Len(trail)] /\ UNCHANGED <<trail, overtaken>>
    BY <1>4 DEF CountEntries
  <2>2. reader \in PageReader /\ Asked
    BY <2>1 DEF PagesInv
  <2>3. /\ reader' \in PageReader /\ reader'.at = "asked" /\ reader'.total = Len(trail)
        /\ reader'.page = reader.page /\ reader'.limit = reader.limit
        /\ reader'.rows = reader.rows /\ reader'.seen = reader.seen
        /\ reader'.begun = reader.begun /\ reader'.answered = reader.answered
        /\ reader'.order = reader.order
    BY <1>1, <2>1, <2>2 DEF PageReader
  <2>4. Covered' = Covered
    BY <2>3 DEF Covered
  <2>5. Asked'
    BY <1>1, <1>2, <2>1, <2>2, <2>3, <2>4 DEF Asked
  <2> QED BY <1>1, <2>1, <2>3, <2>5 DEF PagesInv
<1>5. ASSUME NEW slice \in SUBSET Entries, QueryEntries(slice) PROVE PagesInv'
  <2>1. /\ reader.at = "asked" /\ ~ reader.answered
        /\ IsSlice(slice, CalculateOffset(reader.page, reader.limit), reader.limit, reader.order)
        /\ reader' = [reader EXCEPT !.rows = slice, !.answered = TRUE]
        /\ UNCHANGED <<trail, overtaken>>
    BY <1>5 DEF QueryEntries
  <2>2. reader \in PageReader /\ Asked
    BY <2>1 DEF PagesInv
  <2>3. PICK page \in Nat \ {0}, limit \in Nat \ {0}, order \in {reader.order} :
          page = reader.page /\ limit = reader.limit /\ order = reader.order
    BY <2>2 DEF PageReader
  <2>4. /\ reader' \in PageReader /\ reader'.at = "asked" /\ reader'.total = reader.total
        /\ reader'.page = page /\ reader'.limit = limit
        /\ reader'.rows = slice /\ reader'.seen = reader.seen
        /\ reader'.begun = reader.begun /\ reader'.answered /\ reader'.order = order
    <3>1. slice \in SUBSET Nat
      BY <1>1
    <3> QED BY <2>1, <2>2, <2>3, <3>1 DEF PageReader
  <2>5. PICK offset \in Nat : /\ offset = (page - 1) * limit /\ offset + limit = page * limit
                              /\ Covered = offset /\ Covered' = offset + limit
    <3>1. (page - 1) * limit \in Nat /\ (page - 1) * limit + limit = page * limit
      OBVIOUS
    <3> QED BY <2>1, <2>3, <2>4, <3>1 DEF Covered
  <2>6. IsSlice(slice, offset, limit, order)
    BY <2>1, <2>3, <2>5 DEF CalculateOffset
  <2>7. ASSUME NEW e \in reader.begun \ (reader.seen \cup slice)
        PROVE  Tied(e) \/ Rank(e, order) >= offset + limit
    <3>1. reader.rows = {}
      BY <2>1, <2>2 DEF Asked
    <3>2. e \in Entries \ slice /\ e \notin reader.seen
      BY <2>2 DEF Asked
    <3>3. Tied(e) \/ Rank(e, order) >= offset
      BY <2>2, <2>3, <2>5, <3>1, <3>2 DEF Asked
    <3> QED BY <1>1, <2>6, <3>2, <3>3, SliceCovers
  <2>8. page > 1 => slice # {}
    BY <1>1, <2>2, <2>3, <2>5, <2>6, SliceHasRows DEF Asked
  <2>9. \A e \in reader'.begun \ (reader'.seen \cup reader'.rows) :
          Tied(e)' \/ Rank(e, order)' >= Covered'
    BY <1>2, <2>1, <2>4, <2>5, <2>7
  <2>10. Asked'
    BY <1>2, <2>1, <2>2, <2>3, <2>4, <2>8, <2>9 DEF Asked
  <2> QED BY <1>1, <2>1, <2>4, <2>10 DEF PagesInv
<1>6. CASE AnswerPage
  <2>1. /\ reader.at = "asked" /\ reader.answered /\ reader.total # Unasked /\ trail' = trail
    BY <1>6 DEF AnswerPage
  <2>2. reader \in PageReader /\ Asked
    BY <2>1 DEF PagesInv
  <2>3. PICK page \in Nat \ {0}, limit \in Nat \ {0}, total \in Nat :
          page = reader.page /\ limit = reader.limit /\ total = reader.total
    BY <2>1, <2>2 DEF PageReader, Asked
  <2>4. Covered = page * limit /\ page * limit \in Nat
    BY <2>1, <2>3 DEF Covered
  <2>5. CASE HasNext(page, limit, total)
    <3> PICK seen : seen = reader.seen \cup reader.rows
      OBVIOUS
    <3>1. /\ reader' = [reader EXCEPT !.page = page + 1, !.total = Unasked, !.rows = {},
                                      !.answered = FALSE, !.seen = seen]
          /\ overtaken' = FALSE
      BY <1>6, <2>3, <2>5 DEF AnswerPage
    <3>2. /\ reader' \in PageReader /\ reader'.at = "asked" /\ reader'.total = Unasked
          /\ reader'.page = page + 1 /\ reader'.limit = limit /\ reader'.rows = {}
          /\ reader'.seen = reader.seen \cup reader.rows
          /\ reader'.begun = reader.begun /\ ~ reader'.answered /\ reader'.order = reader.order
      <4>1. seen \in SUBSET Nat /\ page + 1 \in Nat \ {0} /\ Unasked \in Int
        BY <2>2 DEF PageReader, Unasked
      <4>2. reader' \in PageReader
        BY <2>2, <3>1, <4>1 DEF PageReader
      <4>3. {} \in SUBSET Nat /\ DOMAIN reader = {"at", "by", "order", "limit", "page", "total",
                                                 "rows", "answered", "seen", "begun"}
        BY <2>2 DEF PageReader
      <4>4. /\ reader'.at = reader.at /\ reader'.total = Unasked /\ reader'.page = page + 1
            /\ reader'.limit = reader.limit
        BY <3>1, <4>3
      <4>5. /\ reader'.rows = {} /\ reader'.seen = seen /\ reader'.begun = reader.begun
            /\ reader'.answered = FALSE /\ reader'.order = reader.order
        BY <3>1, <4>3
      <4> QED BY <2>1, <2>3, <4>2, <4>4, <4>5
    <3>3. Covered' = page * limit
      BY <3>2 DEF Covered
    <3>4. page * limit < Len(trail)
      BY <1>1, <2>1, <2>2, <2>3, <2>4, <2>5, NextPageNeeded DEF Asked
    <3> PICK order : order = reader.order
      OBVIOUS
    <3>5. \A e \in reader'.begun \ (reader'.seen \cup reader'.rows) :
            Tied(e)' \/ Rank(e, order)' >= Covered'
      <4>2. \A e \in reader.begun \ (reader.seen \cup reader.rows) :
              Tied(e) \/ Rank(e, order) >= page * limit
        BY <2>2, <2>4 DEF Asked
      <4>3. \A e \in reader.begun \ (reader.seen \cup reader.rows) :
              Tied(e)' \/ Rank(e, order)' >= page * limit
        BY <1>2, <2>1, <4>2
      <4> QED BY <3>2, <3>3, <4>3
    <3>6. Asked'
      <4>1. reader'.page > 1 => (reader'.page - 1) * reader'.limit < Len(trail')
        BY <2>1, <2>3, <3>2, <3>4
      <4>2. reader'.begun \subseteq Entries'
        BY <1>2, <2>1, <2>2, <3>2 DEF Asked
      <4> QED BY <3>2, <3>5, <4>1, <4>2 DEF Asked
    <3> QED BY <1>1, <2>1, <3>1, <3>2, <3>6 DEF PagesInv
  <2>6. CASE ~ HasNext(page, limit, total)
    <3>1. reader' = [reader EXCEPT !.at = "done", !.seen = @ \cup reader.rows]
          /\ overtaken' = overtaken
      BY <1>6, <2>3, <2>6 DEF AnswerPage
    <3>2. /\ reader' \in PageReader /\ reader'.at = "done" /\ reader'.begun = reader.begun
          /\ reader'.seen = reader.seen \cup reader.rows
      BY <2>2, <3>1 DEF PageReader
    <3>3. ASSUME ~ overtaken, NEW e \in reader.begun \ (reader.seen \cup reader.rows) PROVE Tied(e)
      <4>1. e \in Entries /\ (Tied(e) \/ Rank(e, reader.order) >= page * limit)
        BY <2>2, <2>4 DEF Asked
      <4>2. Len(trail) <= page * limit
        BY <2>1, <2>2, <2>3, <2>4, <2>6, <3>3, NextPageNeeded DEF Asked
      <4>3. Rank(e, reader.order) \in Nat /\ Rank(e, reader.order) < Len(trail)
        BY <1>1, <4>1, RankIsSmall
      <4> QED BY <1>1, <2>4, <4>1, <4>2, <4>3
    <3>4. Done'
      BY <1>2, <2>1, <2>2, <3>1, <3>2, <3>3 DEF Done, Asked
    <3> QED BY <1>1, <2>1, <3>1, <3>2, <3>4 DEF PagesInv
  <2> QED BY <2>5, <2>6
<1> QED BY <1>3, <1>4, <1>5, <1>6

\* However many entries are added while a reader goes from page to page: it gets
\* to the end without an empty page, and has then seen every entry that was
\* there when it began, those of one instant excepted and unless an insert fell
\* between the count and the rows of the last page (PaginationHelper).
THEOREM PagesAreComplete == PagesSpec => []PagesComplete
<1>1. PagesInit => PagesInv
  <2>1. <<>> \in Seq(Int) /\ [at |-> "idle"].at = "idle"
    OBVIOUS
  <2>2. PagesInit => reader.at = "idle"
    BY DEF PagesInit
  <2> QED BY <2>1, <2>2 DEF PagesInit, PagesInv
<1>2. PagesInv /\ [PagesNext]_pageVars => PagesInv'
  <2> SUFFICES ASSUME PagesInv, [PagesNext]_pageVars PROVE PagesInv'
    OBVIOUS
  <2>1. CASE UNCHANGED pageVars
    <3>1. UNCHANGED <<trail, reader, overtaken>>
      BY <2>1 DEF pageVars
    <3>2. \A e, order : Ahead(e, order)' = Ahead(e, order)
      BY <3>1 DEF Ahead, Entries
    <3>3. \A e, order : Rank(e, order)' = Rank(e, order) /\ (Tied(e)' <=> Tied(e))
      BY <3>1, <3>2 DEF Rank, Tied, Entries
    <3>4. (Asked' <=> Asked) /\ (Done' <=> Done)
      BY <3>1, <3>3 DEF Asked, Done, Covered, Entries
    <3> QED BY <3>1, <3>4 DEF PagesInv
  <2>2. CASE PagesNext
    BY <2>2, AddEntryStep, ReaderStep DEF PagesNext
  <2> QED BY <2>1, <2>2
<1>3. PagesInv => PagesComplete
  BY DEF PagesInv, PagesComplete, ReaderSeesAll, NextPageHasRows, Asked, Done
<1> QED BY <1>1, <1>2, <1>3, PTL DEF PagesSpec

-----------------------------------------------------------------------------
(***************************************************************************)
(* Devices.  As long as nobody wrote the device since it was read, a       *)
(* request's copy takes nothing back from the row.                         *)
(***************************************************************************)

DeviceRequest ==
    [op : {"idle", "create", "seen", "trust", "remove"}, user : Owners \cup {NoDevice},
     machine : Machines \cup {NoDevice}, id : DeviceIds \cup {NoDevice},
     copy : Device \cup {NoDevice}, current : BOOLEAN]

\* What a request has read: the day is that of the request, and as long as
\* nobody wrote the device since, the copy takes nothing back.
CopyOK(r) ==
    /\ dreq[r].op # "idle" => dreq[r].copy \in Device
    /\ dreq[r].op \in {"seen", "trust", "remove"} => dreq[r].id \in issued
    /\ dreq[r].op \notin {"seen", "trust", "remove"} => dreq[r].id = NoDevice
    /\ dreq[r].op \in {"seen", "create"} => dreq[r].copy.seen = day
    /\ dreq[r].op = "create" => ~ dreq[r].copy.trusted
    /\ dreq[r].op = "trust" => dreq[r].copy.trusted /\ dreq[r].id \in trustAsked
    /\ dreq[r].op \in {"seen", "trust"} =>
         /\ dreq[r].copy.trusted => dreq[r].id \in trustAsked
         /\ dreq[r].copy.seen <= day
         /\ dreq[r].current /\ dreq[r].id \in Present =>
              /\ rows[dreq[r].id].trusted => dreq[r].copy.trusted
              /\ rows[dreq[r].id].seen <= dreq[r].copy.seen

RowOK(d) ==
    /\ d \in issued
    /\ rows[d].seen <= day
    /\ rows[d].trusted => d \in trustAsked
    /\ d \in trustAnswered \ overwritten => rows[d].trusted
    /\ d \notin overwritten => lastUse[d] <= rows[d].seen

DeviceTypes ==
    /\ day \in 0..MaxDay
    /\ rows \in [DeviceIds -> Device \cup {NoDevice}]
    /\ issued \subseteq DeviceIds
    /\ dreq \in [DeviceRequests -> DeviceRequest]
    /\ trustAnswered \subseteq issued
    /\ lastUse \in [DeviceIds -> 0..MaxDay]

DevicesInv ==
    /\ DeviceTypes
    /\ \A r \in DeviceRequests : CopyOK(r)
    /\ \A d \in Present : RowOK(d)

\* What a request that finds device d makes of it.
Finds(r, op, user, d, copy) ==
    /\ op \in {"seen", "trust", "remove"} /\ user \in Owners \cup {NoDevice}
    /\ ReadDevice(r, op, user, d, copy)
    /\ op = "seen" => copy.seen = day
    /\ op = "trust" => copy.trusted
    /\ copy.trusted => rows[d].trusted \/ (op = "trust" /\ d \in trustAsked')
    /\ rows[d].trusted => copy.trusted
    /\ rows[d].seen <= copy.seen /\ copy.seen <= day
    /\ trustAsked \subseteq trustAsked'
    /\ UNCHANGED <<day, rows, issued, trustAnswered, lastUse, overwritten>>

LEMMA FindStep ==
  ASSUME DevicesInv, NEW r \in DeviceRequests, NEW d \in Present, NEW op, NEW user,
         NEW copy \in Device, Finds(r, op, user, d, copy)
  PROVE  DevicesInv' /\ UNCHANGED rows
<1>0. /\ op \in {"seen", "trust", "remove"} /\ user \in Owners \cup {NoDevice}
      /\ ReadDevice(r, op, user, d, copy)
      /\ (op = "seen" => copy.seen = day) /\ (op = "trust" => copy.trusted)
      /\ (copy.trusted => rows[d].trusted \/ (op = "trust" /\ d \in trustAsked'))
      /\ (rows[d].trusted => copy.trusted)
      /\ rows[d].seen <= copy.seen /\ copy.seen <= day
      /\ trustAsked \subseteq trustAsked'
      /\ UNCHANGED <<day, rows, issued, trustAnswered, lastUse, overwritten>>
  BY DEF Finds
<1>1. PICK machine \in Machines, row \in Device :
        machine = rows[d].machine /\ row = rows[d] /\ d \in DeviceIds /\ RowOK(d)
  BY DEF Present, DevicesInv, DeviceTypes, Device
<1>2. PICK req \in DeviceRequest :
        /\ req = [op |-> op, user |-> user, machine |-> machine, id |-> d, copy |-> copy,
                  current |-> TRUE]
        /\ dreq' = [dreq EXCEPT ![r] = req]
  BY <1>0, <1>1 DEF ReadDevice, DeviceRequest
<1>3. DeviceTypes' /\ dreq \in [DeviceRequests -> DeviceRequest]
  BY <1>0, <1>2 DEF DevicesInv, DeviceTypes
<1>4. Present' = Present /\ day' = day /\ issued' = issued /\ rows' = rows
  BY <1>0 DEF Present
<1>5. ASSUME NEW q \in DeviceRequests PROVE CopyOK(q)'
  <2>1. CASE q = r
    <3>1. dreq'[q] = req /\ req.op = op /\ req.id = d /\ req.copy = copy
      BY <1>2, <1>3, <2>1
    <3>2. copy.trusted => d \in trustAsked'
      BY <1>0, <1>1 DEF RowOK
    <3>3. d \in issued
      BY <1>1 DEF RowOK
    <3> QED BY <1>0, <1>4, <3>1, <3>2, <3>3 DEF CopyOK
  <2>2. CASE q # r
    <3>1. dreq'[q] = dreq[q]
      BY <1>2, <1>3, <2>2
    <3>2. CopyOK(q)
      BY DEF DevicesInv
    <3> QED BY <1>0, <1>4, <3>1, <3>2 DEF CopyOK
  <2> QED BY <2>1, <2>2
<1>6. ASSUME NEW e \in Present PROVE RowOK(e)'
  <2>1. RowOK(e)
    BY DEF DevicesInv
  <2> QED BY <1>0, <1>4, <2>1 DEF RowOK
<1> QED BY <1>3, <1>4, <1>5, <1>6 DEF DevicesInv

LEMMA ReadDeviceStep ==
  ASSUME DevicesInv, NEW r \in DeviceRequests,
         \/ \E u \in Owners, d \in Present :
              RegisterFinds(r, u, d) \/ FindForTrust(r, u, d) \/ FindForRemoval(r, u, d)
         \/ \E d \in Present : FindForLastSeen(r, d)
  PROVE  DevicesInv' /\ UNCHANGED rows
<1>1. PICK d \in Present : \/ \E u \in Owners : \/ RegisterFinds(r, u, d) \/ FindForTrust(r, u, d)
                                               \/ FindForRemoval(r, u, d)
                           \/ FindForLastSeen(r, d)
  OBVIOUS
<1>2. rows[d] \in Device /\ rows[d].seen <= day /\ day \in 0..MaxDay /\ day \in Int /\ d \in DeviceIds
  BY DevicesAssumption DEF DevicesInv, DeviceTypes, Present, RowOK
<1>3. PICK row \in Device : row = rows[d]
  BY <1>2
<1>4. PICK touched \in Device : /\ touched = [row EXCEPT !.seen = day]
                                /\ touched.seen = day /\ touched.trusted = row.trusted
  <2>1. [row EXCEPT !.seen = day] \in Device
    BY <1>2 DEF Device
  <2> QED BY <2>1 DEF Device
<1>5. PICK trusted \in Device : /\ trusted = [row EXCEPT !.trusted = TRUE]
                                /\ trusted.seen = row.seen /\ trusted.trusted
  <2>1. [row EXCEPT !.trusted = TRUE] \in Device
    BY DEF Device
  <2> QED BY <2>1 DEF Device
<1>6. row.seen \in Int
  BY DEF Device
<1>7. ASSUME NEW u \in Owners, RegisterFinds(r, u, d) PROVE DevicesInv' /\ UNCHANGED rows
  <2>1. ReadDevice(r, "seen", u, d, touched)
        /\ UNCHANGED <<day, rows, issued, trustAsked, trustAnswered, lastUse, overwritten>>
    BY <1>3, <1>4, <1>7 DEF RegisterFinds
  <2>2. Finds(r, "seen", u, d, touched)
    BY <1>2, <1>3, <1>4, <1>6, <2>1 DEF Finds
  <2> QED BY <2>2, FindStep
<1>8. ASSUME NEW u \in Owners, FindForTrust(r, u, d) PROVE DevicesInv' /\ UNCHANGED rows
  <2>1. /\ ReadDevice(r, "trust", u, d, trusted) /\ trustAsked' = trustAsked \cup {d}
        /\ UNCHANGED <<day, rows, issued, trustAnswered, lastUse, overwritten>>
    BY <1>3, <1>5, <1>8 DEF FindForTrust, AskTrust
  <2>2. Finds(r, "trust", u, d, trusted)
    BY <1>2, <1>3, <1>5, <1>6, <2>1 DEF Finds
  <2> QED BY <2>2, FindStep
<1>9. ASSUME NEW u \in Owners, FindForRemoval(r, u, d) PROVE DevicesInv' /\ UNCHANGED rows
  <2>1. ReadDevice(r, "remove", u, d, row)
        /\ UNCHANGED <<day, rows, issued, trustAsked, trustAnswered, lastUse, overwritten>>
    BY <1>3, <1>9 DEF FindForRemoval
  <2>2. Finds(r, "remove", u, d, row)
    BY <1>2, <1>3, <1>6, <2>1 DEF Finds
  <2> QED BY <2>2, FindStep
<1>10. ASSUME FindForLastSeen(r, d) PROVE DevicesInv' /\ UNCHANGED rows
  <2>1. ReadDevice(r, "seen", NoDevice, d, touched)
        /\ UNCHANGED <<day, rows, issued, trustAsked, trustAnswered, lastUse, overwritten>>
    BY <1>3, <1>4, <1>10 DEF FindForLastSeen
  <2>2. Finds(r, "seen", NoDevice, d, touched)
    BY <1>2, <1>3, <1>4, <1>6, <2>1 DEF Finds
  <2> QED BY <2>2, FindStep
<1> QED BY <1>1, <1>7, <1>8, <1>9, <1>10

LEMMA RegisterNewStep ==
  ASSUME DevicesInv, NEW r \in DeviceRequests, NEW u \in Owners, NEW m \in Machines,
         RegisterNew(r, u, m)
  PROVE  DevicesInv' /\ UNCHANGED rows
<1>1. PICK copy \in Device :
        copy = [user |-> u, machine |-> m, trusted |-> FALSE, seen |-> day]
        /\ copy.seen = day /\ copy.trusted = FALSE
  <2>1. [user |-> u, machine |-> m, trusted |-> FALSE, seen |-> day] \in Device
    BY DEF DevicesInv, DeviceTypes, Device
  <2> QED BY <2>1
<1>2. PICK req \in DeviceRequest :
        /\ req = [op |-> "create", user |-> u, machine |-> m, id |-> NoDevice, copy |-> copy,
                  current |-> TRUE]
        /\ dreq' = [dreq EXCEPT ![r] = req]
  BY <1>1 DEF RegisterNew, DeviceRequest
<1>3. UNCHANGED <<day, rows, issued, trustAsked, trustAnswered, lastUse, overwritten>>
  BY DEF RegisterNew
<1>4. DeviceTypes' /\ dreq \in [DeviceRequests -> DeviceRequest]
  BY <1>2, <1>3 DEF DevicesInv, DeviceTypes
<1>5. ASSUME NEW q \in DeviceRequests PROVE CopyOK(q)'
  <2>1. CASE q = r
    <3>1. dreq'[q] = req /\ req.op = "create" /\ req.id = NoDevice /\ req.copy = copy
      BY <1>2, <1>4, <2>1
    <3> QED BY <1>1, <1>3, <3>1 DEF CopyOK
  <2>2. CASE q # r
    <3>1. dreq'[q] = dreq[q]
      BY <1>2, <1>4, <2>2
    <3>2. CopyOK(q)
      BY DEF DevicesInv
    <3> QED BY <1>3, <3>1, <3>2 DEF CopyOK, Present
  <2> QED BY <2>1, <2>2
<1>6. ASSUME NEW e \in Present PROVE RowOK(e)'
  <2>1. RowOK(e)
    BY DEF DevicesInv
  <2> QED BY <1>3, <2>1 DEF RowOK
<1> QED BY <1>3, <1>4, <1>5, <1>6 DEF DevicesInv, Present

LEMMA IdleIsRequest == IdleDevice \in DeviceRequest /\ IdleDevice.op = "idle"
                       /\ IdleDevice.id = NoDevice
BY DEF IdleDevice, DeviceRequest

\* When r is done, the others keep what they read, marked if d was written.
LEMMA WrittenStep ==
  ASSUME DevicesInv, NEW r \in DeviceRequests, NEW d, Written(r, d)
  PROVE  /\ dreq' \in [DeviceRequests -> DeviceRequest]
         /\ dreq'[r].op = "idle" /\ dreq'[r].id = NoDevice
         /\ \A q \in DeviceRequests \ {r} :
              /\ dreq'[q].op = dreq[q].op /\ dreq'[q].id = dreq[q].id
              /\ dreq'[q].copy = dreq[q].copy
              /\ dreq'[q].current => dreq[q].current /\ dreq[q].id # d
<1>1. dreq \in [DeviceRequests -> DeviceRequest]
  BY DEF DevicesInv, DeviceTypes
<1>2. ASSUME NEW q \in DeviceRequests
      PROVE  /\ [dreq[q] EXCEPT !.current = FALSE] \in DeviceRequest
             /\ [dreq[q] EXCEPT !.current = FALSE].op = dreq[q].op
             /\ [dreq[q] EXCEPT !.current = FALSE].id = dreq[q].id
             /\ [dreq[q] EXCEPT !.current = FALSE].copy = dreq[q].copy
             /\ [dreq[q] EXCEPT !.current = FALSE].current = FALSE
  BY <1>1 DEF DeviceRequest
<1>3. ASSUME NEW q \in DeviceRequests
      PROVE  dreq'[q] = IF q = r THEN IdleDevice
                        ELSE IF dreq[q].id = d THEN [dreq[q] EXCEPT !.current = FALSE]
                        ELSE dreq[q]
  BY DEF Written
<1>4. \A q \in DeviceRequests : dreq'[q] \in DeviceRequest
  BY <1>1, <1>2, <1>3, IdleIsRequest
<1>5. dreq' \in [DeviceRequests -> DeviceRequest]
  BY <1>4 DEF Written
<1>6. dreq'[r].op = "idle" /\ dreq'[r].id = NoDevice
  BY <1>3, IdleIsRequest
<1>7. ASSUME NEW q \in DeviceRequests \ {r}
      PROVE  /\ dreq'[q].op = dreq[q].op /\ dreq'[q].id = dreq[q].id
             /\ dreq'[q].copy = dreq[q].copy
             /\ dreq'[q].current => dreq[q].current /\ dreq[q].id # d
  BY <1>2, <1>3
<1> QED BY <1>5, <1>6, <1>7

LEMMA UpdateStep ==
  ASSUME DevicesInv, NEW r \in DeviceRequests, UpdateDevice(r)
  PROVE  DevicesInv' /\ \A d \in Present : rows'[d] # NoDevice
<1>1. PICK d \in Present, copy \in Device :
        /\ d = dreq[r].id /\ copy = dreq[r].copy /\ dreq[r].op \in {"seen", "trust"}
        /\ rows' = [rows EXCEPT ![d] = copy] /\ Written(r, d)
        /\ overwritten' = IF dreq[r].current THEN overwritten ELSE overwritten \cup {d}
        /\ trustAnswered' = IF dreq[r].op = "trust" THEN trustAnswered \cup {d} ELSE trustAnswered
        /\ lastUse' = IF dreq[r].op = "seen" THEN [lastUse EXCEPT ![d] = day] ELSE lastUse
        /\ UNCHANGED <<day, issued, trustAsked>>
  BY DEF UpdateDevice, DevicesInv, CopyOK
<1>2. CopyOK(r) /\ RowOK(d) /\ DeviceTypes /\ d \in DeviceIds /\ rows[d] \in Device
  BY <1>1 DEF DevicesInv, Present, DeviceTypes
<1>3. copy # NoDevice
  BY DevicesAssumption
<1>4. /\ rows' \in [DeviceIds -> Device \cup {NoDevice}] /\ rows'[d] = copy
      /\ \A e \in DeviceIds \ {d} : rows'[e] = rows[e]
      /\ Present' = Present
  BY <1>1, <1>2, <1>3 DEF DeviceTypes, Present
<1>5. /\ lastUse' \in [DeviceIds -> 0..MaxDay]
      /\ lastUse'[d] = IF dreq[r].op = "seen" THEN day ELSE lastUse[d]
      /\ \A e \in DeviceIds \ {d} : lastUse'[e] = lastUse[e]
  BY <1>1, <1>2 DEF DeviceTypes
<1>6. DeviceTypes'
  BY <1>1, <1>2, <1>4, <1>5, WrittenStep DEF DeviceTypes, RowOK
<1>7. ASSUME NEW q \in DeviceRequests PROVE CopyOK(q)'
  <2>1. CASE q = r
    BY <1>1, <2>1, WrittenStep DEF CopyOK
  <2>2. CASE q # r
    <3>1. /\ dreq'[q].op = dreq[q].op /\ dreq'[q].id = dreq[q].id
          /\ dreq'[q].copy = dreq[q].copy
          /\ dreq'[q].current => dreq[q].current /\ dreq[q].id # d
      BY <1>1, <2>2, WrittenStep
    <3>2. CopyOK(q)
      BY DEF DevicesInv
    <3>3. dreq'[q].current /\ dreq'[q].id \in Present' =>
            rows'[dreq'[q].id] = rows[dreq[q].id] /\ dreq[q].id \in Present /\ dreq[q].current
      BY <1>4, <3>1 DEF Present
    <3> QED BY <1>1, <3>1, <3>2, <3>3 DEF CopyOK
  <2> QED BY <2>1, <2>2
<1>8. ASSUME NEW e \in Present PROVE RowOK(e)'
  <2>1. CASE e = d
    <3>1. copy.seen <= day /\ (copy.trusted => d \in trustAsked) /\ copy.seen \in Int
          /\ (dreq[r].op = "seen" => copy.seen = day)
      BY <1>1, <1>2 DEF CopyOK, Device
    <3>2. d \in trustAnswered' \ overwritten' => copy.trusted
      BY <1>1, <1>2 DEF CopyOK, RowOK
    <3>3. d \notin overwritten' => lastUse'[d] <= copy.seen
      <4>1. lastUse[d] \in Int /\ rows[d].seen \in Int /\ day \in Int
        BY <1>2 DEF DeviceTypes, Device
      <4>2. d \notin overwritten' => dreq[r].current /\ d \notin overwritten
        BY <1>1
      <4>3. dreq[r].current => rows[d].seen <= copy.seen
        BY <1>1, <1>2 DEF CopyOK
      <4> QED BY <1>2, <1>5, <3>1, <4>1, <4>2, <4>3 DEF RowOK
    <3> QED BY <1>1, <1>2, <1>4, <2>1, <3>1, <3>2, <3>3 DEF RowOK
  <2>2. CASE e # d
    <3>1. RowOK(e) /\ e \in DeviceIds
      BY DEF DevicesInv, Present
    <3> QED BY <1>1, <1>4, <1>5, <2>2, <3>1 DEF RowOK
  <2> QED BY <2>1, <2>2
<1> QED BY <1>4, <1>6, <1>7, <1>8 DEF DevicesInv, Present

LEMMA CreateStep ==
  ASSUME DevicesInv, NEW r \in DeviceRequests, NEW d \in DeviceIds, CreateDevice(r, d)
  PROVE  DevicesInv' /\ \A e \in Present : rows'[e] # NoDevice
<1>1. PICK copy \in Device :
        /\ copy = dreq[r].copy /\ d \notin issued /\ dreq[r].op = "create"
        /\ rows' = [rows EXCEPT ![d] = copy] /\ issued' = issued \cup {d}
        /\ lastUse' = [lastUse EXCEPT ![d] = day] /\ Written(r, d)
        /\ UNCHANGED <<day, trustAsked, trustAnswered, overwritten>>
  BY DEF CreateDevice, DevicesInv, CopyOK
<1>2. CopyOK(r) /\ DeviceTypes /\ d \notin Present
  BY <1>1 DEF DevicesInv, RowOK
<1>3. copy # NoDevice
  BY DevicesAssumption
<1>4. /\ rows' \in [DeviceIds -> Device \cup {NoDevice}] /\ rows'[d] = copy
      /\ \A e \in DeviceIds \ {d} : rows'[e] = rows[e]
      /\ Present' = Present \cup {d}
  BY <1>1, <1>2, <1>3 DEF DeviceTypes, Present
<1>5. /\ lastUse' \in [DeviceIds -> 0..MaxDay] /\ lastUse'[d] = day
      /\ \A e \in DeviceIds \ {d} : lastUse'[e] = lastUse[e]
  BY <1>1, <1>2 DEF DeviceTypes
<1>6. DeviceTypes'
  BY <1>1, <1>2, <1>4, <1>5, WrittenStep DEF DeviceTypes
<1>7. ASSUME NEW q \in DeviceRequests PROVE CopyOK(q)'
  <2>1. CASE q = r
    BY <1>1, <2>1, WrittenStep DEF CopyOK
  <2>2. CASE q # r
    <3>1. /\ dreq'[q].op = dreq[q].op /\ dreq'[q].id = dreq[q].id
          /\ dreq'[q].copy = dreq[q].copy
          /\ dreq'[q].current => dreq[q].current /\ dreq[q].id # d
      BY <1>1, <2>2, WrittenStep
    <3>2. CopyOK(q)
      BY DEF DevicesInv
    <3>3. dreq'[q].current /\ dreq'[q].id \in Present' =>
            rows'[dreq'[q].id] = rows[dreq[q].id] /\ dreq[q].id \in Present /\ dreq[q].current
      BY <1>4, <3>1 DEF Present
    <3> QED BY <1>1, <3>1, <3>2, <3>3 DEF CopyOK
  <2> QED BY <2>1, <2>2
<1>8. ASSUME NEW e \in Present' PROVE RowOK(e)'
  <2>1. CASE e = d
    <3>1. copy.seen = day /\ ~ copy.trusted /\ day \in Int /\ d \notin trustAnswered
      BY <1>1, <1>2 DEF CopyOK, DeviceTypes
    <3> QED BY <1>1, <1>4, <1>5, <2>1, <3>1 DEF RowOK
  <2>2. CASE e # d
    <3>1. RowOK(e) /\ e \in DeviceIds
      BY <1>4, <2>2 DEF DevicesInv, Present
    <3> QED BY <1>1, <1>4, <1>5, <2>2, <3>1 DEF RowOK
  <2> QED BY <2>1, <2>2
<1>9. \A e \in Present : rows'[e] # NoDevice
  BY <1>4 DEF Present
<1> QED BY <1>6, <1>7, <1>8, <1>9 DEF DevicesInv

\* Devices that go away, one or several, leave the rest as it was.
LEMMA RemovalStep ==
  ASSUME DevicesInv, NEW gone \in SUBSET Present,
         rows' = [d \in DeviceIds |-> IF d \in gone THEN NoDevice ELSE rows[d]],
         \/ dreq' = dreq
         \/ \E r \in DeviceRequests : Written(r, NoDevice),
         UNCHANGED <<day, issued, trustAsked, trustAnswered, lastUse, overwritten>>
  PROVE  DevicesInv'
<1>1. DeviceTypes
  BY DEF DevicesInv
<1>2. Present' = Present \ gone /\ \A e \in Present' : rows'[e] = rows[e]
  BY DEF Present
<1>3. dreq' \in [DeviceRequests -> DeviceRequest]
  BY <1>1, WrittenStep DEF DeviceTypes
<1>4. DeviceTypes'
  BY <1>1, <1>3 DEF DeviceTypes
<1>5. ASSUME NEW q \in DeviceRequests PROVE CopyOK(q)'
  <2>1. \/ dreq'[q].op = "idle" /\ dreq'[q].id = NoDevice
        \/ /\ dreq'[q].op = dreq[q].op /\ dreq'[q].id = dreq[q].id
           /\ dreq'[q].copy = dreq[q].copy /\ (dreq'[q].current => dreq[q].current)
    BY WrittenStep
  <2>2. CopyOK(q)
    BY DEF DevicesInv
  <2> QED BY <1>2, <2>1, <2>2 DEF CopyOK
<1>6. ASSUME NEW e \in Present' PROVE RowOK(e)'
  <2>1. RowOK(e)
    BY <1>2 DEF DevicesInv
  <2> QED BY <1>2, <2>1 DEF RowOK
<1> QED BY <1>4, <1>5, <1>6 DEF DevicesInv

LEMMA DeviceGoneStep ==
  ASSUME DevicesInv,
         CleanupUnusedDevices \/ \E r \in DeviceRequests : DeleteDevice(r) \/ DeviceThrows(r)
  PROVE  DevicesInv' /\ CleanupSparesUsed
<1>1. rows \in [DeviceIds -> Device \cup {NoDevice}]
  BY DEF DevicesInv, DeviceTypes
<1>2. CASE CleanupUnusedDevices
  <2>1. PICK gone \in SUBSET Present :
          gone = {d \in Present : rows[d].seen + UnusedDays < day}
    OBVIOUS
  <2>2. rows' = [d \in DeviceIds |-> IF d \in gone THEN NoDevice ELSE rows[d]]
    BY <1>2, <2>1 DEF CleanupUnusedDevices
  <2>3. DevicesInv'
    BY <1>2, <2>1, <2>2, RemovalStep DEF CleanupUnusedDevices
  <2>4. ASSUME NEW d \in Present, rows'[d] = NoDevice
        PROVE  lastUse[d] + UnusedDays < day \/ d \in overwritten
    <3>1. d \in DeviceIds /\ rows[d] # NoDevice
      BY DEF Present
    <3>2. rows[d].seen + UnusedDays < day
      BY <2>1, <2>2, <2>4, <3>1
    <3>3. RowOK(d) /\ rows[d] \in Device /\ lastUse[d] \in Int /\ day \in Int /\ UnusedDays \in Int
      BY <1>1, <3>1, DevicesAssumption DEF DevicesInv, DeviceTypes
    <3>4. rows[d].seen \in Int
      BY <3>3 DEF Device
    <3> QED BY <3>2, <3>3, <3>4 DEF RowOK
  <2> QED BY <2>3, <2>4 DEF CleanupSparesUsed
<1>3. ASSUME NEW r \in DeviceRequests, DeleteDevice(r) PROVE DevicesInv' /\ CleanupSparesUsed
  <2>1. PICK id \in Present : id = dreq[r].id /\ dreq[r].op = "remove"
                              /\ rows' = [rows EXCEPT ![id] = NoDevice]
    BY <1>3 DEF DeleteDevice
  <2>2. PICK gone \in SUBSET Present : gone = {id}
    OBVIOUS
  <2>3. rows' = [d \in DeviceIds |-> IF d \in gone THEN NoDevice ELSE rows[d]]
    BY <1>1, <2>1, <2>2
  <2>4. DevicesInv'
    BY <1>3, <2>2, <2>3, RemovalStep DEF DeleteDevice
  <2>5. ASSUME NEW d \in Present, rows'[d] = NoDevice PROVE d = id
    BY <1>1, <2>1, <2>5 DEF Present
  <2> QED BY <2>1, <2>4, <2>5 DEF CleanupSparesUsed
<1>4. ASSUME NEW r \in DeviceRequests, DeviceThrows(r) PROVE DevicesInv' /\ CleanupSparesUsed
  <2>1. PICK gone \in SUBSET Present : gone = {}
    OBVIOUS
  <2>2. rows' = [d \in DeviceIds |-> IF d \in gone THEN NoDevice ELSE rows[d]]
    BY <1>1, <1>4, <2>1 DEF DeviceThrows
  <2>3. DevicesInv'
    BY <1>4, <2>1, <2>2, RemovalStep DEF DeviceThrows
  <2> QED BY <1>4, <2>3 DEF CleanupSparesUsed, DeviceThrows, Present
<1> QED BY <1>2, <1>3, <1>4

LEMMA NextDayStep == ASSUME DevicesInv, NextDay PROVE DevicesInv' /\ UNCHANGED rows
<1>1. /\ day' = day + 1 /\ day < MaxDay /\ \A r \in DeviceRequests : dreq[r].op = "idle"
      /\ UNCHANGED <<rows, issued, dreq, trustAsked, trustAnswered, lastUse, overwritten>>
  BY DEF NextDay
<1>2. day \in 0..MaxDay /\ DeviceTypes
  BY DEF DevicesInv, DeviceTypes
<1>3. DeviceTypes'
  BY <1>1, <1>2, DevicesAssumption DEF DeviceTypes
<1>4. ASSUME NEW q \in DeviceRequests PROVE CopyOK(q)'
  <2>1. CopyOK(q)
    BY DEF DevicesInv
  <2> QED BY <1>1, <2>1 DEF CopyOK
<1>5. ASSUME NEW e \in Present PROVE RowOK(e)'
  <2>1. RowOK(e) /\ rows[e].seen \in Int /\ rows[e].seen <= day
    BY <1>2 DEF DevicesInv, DeviceTypes, Present, RowOK, Device
  <2>2. rows[e].seen <= day + 1
    BY <1>2, <2>1
  <2> QED BY <1>1, <2>1, <2>2 DEF RowOK
<1> QED BY <1>1, <1>3, <1>4, <1>5 DEF DevicesInv, Present

LEMMA DevicesStep ==
  ASSUME DevicesInv, [DevicesNext]_deviceVars PROVE DevicesInv' /\ CleanupSparesUsed
<1>1. UNCHANGED rows => CleanupSparesUsed
  BY DEF CleanupSparesUsed, Present
<1>2. CASE UNCHANGED deviceVars
  <2>1. UNCHANGED <<day, rows, issued, dreq, trustAsked, trustAnswered, lastUse, overwritten>>
    BY <1>2 DEF deviceVars
  <2>2. \A r : CopyOK(r)' <=> CopyOK(r)
    BY <2>1 DEF CopyOK, Present
  <2>3. \A d : RowOK(d)' <=> RowOK(d)
    BY <2>1 DEF RowOK
  <2> QED BY <1>1, <2>1, <2>2, <2>3 DEF DevicesInv, DeviceTypes, Present
<1>3. ASSUME NEW r \in DeviceRequests,
             UpdateDevice(r) \/ \E d \in DeviceIds : CreateDevice(r, d)
      PROVE  DevicesInv' /\ CleanupSparesUsed
  <2>1. DevicesInv' /\ \A e \in Present : rows'[e] # NoDevice
    BY <1>3, UpdateStep, CreateStep
  <2> QED BY <2>1 DEF CleanupSparesUsed
<1>4. CASE DevicesNext
  BY <1>1, <1>3, <1>4, ReadDeviceStep, RegisterNewStep, DeviceGoneStep, NextDayStep DEF DevicesNext
<1> QED BY <1>2, <1>4

\* Whatever requests do between reading a device and writing it back: a trusted
\* device is one whose owner asked for it, it loses its trust only to a copy
\* read before, and one that is used goes only when its owner removes it
\* (registerDevice, markDeviceAsTrusted, removeDevice, cleanupUnusedDevices).
THEOREM DevicesAreKept == DevicesSpec => DevicesKept
<1>1. DevicesInit => DevicesInv
  <2> SUFFICES ASSUME DevicesInit PROVE DevicesInv
    OBVIOUS
  <2>1. Present = {} /\ \A r \in DeviceRequests : dreq[r] = IdleDevice
    BY DEF DevicesInit, Present
  <2>2. DeviceTypes
    BY DevicesAssumption, IdleIsRequest DEF DevicesInit, DeviceTypes
  <2>3. \A r \in DeviceRequests : CopyOK(r)
    BY <2>1, IdleIsRequest DEF CopyOK
  <2> QED BY <2>1, <2>2, <2>3 DEF DevicesInv
<1>2. DevicesInv /\ [DevicesNext]_deviceVars => DevicesInv' /\ CleanupSparesUsed
  BY DevicesStep
<1>3. DevicesInv => TrustIsAsked /\ TrustLossExplained
  BY DEF DevicesInv, RowOK, TrustIsAsked, TrustLossExplained
<1> QED BY <1>1, <1>2, <1>3, PTL DEF DevicesSpec, DevicesKept
=============================================================================
