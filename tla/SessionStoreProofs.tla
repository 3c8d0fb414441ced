-------------------------- MODULE SessionStoreProofs --------------------------
(***************************************************************************)
(* Proofs about SessionStore, for any number of users, sessions and        *)
(* concurrent requests.                                                    *)
(***************************************************************************)
EXTENDS SessionStore, TLAPS

\* Every step keeps the types, given what a request knows where it stands.
LEMMA TypeStep == TypeOK /\ RequestOwnership /\ [Next]_vars => TypeOK'
<1> SUFFICES ASSUME TypeOK, RequestOwnership, [Next]_vars PROVE TypeOK'
  OBVIOUS
<1> USE ConstantsAssumption DEF TypeOK, Begin, Goto, PCs, Loading, Updating, Deleting,
      Ended, AllOps, store, clock, locals
<1>1. CASE UNCHANGED vars
  BY <1>1 DEF vars
<1>2. ASSUME NEW p \in Procs, Call(p) PROVE TypeOK'
  <2>1. ASSUME NEW u \in Users, NEW s \in Sessions, CreateSession(p, u, s) PROVE TypeOK'
    BY <2>1 DEF CreateSession
  <2>2. ASSUME NEW u \in Users, NEW s \in Sessions, Revoke(p, u, s) PROVE TypeOK'
    BY <2>2 DEF Revoke
  <2>3. ASSUME NEW u \in Users, NEW o \in {"others", "device"}, BulkMembers(p, u, o) PROVE TypeOK'
    BY <2>3 DEF BulkMembers
  <2>4. ASSUME NEW u \in Users, PurgeMembers(p, u) PROVE TypeOK'
    BY <2>4 DEF PurgeMembers, Due
  <2>5. ASSUME NEW s \in Sessions, Logout(p, s) PROVE TypeOK'
    BY <2>5 DEF Logout
  <2>6. ASSUME NEW s \in Sessions, Touch(p, s) PROVE TypeOK'
    BY <2>6 DEF Touch
  <2>7. ASSUME NEW s \in Sessions, Refresh(p, s) PROVE TypeOK'
    BY <2>7 DEF Refresh
  <2> QED
    BY <1>2, <2>1, <2>2, <2>3, <2>4, <2>5, <2>6, <2>7 DEF Call
<1>3. ASSUME NEW p \in Procs, Step(p) PROVE TypeOK'
  <2>1. CASE CreateToken(p)
    BY <2>1 DEF CreateToken
  <2>2. CASE CreateIndex(p)
    BY <2>2 DEF CreateIndex, RequestOwnership, Owned
  <2>3. CASE CreateLease(p)
    BY <2>3 DEF CreateLease, RequestOwnership, Owned
  <2>4. ASSUME NEW s \in Sessions, UpdateExists(p, s) PROVE TypeOK'
    BY <2>4 DEF UpdateExists
  <2>5. CASE UpdateSet(p)
    BY <2>5 DEF UpdateSet, Copy
  <2>6. ASSUME NEW s \in Sessions, BulkRead(p, s) PROVE TypeOK'
    BY <2>6 DEF BulkRead
  <2>7. CASE BulkSelect(p)
    BY <2>7 DEF BulkSelect, Chosen
  <2>8. ASSUME NEW s \in Sessions, DeleteGet(p, s) PROVE TypeOK'
    BY <2>8 DEF DeleteGet, Visited
  <2>9. CASE DeleteSession(p)
    BY <2>9 DEF DeleteSession
  <2>10. CASE DeleteToken(p)
    BY <2>10 DEF DeleteToken
  <2>11. CASE DeleteMembers(p)
    BY <2>11 DEF DeleteMembers, RequestOwnership, Owned
  <2>12. CASE DeleteIndex(p)
    <3>1. todo' \in [Procs -> SUBSET Sessions] /\ pc' \in [Procs -> PCs]
      BY <2>12 DEF DeleteIndex, Visited
    <3>2. idx' \in [Users -> SUBSET Sessions] /\ lease' \in [Users -> SUBSET Sessions]
      BY <2>12 DEF DeleteIndex
    <3> QED
      BY <2>12, <3>1, <3>2 DEF DeleteIndex
  <2>13. CASE DeleteAdd(p)
    BY <2>13 DEF DeleteAdd
  <2>14. CASE DeleteExpire(p)
    BY <2>14 DEF DeleteExpire, Visited
  <2>15. CASE PurgeIndex(p)
    BY <2>15 DEF PurgeIndex
  <2>16. CASE Answer(p)
    BY <2>16 DEF Answer
  <2> QED
    BY <1>3, <2>1, <2>2, <2>3, <2>4, <2>5, <2>6, <2>7, <2>8, <2>9, <2>10, <2>11, <2>12,
       <2>13, <2>14, <2>15, <2>16 DEF Step
<1>4. ASSUME NEW p \in Procs, Abort(p) PROVE TypeOK'
  BY <1>4 DEF Abort
<1>5. CASE Passage
  <2>1. ASSUME NEW s \in Sessions, Expire(s) PROVE TypeOK'
    BY <2>1 DEF Expire
  <2>2. ASSUME NEW s \in Sessions, DropSession(s) PROVE TypeOK'
    BY <2>2 DEF DropSession
  <2>3. ASSUME NEW s \in Sessions, DropToken(s) PROVE TypeOK'
    BY <2>3 DEF DropToken
  <2>4. ASSUME NEW u \in Users, DropIndex(u) PROVE TypeOK'
    BY <2>4 DEF DropIndex
  <2> QED
    BY <1>5, <2>1, <2>2, <2>3, <2>4 DEF Passage
<1> QED
  BY <1>1, <1>2, <1>3, <1>4, <1>5 DEF Next

\* Every step keeps the ownership of indexes and of requests in flight.
LEMMA OwnershipStep ==
    TypeOK /\ IndexOwnership /\ RequestOwnership /\ [Next]_vars
        => IndexOwnership' /\ RequestOwnership'
<1> SUFFICES ASSUME TypeOK, IndexOwnership, RequestOwnership, [Next]_vars
             PROVE IndexOwnership' /\ RequestOwnership'
  OBVIOUS
<1> DEFINE Owns == IndexOwnership /\ RequestOwnership
<1> USE ConstantsAssumption DEF TypeOK, IndexOwnership, RequestOwnership, Owned, Bulk, Begin,
      Goto, PCs, Loading, Updating, Deleting, Ended, AllOps, store, clock, locals
<1>1. CASE UNCHANGED vars
  BY <1>1 DEF vars
<1>2. ASSUME NEW p \in Procs, Call(p) PROVE Owns'
  <2>1. ASSUME NEW u \in Users, NEW s \in Sessions, CreateSession(p, u, s) PROVE Owns'
    BY <2>1 DEF CreateSession
  <2>2. ASSUME NEW u \in Users, NEW s \in Sessions, Revoke(p, u, s) PROVE Owns'
    BY <2>2 DEF Revoke
  <2>3. ASSUME NEW u \in Users, NEW o \in {"others", "device"}, BulkMembers(p, u, o) PROVE Owns'
    BY <2>3 DEF BulkMembers
  <2>4. ASSUME NEW u \in Users, PurgeMembers(p, u) PROVE Owns'
    BY <2>4 DEF PurgeMembers, Due
  <2>5. ASSUME NEW s \in Sessions, Logout(p, s) PROVE Owns'
    BY <2>5 DEF Logout
  <2>6. ASSUME NEW s \in Sessions, Touch(p, s) PROVE Owns'
    BY <2>6 DEF Touch
  <2>7. ASSUME NEW s \in Sessions, Refresh(p, s) PROVE Owns'
    BY <2>7 DEF Refresh
  <2> QED
    BY <1>2, <2>1, <2>2, <2>3, <2>4, <2>5, <2>6, <2>7 DEF Call
<1>3. ASSUME NEW p \in Procs, Step(p) PROVE Owns'
  <2>1. CASE CreateToken(p)
    BY <2>1 DEF CreateToken
  <2>2. CASE CreateIndex(p)
    BY <2>2 DEF CreateIndex
  <2>3. CASE CreateLease(p)
    BY <2>3 DEF CreateLease
  <2>4. ASSUME NEW s \in Sessions, UpdateExists(p, s) PROVE Owns'
    BY <2>4 DEF UpdateExists
  <2>5. CASE UpdateSet(p)
    BY <2>5 DEF UpdateSet, Copy
  <2>6. ASSUME NEW s \in Sessions, BulkRead(p, s) PROVE Owns'
    BY <2>6 DEF BulkRead
  <2>7. CASE BulkSelect(p)
    BY <2>7 DEF BulkSelect, Chosen
  <2>8. ASSUME NEW s \in Sessions, DeleteGet(p, s) PROVE Owns'
    BY <2>8 DEF DeleteGet, Visited
  <2>9. CASE DeleteSession(p)
    BY <2>9 DEF DeleteSession
  <2>10. CASE DeleteToken(p)
    BY <2>10 DEF DeleteToken
  <2>11. CASE DeleteMembers(p)
    BY <2>11 DEF DeleteMembers
  <2>12. CASE DeleteIndex(p)
    BY <2>12 DEF DeleteIndex, Visited
  <2>13. CASE DeleteAdd(p)
    BY <2>13 DEF DeleteAdd
  <2>14. CASE DeleteExpire(p)
    BY <2>14 DEF DeleteExpire, Visited
  <2>15. CASE PurgeIndex(p)
    BY <2>15 DEF PurgeIndex
  <2>16. CASE Answer(p)
    BY <2>16 DEF Answer
  <2> QED
    BY <1>3, <2>1, <2>2, <2>3, <2>4, <2>5, <2>6, <2>7, <2>8, <2>9, <2>10, <2>11, <2>12,
       <2>13, <2>14, <2>15, <2>16 DEF Step
<1>4. ASSUME NEW p \in Procs, Abort(p) PROVE Owns'
  BY <1>4 DEF Abort
<1>5. CASE Passage
  <2>1. ASSUME NEW s \in Sessions, Expire(s) PROVE Owns'
    BY <2>1 DEF Expire
  <2>2. ASSUME NEW s \in Sessions, DropSession(s) PROVE Owns'
    BY <2>2 DEF DropSession
  <2>3. ASSUME NEW s \in Sessions, DropToken(s) PROVE Owns'
    BY <2>3 DEF DropToken
  <2>4. ASSUME NEW u \in Users, DropIndex(u) PROVE Owns'
    BY <2>4 DEF DropIndex
  <2> QED
    BY <1>5, <2>1, <2>2, <2>3, <2>4 DEF Passage
<1> QED
  BY <1>1, <1>2, <1>3, <1>4, <1>5 DEF Next

Owns == TypeOK /\ IndexOwnership /\ RequestOwnership

\* What TypeStep and OwnershipStep give together: an inductive invariant.
LEMMA OwnsInvariant == Spec => []Owns
<1>1. Init => Owns
  BY ConstantsAssumption DEF Init, Owns, TypeOK, IndexOwnership, RequestOwnership, Owned, Bulk,
     PCs, Loading, Updating, Deleting, Ended, AllOps
<1>2. Owns /\ [Next]_vars => Owns'
  BY TypeStep, OwnershipStep DEF Owns
<1> QED
  BY <1>1, <1>2, PTL DEF Spec

\* Every Redis key and every request keeps its type.
THEOREM TypeCorrect == Spec => []TypeOK
BY OwnsInvariant, PTL DEF Owns

\* No index, and no request in flight, ever holds a session of another user,
\* whatever creations, index rewrites, failures and expiries interleave.
THEOREM IndexesAreOwned == Spec => [](IndexOwnership /\ RequestOwnership)
BY OwnsInvariant, PTL DEF Owns

\* A live session is only ended by a request for its owner, by its own
\* logout, or by time.
THEOREM OnlyOwnersTerminate == Spec => NoForeignTermination
<1> DEFINE Ends(s) == sess[s] = "live" /\ sess'[s] # "live" /\ s \notin expired
           ByOwner(s) == \E p \in Procs : /\ cur[p] = s
                                          /\ pc[p] \in {"set", "del_sess"}
                                          /\ op[p] = "logout" \/ usr[p] = owner[s]
           Guarded == \A s \in Sessions : Ends(s) => ByOwner(s)
<1>1. Owns /\ [Next]_vars => [Guarded]_vars
  <2> SUFFICES ASSUME Owns, Next, NEW t \in Sessions, Ends(t) PROVE ByOwner(t)
    OBVIOUS
  <2> USE DEF Owns, TypeOK, RequestOwnership, Owned, Bulk, Begin, Goto, Updating, Deleting,
        store, clock, locals
  <2>1. ASSUME NEW p \in Procs, UpdateSet(p) PROVE ByOwner(t)
    BY <2>1 DEF UpdateSet, Copy
  <2>2. ASSUME NEW p \in Procs, DeleteSession(p) PROVE ByOwner(t)
    BY <2>2 DEF DeleteSession
  <2>3. ASSUME NEW p \in Procs, Call(p) PROVE sess'[t] = "live"
    BY <2>3 DEF Call, CreateSession, Revoke, BulkMembers, PurgeMembers, Logout, Touch, Refresh
  <2>4. ASSUME NEW p \in Procs, Step(p), ~ UpdateSet(p), ~ DeleteSession(p)
        PROVE sess'[t] = "live"
    BY <2>4 DEF Step, CreateToken, CreateIndex, CreateLease, UpdateExists, BulkRead, BulkSelect,
       DeleteGet, DeleteToken, DeleteMembers, DeleteIndex, DeleteAdd, DeleteExpire, PurgeIndex,
       Answer
  <2>5. ASSUME NEW p \in Procs, Abort(p) PROVE sess'[t] = "live"
    BY <2>5 DEF Abort
  <2>6. CASE Passage
    BY <2>6 DEF Passage, Expire, DropSession, DropToken, DropIndex
  <2> QED
    BY <2>1, <2>2, <2>3, <2>4, <2>5, <2>6 DEF Next
<1> QED
  BY <1>1, OwnsInvariant, PTL DEF Spec, NoForeignTermination

\* A session that has settled stays settled in every step.
LEMMA SettledStep ==
    ASSUME Owns, [Next]_vars, NEW t \in Sessions, Settled(t)
    PROVE  Settled(t)'
<1> USE DEF Owns, TypeOK, RequestOwnership, Settled, Touching, Bulk, Begin, Goto, Loading,
      Updating, Deleting, Ended, store, clock, locals
<1>1. CASE UNCHANGED vars
  BY <1>1 DEF vars
<1>2. ASSUME NEW p \in Procs, Call(p) PROVE Settled(t)'
  <2>1. ASSUME NEW u \in Users, NEW s \in Sessions, CreateSession(p, u, s) PROVE Settled(t)'
    BY <2>1 DEF CreateSession
  <2>2. ASSUME NEW u \in Users, NEW s \in Sessions, Revoke(p, u, s) PROVE Settled(t)'
    BY <2>2 DEF Revoke
  <2>3. ASSUME NEW u \in Users, NEW o \in {"others", "device"}, BulkMembers(p, u, o) PROVE Settled(t)'
    BY <2>3 DEF BulkMembers
  <2>4. ASSUME NEW u \in Users, PurgeMembers(p, u) PROVE Settled(t)'
    BY <2>4 DEF PurgeMembers, Due
  <2>5. ASSUME NEW s \in Sessions, Logout(p, s) PROVE Settled(t)'
    BY <2>5 DEF Logout
  <2>6. ASSUME NEW s \in Sessions, Touch(p, s) PROVE Settled(t)'
    BY <2>6 DEF Touch
  <2>7. ASSUME NEW s \in Sessions, Refresh(p, s) PROVE Settled(t)'
    BY <2>7 DEF Refresh
  <2> QED
    BY <1>2, <2>1, <2>2, <2>3, <2>4, <2>5, <2>6, <2>7 DEF Call
<1>3. ASSUME NEW p \in Procs, Step(p) PROVE Settled(t)'
  <2>1. CASE CreateToken(p)
    BY <2>1 DEF CreateToken
  <2>2. CASE CreateIndex(p)
    BY <2>2 DEF CreateIndex
  <2>3. CASE CreateLease(p)
    BY <2>3 DEF CreateLease
  <2>4. ASSUME NEW s \in Sessions, UpdateExists(p, s) PROVE Settled(t)'
    BY <2>4 DEF UpdateExists
  <2>5. CASE UpdateSet(p)
    BY <2>5 DEF UpdateSet, Copy
  <2>6. ASSUME NEW s \in Sessions, BulkRead(p, s) PROVE Settled(t)'
    BY <2>6 DEF BulkRead
  <2>7. CASE BulkSelect(p)
    BY <2>7 DEF BulkSelect, Chosen
  <2>8. ASSUME NEW s \in Sessions, DeleteGet(p, s) PROVE Settled(t)'
    BY <2>8 DEF DeleteGet, Visited
  <2>9. CASE DeleteSession(p)
    BY <2>9 DEF DeleteSession
  <2>10. CASE DeleteToken(p)
    BY <2>10 DEF DeleteToken
  <2>11. CASE DeleteMembers(p)
    BY <2>11 DEF DeleteMembers
  <2>12. CASE DeleteIndex(p)
    BY <2>12 DEF DeleteIndex, Visited
  <2>13. CASE DeleteAdd(p)
    BY <2>13 DEF DeleteAdd
  <2>14. CASE DeleteExpire(p)
    BY <2>14 DEF DeleteExpire, Visited
  <2>15. CASE PurgeIndex(p)
    BY <2>15 DEF PurgeIndex
  <2>16. CASE Answer(p)
    BY <2>16 DEF Answer
  <2> QED
    BY <1>3, <2>1, <2>2, <2>3, <2>4, <2>5, <2>6, <2>7, <2>8, <2>9, <2>10, <2>11, <2>12,
       <2>13, <2>14, <2>15, <2>16 DEF Step
<1>4. ASSUME NEW p \in Procs, Abort(p) PROVE Settled(t)'
  BY <1>4 DEF Abort
<1>5. CASE Passage
  <2>1. ASSUME NEW s \in Sessions, Expire(s) PROVE Settled(t)'
    BY <2>1 DEF Expire
  <2>2. ASSUME NEW s \in Sessions, DropSession(s) PROVE Settled(t)'
    BY <2>2 DEF DropSession
  <2>3. ASSUME NEW s \in Sessions, DropToken(s) PROVE Settled(t)'
    BY <2>3 DEF DropToken
  <2>4. ASSUME NEW u \in Users, DropIndex(u) PROVE Settled(t)'
    BY <2>4 DEF DropIndex
  <2> QED
    BY <1>5, <2>1, <2>2, <2>3, <2>4 DEF Passage
<1> QED
  BY <1>1, <1>2, <1>3, <1>4, <1>5 DEF Next

\* Once a session has ended and the activity updates that read it live are
\* over, nothing makes it live again: proved for any interleaving of all
\* eight operations, failures and expiries.
THEOREM SettledForever == Spec => SettledStaysSettled
<1> DEFINE Stable == \A s \in Sessions : Settled(s) => Settled(s)'
<1>1. Owns /\ [Next]_vars => [Stable]_vars
  BY SettledStep
<1> QED
  BY <1>1, OwnsInvariant, PTL DEF Spec, SettledStaysSettled

-----------------------------------------------------------------------------
(* Without activity updates every copy a request writes back is revoked.   *)

\* No step makes an issued, ended session live.
LEMMA NeverRevives ==
    ASSUME "touch" \notin Ops, Owns, [Next]_vars, NEW t \in Sessions,
           owner[t] # Nobody, sess[t] # "live"
    PROVE  owner'[t] # Nobody /\ sess'[t] # "live"
<1> DEFINE Ended2 == owner[t] # Nobody /\ sess[t] # "live"
<1> SUFFICES Ended2'
  OBVIOUS
<1> USE DEF Owns, TypeOK, Begin, Goto, store, clock, locals
<1>1. CASE UNCHANGED vars
  BY <1>1 DEF vars
<1>2. ASSUME NEW p \in Procs, Call(p) PROVE Ended2'
  <2>1. ASSUME NEW u \in Users, NEW s \in Sessions, CreateSession(p, u, s) PROVE Ended2'
    BY <2>1 DEF CreateSession
  <2>2. ASSUME NEW u \in Users, NEW s \in Sessions, Revoke(p, u, s) PROVE Ended2'
    BY <2>2 DEF Revoke
  <2>3. ASSUME NEW u \in Users, NEW o \in {"others", "device"}, BulkMembers(p, u, o) PROVE Ended2'
    BY <2>3 DEF BulkMembers
  <2>4. ASSUME NEW u \in Users, PurgeMembers(p, u) PROVE Ended2'
    BY <2>4 DEF PurgeMembers, Due
  <2>5. ASSUME NEW s \in Sessions, Logout(p, s) PROVE Ended2'
    BY <2>5 DEF Logout
  <2>6. ASSUME NEW s \in Sessions, Touch(p, s) PROVE Ended2'
    BY <2>6 DEF Touch
  <2>7. ASSUME NEW s \in Sessions, Refresh(p, s) PROVE Ended2'
    BY <2>7 DEF Refresh
  <2> QED
    BY <1>2, <2>1, <2>2, <2>3, <2>4, <2>5, <2>6, <2>7 DEF Call
<1>3. ASSUME NEW p \in Procs, Step(p) PROVE Ended2'
  <2>1. CASE CreateToken(p)
    BY <2>1 DEF CreateToken
  <2>2. CASE CreateIndex(p)
    BY <2>2 DEF CreateIndex
  <2>3. CASE CreateLease(p)
    BY <2>3 DEF CreateLease
  <2>4. ASSUME NEW s \in Sessions, UpdateExists(p, s) PROVE Ended2'
    BY <2>4 DEF UpdateExists
  <2>5. CASE UpdateSet(p)
    BY <2>5 DEF UpdateSet, Copy
  <2>6. ASSUME NEW s \in Sessions, BulkRead(p, s) PROVE Ended2'
    BY <2>6 DEF BulkRead
  <2>7. CASE BulkSelect(p)
    BY <2>7 DEF BulkSelect, Chosen
  <2>8. ASSUME NEW s \in Sessions, DeleteGet(p, s) PROVE Ended2'
    BY <2>8 DEF DeleteGet, Visited
  <2>9. CASE DeleteSession(p)
    BY <2>9 DEF DeleteSession
  <2>10. CASE DeleteToken(p)
    BY <2>10 DEF DeleteToken
  <2>11. CASE DeleteMembers(p)
    BY <2>11 DEF DeleteMembers
  <2>12. CASE DeleteIndex(p)
    BY <2>12 DEF DeleteIndex, Visited
  <2>13. CASE DeleteAdd(p)
    BY <2>13 DEF DeleteAdd
  <2>14. CASE DeleteExpire(p)
    BY <2>14 DEF DeleteExpire, Visited
  <2>15. CASE PurgeIndex(p)
    BY <2>15 DEF PurgeIndex
  <2>16. CASE Answer(p)
    BY <2>16 DEF Answer
  <2> QED
    BY <1>3, <2>1, <2>2, <2>3, <2>4, <2>5, <2>6, <2>7, <2>8, <2>9, <2>10, <2>11, <2>12,
       <2>13, <2>14, <2>15, <2>16 DEF Step
<1>4. ASSUME NEW p \in Procs, Abort(p) PROVE Ended2'
  BY <1>4 DEF Abort
<1>5. CASE Passage
  <2>1. ASSUME NEW s \in Sessions, Expire(s) PROVE Ended2'
    BY <2>1 DEF Expire
  <2>2. ASSUME NEW s \in Sessions, DropSession(s) PROVE Ended2'
    BY <2>2 DEF DropSession
  <2>3. ASSUME NEW s \in Sessions, DropToken(s) PROVE Ended2'
    BY <2>3 DEF DropToken
  <2>4. ASSUME NEW u \in Users, DropIndex(u) PROVE Ended2'
    BY <2>4 DEF DropIndex
  <2> QED
    BY <1>5, <2>1, <2>2, <2>3, <2>4 DEF Passage
<1> QED
  BY <1>1, <1>2, <1>3, <1>4, <1>5 DEF Next

\* Every step keeps the bookkeeping of the termination loops.
LEMMA DoneStep ==
    ASSUME "touch" \notin Ops, Owns, DoneMeansEnded, [Next]_vars
    PROVE  DoneMeansEnded'
<1>0. \A s \in Sessions : owner[s] # Nobody /\ sess[s] # "live" => sess'[s] # "live"
  BY NeverRevives
<1> USE <1>0 DEF Owns, TypeOK, RequestOwnership, DoneMeansEnded, Bulk, Terminators, Begin, Goto, Loading,
      Updating, Deleting, Ended, store, clock, locals
<1>1. CASE UNCHANGED vars
  BY <1>1 DEF vars
<1>2. ASSUME NEW p \in Procs, Call(p) PROVE DoneMeansEnded'
  <2>1. ASSUME NEW u \in Users, NEW s \in Sessions, CreateSession(p, u, s) PROVE DoneMeansEnded'
    BY <2>1 DEF CreateSession
  <2>2. ASSUME NEW u \in Users, NEW s \in Sessions, Revoke(p, u, s) PROVE DoneMeansEnded'
    BY <2>2 DEF Revoke
  <2>3. ASSUME NEW u \in Users, NEW o \in {"others", "device"}, BulkMembers(p, u, o) PROVE DoneMeansEnded'
    BY <2>3 DEF BulkMembers
  <2>4. ASSUME NEW u \in Users, PurgeMembers(p, u) PROVE DoneMeansEnded'
    BY <2>4 DEF PurgeMembers, Due
  <2>5. ASSUME NEW s \in Sessions, Logout(p, s) PROVE DoneMeansEnded'
    BY <2>5 DEF Logout
  <2>6. ASSUME NEW s \in Sessions, Touch(p, s) PROVE DoneMeansEnded'
    BY <2>6 DEF Touch
  <2>7. ASSUME NEW s \in Sessions, Refresh(p, s) PROVE DoneMeansEnded'
    BY <2>7 DEF Refresh
  <2> QED
    BY <1>2, <2>1, <2>2, <2>3, <2>4, <2>5, <2>6, <2>7 DEF Call
<1>3. ASSUME NEW p \in Procs, Step(p) PROVE DoneMeansEnded'
  <2>1. CASE CreateToken(p)
    BY <2>1 DEF CreateToken
  <2>2. CASE CreateIndex(p)
    BY <2>2 DEF CreateIndex
  <2>3. CASE CreateLease(p)
    BY <2>3 DEF CreateLease
  <2>4. ASSUME NEW s \in Sessions, UpdateExists(p, s) PROVE DoneMeansEnded'
    BY <2>4 DEF UpdateExists
  <2>5. CASE UpdateSet(p)
    BY <2>5 DEF UpdateSet, Copy
  <2>6. ASSUME NEW s \in Sessions, BulkRead(p, s) PROVE DoneMeansEnded'
    BY <2>6 DEF BulkRead
  <2>7. CASE BulkSelect(p)
    BY <2>7 DEF BulkSelect, Chosen
  <2>8. ASSUME NEW s \in Sessions, DeleteGet(p, s) PROVE DoneMeansEnded'
    BY <2>8 DEF DeleteGet, Visited
  <2>9. CASE DeleteSession(p)
    BY <2>9 DEF DeleteSession
  <2>10. CASE DeleteToken(p)
    BY <2>10 DEF DeleteToken
  <2>11. CASE DeleteMembers(p)
    BY <2>11 DEF DeleteMembers
  <2>12. CASE DeleteIndex(p)
    BY <2>12 DEF DeleteIndex, Visited
  <2>13. CASE DeleteAdd(p)
    BY <2>13 DEF DeleteAdd
  <2>14. CASE DeleteExpire(p)
    BY <2>14 DEF DeleteExpire, Visited
  <2>15. CASE PurgeIndex(p)
    BY <2>15 DEF PurgeIndex
  <2>16. CASE Answer(p)
    BY <2>16 DEF Answer
  <2> QED
    BY <1>3, <2>1, <2>2, <2>3, <2>4, <2>5, <2>6, <2>7, <2>8, <2>9, <2>10, <2>11, <2>12,
       <2>13, <2>14, <2>15, <2>16 DEF Step
<1>4. ASSUME NEW p \in Procs, Abort(p) PROVE DoneMeansEnded'
  BY <1>4 DEF Abort
<1>5. CASE Passage
  <2>1. ASSUME NEW s \in Sessions, Expire(s) PROVE DoneMeansEnded'
    BY <2>1 DEF Expire
  <2>2. ASSUME NEW s \in Sessions, DropSession(s) PROVE DoneMeansEnded'
    BY <2>2 DEF DropSession
  <2>3. ASSUME NEW s \in Sessions, DropToken(s) PROVE DoneMeansEnded'
    BY <2>3 DEF DropToken
  <2>4. ASSUME NEW u \in Users, DropIndex(u) PROVE DoneMeansEnded'
    BY <2>4 DEF DropIndex
  <2> QED
    BY <1>5, <2>1, <2>2, <2>3, <2>4 DEF Passage
<1> QED
  BY <1>1, <1>2, <1>3, <1>4, <1>5 DEF Next

\* DoneMeansEnded is inductive next to the ownership of the requests.
LEMMA DoneInvariant == ASSUME "touch" \notin Ops PROVE Spec => []DoneMeansEnded
<1>1. Init => DoneMeansEnded
  BY DEF Init, DoneMeansEnded, Bulk, Terminators, Updating, Deleting
<1>2. Owns /\ DoneMeansEnded /\ [Next]_vars => DoneMeansEnded'
  BY DoneStep
<1> QED
  BY <1>1, <1>2, OwnsInvariant, PTL DEF Spec

\* Without activity updates, a revoke, logout, bulk revocation, device removal
\* or purge that answered "ok" has ended every session it committed to, under
\* any concurrency, failures and expiries.
THEOREM AnswersAreTrue == ASSUME "touch" \notin Ops PROVE Spec => []AnsweredMeansEnded
<1>1. Owns /\ DoneMeansEnded => AnsweredMeansEnded
  BY ConstantsAssumption
     DEF Owns, TypeOK, RequestOwnership, DoneMeansEnded, AnsweredMeansEnded, Terminators, Bulk
<1> QED
  BY <1>1, OwnsInvariant, DoneInvariant, PTL

\* Writing a revoked copy over a session, or deleting it, terminates it or
\* leaves the client's view as it was.
LEMMA EndingTerminates ==
    ASSUME TypeOK, NEW x \in Sessions, owner[x] # Nobody, NEW v, v # "live",
           sess' = [sess EXCEPT ![x] = v], owner' = owner
    PROVE  [Lifecycle!Next]_Life
<1>1. CASE sess[x] = "live"
  <2>1. Life[x] = "active" /\ Life' = [Life EXCEPT ![x] = "terminated"]
    BY <1>1 DEF Life, TypeOK
  <2> QED
    BY <2>1 DEF Lifecycle!Next, Lifecycle!Terminate
<1>2. CASE sess[x] # "live"
  <2>1. Life' = Life
    BY <1>2 DEF Life, TypeOK
  <2> QED
    BY <2>1
<1> QED
  BY <1>1, <1>2

\* Without activity updates the store implements the session lifecycle.
THEOREM ImplementsLifecycle == ASSUME "touch" \notin Ops PROVE Spec => LifecycleSpec
<1>1. Init => Lifecycle!Init
  BY DEF Init, Lifecycle!Init, Life
<1>2. Owns /\ [Next]_vars => [Lifecycle!Next]_Life
  <2> SUFFICES ASSUME Owns, [Next]_vars PROVE [Lifecycle!Next]_Life
    OBVIOUS
  <2> USE DEF Owns, TypeOK, RequestOwnership, Owned, Bulk, Begin, Goto, Updating, Deleting,
        store, clock, locals
  <2>1. CASE UNCHANGED <<sess, owner>>
    BY <2>1 DEF Life
  <2>2. ASSUME NEW p \in Procs, NEW u \in Users, NEW s \in Sessions, CreateSession(p, u, s)
        PROVE [Lifecycle!Next]_Life
    <3>1. Life[s] = "unborn" /\ Life' = [Life EXCEPT ![s] = "active"]
      BY <2>2, ConstantsAssumption DEF CreateSession, Life
    <3> QED
      BY <3>1 DEF Lifecycle!Next, Lifecycle!Open
  <2>3. ASSUME NEW p \in Procs, UpdateSet(p) PROVE [Lifecycle!Next]_Life
    <3>1. PICK x \in Sessions : x = cur[p] /\ owner[x] # Nobody
      BY <2>3 DEF UpdateSet
    <3>2. Copy(p) = "revoked"
      BY DEF Copy
    <3>3. sess' = [sess EXCEPT ![x] = "revoked"] /\ owner' = owner
      BY <2>3, <3>1, <3>2 DEF UpdateSet
    <3> QED
      BY <3>1, <3>3, EndingTerminates
  <2>4. ASSUME NEW p \in Procs, DeleteSession(p) PROVE [Lifecycle!Next]_Life
    <3>1. PICK x \in Sessions : x = cur[p] /\ owner[x] # Nobody
      BY <2>4 DEF DeleteSession
    <3>2. sess' = [sess EXCEPT ![x] = "absent"] /\ owner' = owner
      BY <2>4, <3>1 DEF DeleteSession
    <3> QED
      BY <3>1, <3>2, EndingTerminates
  <2>5. ASSUME NEW s \in Sessions, DropSession(s) PROVE [Lifecycle!Next]_Life
    <3>1. CASE owner[s] = Nobody
      <4>1. sess' = sess /\ owner' = owner
        BY <2>5, <3>1 DEF DropSession, IndexOwnership
      <4> QED
        BY <4>1 DEF Life
    <3>2. CASE owner[s] # Nobody
      BY <2>5, <3>2, EndingTerminates DEF DropSession
    <3> QED
      BY <3>1, <3>2
  <2>6. ASSUME NEW p \in Procs, Call(p),
               \A u \in Users, s \in Sessions : ~ CreateSession(p, u, s)
        PROVE UNCHANGED <<sess, owner>>
    BY <2>6 DEF Call, Revoke, BulkMembers, PurgeMembers, Logout, Touch, Refresh
  <2>7. ASSUME NEW p \in Procs, Step(p), ~ UpdateSet(p), ~ DeleteSession(p)
        PROVE UNCHANGED <<sess, owner>>
    BY <2>7 DEF Step, CreateToken, CreateIndex, CreateLease, UpdateExists, BulkRead, BulkSelect,
       DeleteGet, DeleteToken, DeleteMembers, DeleteIndex, DeleteAdd, DeleteExpire, PurgeIndex,
       Answer
  <2>8. ASSUME NEW p \in Procs, Abort(p) PROVE UNCHANGED <<sess, owner>>
    BY <2>8 DEF Abort
  <2>9. ASSUME Passage, \A s \in Sessions : ~ DropSession(s) PROVE UNCHANGED <<sess, owner>>
    BY <2>9 DEF Passage, Expire, DropToken, DropIndex
  <2>10. CASE UNCHANGED vars
    BY <2>10 DEF vars, Life
  <2> QED
    BY <2>1, <2>2, <2>3, <2>4, <2>5, <2>6, <2>7, <2>8, <2>9, <2>10 DEF Next
<1> QED
  BY <1>1, <1>2, OwnsInvariant, PTL DEF Spec, LifecycleSpec, Lifecycle!Spec


-----------------------------------------------------------------------------
(* One request after the other                                             *)

\* One request is served at a time, no Redis call fails and the server lives.
InOrder == MayFail = FALSE /\ \A p, q \in Procs : p = q

\* Between the commands of a request, a usable session is in its owner's
\* index, or about to be written back to it.
Listed ==
    \A s \in handed :
        /\ owner[s] # Nobody
        /\ s \notin expired /\ sess[s] = "live" /\ ~ MayLapse(owner[s]) =>
              \/ s \in idx[owner[s]]
              \/ \E p \in Procs : pc[p] = "del_add" /\ s \in rest[p]

\* Session and token key go together, but for the session being written.
Paired ==
    \A s \in Sessions \ expired :
        \/ tok[s] <=> sess[s] # "absent"
        \/ \E p \in Procs : pc[p] \in {"create_tok", "del_tok"} /\ s = cur[p]

\* What the request finds at each point, as no other comes in between.
AtWork(p) ==
    /\ pc[p] \in {"create_tok", "set"} => cur[p] \in expired \/ sess[cur[p]] # "absent"
    /\ pc[p] = "del_tok" => sess[cur[p]] = "absent"
    /\ pc[p] \in {"del_members", "del_index", "del_add", "del_expire"} => sess[cur[p]] # "live"
    /\ pc[p] = "create_expire" => cur[p] \in idx[usr[p]] \/ MayLapse(usr[p])
    /\ pc[p] = "del_index" =>
          idx[owner[cur[p]]] \ {cur[p]} \subseteq rest[p] \/ MayLapse(owner[cur[p]])
    /\ op[p] = "touch" /\ pc[p] \in Updating =>
          \A s \in todo[p] : sess[s] = "live" \/ (s \in expired /\ sess[s] # "revoked")

\* A reset was asked to end every usable session of its user, found them
\* unless the index lapsed, and has ended those it has visited.
Purging(p) ==
    op[p] = "purge" /\ pc[p] \in Deleting \cup {"ok"} =>
        /\ pc[p] # "ok" => Due(usr[p]) \subseteq due[p]
        /\ due[p] \subseteq found[p] \/ MayLapse(usr[p])
        /\ \A s \in found[p] \ todo[p] : sess[s] # "live"
        /\ pc[p] \in {"purge_index", "ok"} => todo[p] = {}

Orderly == Listed /\ Paired /\ \A p \in Procs : AtWork(p) /\ Purging(p)

\* An index that may have lapsed stays so: owners are set once.
LEMMA LapseStays ==
    ASSUME Owns, [Next]_vars, NEW u \in Users, MayLapse(u) PROVE MayLapse(u)'
<1>1. expired \subseteq expired' /\ \A s \in expired : owner[s] # Nobody => owner'[s] = owner[s]
  BY DEF Owns, TypeOK, Next, Call, Step, Passage, CreateSession, Revoke, BulkMembers, PurgeMembers,
     Logout, Touch, Refresh, CreateToken, CreateIndex, CreateLease, UpdateExists, BulkRead,
     BulkSelect, DeleteGet, DeleteToken, DeleteMembers, DeleteIndex, DeleteAdd, DeleteExpire,
     PurgeIndex, Answer, Abort, Expire, DropSession, DropToken, DropIndex, UpdateSet,
     DeleteSession, vars, store, clock, locals
<1>2. u # Nobody
  BY ConstantsAssumption
<1> QED BY <1>1, <1>2 DEF MayLapse

LEMMA ListedStep ==
    ASSUME InOrder, Owns, Orderly, [Next]_vars PROVE Listed'
<1>0. Listed /\ Paired /\ \A p \in Procs : AtWork(p) /\ Purging(p)
  BY DEF Orderly
<1>9. Owns' /\ \A u \in Users : MayLapse(u) => MayLapse(u)'
  BY LapseStays, TypeStep, OwnershipStep DEF Owns
<1>8. \A p, r \in Procs : p = r
  BY DEF InOrder
<1> USE <1>0, <1>8, <1>9, ConstantsAssumption DEF Owns, TypeOK, IndexOwnership, RequestOwnership, Owned, Bulk, Begin, Goto, Loading,
      Updating, Deleting, Ended, store, clock, locals,
      Listed, AtWork, Purging, Due
<1>1. CASE UNCHANGED vars
  BY <1>1 DEF vars
<1>2. ASSUME NEW p \in Procs, Call(p) PROVE Listed'
  <2>1. ASSUME NEW u \in Users, NEW s \in Sessions, CreateSession(p, u, s) PROVE Listed'
    BY <2>1 DEF CreateSession
  <2>2. ASSUME NEW u \in Users, NEW s \in Sessions, Revoke(p, u, s) PROVE Listed'
    BY <2>2 DEF Revoke
  <2>3. ASSUME NEW u \in Users, NEW o \in {"others", "device"}, BulkMembers(p, u, o) PROVE Listed'
    BY <2>3 DEF BulkMembers
  <2>4. ASSUME NEW u \in Users, PurgeMembers(p, u) PROVE Listed'
    BY <2>4 DEF PurgeMembers
  <2>5. ASSUME NEW s \in Sessions, Logout(p, s) PROVE Listed'
    BY <2>5 DEF Logout
  <2>6. ASSUME NEW s \in Sessions, Touch(p, s) PROVE Listed'
    BY <2>6 DEF Touch
  <2>7. ASSUME NEW s \in Sessions, Refresh(p, s) PROVE Listed'
    BY <2>7 DEF Refresh
  <2> QED
    BY <1>2, <2>1, <2>2, <2>3, <2>4, <2>5, <2>6, <2>7 DEF Call
<1>3. ASSUME NEW p \in Procs, Step(p) PROVE Listed'
  <2>1. CASE CreateToken(p)
    BY <2>1 DEF CreateToken
  <2>2. CASE CreateIndex(p)
    BY <2>2 DEF CreateIndex
  <2>3. CASE CreateLease(p)
    BY <2>3 DEF CreateLease
  <2>4. ASSUME NEW s \in Sessions, UpdateExists(p, s) PROVE Listed'
    BY <2>4 DEF UpdateExists
  <2>5. CASE UpdateSet(p)
    BY <2>5 DEF UpdateSet, Copy
  <2>6. ASSUME NEW s \in Sessions, BulkRead(p, s) PROVE Listed'
    BY <2>6 DEF BulkRead
  <2>7. CASE BulkSelect(p)
    BY <2>7 DEF BulkSelect, Chosen
  <2>8. ASSUME NEW s \in Sessions, DeleteGet(p, s) PROVE Listed'
    BY <2>8 DEF DeleteGet, Visited
  <2>9. CASE DeleteSession(p)
    BY <2>9 DEF DeleteSession
  <2>10. CASE DeleteToken(p)
    BY <2>10 DEF DeleteToken
  <2>11. CASE DeleteMembers(p)
    BY <2>11 DEF DeleteMembers
  <2>12. CASE DeleteIndex(p)
    BY <2>12 DEF DeleteIndex, Visited
  <2>13. CASE DeleteAdd(p)
    BY <2>13 DEF DeleteAdd
  <2>14. CASE DeleteExpire(p)
    BY <2>14 DEF DeleteExpire, Visited
  <2>15. CASE PurgeIndex(p)
    BY <2>15 DEF PurgeIndex
  <2>16. CASE Answer(p)
    BY <2>16 DEF Answer
  <2> QED
    BY <1>3, <2>1, <2>2, <2>3, <2>4, <2>5, <2>6, <2>7, <2>8, <2>9, <2>10, <2>11, <2>12,
       <2>13, <2>14, <2>15, <2>16 DEF Step
<1>4. CASE Passage
  <2>1. ASSUME NEW s \in Sessions, Expire(s) PROVE Listed'
    BY <2>1 DEF Expire
  <2>2. ASSUME NEW s \in Sessions, DropSession(s) PROVE Listed'
    BY <2>2 DEF DropSession
  <2>3. ASSUME NEW s \in Sessions, DropToken(s) PROVE Listed'
    BY <2>3 DEF DropToken
  <2>4. ASSUME NEW u \in Users, DropIndex(u) PROVE Listed'
    <3>1. MayLapse(u)
      BY <2>4 DEF DropIndex, MayLapse
    <3>2. /\ UNCHANGED <<sess, owner, handed, expired, pc, rest>>
          /\ \A v \in Users : v # u => idx'[v] = idx[v]
      BY <2>4 DEF DropIndex
    <3>3. \A v : MayLapse(v)' <=> MayLapse(v)
      BY <3>2 DEF MayLapse
    <3>4. ASSUME NEW s \in handed, s \notin expired, sess[s] = "live", ~ MayLapse(owner[s])
          PROVE  s \in idx'[owner[s]] \/ \E p \in Procs : pc[p] = "del_add" /\ s \in rest[p]
      <4>1. owner[s] \in Users /\ owner[s] # u
        BY <3>1, <3>4
      <4>2. s \in idx[owner[s]] \/ \E p \in Procs : pc[p] = "del_add" /\ s \in rest[p]
        BY <3>4
      <4>3. idx'[owner[s]] = idx[owner[s]]
        BY ONLY <3>2, <4>1
      <4> QED BY ONLY <4>2, <4>3
    <3>5. \A s \in handed : owner[s] # Nobody
      OBVIOUS
    <3> QED BY ONLY <3>2, <3>3, <3>4, <3>5 DEF Listed
  <2> QED
    BY <1>4, <2>1, <2>2, <2>3, <2>4 DEF Passage
<1> QED
  BY <1>1, <1>2, <1>3, <1>4 DEF Next, Abort, InOrder

LEMMA PairedStep ==
    ASSUME InOrder, Owns, Orderly, [Next]_vars PROVE Paired'
<1>0. Listed /\ Paired /\ \A p \in Procs : AtWork(p) /\ Purging(p)
  BY DEF Orderly
<1>9. Owns' /\ \A u \in Users : MayLapse(u) => MayLapse(u)'
  BY LapseStays, TypeStep, OwnershipStep DEF Owns
<1>8. \A p, r \in Procs : p = r
  BY DEF InOrder
<1> USE <1>0, <1>8, <1>9, ConstantsAssumption DEF Owns, TypeOK, IndexOwnership, RequestOwnership, Owned, Bulk, Begin, Goto, Loading,
      Updating, Deleting, Ended, store, clock, locals,
      Paired, AtWork
<1>1. CASE UNCHANGED vars
  BY <1>1 DEF vars
<1>2. ASSUME NEW p \in Procs, Call(p) PROVE Paired'
  <2>1. ASSUME NEW u \in Users, NEW s \in Sessions, CreateSession(p, u, s) PROVE Paired'
    BY <2>1 DEF CreateSession
  <2>2. ASSUME NEW u \in Users, NEW s \in Sessions, Revoke(p, u, s) PROVE Paired'
    BY <2>2 DEF Revoke
  <2>3. ASSUME NEW u \in Users, NEW o \in {"others", "device"}, BulkMembers(p, u, o) PROVE Paired'
    BY <2>3 DEF BulkMembers
  <2>4. ASSUME NEW u \in Users, PurgeMembers(p, u) PROVE Paired'
    BY <2>4 DEF PurgeMembers
  <2>5. ASSUME NEW s \in Sessions, Logout(p, s) PROVE Paired'
    BY <2>5 DEF Logout
  <2>6. ASSUME NEW s \in Sessions, Touch(p, s) PROVE Paired'
    BY <2>6 DEF Touch
  <2>7. ASSUME NEW s \in Sessions, Refresh(p, s) PROVE Paired'
    BY <2>7 DEF Refresh
  <2> QED
    BY <1>2, <2>1, <2>2, <2>3, <2>4, <2>5, <2>6, <2>7 DEF Call
<1>3. ASSUME NEW p \in Procs, Step(p) PROVE Paired'
  <2>1. CASE CreateToken(p)
    BY <2>1 DEF CreateToken
  <2>2. CASE CreateIndex(p)
    BY <2>2 DEF CreateIndex
  <2>3. CASE CreateLease(p)
    BY <2>3 DEF CreateLease
  <2>4. ASSUME NEW s \in Sessions, UpdateExists(p, s) PROVE Paired'
    BY <2>4 DEF UpdateExists
  <2>5. CASE UpdateSet(p)
    BY <2>5 DEF UpdateSet, Copy
  <2>6. ASSUME NEW s \in Sessions, BulkRead(p, s) PROVE Paired'
    BY <2>6 DEF BulkRead
  <2>7. CASE BulkSelect(p)
    BY <2>7 DEF BulkSelect, Chosen
  <2>8. ASSUME NEW s \in Sessions, DeleteGet(p, s) PROVE Paired'
    BY <2>8 DEF DeleteGet, Visited
  <2>9. CASE DeleteSession(p)
    BY <2>9 DEF DeleteSession
  <2>10. CASE DeleteToken(p)
    BY <2>10 DEF DeleteToken
  <2>11. CASE DeleteMembers(p)
    BY <2>11 DEF DeleteMembers
  <2>12. CASE DeleteIndex(p)
    BY <2>12 DEF DeleteIndex, Visited
  <2>13. CASE DeleteAdd(p)
    BY <2>13 DEF DeleteAdd
  <2>14. CASE DeleteExpire(p)
    BY <2>14 DEF DeleteExpire, Visited
  <2>15. CASE PurgeIndex(p)
    BY <2>15 DEF PurgeIndex
  <2>16. CASE Answer(p)
    BY <2>16 DEF Answer
  <2> QED
    BY <1>3, <2>1, <2>2, <2>3, <2>4, <2>5, <2>6, <2>7, <2>8, <2>9, <2>10, <2>11, <2>12,
       <2>13, <2>14, <2>15, <2>16 DEF Step
<1>4. CASE Passage
  <2>1. ASSUME NEW s \in Sessions, Expire(s) PROVE Paired'
    BY <2>1 DEF Expire
  <2>2. ASSUME NEW s \in Sessions, DropSession(s) PROVE Paired'
    BY <2>2 DEF DropSession
  <2>3. ASSUME NEW s \in Sessions, DropToken(s) PROVE Paired'
    BY <2>3 DEF DropToken
  <2>4. ASSUME NEW u \in Users, DropIndex(u) PROVE Paired'
    BY <2>4 DEF DropIndex
  <2> QED
    BY <1>4, <2>1, <2>2, <2>3, <2>4 DEF Passage
<1> QED
  BY <1>1, <1>2, <1>3, <1>4 DEF Next, Abort, InOrder

LEMMA AtWorkStep ==
    ASSUME InOrder, Owns, Orderly, [Next]_vars, NEW q \in Procs PROVE AtWork(q)'
<1>0. Listed /\ Paired /\ \A p \in Procs : AtWork(p) /\ Purging(p)
  BY DEF Orderly
<1>9. Owns' /\ \A u \in Users : MayLapse(u) => MayLapse(u)'
  BY LapseStays, TypeStep, OwnershipStep DEF Owns
<1>8. \A p, r \in Procs : p = r
  BY DEF InOrder
<1> USE <1>0, <1>8, <1>9, ConstantsAssumption DEF Owns, TypeOK, IndexOwnership, RequestOwnership, Owned, Bulk, Begin, Goto, Loading,
      Updating, Deleting, Ended, store, clock, locals,
      AtWork
<1>1. CASE UNCHANGED vars
  BY <1>1 DEF vars
<1>2. ASSUME NEW p \in Procs, Call(p) PROVE AtWork(q)'
  <2>1. ASSUME NEW u \in Users, NEW s \in Sessions, CreateSession(p, u, s) PROVE AtWork(q)'
    BY <2>1 DEF CreateSession
  <2>2. ASSUME NEW u \in Users, NEW s \in Sessions, Revoke(p, u, s) PROVE AtWork(q)'
    BY <2>2 DEF Revoke
  <2>3. ASSUME NEW u \in Users, NEW o \in {"others", "device"}, BulkMembers(p, u, o) PROVE AtWork(q)'
    BY <2>3 DEF BulkMembers
  <2>4. ASSUME NEW u \in Users, PurgeMembers(p, u) PROVE AtWork(q)'
    BY <2>4 DEF PurgeMembers
  <2>5. ASSUME NEW s \in Sessions, Logout(p, s) PROVE AtWork(q)'
    BY <2>5 DEF Logout
  <2>6. ASSUME NEW s \in Sessions, Touch(p, s) PROVE AtWork(q)'
    BY <2>6 DEF Touch
  <2>7. ASSUME NEW s \in Sessions, Refresh(p, s) PROVE AtWork(q)'
    BY <2>7 DEF Refresh
  <2> QED
    BY <1>2, <2>1, <2>2, <2>3, <2>4, <2>5, <2>6, <2>7 DEF Call
<1>3. ASSUME NEW p \in Procs, Step(p) PROVE AtWork(q)'
  <2>1. CASE CreateToken(p)
    BY <2>1 DEF CreateToken
  <2>2. CASE CreateIndex(p)
    BY <2>2 DEF CreateIndex
  <2>3. CASE CreateLease(p)
    BY <2>3 DEF CreateLease
  <2>4. ASSUME NEW s \in Sessions, UpdateExists(p, s) PROVE AtWork(q)'
    BY <2>4 DEF UpdateExists
  <2>5. CASE UpdateSet(p)
    BY <2>5 DEF UpdateSet, Copy
  <2>6. ASSUME NEW s \in Sessions, BulkRead(p, s) PROVE AtWork(q)'
    BY <2>6 DEF BulkRead
  <2>7. CASE BulkSelect(p)
    BY <2>7 DEF BulkSelect, Chosen
  <2>8. ASSUME NEW s \in Sessions, DeleteGet(p, s) PROVE AtWork(q)'
    BY <2>8 DEF DeleteGet, Visited
  <2>9. CASE DeleteSession(p)
    BY <2>9 DEF DeleteSession
  <2>10. CASE DeleteToken(p)
    BY <2>10 DEF DeleteToken
  <2>11. CASE DeleteMembers(p)
    BY <2>11 DEF DeleteMembers
  <2>12. CASE DeleteIndex(p)
    BY <2>12 DEF DeleteIndex, Visited
  <2>13. CASE DeleteAdd(p)
    BY <2>13 DEF DeleteAdd
  <2>14. CASE DeleteExpire(p)
    BY <2>14 DEF DeleteExpire, Visited
  <2>15. CASE PurgeIndex(p)
    BY <2>15 DEF PurgeIndex
  <2>16. CASE Answer(p)
    BY <2>16 DEF Answer
  <2> QED
    BY <1>3, <2>1, <2>2, <2>3, <2>4, <2>5, <2>6, <2>7, <2>8, <2>9, <2>10, <2>11, <2>12,
       <2>13, <2>14, <2>15, <2>16 DEF Step
<1>4. CASE Passage
  <2>1. ASSUME NEW s \in Sessions, Expire(s) PROVE AtWork(q)'
    BY <2>1 DEF Expire
  <2>2. ASSUME NEW s \in Sessions, DropSession(s) PROVE AtWork(q)'
    BY <2>2 DEF DropSession
  <2>3. ASSUME NEW s \in Sessions, DropToken(s) PROVE AtWork(q)'
    <3>1. UNCHANGED <<sess, idx, owner, expired, pc, op, usr, cur, todo, rest>>
      BY <2>3 DEF DropToken
    <3>2. AtWork(q)
      BY <1>0
    <3> QED BY <3>1, <3>2 DEF MayLapse
  <2>4. ASSUME NEW u \in Users, DropIndex(u) PROVE AtWork(q)'
    <3>1. UNCHANGED <<sess, owner, expired, pc, op, usr, cur, todo, rest>> /\ idx' = [idx EXCEPT ![u] = {}]
      BY <2>4 DEF DropIndex
    <3>2. MayLapse(u)
      BY <2>4 DEF DropIndex, MayLapse
    <3>3. \A v : MayLapse(v)' <=> MayLapse(v)
      BY <3>1 DEF MayLapse
    <3>4. \A v \in Users : idx'[v] \subseteq idx[v] /\ (idx'[v] = idx[v] \/ MayLapse(v))
      BY <3>1, <3>2
    <3>5. AtWork(q)
      BY <1>0
    <3>6. pc[q] = "create_expire" => usr[q] \in Users
      OBVIOUS
    <3>7. pc[q] = "del_index" => owner[cur[q]] \in Users
      OBVIOUS
    <3> QED BY <3>1, <3>3, <3>4, <3>5, <3>6, <3>7
  <2> QED
    BY <1>4, <2>1, <2>2, <2>3, <2>4 DEF Passage
<1> QED
  BY <1>1, <1>2, <1>3, <1>4 DEF Next, Abort, InOrder

LEMMA PurgingStep ==
    ASSUME InOrder, Owns, Orderly, [Next]_vars, NEW q \in Procs PROVE Purging(q)'
<1>0. Listed /\ Paired /\ \A p \in Procs : AtWork(p) /\ Purging(p)
  BY DEF Orderly
<1>9. Owns' /\ \A u \in Users : MayLapse(u) => MayLapse(u)'
  BY LapseStays, TypeStep, OwnershipStep DEF Owns
<1>8. \A p, r \in Procs : p = r
  BY DEF InOrder
<1> USE <1>0, <1>8, <1>9, ConstantsAssumption DEF Owns, TypeOK, IndexOwnership, RequestOwnership, Owned, Bulk, Begin, Goto, Loading,
      Updating, Deleting, Ended, store, clock, locals,
      Purging, Due, Listed, AtWork
<1>1. CASE UNCHANGED vars
  BY <1>1 DEF vars
<1>2. ASSUME NEW p \in Procs, Call(p) PROVE Purging(q)'
  <2>1. ASSUME NEW u \in Users, NEW s \in Sessions, CreateSession(p, u, s) PROVE Purging(q)'
    BY <2>1 DEF CreateSession
  <2>2. ASSUME NEW u \in Users, NEW s \in Sessions, Revoke(p, u, s) PROVE Purging(q)'
    BY <2>2 DEF Revoke
  <2>3. ASSUME NEW u \in Users, NEW o \in {"others", "device"}, BulkMembers(p, u, o) PROVE Purging(q)'
    BY <2>3 DEF BulkMembers
  <2>4. ASSUME NEW u \in Users, PurgeMembers(p, u) PROVE Purging(q)'
    BY <2>4 DEF PurgeMembers
  <2>5. ASSUME NEW s \in Sessions, Logout(p, s) PROVE Purging(q)'
    BY <2>5 DEF Logout
  <2>6. ASSUME NEW s \in Sessions, Touch(p, s) PROVE Purging(q)'
    BY <2>6 DEF Touch
  <2>7. ASSUME NEW s \in Sessions, Refresh(p, s) PROVE Purging(q)'
    BY <2>7 DEF Refresh
  <2> QED
    BY <1>2, <2>1, <2>2, <2>3, <2>4, <2>5, <2>6, <2>7 DEF Call
<1>3. ASSUME NEW p \in Procs, Step(p) PROVE Purging(q)'
  <2>1. CASE CreateToken(p)
    BY <2>1 DEF CreateToken
  <2>2. CASE CreateIndex(p)
    BY <2>2 DEF CreateIndex
  <2>3. CASE CreateLease(p)
    BY <2>3 DEF CreateLease
  <2>4. ASSUME NEW s \in Sessions, UpdateExists(p, s) PROVE Purging(q)'
    BY <2>4 DEF UpdateExists
  <2>5. CASE UpdateSet(p)
    BY <2>5 DEF UpdateSet, Copy
  <2>6. ASSUME NEW s \in Sessions, BulkRead(p, s) PROVE Purging(q)'
    BY <2>6 DEF BulkRead
  <2>7. CASE BulkSelect(p)
    BY <2>7 DEF BulkSelect, Chosen
  <2>8. ASSUME NEW s \in Sessions, DeleteGet(p, s) PROVE Purging(q)'
    BY <2>8 DEF DeleteGet, Visited
  <2>9. CASE DeleteSession(p)
    BY <2>9 DEF DeleteSession
  <2>10. CASE DeleteToken(p)
    BY <2>10 DEF DeleteToken
  <2>11. CASE DeleteMembers(p)
    BY <2>11 DEF DeleteMembers
  <2>12. CASE DeleteIndex(p)
    BY <2>12 DEF DeleteIndex, Visited
  <2>13. CASE DeleteAdd(p)
    BY <2>13 DEF DeleteAdd
  <2>14. CASE DeleteExpire(p)
    BY <2>14 DEF DeleteExpire, Visited
  <2>15. CASE PurgeIndex(p)
    BY <2>15 DEF PurgeIndex
  <2>16. CASE Answer(p)
    BY <2>16 DEF Answer
  <2> QED
    BY <1>3, <2>1, <2>2, <2>3, <2>4, <2>5, <2>6, <2>7, <2>8, <2>9, <2>10, <2>11, <2>12,
       <2>13, <2>14, <2>15, <2>16 DEF Step
<1>4. CASE Passage
  <2>1. ASSUME NEW s \in Sessions, Expire(s) PROVE Purging(q)'
    BY <2>1 DEF Expire
  <2>2. ASSUME NEW s \in Sessions, DropSession(s) PROVE Purging(q)'
    BY <2>2 DEF DropSession
  <2>3. ASSUME NEW s \in Sessions, DropToken(s) PROVE Purging(q)'
    BY <2>3 DEF DropToken
  <2>4. ASSUME NEW u \in Users, DropIndex(u) PROVE Purging(q)'
    BY <2>4 DEF DropIndex
  <2> QED
    BY <1>4, <2>1, <2>2, <2>3, <2>4 DEF Passage
<1> QED
  BY <1>1, <1>2, <1>3, <1>4 DEF Next, Abort, InOrder

\* Orderly is inductive next to the ownership of the requests.
LEMMA OrderlyInvariant == ASSUME InOrder PROVE Spec => []Orderly
<1>1. Init => Orderly
  BY DEF Init, Orderly, Listed, Paired, AtWork, Purging
<1>2. Owns /\ Orderly /\ [Next]_vars => Orderly'
  BY ListedStep, PairedStep, AtWorkStep, PurgingStep DEF Orderly
<1> QED BY <1>1, <1>2, OwnsInvariant, PTL DEF Spec

\* As long as requests come one after the other and no Redis call fails: a
\* usable session is in the index of its owner unless that may have lapsed, a
\* reset ends them all, the two keys of a session go together, and a revoked
\* session stays revoked (SessionRepository's commands, one by one).
THEOREM InOrderStaysInOrder == ASSUME InOrder PROVE Spec => StoreInOrder
<1>1. Orderly => IndexComplete /\ ResetTerminatesAll /\ TokenPaired
  <2> SUFFICES ASSUME Orderly PROVE IndexComplete /\ ResetTerminatesAll /\ TokenPaired
    OBVIOUS
  <2>1. Listed /\ Paired /\ \A p \in Procs : Purging(p)
    BY DEF Orderly
  <2>2. IndexComplete
    BY <2>1 DEF IndexComplete, Quiet, Ended, Listed
  <2>3. ResetTerminatesAll
    BY <2>1 DEF ResetTerminatesAll, Purging
  <2>4. TokenPaired
    BY <2>1 DEF TokenPaired, Quiet, Ended, Paired
  <2> QED BY <2>2, <2>3, <2>4
<1>2. Owns /\ Orderly /\ [Next]_vars => RevokedStaysRevoked
  <2> SUFFICES ASSUME Owns, Orderly, [Next]_vars, NEW s \in Sessions, sess[s] = "revoked"
               PROVE  sess'[s] # "live"
    BY DEF RevokedStaysRevoked
  <2>1. \A p \in Procs : AtWork(p)
    BY DEF Orderly
  <2> USE DEF Owns, TypeOK, IndexOwnership, RequestOwnership, Begin, Goto, store, clock, locals
  <2>2. ASSUME NEW p \in Procs, UpdateSet(p) PROVE sess'[s] # "live"
    BY <2>1, <2>2 DEF UpdateSet, Copy, AtWork, Updating
  <2>3. ASSUME NEW p \in Procs, Call(p) PROVE sess'[s] # "live"
    BY <2>3 DEF Call, CreateSession, Revoke, BulkMembers, PurgeMembers, Logout, Touch, Refresh
  <2>4. ASSUME NEW p \in Procs, Step(p), ~ UpdateSet(p) PROVE sess'[s] # "live"
    BY <2>4 DEF Step, CreateToken, CreateIndex, CreateLease, UpdateExists, BulkRead, BulkSelect,
       DeleteGet, DeleteSession, DeleteToken, DeleteMembers, DeleteIndex, DeleteAdd,
       DeleteExpire, PurgeIndex, Answer
  <2>5. CASE Passage
    BY <2>5 DEF Passage, Expire, DropSession, DropToken, DropIndex
  <2> QED BY <2>2, <2>3, <2>4, <2>5 DEF Next, Abort, vars
<1>3. Owns /\ Orderly /\ [Next]_vars => Orderly'
  BY ListedStep, PairedStep, AtWorkStep, PurgingStep DEF Orderly
<1>4. Owns /\ Orderly /\ [Next]_vars =>
          [IndexComplete' /\ ResetTerminatesAll' /\ TokenPaired' /\ RevokedStaysRevoked]_vars
  <2>1. Orderly' => IndexComplete' /\ ResetTerminatesAll' /\ TokenPaired'
    BY <1>1, PTL
  <2> QED BY <1>2, <1>3, <2>1
<1> QED BY <1>4, OwnsInvariant, OrderlyInvariant, PTL DEF Spec, StoreInOrder
=============================================================================
