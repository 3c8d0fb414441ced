------------------------------ MODULE SessionLock ------------------------------
(***************************************************************************)
(* withSessionLock (session-consistency.ts) on one session: SET NX EX with *)
(* a fresh lockId, tried again for maxLockWaitTime, after which the        *)
(* function runs WITHOUT the lock.  The key expires by itself; release     *)
(* compares the lockId in a script.  A SET whose answer was lost leaves a  *)
(* lock that its own call takes for somebody else's.                       *)
(*                                                                         *)
(* Inside, a call reads the session and writes it back.  A call whose read *)
(* is overtaken by the write of another one loses that update.             *)
(***************************************************************************)
EXTENDS Naturals

CONSTANTS
    Lockers,        \* calls of withSessionLock in flight
    MaxTries,       \* tries that fit into maxLockWaitTime
    Free, Orphan    \* no lock; a lock whose call has ended

ASSUME LockAssumption ==
    /\ MaxTries \in Nat \ {0}
    /\ Free \notin Lockers
    /\ Orphan \notin Lockers
    /\ Free # Orphan

VARIABLES
    at,         \* "out", "trying", "inside" or "releasing"
    tries,      \* tries made so far
    acquired,   \* lockAcquired
    lock,       \* the key: Free, Orphan or the lockId of a call
    expired,    \* history: the lock expired while its call was inside
    spoiled  \* history: who wrote since the call's read, see Body

lockVars == <<at, tries, acquired, lock, expired, spoiled>>

LockTypeOK ==
    /\ at \in [Lockers -> {"out", "trying", "inside", "releasing"}]
    /\ tries \in [Lockers -> 0..MaxTries]
    /\ acquired \in [Lockers -> BOOLEAN]
    /\ lock \in Lockers \cup {Free, Orphan}
    /\ expired \in [Lockers -> BOOLEAN]
    /\ spoiled \in [Lockers -> {"no", "holder", "intruder"}]

LockInit ==
    /\ at = [c \in Lockers |-> "out"]
    /\ tries = [c \in Lockers |-> 0]
    /\ acquired = [c \in Lockers |-> FALSE]
    /\ lock = Free
    /\ expired = [c \in Lockers |-> FALSE]
    /\ spoiled = [c \in Lockers |-> "no"]

\* The call is inside under a lock that has not expired.
Holds(c) == at[c] \in {"inside", "releasing"} /\ acquired[c] /\ ~ expired[c]

Enter(c) ==
    /\ at[c] = "out"
    /\ at' = [at EXCEPT ![c] = "trying"]
    /\ UNCHANGED <<tries, acquired, lock, expired, spoiled>>

\* SET NX answers OK; the function starts with its read.
Acquire(c) ==
    /\ at[c] = "trying" /\ tries[c] < MaxTries
    /\ lock = Free
    /\ lock' = c
    /\ at' = [at EXCEPT ![c] = "inside"]
    /\ acquired' = [acquired EXCEPT ![c] = TRUE]
    /\ tries' = [tries EXCEPT ![c] = 0]
    /\ UNCHANGED <<expired, spoiled>>

\* Slip: the loop has no end.
Miss_Forever(c, landed) ==
    /\ at[c] = "trying"
    /\ lock # Free \/ landed
    /\ lock' = IF landed /\ lock = Free THEN c ELSE lock
    /\ UNCHANGED <<at, tries, acquired, expired, spoiled>>

\* The key exists, or Redis fails before or after the SET; wait and retry.
Miss(c, landed) ==
    /\ at[c] = "trying" /\ tries[c] < MaxTries
    /\ tries' = [tries EXCEPT ![c] = @ + 1]
    /\ lock' = IF landed /\ lock = Free THEN c ELSE lock
    /\ UNCHANGED <<at, acquired, expired, spoiled>>

\* maxLockWaitTime is over: degraded mode.
GiveUp(c) ==
    /\ at[c] = "trying" /\ tries[c] > 0
    /\ at' = [at EXCEPT ![c] = "inside"]
    /\ tries' = [tries EXCEPT ![c] = 0]
    /\ UNCHANGED <<acquired, lock, expired, spoiled>>

\* The call ends and its locals with it; the history starts anew.
Leave(c) ==
    /\ at' = [at EXCEPT ![c] = "out"]
    /\ tries' = [tries EXCEPT ![c] = 0]
    /\ acquired' = [acquired EXCEPT ![c] = FALSE]
    /\ expired' = [expired EXCEPT ![c] = FALSE]

\* A lock whose call has ended belongs to nobody who could release it.
Disown(c) == lock' = IF lock = c THEN Orphan ELSE lock

\* History of a write of c: every read that it overtakes is spoiled.
Spoil(c, writes) ==
    [d \in Lockers |->
       CASE d = c /\ ~ acquired[c] -> "no"
         [] d # c /\ writes /\ at[d] = "inside" /\ spoiled[d] # "intruder"
              -> IF Holds(c) THEN "holder" ELSE "intruder"
         [] OTHER -> spoiled[d]]

\* The function settles, with or without its write.  The finally block
\* releases only what was acquired.
Body(c, writes) ==
    /\ at[c] = "inside"
    /\ spoiled' = Spoil(c, writes)
    /\ IF acquired[c]
       THEN /\ at' = [at EXCEPT ![c] = "releasing"]
            /\ UNCHANGED <<tries, acquired, lock, expired>>
       ELSE Leave(c) /\ Disown(c)

\* Slip: DEL without comparing the owner.
Release_Any(c, fails) ==
    /\ at[c] = "releasing"
    /\ Leave(c)
    /\ spoiled' = [spoiled EXCEPT ![c] = "no"]
    /\ IF fails THEN Disown(c) ELSE lock' = Free

\* The script; an error is logged and the lock is left to its TTL.
Release(c, fails) ==
    /\ at[c] = "releasing"
    /\ Leave(c)
    /\ spoiled' = [spoiled EXCEPT ![c] = "no"]
    /\ IF fails THEN Disown(c) ELSE lock' = IF lock = c THEN Free ELSE lock

\* sessionLockTTL is over.
LockExpires ==
    /\ lock # Free
    /\ lock' = Free
    /\ expired' = [c \in Lockers |-> expired[c] \/ (lock = c /\ acquired[c])]
    /\ UNCHANGED <<at, tries, acquired, spoiled>>

\* The instance of the call dies.
CrashOf(c) ==
    /\ at[c] # "out"
    /\ Leave(c)
    /\ Disown(c)
    /\ spoiled' = [spoiled EXCEPT ![c] = "no"]

Proceed(c) ==
    \/ Acquire(c) \/ GiveUp(c)
    \/ \E b \in BOOLEAN : Miss(c, b) \/ Body(c, b) \/ Release(c, b)

LockNext ==
    \/ \E c \in Lockers : Enter(c) \/ Proceed(c) \/ CrashOf(c)
    \/ LockExpires

LockSpec == LockInit /\ [][LockNext]_lockVars

\* Commands are answered, timers fire and the wrapped function settles.
LockFairness == \A c \in Lockers : WF_lockVars(Proceed(c))

-----------------------------------------------------------------------------
(* Properties                                                              *)

\* A call inside under an unexpired lock owns the key, so no two calls hold
\* the lock at once.
OneHolder == \A c \in Lockers : Holds(c) => lock = c

\* An update is lost only to a call in degraded mode or one that outlived
\* its lock: never between two calls that both hold it.
LostUpdateExplained ==
    \A c \in Lockers : Holds(c) => spoiled[c] # "holder"

\* Leaving never removes the lock of another call, even after the own lock
\* has expired and been taken over.
LeavesOthers ==
    \A c \in Lockers : at[c] # "out" /\ at'[c] = "out" => lock' = lock \/ lock = c
ReleaseOwn == [][LeavesOthers]_lockVars

\* Every call gets to run and ends: the wait for the lock is bounded.
NobodyWaitsForever == \A c \in Lockers : at[c] = "trying" ~> at[c] = "out"

\* The lock keeps calls that hold it apart, and only its holder frees it.
LockProtects ==
    [][OneHolder' /\ LostUpdateExplained' /\ LeavesOthers]_lockVars
=============================================================================
