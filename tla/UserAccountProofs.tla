-------------------------- MODULE UserAccountProofs --------------------------
(***************************************************************************)
(* LockMatchesAttempts, UsedTokenDies and AtomicUnlessOvertaken for any    *)
(* number of users, passwords, tokens and overlapping requests.            *)
(***************************************************************************)
EXTENDS UserAccount, TLAPS

-----------------------------------------------------------------------------
(* The entity                                                              *)

\* An entity that is not locked gets no further than the limit, where it locks.
LEMMA FailedSound ==
    ASSUME NEW r \in Row, Sound(r), r.lock = "open"
    PROVE  Failed(r) \in Row /\ Sound(Failed(r))
<1> USE AccountAssumption DEF Row, Sound, Failed
<1>1. r # None /\ r.attempts + 1 \in 0 .. MaxAttempts
  OBVIOUS
<1>2. CASE r.attempts + 1 >= MaxAttempts
  BY <1>1, <1>2
<1>3. CASE ~ (r.attempts + 1 >= MaxAttempts)
  BY <1>1, <1>3
<1> QED
  BY <1>2, <1>3

\* unlockAccount opens the lock and clears the counter.
LEMMA UnlockedSound ==
    ASSUME NEW r \in Row
    PROVE  Unlocked(r) \in Row /\ Sound(Unlocked(r)) /\ Unlocked(r).lock = "open"
<1> DEFINE s == [r EXCEPT !.lock = "open"]
<1>1. 0 \in 0 .. MaxAttempts /\ ~ (0 >= MaxAttempts)
  BY AccountAssumption
<1>2. s \in Row /\ s.lock = "open"
  BY DEF Row
<1>3. Unlocked(r) = [s EXCEPT !.attempts = 0]
  BY DEF Unlocked
<1> HIDE DEF s
<1>4. /\ Unlocked(r) \in Row
      /\ Unlocked(r).attempts = 0
      /\ Unlocked(r).lock = "open"
  BY <1>1, <1>2, <1>3 DEF Row
<1> QED
  BY <1>1, <1>4 DEF Sound

\* isAccountLocked leaves a sound entity, open unless it is locked.
LEMMA CurrentSound ==
    ASSUME NEW r \in Row, Sound(r), r.lock # "locked"
    PROVE  Current(r) \in Row /\ Sound(Current(r)) /\ Current(r).lock = "open"
<1>1. CASE r.lock = "lapsed"
  <2>1. Current(r) = Unlocked(r)
    BY <1>1 DEF Current
  <2> QED
    BY <2>1, UnlockedSound
<1>2. CASE r.lock = "open"
  BY <1>2 DEF Current
<1> QED
  BY <1>1, <1>2 DEF Row

\* An operation on a sound row gives a sound row; a login is one that the
\* lock did not refuse.
LEMMA EffectSound ==
    ASSUME NEW o \in AllOps, NEW w, NEW r \in Row, Sound(r),
           o \in {"login", "reset", "change"} => w \in Passwords,
           o = "login" => r.lock # "locked"
    PROVE  Effect(o, w, r) \in Row /\ Sound(Effect(o, w, r))
<1>1. CASE o = "login" /\ w = r.pw
  <2>1. Effect(o, w, r) = [Current(r) EXCEPT !.attempts = 0]
    BY <1>1 DEF Effect
  <2>2. Current(r) \in Row
    BY <1>1, CurrentSound
  <2> QED
    BY <2>1, <2>2, AccountAssumption DEF Row, Sound
<1>2. CASE o = "login" /\ w # r.pw
  <2>1. Effect(o, w, r) = Failed(Current(r))
    BY <1>2 DEF Effect
  <2> DEFINE c == Current(r)
  <2>2. c \in Row /\ Sound(c) /\ c.lock = "open"
    BY <1>2, CurrentSound
  <2> HIDE DEF c
  <2>3. Failed(c) \in Row /\ Sound(Failed(c))
    BY <2>2, FailedSound
  <2> QED
    BY <2>1, <2>3 DEF c
<1>3. CASE o # "login"
  <2>1. r # None
    BY AccountAssumption
  <2>2. CASE o \in {"reset", "change"}
    BY <2>2, <2>1, AccountAssumption DEF Effect, Row, Sound
  <2>3. CASE o \in {"verify", "profile", "lock", "delete", "register"}
    BY <2>3, <2>1, AccountAssumption DEF Effect, Row, Sound
  <2>4. CASE o = "unlock"
    BY <2>4, UnlockedSound DEF Effect
  <2> QED
    BY <1>3, <2>2, <2>3, <2>4 DEF AllOps
<1> QED
  BY <1>1, <1>2, <1>3

\* The lapse of a lock keeps a row sound.
LEMMA LapsedSound ==
    ASSUME NEW r \in Row \cup {None}, Sound(r)
    PROVE  Lapsed(r) \in Row \cup {None} /\ Sound(Lapsed(r)) /\ (r \in Row => Lapsed(r) \in Row)
  BY AccountAssumption DEF Row, Sound, Lapsed

\* An operation other than a login does the same before and after the lapse.
LEMMA LapseCommutes ==
    ASSUME NEW o \in AllOps, NEW w, NEW r \in Row,
           o \in {"reset", "change"} => w \in Passwords,
           o # "login"
    PROVE  Lapsed(Effect(o, w, Lapsed(r))) = Lapsed(Effect(o, w, r))
<1>1. r # None /\ Lapsed(r) \in Row /\ Lapsed(r) # None
  BY AccountAssumption DEF Row, Lapsed
<1>2. CASE r.lock # "locked"
  BY <1>2 DEF Lapsed
<1>3. CASE r.lock = "locked"
  <2>1. Lapsed(r) = [r EXCEPT !.lock = "lapsed"]
    BY <1>1, <1>3 DEF Lapsed
  <2>2. CASE o \in {"reset", "change"}
    BY <1>3, <2>1, <2>2, AccountAssumption DEF Effect, Row, Lapsed
  <2>3. CASE o \in {"verify", "profile", "register"}
    BY <1>3, <2>1, <2>3, AccountAssumption DEF Effect, Row, Lapsed
  <2>4. CASE o \in {"lock", "delete"}
    BY <1>3, <2>1, <2>4, AccountAssumption DEF Effect, Row, Lapsed
  <2>5. CASE o = "unlock"
    BY <1>3, <2>1, <2>5, AccountAssumption DEF Effect, Row, Lapsed, Unlocked
  <2> QED
    BY <2>2, <2>3, <2>4, <2>5 DEF AllOps
<1> QED
  BY <1>2, <1>3

-----------------------------------------------------------------------------
(* The invariant                                                           *)

\* What a request in flight holds.  A login that nobody overtook read a row
\* that was not locked.
Request(p) ==
    /\ pc[p] # "idle" => usr[p] \in Users /\ op[p] \in Ops
    /\ pc[p] = "insert" => arg[p] \in Passwords
    /\ pc[p] = "update" =>
         /\ image[p] \in Row
         /\ row[usr[p]] \in Row
         /\ op[p] \in {"login", "reset", "change"} => arg[p] \in Passwords
         /\ op[p] = "login" /\ ~ late[p] => row[usr[p]].lock # "locked"
    /\ pc[p] = "drop" \/ (pc[p] = "update" /\ op[p] \in {"verify", "reset"}) =>
         token[p] \in Tokens /\ owner[token[p]] # None

\* The image of a request that nobody overtook.
Exact(p) ==
    pc[p] = "update" /\ ~ late[p] =>
        Lapsed(image[p]) = Lapsed(Effect(op[p], arg[p], row[usr[p]]))

Drawn == \A t \in live \cup spent : owner[t] # None

IInv ==
    /\ TypeOK
    /\ LockMatchesAttempts
    /\ UsedTokenDies
    /\ Drawn
    /\ \A p \in Procs : Request(p)
    /\ \A p \in Procs : Exact(p)

\* The first states.
LEMMA IInvInit == Init => IInv
  BY AccountAssumption DEF Init, IInv, TypeOK, LockMatchesAttempts, UsedTokenDies, Drawn, Request,
     Exact, Sound

\* A request that reads.
LEMMA ChangeStep ==
    ASSUME IInv, NEW p \in Procs, NEW o \in AllOps, NEW u \in Users, NEW w, NEW t,
           w \in Passwords \cup {None}, t \in Tokens \cup {None},
           Change(p, o, u, w, t),
           o \in {"login", "reset", "change"} => w \in Passwords,
           o = "login" => row[u].lock # "locked",
           o \in {"verify", "reset"} => t \in Tokens /\ owner[t] # None
    PROVE  IInv'
<1> DEFINE r == row[u]
           i == Effect(o, w, r)
<1>1. r \in Row /\ Sound(r)
  BY DEF IInv, TypeOK, LockMatchesAttempts, Change, Found
<1>2. i \in Row /\ Sound(i)
  BY <1>1, EffectSound
<1>3. /\ o \in Ops /\ pc' = [pc EXCEPT ![p] = "update"]
      /\ op' = [op EXCEPT ![p] = o] /\ usr' = [usr EXCEPT ![p] = u]
      /\ arg' = [arg EXCEPT ![p] = w] /\ token' = [token EXCEPT ![p] = t]
      /\ image' = [image EXCEPT ![p] = i]
      /\ UNCHANGED <<row, live, purpose, owner, spent, late>>
  BY DEF Change, Begin, tokens
<1> HIDE DEF i
<1>4. TypeOK'
  BY <1>2, <1>3 DEF IInv, TypeOK
<1>5. LockMatchesAttempts'
  BY <1>2, <1>3 DEF IInv, TypeOK, LockMatchesAttempts, Sound
<1>6. UsedTokenDies' /\ Drawn'
  BY <1>3 DEF IInv, UsedTokenDies, Drawn
<1>7. \A q \in Procs : Request(q)'
  BY <1>1, <1>2, <1>3 DEF IInv, TypeOK, Request
<1>8. \A q \in Procs : Exact(q)'
  <2> SUFFICES ASSUME NEW q \in Procs
               PROVE  Exact(q)'
    OBVIOUS
  <2>1. CASE q = p
    BY <1>3, <2>1 DEF IInv, TypeOK, Exact, i
  <2>2. CASE q # p
    BY <1>3, <2>2 DEF IInv, TypeOK, Exact
  <2> QED
    BY <2>1, <2>2
<1> QED
  BY <1>4, <1>5, <1>6, <1>7, <1>8 DEF IInv

\* A registration that found nobody.
LEMMA RegisterStep ==
    ASSUME IInv, NEW p \in Procs, NEW u \in Users, NEW w \in Passwords, Register(p, u, w)
    PROVE  IInv'
<1>1. /\ "register" \in Ops /\ pc' = [pc EXCEPT ![p] = "insert"]
      /\ op' = [op EXCEPT ![p] = "register"] /\ usr' = [usr EXCEPT ![p] = u]
      /\ arg' = [arg EXCEPT ![p] = w] /\ token' = [token EXCEPT ![p] = None]
      /\ image' = [image EXCEPT ![p] = None]
      /\ UNCHANGED <<row, live, purpose, owner, spent, late>>
  BY DEF Register, Begin, tokens
<1>2. TypeOK'
  BY <1>1 DEF IInv, TypeOK
<1>3. LockMatchesAttempts'
  BY <1>1 DEF IInv, TypeOK, LockMatchesAttempts, Sound
<1>4. UsedTokenDies' /\ Drawn'
  BY <1>1 DEF IInv, UsedTokenDies, Drawn
<1>5. \A q \in Procs : Request(q)'
  BY <1>1 DEF IInv, TypeOK, Request
<1>6. \A q \in Procs : Exact(q)'
  BY <1>1 DEF IInv, TypeOK, Exact
<1> QED
  BY <1>2, <1>3, <1>4, <1>5, <1>6 DEF IInv

\* A request that ends or goes on has let go of its entity.
LEMMA GoToType ==
    ASSUME TypeOK, NEW p \in Procs, NEW point \in {"idle", "drop"}, GoTo(p, point)
    PROVE  /\ pc' = [pc EXCEPT ![p] = point]
           /\ image' = [image EXCEPT ![p] = None]
           /\ pc' \in [Procs -> {"idle", "insert", "update", "drop"}]
           /\ op' \in [Procs -> Ops \cup {None}]
           /\ usr' \in [Procs -> Users \cup {None}]
           /\ arg' \in [Procs -> Passwords \cup {None}]
           /\ token' \in [Procs -> Tokens \cup {None}]
           /\ image' \in [Procs -> Row \cup {None}]
           /\ \A q \in Procs \ {p} : /\ pc'[q] = pc[q] /\ op'[q] = op[q] /\ usr'[q] = usr[q]
                                     /\ arg'[q] = arg[q] /\ token'[q] = token[q]
                                     /\ image'[q] = image[q]
           /\ pc'[p] = point /\ image'[p] = None
           /\ point = "drop" => op' = op /\ usr' = usr /\ token' = token
<1>1. CASE point = "idle"
  BY <1>1 DEF TypeOK, GoTo
<1>2. CASE point = "drop"
  BY <1>2 DEF TypeOK, GoTo
<1> QED
  BY <1>1, <1>2

\* A drawn token was not drawn before.
LEMMA DrawStep ==
    ASSUME IInv, NEW t \in Tokens, NEW o \in {"verify", "reset"}, NEW u \in Users,
           Draw(t, o, u), spent' = spent
    PROVE  /\ live' \subseteq Tokens
           /\ purpose' \in [Tokens -> {"verify", "reset", None}]
           /\ owner' \in [Tokens -> Users \cup {None}]
           /\ UsedTokenDies' /\ Drawn'
           /\ \A x \in Tokens : owner[x] # None => owner'[x] # None
<1>1. None \notin Users
  BY AccountAssumption
<1>2. t \notin spent
  BY DEF IInv, Drawn, Draw
<1> QED
  BY <1>1, <1>2 DEF IInv, TypeOK, Draw, UsedTokenDies, Drawn

\* The row of a registration.
LEMMA InsertStep ==
    ASSUME IInv, NEW p \in Procs, Insert(p)
    PROVE  IInv'
<1>1. /\ pc[p] = "insert" /\ usr[p] \in Users /\ arg[p] \in Passwords
      /\ GoTo(p, "idle") /\ UNCHANGED <<spent, late>>
  BY DEF Insert, IInv, Request
<1>2. /\ live' \subseteq Tokens
      /\ purpose' \in [Tokens -> {"verify", "reset", None}]
      /\ owner' \in [Tokens -> Users \cup {None}]
      /\ UsedTokenDies' /\ Drawn'
      /\ \A x \in Tokens : owner[x] # None => owner'[x] # None
  <2>1. CASE UNCHANGED <<live, purpose, owner>>
    BY <1>1, <2>1 DEF IInv, TypeOK, UsedTokenDies, Drawn
  <2>2. CASE \E t \in Tokens : Draw(t, "verify", usr[p])
    <3>1. PICK t \in Tokens : Draw(t, "verify", usr[p])
      BY <2>2
    <3>2. PICK u \in Users : u = usr[p]
      BY <1>1
    <3> QED
      BY <1>1, <3>1, <3>2, DrawStep
  <2> QED
    BY <2>1, <2>2 DEF Insert
<1>3. /\ row' \in [Users -> Row \cup {None}]
      /\ \A u \in Users : Sound(row'[u])
      /\ \A u \in Users : row[u] # None => row'[u] = row[u]
  <2>1. CASE row' = row
    BY <2>1 DEF IInv, TypeOK, LockMatchesAttempts
  <2>2. CASE row[usr[p]] = None /\ row' = [row EXCEPT ![usr[p]] = Fresh(arg[p])]
    <3>1. Fresh(arg[p]) \in Row /\ Sound(Fresh(arg[p]))
      BY <1>1, AccountAssumption DEF Fresh, Row, Sound
    <3> QED
      BY <1>1, <2>2, <3>1 DEF IInv, TypeOK, LockMatchesAttempts
  <2> QED
    BY <2>1, <2>2 DEF Insert
<1>4. TypeOK'
  BY <1>1, <1>2, <1>3, GoToType DEF IInv, TypeOK
<1>5. LockMatchesAttempts'
  BY <1>1, <1>3, GoToType DEF IInv, TypeOK, LockMatchesAttempts, Sound
<1>6. \A q \in Procs : Request(q)' /\ Exact(q)'
  <2> SUFFICES ASSUME NEW q \in Procs
               PROVE  Request(q)' /\ Exact(q)'
    OBVIOUS
  <2>1. CASE q = p
    BY <1>1, <2>1, GoToType DEF IInv, Request, Exact
  <2>2. CASE q # p
    <3>1. /\ pc'[q] = pc[q] /\ op'[q] = op[q] /\ usr'[q] = usr[q] /\ arg'[q] = arg[q]
          /\ token'[q] = token[q] /\ image'[q] = image[q] /\ late'[q] = late[q]
      BY <1>1, <2>2, GoToType DEF IInv
    <3>2. pc[q] = "update" => row'[usr[q]] = row[usr[q]]
      BY <1>3, AccountAssumption DEF IInv, Request
    <3> QED
      BY <1>2, <3>1, <3>2 DEF IInv, Request, Exact
  <2> QED
    BY <2>1, <2>2
<1> QED
  BY <1>2, <1>4, <1>5, <1>6 DEF IInv

\* The write of a whole row: who holds an entity of this user is overtaken.
LEMMA UpdateStep ==
    ASSUME IInv, NEW p \in Procs, Update(p)
    PROVE  IInv'
<1> DEFINE point == IF op[p] \in {"verify", "reset"} THEN "drop" ELSE "idle"
<1>1. /\ pc[p] = "update" /\ usr[p] \in Users /\ image[p] \in Row /\ Sound(image[p])
      /\ row' = [row EXCEPT ![usr[p]] = image[p]]
      /\ GoTo(p, point) /\ Overtake(p)
      /\ live' = live /\ purpose' = purpose /\ owner' = owner /\ spent' = spent
  BY DEF Update, tokens, IInv, Request, LockMatchesAttempts
<1>2. point \in {"idle", "drop"} /\ (point = "drop" => op[p] \in {"verify", "reset"})
  OBVIOUS
<1> HIDE DEF point
<1>3. /\ late' \in [Procs -> BOOLEAN]
      /\ \A q \in Procs \ {p} :
            /\ late[q] => late'[q]
            /\ pc[q] = "update" /\ usr[q] = usr[p] => late'[q]
  <2>1. \A q \in Procs : (q # p /\ (late[q] \/ (pc[q] = "update" /\ usr[q] = usr[p]))) \in BOOLEAN
    BY Zenon
  <2>2. late' = [q \in Procs |-> q # p /\ (late[q] \/ (pc[q] = "update" /\ usr[q] = usr[p]))]
    BY <1>1, Zenon DEF Overtake
  <2>3. late' \in [Procs -> BOOLEAN]
    BY <2>1, <2>2, Zenon
  <2>4. \A q \in Procs : late'[q] = (q # p /\ (late[q] \/ (pc[q] = "update" /\ usr[q] = usr[p])))
    BY <2>2, Zenon
  <2> QED
    BY <2>3, <2>4, Zenon
<1>4. TypeOK'
  BY <1>1, <1>2, <1>3, GoToType DEF IInv, TypeOK
<1>5. LockMatchesAttempts'
  BY <1>1, <1>2, GoToType DEF IInv, TypeOK, LockMatchesAttempts, Sound
<1>6. UsedTokenDies' /\ Drawn'
  BY <1>1 DEF IInv, UsedTokenDies, Drawn
<1>7. \A q \in Procs : Request(q)' /\ Exact(q)'
  <2> SUFFICES ASSUME NEW q \in Procs
               PROVE  Request(q)' /\ Exact(q)'
    OBVIOUS
  <2>1. CASE q = p
    BY <1>1, <1>2, <2>1, GoToType DEF IInv, Request, Exact
  <2>2. CASE q # p
    <3>1. /\ pc'[q] = pc[q] /\ op'[q] = op[q] /\ usr'[q] = usr[q] /\ arg'[q] = arg[q]
          /\ token'[q] = token[q] /\ image'[q] = image[q]
      BY <1>1, <1>2, <2>2, GoToType DEF IInv
    <3>2. CASE usr[q] = usr[p]
      <4>1. pc[q] = "update" => late'[q] /\ row'[usr[q]] \in Row
        BY <1>1, <1>3, <2>2, <3>2 DEF IInv, TypeOK
      <4> QED
        BY <1>1, <3>1, <4>1 DEF IInv, Request, Exact
    <3>3. CASE usr[q] # usr[p]
      <4>1. pc[q] = "update" => row'[usr[q]] = row[usr[q]] /\ (late[q] => late'[q])
        BY <1>1, <1>3, <2>2, <3>3 DEF IInv, TypeOK, Request
      <4> QED
        BY <1>1, <3>1, <4>1 DEF IInv, Request, Exact
    <3> QED
      BY <3>2, <3>3
  <2> QED
    BY <2>1, <2>2
<1> QED
  BY <1>4, <1>5, <1>6, <1>7 DEF IInv

\* A write that failed, and a token that is deleted, end the request.
LEMMA EndStep ==
    ASSUME IInv, NEW p \in Procs, WriteFails(p) \/ DropToken(p)
    PROVE  IInv'
<1>1. /\ GoTo(p, "idle")
      /\ row' = row /\ purpose' = purpose /\ owner' = owner
      /\ late' \in [Procs -> BOOLEAN]
      /\ \A q \in Procs \ {p} : late'[q] = late[q]
  BY DEF WriteFails, DropToken, tokens, IInv, TypeOK
<1>2. /\ live' \subseteq Tokens /\ spent' \subseteq Tokens
      /\ UsedTokenDies' /\ Drawn'
  <2>1. CASE WriteFails(p)
    BY <1>1, <2>1 DEF WriteFails, tokens, IInv, TypeOK, UsedTokenDies, Drawn
  <2>2. CASE DropToken(p)
    <3>1. token[p] \in Tokens /\ owner[token[p]] # None
      BY <2>2 DEF DropToken, IInv, Request
    <3> QED
      BY <1>1, <2>2, <3>1 DEF DropToken, IInv, TypeOK, UsedTokenDies, Drawn
  <2> QED
    BY <2>1, <2>2
<1>3. TypeOK'
  BY <1>1, <1>2, GoToType DEF IInv, TypeOK
<1>4. LockMatchesAttempts'
  BY <1>1, GoToType DEF IInv, TypeOK, LockMatchesAttempts, Sound
<1>5. \A q \in Procs : Request(q)' /\ Exact(q)'
  <2> SUFFICES ASSUME NEW q \in Procs
               PROVE  Request(q)' /\ Exact(q)'
    OBVIOUS
  <2>1. CASE q = p
    BY <1>1, <2>1, GoToType DEF IInv, Request, Exact
  <2>2. CASE q # p
    <3>1. /\ pc'[q] = pc[q] /\ op'[q] = op[q] /\ usr'[q] = usr[q] /\ arg'[q] = arg[q]
          /\ token'[q] = token[q] /\ image'[q] = image[q] /\ late'[q] = late[q]
      BY <1>1, <2>2, GoToType DEF IInv
    <3> QED
      BY <1>1, <3>1 DEF IInv, Request, Exact
  <2> QED
    BY <2>1, <2>2
<1> QED
  BY <1>2, <1>3, <1>4, <1>5 DEF IInv

\* A token that is drawn, or expires, disturbs no request.
LEMMA TokenStep ==
    ASSUME IInv, NEW t \in Tokens, ExpireToken(t) \/ \E u \in Users : RequestReset(u, t)
    PROVE  IInv'
<1>1. UNCHANGED <<row, pc, op, usr, arg, token, image, late, spent>>
  BY DEF ExpireToken, RequestReset, request
<1>2. /\ live' \subseteq Tokens
      /\ purpose' \in [Tokens -> {"verify", "reset", None}]
      /\ owner' \in [Tokens -> Users \cup {None}]
      /\ UsedTokenDies' /\ Drawn'
      /\ \A x \in Tokens : owner[x] # None => owner'[x] # None
  <2>1. CASE ExpireToken(t)
    BY <1>1, <2>1 DEF ExpireToken, IInv, TypeOK, UsedTokenDies, Drawn
  <2>2. CASE \E u \in Users : RequestReset(u, t)
    BY <1>1, <2>2, DrawStep DEF RequestReset
  <2> QED
    BY <2>1, <2>2
<1>3. TypeOK' /\ LockMatchesAttempts'
  BY <1>1, <1>2 DEF IInv, TypeOK, LockMatchesAttempts, Sound
<1>4. \A q \in Procs : Request(q)' /\ Exact(q)'
  BY <1>1, <1>2 DEF IInv, Request, Exact
<1> QED
  BY <1>2, <1>3, <1>4 DEF IInv

\* The lapse of the lock in the row.
LEMMA LapseRowStep ==
    ASSUME IInv, NEW u \in Users, LapseRow(u)
    PROVE  IInv'
<1>1. /\ row[u] \in Row /\ Sound(row[u]) /\ row[u].lock = "locked"
      /\ row' = [row EXCEPT ![u] = Lapsed(row[u])]
      /\ UNCHANGED <<live, purpose, owner, spent, pc, op, usr, arg, token, image, late>>
  BY DEF LapseRow, Locked, tokens, request, IInv, TypeOK, LockMatchesAttempts
<1>2. Lapsed(row[u]) \in Row /\ Sound(Lapsed(row[u])) /\ Lapsed(row[u]).lock # "locked"
  <2>1. Lapsed(row[u]) = [row[u] EXCEPT !.lock = "lapsed"]
    BY <1>1, AccountAssumption DEF Lapsed
  <2>2. Lapsed(row[u]).lock = "lapsed"
    BY <1>1, <2>1 DEF Row
  <2> QED
    BY <1>1, <2>2, LapsedSound
<1>3. TypeOK' /\ LockMatchesAttempts'
  BY <1>1, <1>2 DEF IInv, TypeOK, LockMatchesAttempts, Sound
<1>4. UsedTokenDies' /\ Drawn'
  BY <1>1 DEF IInv, UsedTokenDies, Drawn
<1>5. \A q \in Procs : Request(q)'
  BY <1>1, <1>2 DEF IInv, TypeOK, Request
<1>6. \A q \in Procs : Exact(q)'
  <2> SUFFICES ASSUME NEW q \in Procs, pc[q] = "update", ~ late[q]
               PROVE  Lapsed(image[q]) = Lapsed(Effect(op[q], arg[q], row'[usr[q]]))
    BY <1>1 DEF Exact
  <2>1. Lapsed(image[q]) = Lapsed(Effect(op[q], arg[q], row[usr[q]]))
    BY DEF IInv, Exact
  <2>2. CASE usr[q] # u
    BY <1>1, <2>1, <2>2 DEF IInv, TypeOK, Request
  <2>3. CASE usr[q] = u
    <3>1. op[q] \in AllOps /\ op[q] # "login"
      BY <1>1, <2>3, AccountAssumption DEF IInv, Request
    <3>2. op[q] \in {"reset", "change"} => arg[q] \in Passwords
      BY DEF IInv, Request
    <3>3. row'[u] = Lapsed(row[u])
      BY <1>1 DEF IInv, TypeOK
    <3>4. PICK o \in AllOps, w \in {arg[q]}, r \in Row : o = op[q] /\ r = row[u]
      BY <1>1, <3>1
    <3>5. Lapsed(Effect(o, w, Lapsed(r))) = Lapsed(Effect(o, w, r))
      BY <3>1, <3>2, <3>4, LapseCommutes
    <3> QED
      BY <2>1, <2>3, <3>3, <3>4, <3>5
  <2> QED
    BY <2>2, <2>3
<1> QED
  BY <1>3, <1>4, <1>5, <1>6 DEF IInv

\* The lapse of the lock in an entity.
LEMMA LapseImageStep ==
    ASSUME IInv, NEW p \in Procs, LapseImage(p)
    PROVE  IInv'
<1>1. /\ image[p] \in Row /\ Sound(image[p])
      /\ image' = [image EXCEPT ![p] = Lapsed(image[p])]
      /\ UNCHANGED <<row, live, purpose, owner, spent, pc, op, usr, arg, token, late>>
  BY DEF LapseImage, tokens, request, IInv, TypeOK, LockMatchesAttempts
<1>2. Lapsed(image[p]) \in Row /\ Sound(Lapsed(image[p]))
  BY <1>1, LapsedSound
<1>3. Lapsed(Lapsed(image[p])) = Lapsed(image[p])
  BY <1>1 DEF Lapsed, Row
<1>4. TypeOK' /\ LockMatchesAttempts'
  BY <1>1, <1>2 DEF IInv, TypeOK, LockMatchesAttempts, Sound
<1>5. UsedTokenDies' /\ Drawn'
  BY <1>1 DEF IInv, UsedTokenDies, Drawn
<1>6. \A q \in Procs : Request(q)' /\ Exact(q)'
  <2> SUFFICES ASSUME NEW q \in Procs
               PROVE  Request(q)' /\ Exact(q)'
    OBVIOUS
  <2>1. CASE q = p
    BY <1>1, <1>2, <1>3, <2>1 DEF IInv, TypeOK, Request, Exact
  <2>2. CASE q # p
    BY <1>1, <2>2 DEF IInv, TypeOK, Request, Exact
  <2> QED
    BY <2>1, <2>2
<1> QED
  BY <1>4, <1>5, <1>6 DEF IInv

\* A restart: no request, no token.
LEMMA RestartStep == IInv /\ Restart => IInv'
  BY AccountAssumption DEF Restart, IInv, TypeOK, LockMatchesAttempts, UsedTokenDies, Drawn,
     Request, Exact, Sound

\* Every step keeps the invariant.
LEMMA IInvStep ==
    ASSUME IInv, [Next]_vars
    PROVE  IInv'
<1>1. CASE UNCHANGED vars
  BY <1>1 DEF vars, IInv, TypeOK, LockMatchesAttempts, UsedTokenDies, Drawn, Request, Exact, Sound
<1>2. CASE \E p \in Procs : Call(p)
  <2>1. PICK p \in Procs : Call(p)
    BY <1>2
  <2>2. ASSUME NEW u \in Users, NEW w \in Passwords, Register(p, u, w)
        PROVE  IInv'
    BY <2>2, RegisterStep
  <2>3. ASSUME NEW u \in Users, NEW w \in Passwords, Login(p, u, w)
        PROVE  IInv'
    BY <2>3, ChangeStep DEF Login, AllOps
  <2>4. ASSUME NEW u \in Users, NEW w \in Passwords, NEW old \in Passwords,
               ChangePassword(p, u, old, w)
        PROVE  IInv'
    BY <2>4, ChangeStep DEF ChangePassword, AllOps
  <2>5. ASSUME NEW t \in Tokens, VerifyEmail(p, t)
        PROVE  IInv'
    <3>1. owner[t] # None /\ owner[t] \in Users
      BY <2>5 DEF VerifyEmail, IInv, TypeOK, Drawn
    <3>2. PICK u \in Users : u = owner[t]
      BY <3>1
    <3>3. Change(p, "verify", u, None, t)
      BY <2>5, <3>2 DEF VerifyEmail
    <3> QED
      BY <3>1, <3>3, ChangeStep DEF AllOps
  <2>6. ASSUME NEW t \in Tokens, NEW w \in Passwords, ResetPassword(p, t, w)
        PROVE  IInv'
    <3>1. owner[t] # None /\ owner[t] \in Users
      BY <2>6 DEF ResetPassword, IInv, TypeOK, Drawn
    <3>2. PICK u \in Users : u = owner[t]
      BY <3>1
    <3>3. Change(p, "reset", u, w, t)
      BY <2>6, <3>2 DEF ResetPassword
    <3> QED
      BY <3>1, <3>3, ChangeStep DEF AllOps
  <2>7. ASSUME NEW u \in Users, UserChange(p, u)
        PROVE  IInv'
    <3>1. PICK o \in {"profile", "lock", "unlock", "delete"} : Change(p, o, u, None, None)
      BY <2>7 DEF UserChange
    <3>2. o \in AllOps
      BY DEF AllOps
    <3> QED
      BY <3>1, <3>2, ChangeStep
  <2> QED
    BY <2>1, <2>2, <2>3, <2>4, <2>5, <2>6, <2>7 DEF Call
<1>3. CASE \E p \in Procs : Step(p) \/ WriteFails(p)
  BY <1>3, InsertStep, UpdateStep, EndStep DEF Step
<1>4. CASE Passage
  BY <1>4, TokenStep, LapseRowStep, LapseImageStep, RestartStep DEF Passage
<1> QED
  BY <1>1, <1>2, <1>3, <1>4 DEF Next

\* The invariant holds in every behaviour.
THEOREM Invariance == Spec => []IInv
<1>1. Init => IInv
  BY IInvInit
<1>2. IInv /\ [Next]_vars => IInv'
  BY IInvStep
<1> QED
  BY <1>1, <1>2, PTL DEF Spec

-----------------------------------------------------------------------------
(* The results                                                             *)

\* However many requests overlap, no row at the limit of failed attempts is
\* open.
THEOREM LocksHold == Spec => [](TypeOK /\ LockMatchesAttempts)
<1>1. IInv => TypeOK /\ LockMatchesAttempts
  BY DEF IInv
<1> QED
  BY <1>1, Invariance, PTL

\* A token that has succeeded once is never live again.
THEOREM TokensDie == Spec => []UsedTokenDies
<1>1. IInv => UsedTokenDies
  BY DEF IInv
<1> QED
  BY <1>1, Invariance, PTL

\* An update is lost only when two requests of one user overlapped.
THEOREM LossNeedsOverlap == Spec => []AtomicUnlessOvertaken
<1>1. IInv => AtomicUnlessOvertaken
  BY DEF IInv, Exact, AtomicUnlessOvertaken
<1> QED
  BY <1>1, Invariance, PTL
==============================================================================
