--------------------------- MODULE RequestsProofs ---------------------------
(***************************************************************************)
(* Proofs about what requests meet on their way in: multi-factor login,    *)
(* sign-in with a provider and the rate limiter, for any number of         *)
(* requests that overlap.                                                  *)
(***************************************************************************)
EXTENDS Mfa, OAuth, RateLimiter, FiniteSetTheorems, TLAPS

-----------------------------------------------------------------------------
(***************************************************************************)
(* Challenges and backup codes.  A challenge that was won is closed, and   *)
(* stays so while any request bears its name; and a request's copy of the  *)
(* row that no write has overtaken is as good as the row itself.           *)
(***************************************************************************)

Copying == {"useCode", "delete", "session", "update"}

\* A won challenge is closed, and a request that began after the win bears it.
WonIsClosed ==
    /\ \A c \in won : challenge[c] = "closed"
    /\ \A p \in MfaRequests :
         /\ mreq[p].late => mreq[p].pc = "challenge" /\ mreq[p].ch \in won
         /\ mreq[p].pc = "session" => challenge[mreq[p].ch] = "closed"

\* Only logins bear challenges, use codes and delete challenges.
Shape ==
    \A p \in MfaRequests :
        /\ mreq[p].pc \in {"challenge", "useCode", "delete", "session"} => mreq[p].op = "login"
        /\ mreq[p].pc # "idle" /\ mreq[p].op = "login" => mreq[p].ch \in Challenges

\* Every code in use was drawn, and what a request spends is not in its copy.
CodesDrawn ==
    /\ row.codes \cup spent \subseteq drawn
    /\ \A p \in MfaRequests :
         /\ mreq[p].pc \in Copying => mreq[p].image.codes \subseteq drawn
         /\ mreq[p].pc = "useCode" =>
              mreq[p].code \in drawn /\ mreq[p].code \notin mreq[p].image.codes

\* A copy that was not overtaken.
FreshCopies ==
    /\ ~ StoresMfa => row = NoRow
    /\ \A p \in MfaRequests : ~ mreq[p].stale =>
         /\ mreq[p].pc \in Copying /\ ~ mfaLost => mreq[p].image.codes \cap spent = {}
         /\ StoresMfa /\ mreq[p].op = "login" /\ mreq[p].pc \in {"delete", "session", "update"}
              => mreq[p].image = row

\* What a setup writes is enabled, and so is what a login writes back, for it began
\* with an enabled row.
EnabledStays ==
    /\ StoresMfa /\ verified => row.enabled
    /\ \A p \in MfaRequests :
         mreq[p].op # "disable" /\ mreq[p].pc \in Copying => mreq[p].image.enabled

MfaInv ==
    /\ MfaTypeOK /\ WonIsClosed /\ Shape /\ CodesDrawn /\ FreshCopies /\ EnabledStays
    /\ SpentCodesGone

LEMMA MfaInitInv == MfaInit => MfaInv
<1> SUFFICES ASSUME MfaInit PROVE MfaInv
  OBVIOUS
<1>1. NoRow \in Rows /\ NoRow.codes = {}
  BY DEF NoRow, Rows
<1>2. \A p \in MfaRequests :
        /\ mreq[p] = MfaIdle
        /\ mreq[p].pc = "idle" /\ ~ mreq[p].late
  BY DEF MfaInit, MfaIdle
<1>3. MfaTypeOK
  BY <1>1, MfaAssumption DEF MfaInit, MfaTypeOK, MfaIdle, Points, MfaOps
<1>4. WonIsClosed /\ Shape /\ CodesDrawn /\ FreshCopies /\ EnabledStays /\ SpentCodesGone
  BY <1>1, <1>2
     DEF MfaInit, WonIsClosed, Shape, CodesDrawn, FreshCopies, EnabledStays, SpentCodesGone,
         Copying
<1> QED BY <1>3, <1>4 DEF MfaInv

-----------------------------------------------------------------------------
(* The challenges                                                          *)

LEMMA ChallengeStep ==
  ASSUME MfaInv, NEW c \in Challenges, CreateMFAChallenge(c) \/ ChallengeExpires(c)
  PROVE  MfaInv'
<1> USE DEF MfaInv, MfaTypeOK
<1>1. UNCHANGED <<row, mreq, drawn, spent, mfaLost, verified>>
  BY DEF CreateMFAChallenge, ChallengeExpires
<1>2. MfaTypeOK' /\ WonIsClosed'
  BY DEF CreateMFAChallenge, ChallengeExpires, WonIsClosed, Shape
<1>3. Shape' /\ CodesDrawn' /\ FreshCopies' /\ EnabledStays' /\ SpentCodesGone'
  BY <1>1 DEF Shape, CodesDrawn, FreshCopies, EnabledStays, SpentCodesGone, Copying
<1> QED BY <1>2, <1>3

-----------------------------------------------------------------------------
(* Requests that write nothing into the row                                *)

RequestType ==
    [pc : Points, op : MfaOps, ch : Challenges \cup {NoChallenge},
     code : BackupCodes \cup {"totp", "wrong"}, image : Rows, late : BOOLEAN, stale : BOOLEAN]

\* What the invariant says of one request, of which the codes in codes are drawn.
Sound(new, codes) ==
    /\ new \in RequestType
    /\ new.late => new.pc = "challenge" /\ new.ch \in won
    /\ new.pc = "session" => challenge[new.ch] = "closed"
    /\ new.pc \in {"challenge", "useCode", "delete", "session"} => new.op = "login"
    /\ new.pc # "idle" /\ new.op = "login" => new.ch \in Challenges
    /\ new.pc \in Copying => new.image.codes \subseteq codes
    /\ new.pc = "useCode" => new.code \in codes /\ new.code \notin new.image.codes
    /\ ~ new.stale => /\ new.pc \in Copying /\ ~ mfaLost => new.image.codes \cap spent = {}
                      /\ StoresMfa /\ new.op = "login" /\ new.pc \in {"delete", "session", "update"}
                           => new.image = row
    /\ new.op # "disable" /\ new.pc \in Copying => new.image.enabled

LEMMA IsSound == MfaInv => \A p \in MfaRequests : Sound(mreq[p], drawn)
BY DEF MfaInv, MfaTypeOK, WonIsClosed, Shape, CodesDrawn, FreshCopies, EnabledStays, Sound,
       RequestType

\* A step that only moves p leaves what is said of the others alone.
LEMMA MoveStep ==
  ASSUME MfaInv, NEW p \in MfaRequests, NEW new, Sound(new, drawn'),
         mreq' = [mreq EXCEPT ![p] = new],
         UNCHANGED <<row, challenge, spent, mfaLost, verified>>,
         drawn \subseteq drawn', drawn' \subseteq BackupCodes,
         \/ won' = won
         \/ /\ won' = won \cup {new.ch} /\ new.ch \in Challenges
            /\ challenge[new.ch] = "closed" /\ new.pc = "update"
  PROVE  MfaInv'
<1> USE DEF MfaInv, MfaTypeOK, RequestType, Sound
<1>1. mreq'[p] = new /\ \A q \in MfaRequests : q # p => mreq'[q] = mreq[q]
  OBVIOUS
<1>2. MfaTypeOK'
  OBVIOUS
<1>3. WonIsClosed'
  BY <1>1 DEF WonIsClosed
<1>4. Shape'
  BY <1>1 DEF Shape
<1>5. CodesDrawn'
  BY <1>1 DEF CodesDrawn
<1>6. FreshCopies'
  BY <1>1 DEF FreshCopies
<1>7. EnabledStays'
  BY <1>1 DEF EnabledStays
<1>8. SpentCodesGone'
  BY DEF SpentCodesGone
<1> QED BY <1>2, <1>3, <1>4, <1>5, <1>6, <1>7, <1>8

\* A request that ends, whichever way.
LEMMA EndStep ==
  ASSUME MfaInv, NEW p \in MfaRequests, mreq' = EndOf(p),
         UNCHANGED <<row, challenge, drawn, won, spent, mfaLost, verified>>
  PROVE  MfaInv'
<1>1. MfaIdle \in RequestType
  BY DEF MfaIdle, Points, MfaOps, Rows, NoRow, RequestType
<1>2. MfaIdle.pc = "idle" /\ MfaIdle.late = FALSE
  BY DEF MfaIdle
<1>3. drawn \subseteq BackupCodes /\ won \subseteq Challenges
  BY DEF MfaInv, MfaTypeOK
<1>4. Sound(MfaIdle, drawn')
  BY <1>1, <1>2 DEF Sound, Copying
<1> QED BY <1>3, <1>4, MoveStep DEF EndOf

LEMMA BeginStep ==
  ASSUME MfaInv, NEW p \in MfaRequests, NEW op \in MfaOps, NEW c \in Challenges,
         NEW code \in BackupCodes \cup {"totp", "wrong"}, BeginMfa(p, op, c, code)
  PROVE  MfaInv'
<1> DEFINE new ==
      [MfaIdle EXCEPT !.pc = IF op = "login" THEN "challenge" ELSE "find",
                      !.op = op, !.code = code,
                      !.ch = IF op = "login" THEN c ELSE NoChallenge,
                      !.late = op = "login" /\ c \in won]
<1>1. /\ mreq' = [mreq EXCEPT ![p] = new]
      /\ UNCHANGED <<row, challenge, drawn, won, spent, mfaLost, verified>>
  BY DEF BeginMfa
<1>2. new \in RequestType
  BY DEF MfaIdle, Points, MfaOps, Rows, NoRow, RequestType
<1>3. /\ new.pc = "challenge" \/ new.pc = "find"
      /\ new.pc = "challenge" => new.op = "login"
      /\ new.op = "login" => new.ch \in Challenges
  BY DEF MfaIdle
<1>4. new.late => new.pc = "challenge" /\ new.ch \in won
  BY DEF MfaIdle
<1>5. drawn \subseteq BackupCodes
  BY DEF MfaInv, MfaTypeOK
<1> HIDE DEF new
<1>6. Sound(new, drawn')
  BY <1>2, <1>3, <1>4 DEF Sound, Copying
<1> QED BY <1>1, <1>5, <1>6, MoveStep

LEMMA GetChallengeStep ==
  ASSUME MfaInv, NEW p \in MfaRequests, GetMFAChallenge(p)
  PROVE  MfaInv'
<1>1. CASE challenge[mreq[p].ch] # "open"
  BY <1>1, EndStep DEF GetMFAChallenge
<1>2. CASE challenge[mreq[p].ch] = "open"
  <2> DEFINE new == [mreq[p] EXCEPT !.pc = "find"]
  <2>1. /\ mreq' = [mreq EXCEPT ![p] = new]
        /\ mreq[p].pc = "challenge"
        /\ UNCHANGED <<row, challenge, drawn, won, spent, mfaLost, verified>>
    BY <1>2 DEF GetMFAChallenge, At
  \* Whoever began after the win finds the challenge closed.
  <2>2. mreq[p].late = FALSE
    BY <1>2, <2>1 DEF MfaInv, MfaTypeOK, WonIsClosed
  <2>3. Sound(new, drawn)
    BY <2>1, <2>2, IsSound DEF Sound, RequestType, Points, Copying
  <2>4. drawn \subseteq BackupCodes
    BY DEF MfaInv, MfaTypeOK
  <2> HIDE DEF new
  <2> QED BY <2>1, <2>3, <2>4, MoveStep
<1> QED BY <1>1, <1>2

LEMMA FindForLoginStep ==
  ASSUME MfaInv, NEW p \in MfaRequests, FindForLogin(p)
  PROVE  MfaInv'
<1> DEFINE u == Fetched
           code == mreq[p].code
           totp == [mreq[p] EXCEPT !.pc = "delete", !.image = u]
           backup == [mreq[p] EXCEPT !.pc = "useCode", !.image = [u EXCEPT !.codes = @ \ {code}]]
<1>1. /\ mreq[p].pc = "find" /\ mreq[p].op = "login" /\ mreq[p] \in RequestType
      /\ mreq[p].late = FALSE
      /\ drawn \subseteq BackupCodes
      /\ UNCHANGED <<row, challenge, drawn, won, spent, mfaLost, verified>>
  BY DEF FindForLogin, MfaInv, MfaTypeOK, RequestType, WonIsClosed
<1>2. u \in Rows /\ (u.enabled => u = row)
  BY DEF Fetched, NoRow, Rows, MfaInv, MfaTypeOK
<1>3. row.codes \subseteq drawn /\ (~ mfaLost => row.codes \cap spent = {})
  BY DEF MfaInv, CodesDrawn, SpentCodesGone
<1>4. CASE u.enabled /\ code = "totp" /\ mreq' = [mreq EXCEPT ![p] = totp]
  <2>1. /\ totp \in RequestType /\ totp.pc = "delete" /\ totp.op = "login" /\ ~ totp.late
        /\ totp.image = row /\ totp.ch = mreq[p].ch /\ row.enabled
    BY <1>1, <1>2, <1>4 DEF RequestType, Points
  <2> HIDE DEF totp
  <2>2. Sound(totp, drawn)
    BY <1>1, <1>3, <2>1, IsSound DEF Sound, Copying
  <2> QED BY <1>1, <1>4, <2>2, MoveStep
<1>5. CASE u.enabled /\ code \in u.codes /\ mreq' = [mreq EXCEPT ![p] = backup]
  <2>1. /\ backup \in RequestType /\ backup.pc = "useCode" /\ backup.op = "login"
        /\ ~ backup.late /\ backup.ch = mreq[p].ch /\ backup.code = code
        /\ backup.image.codes = row.codes \ {code} /\ backup.image.enabled
    BY <1>1, <1>2, <1>5 DEF RequestType, Points, Rows
  <2>2. code \in drawn
    BY <1>2, <1>3, <1>5
  <2> HIDE DEF backup, code
  <2>3. Sound(backup, drawn)
    BY <1>1, <1>3, <2>1, <2>2, IsSound DEF Sound, Copying
  <2> QED BY <1>1, <1>5, <2>3, MoveStep
<1>6. CASE mreq' = EndOf(p)
  BY <1>1, <1>6, EndStep
<1>7. [mreq EXCEPT ![p].pc = "delete", ![p].image = u] = [mreq EXCEPT ![p] = totp]
  BY <1>1 DEF RequestType, MfaInv, MfaTypeOK
<1>8. [mreq EXCEPT ![p].pc = "useCode", ![p].image = [u EXCEPT !.codes = @ \ {code}]]
        = [mreq EXCEPT ![p] = backup]
  BY <1>1 DEF RequestType, MfaInv, MfaTypeOK
<1>9. \/ mreq' = EndOf(p)
      \/ /\ u.enabled /\ code = "totp"
         /\ mreq' = [mreq EXCEPT ![p].pc = "delete", ![p].image = u]
      \/ /\ u.enabled /\ code \in u.codes
         /\ mreq' = [mreq EXCEPT ![p].pc = "useCode", ![p].image = [u EXCEPT !.codes = @ \ {code}]]
  BY DEF FindForLogin
<1> QED BY <1>4, <1>5, <1>6, <1>7, <1>8, <1>9

LEMMA FindForEnableStep ==
  ASSUME MfaInv, NEW p \in MfaRequests, FindForEnable(p)
  PROVE  MfaInv'
<1>1. PICK codes \in SUBSET (BackupCodes \ drawn) :
        /\ drawn' = drawn \cup codes
        /\ mreq' = [mreq EXCEPT ![p].pc = "update",
                                ![p].image = [enabled |-> TRUE, codes |-> codes]]
  BY DEF FindForEnable
<1> DEFINE new == [mreq[p] EXCEPT !.pc = "update",
                                  !.image = [enabled |-> TRUE, codes |-> codes]]
<1>2. /\ mreq[p].op = "enable" /\ mreq[p].pc = "find" /\ ~ mreq[p].late
      /\ mreq[p] \in RequestType
      /\ drawn \subseteq BackupCodes /\ spent \subseteq drawn
      /\ UNCHANGED <<row, challenge, won, spent, mfaLost, verified>>
  BY DEF FindForEnable, MfaInv, MfaTypeOK, WonIsClosed, CodesDrawn, RequestType
<1>3. /\ new \in RequestType /\ new.pc = "update" /\ new.op = "enable" /\ ~ new.late
      /\ new.image.codes = codes /\ new.image.enabled
  BY <1>2 DEF RequestType, Points, Rows
<1>4. mreq' = [mreq EXCEPT ![p] = new]
  BY <1>1, <1>2 DEF RequestType, MfaInv, MfaTypeOK
<1> HIDE DEF new
<1>5. Sound(new, drawn')
  BY <1>1, <1>2, <1>3 DEF Sound, Copying
<1> QED BY <1>1, <1>2, <1>4, <1>5, MoveStep

LEMMA FindForDisableStep ==
  ASSUME MfaInv, NEW p \in MfaRequests, FindForDisable(p)
  PROVE  MfaInv'
<1> DEFINE new == [mreq[p] EXCEPT !.pc = "update", !.image = NoRow]
<1>1. /\ mreq[p].op = "disable" /\ mreq[p].pc = "find" /\ ~ mreq[p].late
      /\ mreq[p] \in RequestType /\ drawn \subseteq BackupCodes
      /\ UNCHANGED <<row, challenge, drawn, won, spent, mfaLost, verified>>
  BY DEF FindForDisable, MfaInv, MfaTypeOK, WonIsClosed, RequestType
<1>2. CASE mreq' = [mreq EXCEPT ![p] = new]
  <2>1. /\ new \in RequestType /\ new.pc = "update" /\ new.op = "disable" /\ ~ new.late
        /\ new.image.codes = {}
    BY <1>1 DEF RequestType, Points, Rows, NoRow
  <2> HIDE DEF new
  <2>2. Sound(new, drawn)
    BY <2>1 DEF Sound, Copying
  <2> QED BY <1>1, <1>2, <2>2, MoveStep
<1>3. CASE mreq' = EndOf(p)
  BY <1>1, <1>3, EndStep
<1> QED BY <1>2, <1>3 DEF FindForDisable

LEMMA CreateSessionStep ==
  ASSUME MfaInv, NEW p \in MfaRequests, CreateMfaSession(p)
  PROVE  MfaInv'
<1> DEFINE new == [mreq[p] EXCEPT !.pc = "update"]
<1>1. /\ mreq[p].pc = "session" /\ mreq[p] \in RequestType /\ ~ mreq[p].late
      /\ mreq[p].ch \in Challenges /\ challenge[mreq[p].ch] = "closed"
      /\ mreq[p].op = "login"
      /\ drawn \subseteq BackupCodes /\ won' = won \cup {mreq[p].ch}
      /\ mreq' = [mreq EXCEPT ![p] = new]
      /\ UNCHANGED <<row, challenge, drawn, spent, mfaLost, verified>>
  BY DEF CreateMfaSession, At, MfaInv, MfaTypeOK, WonIsClosed, Shape, RequestType
<1>2. /\ new \in RequestType /\ new.pc = "update" /\ new.op = "login" /\ ~ new.late
      /\ new.ch = mreq[p].ch /\ new.image = mreq[p].image /\ new.stale = mreq[p].stale
  BY <1>1 DEF RequestType, Points
<1> HIDE DEF new
<1>3. Sound(new, drawn)
  BY <1>1, <1>2, IsSound DEF Sound, Copying
<1> QED BY <1>1, <1>2, <1>3, MoveStep

-----------------------------------------------------------------------------
(* Requests that write                                                     *)

LEMMA DeleteChallengeStep ==
  ASSUME MfaInv, NEW p \in MfaRequests, DeleteMFAChallenge(p)
  PROVE  MfaInv'
<1> DEFINE new == [mreq[p] EXCEPT !.pc = "session"]
<1>1. /\ mreq[p].pc = "delete" /\ mreq[p].op = "login" /\ mreq[p].ch \in Challenges
      /\ mreq[p] \in RequestType /\ ~ mreq[p].late
      /\ mreq' = [mreq EXCEPT ![p] = new]
      /\ challenge' = [challenge EXCEPT ![mreq[p].ch] = "closed"]
      /\ UNCHANGED <<row, drawn, won, spent, mfaLost, verified>>
  BY DEF DeleteMFAChallenge, At, MfaInv, MfaTypeOK, Shape, WonIsClosed, RequestType
<1>2. /\ new \in RequestType /\ new.pc = "session" /\ new.op = "login" /\ ~ new.late
      /\ new.ch = mreq[p].ch /\ new.image = mreq[p].image /\ new.stale = mreq[p].stale
  BY <1>1 DEF RequestType, Points
<1> HIDE DEF new
<1>3. mreq'[p] = new /\ \A q \in MfaRequests : q # p => mreq'[q] = mreq[q]
  BY <1>1 DEF MfaInv, MfaTypeOK
<1>4. MfaTypeOK'
  BY <1>1, <1>2 DEF MfaInv, MfaTypeOK, RequestType
<1>5. WonIsClosed'
  BY <1>1, <1>2, <1>3 DEF MfaInv, MfaTypeOK, WonIsClosed
<1>6. Shape' /\ CodesDrawn'
  BY <1>1, <1>2, <1>3 DEF MfaInv, Shape, CodesDrawn, Copying
<1>7. FreshCopies' /\ EnabledStays' /\ SpentCodesGone'
  BY <1>1, <1>2, <1>3 DEF MfaInv, FreshCopies, EnabledStays, SpentCodesGone, Copying
<1> QED BY <1>4, <1>5, <1>6, <1>7 DEF MfaInv

\* After a write, every other copy is marked as overtaken.
LEMMA WriteMarks ==
  ASSUME MfaInv, NEW p \in MfaRequests, NEW pc \in {"idle", "delete"}, WriteRow(p, pc)
  PROVE  /\ mreq'[p] = IF pc = "idle" THEN MfaIdle ELSE [mreq[p] EXCEPT !.pc = pc]
         /\ \A q \in MfaRequests : q # p =>
              /\ mreq'[q] \in RequestType
              /\ mreq'[q].pc = mreq[q].pc /\ mreq'[q].op = mreq[q].op
              /\ mreq'[q].ch = mreq[q].ch /\ mreq'[q].code = mreq[q].code
              /\ mreq'[q].image = mreq[q].image /\ mreq'[q].late = mreq[q].late
              /\ mreq[q].pc \in Copying => mreq'[q].stale
              /\ mreq[q].pc \notin Copying => mreq'[q].stale = mreq[q].stale
         /\ mreq' = [q \in MfaRequests |-> mreq'[q]]
<1>1. \A q \in MfaRequests : mreq[q] \in RequestType
  BY DEF MfaInv, MfaTypeOK, RequestType
<1>2. mreq'[p] = IF pc = "idle" THEN MfaIdle ELSE [mreq[p] EXCEPT !.pc = pc]
  BY DEF WriteRow
<1>3. ASSUME NEW q \in MfaRequests, q # p
      PROVE  mreq'[q] = [mreq[q] EXCEPT !.stale = mreq[q].stale \/ mreq[q].pc \in Copying]
  BY <1>1, <1>3 DEF WriteRow, Copying, RequestType
<1>4. ASSUME NEW q \in MfaRequests, q # p
      PROVE  /\ mreq'[q] \in RequestType
             /\ mreq'[q].pc = mreq[q].pc /\ mreq'[q].op = mreq[q].op
             /\ mreq'[q].ch = mreq[q].ch /\ mreq'[q].code = mreq[q].code
             /\ mreq'[q].image = mreq[q].image /\ mreq'[q].late = mreq[q].late
             /\ mreq[q].pc \in Copying => mreq'[q].stale
             /\ mreq[q].pc \notin Copying => mreq'[q].stale = mreq[q].stale
  BY <1>1, <1>3, <1>4 DEF RequestType
<1>5. mreq' = [q \in MfaRequests |-> mreq'[q]]
  BY DEF WriteRow
<1> QED BY <1>2, <1>4, <1>5

LEMMA UseBackupCodeStep ==
  ASSUME MfaInv, NEW p \in MfaRequests, UseBackupCode(p)
  PROVE  MfaInv'
<1>1. /\ mreq[p].pc = "useCode" /\ mreq[p].op = "login" /\ mreq[p].ch \in Challenges
      /\ mreq[p] \in RequestType /\ ~ mreq[p].late
      /\ mreq[p].code \in drawn /\ mreq[p].code \notin mreq[p].image.codes
      /\ mreq[p].image.codes \subseteq drawn /\ mreq[p].image.enabled
      /\ WriteRow(p, "delete")
      /\ spent' = spent \cup {mreq[p].code}
      /\ UNCHANGED <<challenge, drawn, won, verified>>
  BY DEF UseBackupCode, MfaInv, MfaTypeOK, Shape, WonIsClosed, CodesDrawn, EnabledStays,
         RequestType, Copying
<1>2. /\ row' = IF StoresMfa THEN mreq[p].image ELSE row
      /\ mfaLost' = (mfaLost \/ mreq[p].stale)
  BY <1>1 DEF WriteRow
<1>3. /\ mreq'[p].pc = "delete" /\ mreq'[p].op = "login" /\ mreq'[p].ch = mreq[p].ch
      /\ mreq'[p] \in RequestType /\ mreq'[p].image = mreq[p].image /\ ~ mreq'[p].late
      /\ mreq'[p].stale = mreq[p].stale
  <2>1. mreq'[p] = [mreq[p] EXCEPT !.pc = "delete"]
    BY <1>1, WriteMarks
  <2> QED BY <1>1, <2>1 DEF RequestType, Points
<1>4. /\ mreq' = [q \in MfaRequests |-> mreq'[q]]
      /\ \A q \in MfaRequests : q # p =>
           /\ mreq'[q] \in RequestType
           /\ mreq'[q].pc = mreq[q].pc /\ mreq'[q].op = mreq[q].op
           /\ mreq'[q].ch = mreq[q].ch /\ mreq'[q].code = mreq[q].code
           /\ mreq'[q].image = mreq[q].image /\ mreq'[q].late = mreq[q].late
           /\ mreq[q].pc \in Copying => mreq'[q].stale
  BY <1>1, WriteMarks
<1>5. MfaTypeOK'
  <2>1. mreq' \in [MfaRequests -> RequestType]
    BY <1>3, <1>4
  <2>2. row' \in Rows /\ mfaLost' \in BOOLEAN
    BY <1>1, <1>2 DEF MfaInv, MfaTypeOK, RequestType
  <2>3. spent' \subseteq BackupCodes
    BY <1>1 DEF MfaInv, MfaTypeOK
  <2> QED BY <1>1, <2>1, <2>2, <2>3 DEF MfaInv, MfaTypeOK, RequestType
<1>6. WonIsClosed' /\ Shape'
  BY <1>1, <1>3, <1>4 DEF MfaInv, WonIsClosed, Shape
<1>7. CodesDrawn'
  BY <1>1, <1>2, <1>3, <1>4 DEF MfaInv, CodesDrawn, Copying
<1>8. FreshCopies'
  <2>1. ~ StoresMfa => row' = NoRow
    BY <1>2 DEF MfaInv, FreshCopies
  <2>2. ~ mreq[p].stale /\ ~ mfaLost' => mreq[p].image.codes \cap spent' = {}
    BY <1>1, <1>2 DEF MfaInv, FreshCopies, Copying
  <2>3. ASSUME NEW q \in MfaRequests, ~ mreq'[q].stale
        PROVE  /\ mreq'[q].pc \in Copying /\ ~ mfaLost' => mreq'[q].image.codes \cap spent' = {}
               /\ StoresMfa /\ mreq'[q].op = "login"
                    /\ mreq'[q].pc \in {"delete", "session", "update"} => mreq'[q].image = row'
    <3>1. CASE q = p
      BY <1>2, <1>3, <2>2, <2>3, <3>1
    <3>2. CASE q # p
      BY <1>4, <2>3, <3>2 DEF Copying
    <3> QED BY <3>1, <3>2
  <2> QED BY <2>1, <2>3 DEF FreshCopies
<1>9. EnabledStays'
  BY <1>1, <1>2, <1>3, <1>4 DEF MfaInv, EnabledStays, Copying
<1>10. SpentCodesGone'
  <2>1. CASE StoresMfa
    BY <1>1, <1>2, <2>1 DEF MfaInv, SpentCodesGone, FreshCopies, Copying
  <2>2. CASE ~ StoresMfa
    BY <1>1, <1>2, <2>2 DEF MfaInv, SpentCodesGone, FreshCopies, NoRow
  <2> QED BY <2>1, <2>2
<1> QED BY <1>5, <1>6, <1>7, <1>8, <1>9, <1>10 DEF MfaInv

LEMMA UpdateUserStep ==
  ASSUME MfaInv, NEW p \in MfaRequests, UpdateUser(p)
  PROVE  MfaInv'
<1>1. /\ mreq[p].pc = "update" /\ mreq[p] \in RequestType
      /\ mreq[p].image.codes \subseteq drawn
      /\ WriteRow(p, "idle")
      /\ verified' = CASE mreq[p].op = "enable" -> TRUE
                       [] mreq[p].op = "disable" -> FALSE
                       [] OTHER -> verified
      /\ UNCHANGED <<challenge, drawn, won, spent>>
  BY DEF UpdateUser, MfaInv, MfaTypeOK, CodesDrawn, RequestType, Copying
<1>2. /\ row' = IF StoresMfa THEN mreq[p].image ELSE row
      /\ mfaLost' = (mfaLost \/ mreq[p].stale)
  BY <1>1 DEF WriteRow
<1>3. mreq'[p].pc = "idle" /\ mreq'[p] \in RequestType /\ ~ mreq'[p].late
  <2>1. mreq'[p] = MfaIdle
    BY <1>1, WriteMarks
  <2> QED BY <2>1 DEF MfaIdle, RequestType, Points, MfaOps, Rows, NoRow
<1>4. /\ mreq' = [q \in MfaRequests |-> mreq'[q]]
      /\ \A q \in MfaRequests : q # p =>
           /\ mreq'[q] \in RequestType
           /\ mreq'[q].pc = mreq[q].pc /\ mreq'[q].op = mreq[q].op
           /\ mreq'[q].ch = mreq[q].ch /\ mreq'[q].code = mreq[q].code
           /\ mreq'[q].image = mreq[q].image /\ mreq'[q].late = mreq[q].late
           /\ mreq[q].pc \in Copying => mreq'[q].stale
  BY <1>1, WriteMarks
<1>5. MfaTypeOK'
  <2>1. mreq' \in [MfaRequests -> RequestType]
    BY <1>3, <1>4
  <2>2. row' \in Rows /\ mfaLost' \in BOOLEAN
    BY <1>1, <1>2 DEF MfaInv, MfaTypeOK, RequestType
  <2>3. verified' \in BOOLEAN
    BY <1>1 DEF MfaInv, MfaTypeOK
  <2> QED BY <1>1, <2>1, <2>2, <2>3 DEF MfaInv, MfaTypeOK, RequestType
<1>6. WonIsClosed' /\ Shape'
  BY <1>1, <1>3, <1>4 DEF MfaInv, WonIsClosed, Shape
<1>7. CodesDrawn'
  BY <1>1, <1>2, <1>3, <1>4 DEF MfaInv, CodesDrawn, Copying
<1>8. FreshCopies'
  BY <1>1, <1>2, <1>3, <1>4 DEF MfaInv, FreshCopies, Copying
<1>9. EnabledStays'
  <2>1. StoresMfa /\ verified' => row'.enabled
    \* An enabled row is what a setup writes, and a login writes it back.
    BY <1>1, <1>2 DEF MfaInv, EnabledStays, Copying, RequestType, MfaOps
  <2> QED BY <1>1, <1>3, <1>4, <2>1 DEF MfaInv, EnabledStays, Copying
<1>10. SpentCodesGone'
  BY <1>1, <1>2 DEF MfaInv, SpentCodesGone, FreshCopies, Copying, NoRow
<1> QED BY <1>5, <1>6, <1>7, <1>8, <1>9, <1>10 DEF MfaInv

-----------------------------------------------------------------------------
(* The specification                                                       *)

LEMMA MfaInvStep == MfaInv /\ [MfaNext]_mfaVars => MfaInv'
<1> SUFFICES ASSUME MfaInv, [MfaNext]_mfaVars PROVE MfaInv'
  OBVIOUS
<1>1. ASSUME NEW p \in MfaRequests, MfaAbort(p) PROVE MfaInv'
  BY <1>1, EndStep DEF MfaAbort
<1>2. CASE UNCHANGED mfaVars
  BY <1>2 DEF mfaVars, MfaInv, MfaTypeOK, WonIsClosed, Shape, CodesDrawn, FreshCopies,
              EnabledStays, SpentCodesGone, Copying
<1> QED
  BY <1>1, <1>2, ChallengeStep, BeginStep, GetChallengeStep, FindForLoginStep,
     FindForEnableStep, FindForDisableStep, UseBackupCodeStep, DeleteChallengeStep,
     CreateSessionStep, UpdateUserStep DEF MfaNext

\* The invariant that the theorems below are read off.
THEOREM MfaInvariant == MfaSpec => []MfaInv
BY MfaInitInv, MfaInvStep, PTL DEF MfaSpec

\* Type correctness of the users row, the challenges and the requests.
THEOREM MfaTypeCorrect == MfaSpec => []MfaTypeOK
BY MfaInvariant, PTL DEF MfaInv

\* A challenge that completed a login completes none that begins afterwards.
THEOREM ChallengesServeOnce == MfaSpec => []ChallengeOnce
<1>1. MfaInv => ChallengeOnce
  BY DEF MfaInv, WonIsClosed, ChallengeOnce
<1> QED BY <1>1, MfaInvariant, PTL

\* A used backup code returns only with the write of an overtaken copy.
THEOREM UsedCodesStayUsed == MfaSpec => []SpentCodesGone
BY MfaInvariant, PTL DEF MfaInv

\* With a repository that stores the columns, a verified setup stays in force
\* whatever logins were in flight.
THEOREM SetupIsKept ==
  ASSUME StoresMfa PROVE MfaSpec => []VerifiedMeansEnabled
<1>1. MfaInv => VerifiedMeansEnabled
  BY StoresMfa DEF MfaInv, EnabledStays, VerifiedMeansEnabled, Fetched
<1> QED BY <1>1, MfaInvariant, PTL

\* The last write of a login that nothing overtook changes no MFA column.
THEOREM LoginsKeepColumns == MfaSpec => LoginKeepsColumns
<1>1. ASSUME MfaInv, [MfaNext]_mfaVars, NEW p \in MfaRequests,
             mreq[p].pc = "update", mreq[p].op = "login", ~ mreq[p].stale, row' # row
      PROVE  mreq'[p].pc = "update"
  <2>1. PICK q \in MfaRequests : UseBackupCode(q) \/ UpdateUser(q)
    BY <1>1 DEF MfaNext, mfaVars, CreateMFAChallenge, ChallengeExpires, BeginMfa,
                GetMFAChallenge, FindForLogin, FindForEnable, FindForDisable,
                DeleteMFAChallenge, CreateMfaSession, MfaAbort
  <2>2. PICK pc \in {"idle", "delete"} : WriteRow(q, pc)
    BY <2>1 DEF UseBackupCode, UpdateUser
  <2>3. CASE q # p
    BY <1>1, <2>2, <2>3, WriteMarks
  \* Its copy is the row: writing it changes nothing.
  <2>4. CASE q = p
    BY <1>1, <2>1, <2>4 DEF UseBackupCode, UpdateUser, WriteRow, MfaInv, FreshCopies
  <2> QED BY <2>3, <2>4
<1>2. MfaInv /\ [MfaNext]_mfaVars => [LoginLeavesColumns]_mfaVars
  BY <1>1 DEF LoginLeavesColumns
<1> QED BY <1>2, MfaInvariant, PTL DEF MfaSpec, LoginKeepsColumns

\* With a repository that stores the columns, no login takes back what an MFA
\* operation wrote, unless its copy of the row was overtaken.
THEOREM NothingTakenBack == ASSUME StoresMfa PROVE MfaSpec => MfaWritesStay
BY StoresMfa, UsedCodesStayUsed, SetupIsKept, LoginsKeepColumns, PTL
   DEF MfaWritesStay, LoginKeepsColumns

-----------------------------------------------------------------------------
(***************************************************************************)
(* Sign-in with a provider.  The argument follows the e-mail address:      *)
(* while the provider has not changed it, it is the one address of the     *)
(* callback, of the user it found or created and of the owner of every     *)
(* account of the profile; and addresses are unique.                       *)
(***************************************************************************)

WithEmail == {"findUser", "createUser", "findAccount", "createAccount", "answered"}
WithUser == {"findAccount", "createAccount", "answered"}

EmailsUnique ==
    \A u, v \in UserIds : users[u].email # Nil /\ users[u].email = users[v].email => u = v

\* Where a callback has got to, and whose address it carries.
CallbacksFollow ==
    \A c \in Callbacks :
        /\ cb[c].pc # "idle" => cb[c].profile \in Profiles /\ emailOf[cb[c].profile] # Nil
        /\ cb[c].pc \in WithEmail =>
             /\ cb[c].email \in Emails
             /\ cb[c].profile \notin moved => cb[c].email = emailOf[cb[c].profile]
        /\ cb[c].pc \in WithUser => cb[c].user \in UserIds /\ users[cb[c].user].email = cb[c].email
        /\ cb[c].pc = "answered" =>
             /\ cb[c].owner \in UserIds
             /\ cb[c].profile \notin moved => users[cb[c].owner].email = emailOf[cb[c].profile]

\* An account belongs to the user whose address the profile has.
AccountsFollow ==
    \A a \in AccountIds : Linked(a) =>
        /\ accounts[a].profile \in Profiles /\ emailOf[accounts[a].profile] # Nil
        /\ users[accounts[a].user].email # Nil
        /\ accounts[a].profile \notin moved =>
             users[accounts[a].user].email = emailOf[accounts[a].profile]

\* A profile whose callbacks never overlapped has one account at most, and none
\* when its callback is about to create one.
OneAtATime ==
    /\ \A c, d \in Callbacks :
         cb[c].pc # "idle" /\ cb[d].pc # "idle" /\ cb[c].profile = cb[d].profile
           /\ cb[c].profile \notin together => c = d
    /\ \A f \in Profiles \ together : \A a, b \in AccountsOf(f) : a = b
    /\ \A c \in Callbacks :
         cb[c].pc = "createAccount" /\ cb[c].profile \notin together => AccountsOf(cb[c].profile) = {}

OAuthInv ==
    OAuthTypeOK /\ EmailsUnique /\ CallbacksFollow /\ AccountsFollow /\ OneAtATime

LEMMA OAuthInitInv == OAuthInit => OAuthInv
<1> SUFFICES ASSUME OAuthInit PROVE OAuthInv
  OBVIOUS
<1>1. \A c \in Callbacks : cb[c].pc = "idle"
  BY DEF OAuthInit, CbIdle
<1>2. \A a \in AccountIds : ~ Linked(a)
  BY DEF OAuthInit, Linked
<1>3. OAuthTypeOK
  BY DEF OAuthInit, OAuthTypeOK, CbIdle
<1>4. EmailsUnique
  BY DEF OAuthInit, EmailsUnique
<1> QED BY <1>1, <1>2, <1>3, <1>4
           DEF OAuthInv, CallbacksFollow, AccountsFollow, OneAtATime, AccountsOf, WithEmail, WithUser

CbType ==
    [pc : {"idle", "exchange", "findUser", "createUser", "findAccount", "createAccount",
           "answered"},
     profile : Profiles \cup {Nil}, email : Emails \cup {Nil},
     user : UserIds \cup {Nil}, owner : UserIds \cup {Nil}]

\* What the invariant says of one callback.
AnswerFollows(new) ==
    /\ new \in CbType
    /\ new.pc # "idle" => new.profile \in Profiles /\ emailOf[new.profile] # Nil
    /\ new.pc \in WithEmail =>
         /\ new.email \in Emails
         /\ new.profile \notin moved => new.email = emailOf[new.profile]
    /\ new.pc \in WithUser => new.user \in UserIds /\ users[new.user].email = new.email
    /\ new.pc = "answered" =>
         /\ new.owner \in UserIds
         /\ new.profile \notin moved => users[new.owner].email = emailOf[new.profile]
    /\ new.pc = "createAccount" /\ new.profile \notin together => AccountsOf(new.profile) = {}

LEMMA AllFollow == OAuthInv => \A c \in Callbacks : AnswerFollows(cb[c])
BY DEF OAuthInv, OAuthTypeOK, CallbacksFollow, OneAtATime, AnswerFollows, CbType

\* A step that only moves one callback on, within its profile.
LEMMA CallbackMoves ==
  ASSUME OAuthInv, NEW c \in Callbacks, cb[c].pc # "idle", NEW new, AnswerFollows(new),
         cb' = [cb EXCEPT ![c] = new],
         new.pc # "idle" => new.profile = cb[c].profile,
         UNCHANGED <<pendingStates, emailOf, users, accounts, moved, together>>
  PROVE  OAuthInv'
<1> USE DEF OAuthInv
<1>1. cb'[c] = new /\ \A d \in Callbacks : d # c => cb'[d] = cb[d]
  BY DEF OAuthTypeOK
<1>2. OAuthTypeOK'
  BY DEF OAuthTypeOK, AnswerFollows, CbType
<1>3. EmailsUnique' /\ AccountsFollow'
  BY DEF EmailsUnique, AccountsFollow, Linked
<1>4. CallbacksFollow'
  BY <1>1 DEF CallbacksFollow, AnswerFollows
<1>5. ASSUME NEW d \in Callbacks, NEW e \in Callbacks,
             cb'[d].pc # "idle", cb'[e].pc # "idle", cb'[d].profile = cb'[e].profile,
             cb'[d].profile \notin together
      PROVE  d = e
  BY <1>1, <1>5 DEF OneAtATime
<1>6. OneAtATime'
  <2>1. \A f \in Profiles \ together : \A a, b \in {x \in AccountIds : accounts'[x].user # Nil
                                                      /\ accounts'[x].profile = f} : a = b
    BY DEF OneAtATime, AccountsOf, Linked
  <2>2. \A d \in Callbacks :
          cb'[d].pc = "createAccount" /\ cb'[d].profile \notin together =>
            {x \in AccountIds : accounts'[x].user # Nil /\ accounts'[x].profile = cb'[d].profile} = {}
    BY <1>1 DEF OneAtATime, AnswerFollows, AccountsOf, Linked
  <2> QED BY <1>5, <2>1, <2>2 DEF OneAtATime, AccountsOf, Linked
<1> QED BY <1>2, <1>3, <1>4, <1>6

-----------------------------------------------------------------------------
(* Callbacks                                                               *)

LEMMA CallbackEnds == ASSUME OAuthInv, NEW c \in Callbacks, EndCallback(c) PROVE OAuthInv'
<1>1. CbIdle.pc = "idle" /\ AnswerFollows(CbIdle)
  BY DEF AnswerFollows, CbIdle, CbType, WithEmail, WithUser
<1> QED BY <1>1, CallbackMoves DEF EndCallback

LEMMA HandleStep ==
  ASSUME OAuthInv, NEW c \in Callbacks, NEW s \in States, NEW f \in Profiles,
         HandleCallback(c, s, f)
  PROVE  OAuthInv'
<1> USE DEF OAuthInv
<1> DEFINE new == [CbIdle EXCEPT !.pc = "exchange", !.profile = f]
<1>1. /\ cb' = [cb EXCEPT ![c] = new] /\ cb[c].pc = "idle" /\ emailOf[f] # Nil
      /\ together \subseteq together' /\ together' \subseteq together \cup {f}
      /\ (\E d \in Callbacks : cb[d].pc # "idle" /\ cb[d].profile = f) => f \in together'
      /\ UNCHANGED <<pendingStates, emailOf, users, accounts, moved>>
  BY DEF HandleCallback
<1>2. new \in CbType /\ new.pc = "exchange" /\ new.profile = f
  BY DEF CbIdle, CbType
<1> HIDE DEF new
<1>3. cb'[c] = new /\ \A d \in Callbacks : d # c => cb'[d] = cb[d]
  BY <1>1 DEF OAuthTypeOK
<1>4. OAuthTypeOK'
  BY <1>1, <1>2 DEF OAuthTypeOK, CbType
<1>5. EmailsUnique' /\ AccountsFollow'
  BY <1>1 DEF EmailsUnique, AccountsFollow, Linked
<1>6. CallbacksFollow'
  BY <1>1, <1>2, <1>3 DEF CallbacksFollow, WithEmail, WithUser
<1>7. ASSUME NEW d \in Callbacks, NEW e \in Callbacks,
             cb'[d].pc # "idle", cb'[e].pc # "idle", cb'[d].profile = cb'[e].profile,
             cb'[d].profile \notin together'
      PROVE  d = e
  BY <1>1, <1>2, <1>3, <1>7 DEF OneAtATime
<1>8. OneAtATime'
  BY <1>1, <1>2, <1>3, <1>7 DEF OneAtATime, AccountsOf, Linked
<1> QED BY <1>4, <1>5, <1>6, <1>8

LEMMA ExchangeStep == ASSUME OAuthInv, NEW c \in Callbacks, Exchange(c) PROVE OAuthInv'
<1> DEFINE new == [cb[c] EXCEPT !.pc = "findUser", !.email = emailOf[cb[c].profile]]
<1>1. /\ cb[c].pc = "exchange" /\ cb[c] \in CbType /\ cb[c].profile \in Profiles
      /\ emailOf[cb[c].profile] \in Emails
      /\ cb' = [cb EXCEPT ![c] = new]
      /\ UNCHANGED <<pendingStates, emailOf, users, accounts, moved, together>>
  BY DEF Exchange, OAuthInv, OAuthTypeOK, CallbacksFollow, CbType
<1>2. /\ new \in CbType /\ new.pc = "findUser" /\ new.profile = cb[c].profile
      /\ new.email = emailOf[cb[c].profile]
  BY <1>1 DEF CbType
<1> HIDE DEF new
<1>3. AnswerFollows(new)
  BY <1>1, <1>2, OAuthAssumption DEF AnswerFollows, WithUser
<1> QED BY <1>1, <1>2, <1>3, CallbackMoves

LEMMA FindUserStep == ASSUME OAuthInv, NEW c \in Callbacks, FindByEmail(c) PROVE OAuthInv'
<1>1. /\ cb[c].pc = "findUser" /\ cb[c] \in CbType /\ AnswerFollows(cb[c])
      /\ UNCHANGED <<pendingStates, emailOf, users, accounts, moved, together>>
  BY AllFollow DEF FindByEmail, AnswerFollows
<1>2. ASSUME NEW u \in UsersWith(cb[c].email),
             cb' = [cb EXCEPT ![c] = [cb[c] EXCEPT !.pc = "findAccount", !.user = u]]
      PROVE  OAuthInv'
  <2> DEFINE new == [cb[c] EXCEPT !.pc = "findAccount", !.user = u]
  <2>1. /\ new \in CbType /\ new.pc = "findAccount" /\ new.profile = cb[c].profile
        /\ new.email = cb[c].email /\ new.user = u
    BY <1>1, <1>2 DEF CbType, UsersWith
  <2>2. cb' = [cb EXCEPT ![c] = new]
    BY <1>2
  <2> HIDE DEF new
  <2>3. AnswerFollows(new)
    BY <1>1, <1>2, <2>1 DEF AnswerFollows, UsersWith, WithEmail, WithUser
  <2> QED BY <1>1, <2>1, <2>2, <2>3, CallbackMoves
<1>3. CASE cb' = [cb EXCEPT ![c].pc = "createUser"]
  <2> DEFINE new == [cb[c] EXCEPT !.pc = "createUser"]
  <2>1. /\ new \in CbType /\ new.pc = "createUser" /\ new.profile = cb[c].profile
        /\ new.email = cb[c].email
    BY <1>1 DEF CbType
  <2>2. cb' = [cb EXCEPT ![c] = new]
    BY <1>3
  <2> HIDE DEF new
  <2>3. AnswerFollows(new)
    BY <1>1, <2>1 DEF AnswerFollows, WithEmail, WithUser
  <2> QED BY <1>1, <2>1, <2>2, <2>3, CallbackMoves
<1>4. ASSUME NEW u \in UsersWith(cb[c].email),
             cb' = [cb EXCEPT ![c].pc = "findAccount", ![c].user = u]
      PROVE  OAuthInv'
  <2>1. cb' = [cb EXCEPT ![c] = [cb[c] EXCEPT !.pc = "findAccount", !.user = u]]
    BY <1>1, <1>4 DEF CbType, OAuthInv, OAuthTypeOK
  <2> QED BY <1>2, <2>1
<1> QED BY <1>3, <1>4 DEF FindByEmail

LEMMA FindAccountStep == ASSUME OAuthInv, NEW c \in Callbacks, FindAccount(c) PROVE OAuthInv'
<1>1. /\ cb[c].pc = "findAccount" /\ cb[c] \in CbType /\ AnswerFollows(cb[c])
      /\ UNCHANGED <<pendingStates, emailOf, users, accounts, moved, together>>
  BY AllFollow DEF FindAccount, AnswerFollows
<1>2. ASSUME NEW a \in AccountsOf(cb[c].profile),
             cb' = [cb EXCEPT ![c].pc = "answered", ![c].owner = accounts[a].user]
      PROVE  OAuthInv'
  <2> DEFINE new == [cb[c] EXCEPT !.pc = "answered", !.owner = accounts[a].user]
  <2>1. /\ a \in AccountIds /\ Linked(a) /\ accounts[a].profile = cb[c].profile
        /\ accounts[a].user \in UserIds
    BY DEF AccountsOf, Linked, OAuthInv, OAuthTypeOK
  <2>2. /\ new \in CbType /\ new.pc = "answered" /\ new.profile = cb[c].profile
        /\ new.email = cb[c].email /\ new.user = cb[c].user /\ new.owner = accounts[a].user
    BY <1>1, <2>1 DEF CbType
  <2>3. cb' = [cb EXCEPT ![c] = new]
    BY <1>1, <1>2 DEF CbType, OAuthInv, OAuthTypeOK
  <2> HIDE DEF new
  <2>4. AnswerFollows(new)
    BY <1>1, <2>1, <2>2 DEF AnswerFollows, OAuthInv, AccountsFollow, WithEmail, WithUser
  <2> QED BY <1>1, <2>2, <2>3, <2>4, CallbackMoves
<1>3. CASE AccountsOf(cb[c].profile) = {} /\ cb' = [cb EXCEPT ![c].pc = "createAccount"]
  <2> DEFINE new == [cb[c] EXCEPT !.pc = "createAccount"]
  <2>1. /\ new \in CbType /\ new.pc = "createAccount" /\ new.profile = cb[c].profile
        /\ new.email = cb[c].email /\ new.user = cb[c].user
    BY <1>1 DEF CbType
  <2>2. cb' = [cb EXCEPT ![c] = new]
    BY <1>3
  <2> HIDE DEF new
  <2>3. AnswerFollows(new)
    BY <1>1, <1>3, <2>1 DEF AnswerFollows, WithEmail, WithUser
  <2> QED BY <1>1, <2>1, <2>2, <2>3, CallbackMoves
<1> QED BY <1>2, <1>3 DEF FindAccount

LEMMA CreateUserStep ==
  ASSUME OAuthInv, NEW c \in Callbacks, CreateUserFromOAuthProfile(c)
  PROVE  OAuthInv'
<1>1. /\ cb[c].pc = "createUser" /\ cb[c] \in CbType /\ AnswerFollows(cb[c])
      /\ cb[c].email \in Emails
      /\ UNCHANGED <<pendingStates, emailOf, accounts, moved, together>>
  BY AllFollow DEF CreateUserFromOAuthProfile, AnswerFollows, WithEmail
<1>2. CASE cb' = [cb EXCEPT ![c] = CbIdle] /\ users' = users
  <2>1. EndCallback(c)
    BY <1>1, <1>2 DEF EndCallback
  <2> QED BY <2>1, CallbackEnds
<1>3. ASSUME UsersWith(cb[c].email) = {}, NEW u \in UserIds, users[u].email = Nil,
             users' = [users EXCEPT ![u].email = cb[c].email],
             cb' = [cb EXCEPT ![c].pc = "findAccount", ![c].user = u]
      PROVE  OAuthInv'
  <2> DEFINE new == [cb[c] EXCEPT !.pc = "findAccount", !.user = u]
  <2>1. /\ new \in CbType /\ new.pc = "findAccount" /\ new.profile = cb[c].profile
        /\ new.email = cb[c].email /\ new.user = u
    BY <1>1, <1>3 DEF CbType
  <2>2. cb' = [cb EXCEPT ![c] = new]
    BY <1>1, <1>3 DEF CbType, OAuthInv, OAuthTypeOK
  <2> HIDE DEF new
  <2>3. cb'[c] = new /\ \A d \in Callbacks : d # c => cb'[d] = cb[d]
    BY <2>2 DEF OAuthInv, OAuthTypeOK
  <2>4. /\ users'[u].email = cb[c].email
        /\ \A v \in UserIds : v # u => users'[v] = users[v]
        /\ users' \in [UserIds -> [email : Emails \cup {Nil}, deleted : BOOLEAN]]
    BY <1>1, <1>3 DEF OAuthInv, OAuthTypeOK
  \* Nobody refers to a user who did not exist.
  <2>5. OAuthTypeOK'
    BY <1>1, <2>1, <2>2, <2>4 DEF OAuthInv, OAuthTypeOK, CbType
  <2>6. EmailsUnique'
    BY <1>3, <2>4 DEF OAuthInv, EmailsUnique, UsersWith
  <2>7. CallbacksFollow'
    <3>1. ASSUME NEW d \in Callbacks, d # c, cb[d].pc \in WithUser
          PROVE  cb[d].user # u
      BY <1>3, <3>1, OAuthAssumption DEF OAuthInv, CallbacksFollow, WithEmail, WithUser
    <3>2. ASSUME NEW d \in Callbacks, cb[d].pc = "answered", cb[d].profile \notin moved
          PROVE  cb[d].owner # u
      BY <1>3, <3>2 DEF OAuthInv, CallbacksFollow
    <3>3. \A d \in Callbacks : d # c => AnswerFollows(cb[d])'
      BY <1>1, <2>3, <2>4, <3>1, <3>2, AllFollow DEF AnswerFollows, CbType, AccountsOf, Linked
    <3>4. /\ cb'[c].pc = "findAccount" /\ cb'[c].profile \in Profiles
          /\ emailOf'[cb'[c].profile] # Nil /\ cb'[c].email \in Emails
          /\ cb'[c].profile \notin moved' => cb'[c].email = emailOf'[cb'[c].profile]
          /\ cb'[c].user \in UserIds /\ users'[cb'[c].user].email = cb'[c].email
      BY <1>1, <2>1, <2>3, <2>4 DEF AnswerFollows, WithEmail
    <3>5. ASSUME NEW d \in Callbacks, d # c
          PROVE  /\ cb'[d].pc # "idle" => cb'[d].profile \in Profiles /\ emailOf'[cb'[d].profile] # Nil
                 /\ cb'[d].pc \in WithEmail =>
                      /\ cb'[d].email \in Emails
                      /\ cb'[d].profile \notin moved' => cb'[d].email = emailOf'[cb'[d].profile]
                 /\ cb'[d].pc \in WithUser =>
                      cb'[d].user \in UserIds /\ users'[cb'[d].user].email = cb'[d].email
                 /\ cb'[d].pc = "answered" =>
                      /\ cb'[d].owner \in UserIds
                      /\ cb'[d].profile \notin moved' =>
                           users'[cb'[d].owner].email = emailOf'[cb'[d].profile]
      BY <3>3, <3>5 DEF AnswerFollows
    <3> QED BY <3>4, <3>5 DEF CallbacksFollow
  <2>8. AccountsFollow'
    <3>1. \A a \in AccountIds : Linked(a) => accounts[a].user # u /\ accounts[a].user \in UserIds
      BY <1>3 DEF OAuthInv, OAuthTypeOK, AccountsFollow, Linked
    <3> QED BY <1>1, <2>4, <3>1 DEF OAuthInv, AccountsFollow, Linked
  <2>9. OneAtATime'
    BY <1>1, <2>1, <2>3 DEF OAuthInv, OneAtATime, AccountsOf, Linked
  <2> QED BY <2>5, <2>6, <2>7, <2>8, <2>9 DEF OAuthInv
<1> QED BY <1>2, <1>3 DEF CreateUserFromOAuthProfile

LEMMA CreateAccountStep ==
  ASSUME OAuthInv, NEW c \in Callbacks, CreateAccount(c)
  PROVE  OAuthInv'
<1> DEFINE new == [cb[c] EXCEPT !.pc = "answered", !.owner = cb[c].user]
           link == [user |-> cb[c].user, profile |-> cb[c].profile]
<1>1. /\ cb[c].pc = "createAccount" /\ cb[c] \in CbType /\ AnswerFollows(cb[c])
      /\ cb[c].profile \in Profiles /\ cb[c].user \in UserIds
      /\ users[cb[c].user].email = cb[c].email /\ cb[c].email \in Emails
      /\ UNCHANGED <<pendingStates, emailOf, users, moved, together>>
  BY AllFollow DEF CreateAccount, AnswerFollows, WithEmail, WithUser
<1>2. PICK a \in AccountIds : ~ Linked(a) /\ accounts' = [accounts EXCEPT ![a] = link]
  BY DEF CreateAccount
<1>3. /\ new \in CbType /\ new.pc = "answered" /\ new.profile = cb[c].profile
      /\ new.email = cb[c].email /\ new.user = cb[c].user /\ new.owner = cb[c].user
  BY <1>1 DEF CbType
<1>4. cb' = [cb EXCEPT ![c] = new]
  BY <1>1 DEF CreateAccount, CbType, OAuthInv, OAuthTypeOK
<1>5. link.user = cb[c].user /\ link.profile = cb[c].profile
      /\ link \in [user : UserIds \cup {Nil}, profile : Profiles \cup {Nil}]
  BY <1>1
<1> HIDE DEF new, link
<1>6. cb'[c] = new /\ \A d \in Callbacks : d # c => cb'[d] = cb[d]
  BY <1>4 DEF OAuthInv, OAuthTypeOK
<1>7. accounts'[a] = link /\ \A b \in AccountIds : b # a => accounts'[b] = accounts[b]
  BY <1>2 DEF OAuthInv, OAuthTypeOK
<1>8. OAuthTypeOK'
  BY <1>1, <1>2, <1>3, <1>4, <1>5 DEF OAuthInv, OAuthTypeOK, CbType
<1>9. EmailsUnique'
  BY <1>1 DEF OAuthInv, EmailsUnique
<1>10. CallbacksFollow'
  BY <1>1, <1>3, <1>6 DEF OAuthInv, CallbacksFollow, AnswerFollows, WithEmail, WithUser
<1>11. AccountsFollow'
  BY <1>1, <1>5, <1>7, OAuthAssumption
     DEF OAuthInv, AccountsFollow, CallbacksFollow, Linked, WithEmail
<1>12. OneAtATime'
  \* The creator was alone with its profile and had found no account of it.
  <2> DEFINE Now(f) == {x \in AccountIds : accounts'[x].user # Nil /\ accounts'[x].profile = f}
  <2>1. \A f \in Profiles \ together : \A x, y \in Now(f) : x = y
    BY <1>1, <1>5, <1>7 DEF OAuthInv, OneAtATime, AnswerFollows, AccountsOf, Linked
  <2>2. ASSUME NEW d \in Callbacks, cb'[d].pc = "createAccount", cb'[d].profile \notin together
        PROVE  Now(cb'[d].profile) = {}
    <3>1. d # c /\ cb[d].pc = "createAccount" /\ cb'[d].profile = cb[d].profile
      BY <1>3, <1>6, <2>2
    <3>2. cb[d].profile # cb[c].profile
      BY <1>1, <2>2, <3>1 DEF OAuthInv, OneAtATime
    <3>3. AccountsOf(cb[d].profile) = {}
      BY <2>2, <3>1 DEF OAuthInv, OneAtATime
    <3> QED BY <1>5, <1>7, <3>1, <3>2, <3>3 DEF AccountsOf, Linked
  <2>3. ASSUME NEW d \in Callbacks, NEW e \in Callbacks,
               cb'[d].pc # "idle", cb'[e].pc # "idle", cb'[d].profile = cb'[e].profile,
               cb'[d].profile \notin together
        PROVE  d = e
    BY <1>1, <1>3, <1>6, <2>3 DEF OAuthInv, OneAtATime
  <2> QED BY <1>1, <2>1, <2>2, <2>3 DEF OneAtATime, AccountsOf, Linked
<1> QED BY <1>8, <1>9, <1>10, <1>11, <1>12 DEF OAuthInv

-----------------------------------------------------------------------------
(* Everybody else                                                          *)

LEMMA UnlinkStep ==
  ASSUME OAuthInv, NEW u \in UserIds, NEW a \in AccountIds, UnlinkAccount(u, a)
  PROVE  OAuthInv'
<1> DEFINE none == [user |-> Nil, profile |-> Nil]
<1> USE DEF OAuthInv
<1>1. /\ accounts' = [accounts EXCEPT ![a] = none]
      /\ UNCHANGED <<pendingStates, emailOf, users, cb, moved, together>>
  BY DEF UnlinkAccount
<1>2. accounts'[a].user = Nil /\ \A b \in AccountIds : b # a => accounts'[b] = accounts[b]
  BY <1>1 DEF OAuthTypeOK
<1>3. OAuthTypeOK'
  BY <1>1 DEF OAuthTypeOK
<1>4. EmailsUnique' /\ CallbacksFollow'
  BY <1>1 DEF EmailsUnique, CallbacksFollow
<1>5. AccountsFollow'
  BY <1>1, <1>2 DEF AccountsFollow, Linked
<1>6. \A f : AccountsOf(f)' \subseteq AccountsOf(f)
  BY <1>2 DEF AccountsOf, Linked
<1>7. OneAtATime'
  BY <1>1, <1>6 DEF OneAtATime
<1> QED BY <1>3, <1>4, <1>5, <1>7

LEMMA DeleteUserStep ==
  ASSUME OAuthInv, NEW u \in UserIds, DeleteUser(u)
  PROVE  OAuthInv'
<1> USE DEF OAuthInv
<1>1. /\ users' = [users EXCEPT ![u].deleted = TRUE]
      /\ UNCHANGED <<pendingStates, emailOf, accounts, cb, moved, together>>
  BY DEF DeleteUser
<1>2. \A v \in UserIds : users'[v].email = users[v].email
  BY <1>1 DEF OAuthTypeOK
<1>3. OAuthTypeOK'
  BY <1>1 DEF OAuthTypeOK
<1>4. EmailsUnique'
  BY <1>2 DEF EmailsUnique
<1>5. CallbacksFollow'
  BY <1>1, <1>2 DEF CallbacksFollow
<1>6. AccountsFollow'
  BY <1>1, <1>2 DEF AccountsFollow, Linked, OAuthTypeOK
<1>7. OneAtATime'
  BY <1>1 DEF OneAtATime, AccountsOf, Linked
<1> QED BY <1>3, <1>4, <1>5, <1>6, <1>7

LEMMA SetEmailStep ==
  ASSUME OAuthInv, NEW f \in Profiles, NEW e \in Emails, SetEmail(f, e)
  PROVE  OAuthInv'
<1> USE DEF OAuthInv
<1>1. /\ emailOf' = [emailOf EXCEPT ![f] = e] /\ e # Nil
      /\ moved' = IF emailOf[f] = Nil THEN moved ELSE moved \cup {f}
      /\ UNCHANGED <<pendingStates, users, accounts, cb, together>>
  BY OAuthAssumption DEF SetEmail
<1>2. OAuthTypeOK'
  BY <1>1 DEF OAuthTypeOK
<1>3. \A g \in Profiles : emailOf[g] # Nil => emailOf'[g] # Nil
  BY <1>1 DEF OAuthTypeOK
<1>4. \A g \in Profiles :
        emailOf[g] # Nil /\ g \notin moved' => g \notin moved /\ emailOf'[g] = emailOf[g]
  BY <1>1 DEF OAuthTypeOK
<1>5. EmailsUnique' /\ OneAtATime'
  BY <1>1 DEF EmailsUnique, OneAtATime, AccountsOf, Linked
<1>6. CallbacksFollow'
  BY <1>1, <1>3, <1>4 DEF CallbacksFollow, WithEmail
<1>7. AccountsFollow'
  BY <1>1, <1>3, <1>4 DEF AccountsFollow, Linked
<1> QED BY <1>2, <1>5, <1>6, <1>7

LEMMA StatesStep ==
  ASSUME OAuthInv, NEW s \in States,
         GenerateAuthorizationUrl(s) \/ StateExpires(s) \/ RejectExpiredState(s)
  PROVE  OAuthInv'
<1> USE DEF OAuthInv
<1>1. UNCHANGED <<emailOf, users, accounts, cb, moved, together>>
  BY DEF GenerateAuthorizationUrl, StateExpires, RejectExpiredState
<1>2. OAuthTypeOK'
  BY <1>1 DEF OAuthTypeOK, GenerateAuthorizationUrl, StateExpires, RejectExpiredState
<1> QED BY <1>1, <1>2
           DEF EmailsUnique, CallbacksFollow, AccountsFollow, OneAtATime, AccountsOf, Linked

LEMMA OAuthInvStep == OAuthInv /\ [OAuthNext]_oauthVars => OAuthInv'
<1> SUFFICES ASSUME OAuthInv, [OAuthNext]_oauthVars PROVE OAuthInv'
  OBVIOUS
<1>1. CASE UNCHANGED oauthVars
  BY <1>1 DEF oauthVars, OAuthInv, OAuthTypeOK, EmailsUnique, CallbacksFollow, AccountsFollow,
              OneAtATime, AccountsOf, Linked
<1> QED
  BY <1>1, StatesStep, HandleStep, ExchangeStep, FindUserStep, CreateUserStep, FindAccountStep,
     CreateAccountStep, CallbackEnds, UnlinkStep, DeleteUserStep, SetEmailStep DEF OAuthNext

\* The invariant that the theorems below are read off.
THEOREM OAuthInvariant == OAuthSpec => []OAuthInv
BY OAuthInitInv, OAuthInvStep, PTL DEF OAuthSpec

\* One user per e-mail address, and no account without its user.
THEOREM OneUserPerEmail == OAuthSpec => []UsersAreReal
<1>1. OAuthInv => UsersAreReal
  BY DEF OAuthInv, EmailsUnique, AccountsFollow, UsersAreReal
<1> QED BY <1>1, OAuthInvariant, PTL

\* The answer of a callback names one person, unless the e-mail has changed.
THEOREM AnswersAgree == OAuthSpec => []AnswerIsOnePerson
<1>1. OAuthInv => AnswerIsOnePerson
  <2> SUFFICES ASSUME OAuthInv, NEW c \in Callbacks, cb[c].pc = "answered",
                      cb[c].profile \notin moved
               PROVE  cb[c].user = cb[c].owner
    BY DEF AnswerIsOnePerson
  <2>1. /\ cb[c].user \in UserIds /\ cb[c].owner \in UserIds /\ cb[c].email \in Emails
        /\ users[cb[c].user].email = cb[c].email /\ users[cb[c].owner].email = cb[c].email
    BY DEF OAuthInv, CallbacksFollow, WithEmail, WithUser
  <2> QED BY <2>1, OAuthAssumption DEF OAuthInv, EmailsUnique
<1> QED BY <1>1, OAuthInvariant, PTL

\* Without overlapping callbacks a profile has one account at most.
THEOREM DuplicatesExplained == OAuthSpec => []DuplicatesNeedOverlap
<1>1. OAuthInv => DuplicatesNeedOverlap
  <2> SUFFICES ASSUME OAuthInv, NEW f \in Profiles \ together
               PROVE  Cardinality(AccountsOf(f)) <= 1
    BY DEF DuplicatesNeedOverlap
  <2>1. CASE AccountsOf(f) = {}
    BY <2>1, FS_EmptySet
  <2>2. CASE AccountsOf(f) # {}
    <3>1. PICK a \in AccountsOf(f) : AccountsOf(f) = {a}
      BY <2>2 DEF OAuthInv, OneAtATime
    <3> QED BY <3>1, FS_Singleton
  <2> QED BY <2>1, <2>2
<1> QED BY <1>1, OAuthInvariant, PTL

\* Every answer of a callback names a real user and a link of that user, unless
\* the e-mail of the profile moved.
THEOREM CallbacksAnswerSoundly == OAuthSpec => []AnswersAreSound
BY OneUserPerEmail, AnswersAgree, PTL DEF AnswersAreSound

-----------------------------------------------------------------------------
(***************************************************************************)
(* The rate limiter.  A set that no call overtook holds every admission    *)
(* that the window of its newest call still holds, so the count that       *)
(* admits a call is at least the count of what the window admitted.        *)
(***************************************************************************)

\* What a call in flight has sent.
SentCall == [key : LimitKeys, at : 0..MaxTime, lim : Nat]

\* A set that no call overtook holds nothing newer than its newest call, and
\* every admission that the newest call's window still holds.
WindowKept(k) ==
    /\ \A a \in admitted[k] : a.at <= newest[k]
    /\ \A a \in admitted[k] : a.at > newest[k] - Window => a.at \in zset[k]

LimiterInv ==
    /\ LimiterTypeOK
    /\ \A c \in Slots : call[c] # NoCall => call[c] \in SentCall
    /\ \A k \in LimitKeys \ overtaken : WindowKept(k)
    /\ WithinLimit

\* Whatever the caller's trust, a limit is a natural number.
LEMMA LimitIsNat ==
  ASSUME NEW k \in LimitKeys, NEW trust
  PROVE  AdjustForTrustScore(GetEndpointConfig(k), trust) \in Nat
<1>1. GetEndpointConfig(k) \in Nat
  BY LimiterAssumption DEF GetEndpointConfig
<1>2. \A m \in Nat : (3 * m) \div 2 \in Nat /\ (6 * m) \div 5 \in Nat
  OBVIOUS
<1> HIDE DEF GetEndpointConfig
<1> QED BY <1>1, <1>2 DEF AdjustForTrustScore

\* One more member than the window holds is within a limit it is below.
LEMMA OneMoreFits ==
  ASSUME NEW k \in LimitKeys, NEW now \in 0..MaxTime, NEW lim \in Nat, NEW S,
         LimiterTypeOK, Cardinality(InWindow(k, now)) < lim,
         S \subseteq InWindow(k, now) \cup {now}
  PROVE  Cardinality(S) <= lim
<1> DEFINE W == InWindow(k, now)
<1>1. IsFiniteSet(0..MaxTime)
  BY FS_Interval, LimiterAssumption
<1>2. W \subseteq 0..MaxTime
  BY DEF InWindow, LimiterTypeOK
<1>3. IsFiniteSet(W)
  BY <1>1, <1>2, FS_Subset
<1> HIDE DEF W
<1>4. /\ IsFiniteSet(W \cup {now})
      /\ Cardinality(W \cup {now}) = Cardinality(W)
           \/ Cardinality(W \cup {now}) = Cardinality(W) + 1
  BY <1>3, FS_AddElement
<1>5. Cardinality(W) \in Nat
  BY <1>3, FS_CardinalityType
<1>6. Cardinality(W \cup {now}) <= lim
  BY <1>4, <1>5 DEF W
<1>7. Cardinality(S) <= Cardinality(W \cup {now}) /\ Cardinality(S) \in Nat
  BY <1>4, FS_Subset, FS_CardinalityType DEF W
<1> QED BY <1>4, <1>5, <1>6, <1>7

\* The members a call leaves, whether or not it was admitted.
LEMMA WindowMoves ==
  ASSUME LimiterInv, NEW k \in LimitKeys, NEW now \in 0..MaxTime,
         zset' = [zset EXCEPT ![k] = InWindow(k, now) \cup {now}],
         newest' = [newest EXCEPT ![k] = Later(@, now)],
         overtaken' = IF now < newest[k] THEN overtaken \cup {k} ELSE overtaken
  PROVE  /\ zset' \in [LimitKeys -> SUBSET (0..MaxTime)]
         /\ newest' \in [LimitKeys -> 0..MaxTime]
         /\ overtaken' \subseteq LimitKeys /\ overtaken \subseteq overtaken'
         /\ k \notin overtaken' => /\ newest'[k] = now /\ newest[k] <= now
                                   /\ zset'[k] = InWindow(k, now) \cup {now}
         /\ \A h \in LimitKeys \ {k} : zset'[h] = zset[h] /\ newest'[h] = newest[h]
<1>1. InWindow(k, now) \subseteq 0..MaxTime
  BY DEF InWindow, LimiterInv, LimiterTypeOK
<1>2. zset' \in [LimitKeys -> SUBSET (0..MaxTime)]
  BY <1>1 DEF LimiterInv, LimiterTypeOK
<1>3. Later(newest[k], now) \in 0..MaxTime /\ newest[k] \in 0..MaxTime
  BY DEF Later, LimiterInv, LimiterTypeOK
<1>4. newest' \in [LimitKeys -> 0..MaxTime]
  BY <1>3 DEF LimiterInv, LimiterTypeOK
<1>5. ASSUME k \notin overtaken'
      PROVE  newest'[k] = now /\ newest[k] <= now /\ zset'[k] = InWindow(k, now) \cup {now}
  BY <1>3, <1>5 DEF Later, LimiterInv, LimiterTypeOK
<1>6. \A h \in LimitKeys \ {k} : zset'[h] = zset[h] /\ newest'[h] = newest[h]
  BY DEF LimiterInv, LimiterTypeOK
<1>7. overtaken' \subseteq LimitKeys /\ overtaken \subseteq overtaken'
  BY DEF LimiterInv, LimiterTypeOK
<1> QED BY <1>2, <1>4, <1>5, <1>6, <1>7

LEMMA ExecStep ==
  ASSUME LimiterInv, NEW c \in Slots, Exec(c) PROVE LimiterInv'
<1>1. PICK k \in LimitKeys, now \in 0..MaxTime, lim \in Nat :
        /\ zset' = [zset EXCEPT ![k] = InWindow(k, now) \cup {now}]
        /\ admitted' = IF Cardinality(InWindow(k, now)) < lim
                       THEN [admitted EXCEPT ![k] = @ \cup {[at |-> now, lim |-> lim]}]
                       ELSE admitted
        /\ newest' = [newest EXCEPT ![k] = Later(@, now)]
        /\ overtaken' = IF now < newest[k] THEN overtaken \cup {k} ELSE overtaken
  <2>1. call[c].key \in LimitKeys /\ call[c].at \in 0..MaxTime /\ call[c].lim \in Nat
    BY DEF LimiterInv, Exec, SentCall
  <2> QED BY <2>1 DEF Exec
<1> DEFINE new == [at |-> now, lim |-> lim]
<1>2. /\ admitted' = IF Cardinality(InWindow(k, now)) < lim
                     THEN [admitted EXCEPT ![k] = @ \cup {new}] ELSE admitted
      /\ call' = [call EXCEPT ![c] = NoCall] /\ clock' = clock
  BY <1>1 DEF Exec
<1>3. new \in [at : 0..MaxTime, lim : Nat] /\ new.at = now /\ new.lim = lim
  OBVIOUS
<1> HIDE DEF new
<1>4. /\ zset' \in [LimitKeys -> SUBSET (0..MaxTime)]
      /\ newest' \in [LimitKeys -> 0..MaxTime]
      /\ overtaken' \subseteq LimitKeys /\ overtaken \subseteq overtaken'
      /\ k \notin overtaken' => /\ newest'[k] = now /\ newest[k] <= now
                                /\ zset'[k] = InWindow(k, now) \cup {now}
      /\ \A h \in LimitKeys \ {k} : zset'[h] = zset[h] /\ newest'[h] = newest[h]
  BY <1>1, <1>2, WindowMoves
<1>5. /\ admitted' \in [LimitKeys -> SUBSET [at : 0..MaxTime, lim : Nat]]
      /\ \A h \in LimitKeys \ {k} : admitted'[h] = admitted[h]
      /\ admitted'[k] \subseteq admitted[k] \cup {new}
      /\ new \notin admitted[k] /\ new \in admitted'[k] => Cardinality(InWindow(k, now)) < lim
  BY <1>1, <1>2, <1>3 DEF LimiterInv, LimiterTypeOK
<1>6. /\ call' \in [Slots -> [key : LimitKeys \cup {"default"}, at : 0..MaxTime, lim : Nat]]
      /\ \A d \in Slots : call'[d] # NoCall => call'[d] \in SentCall
  <2>1. NoCall \in [key : LimitKeys \cup {"default"}, at : 0..MaxTime, lim : Nat]
    BY LimiterAssumption DEF NoCall
  <2> QED BY <1>2, <2>1 DEF LimiterInv, LimiterTypeOK
<1>7. LimiterTypeOK'
  BY <1>2, <1>4, <1>5, <1>6 DEF LimiterInv, LimiterTypeOK
<1>8. \A a \in admitted[k] : a.at \in 0..MaxTime
  BY <1>1 DEF LimiterInv, LimiterTypeOK
<1>9. k \notin overtaken' => WindowKept(k)'
  <2> SUFFICES ASSUME k \notin overtaken', NEW a \in admitted'[k]
               PROVE  a.at <= newest'[k] /\ (a.at > newest'[k] - Window => a.at \in zset'[k])
    BY DEF WindowKept
  <2>1. CASE a = new
    BY <1>1, <1>3, <1>4, <2>1
  <2>2. CASE a \in admitted[k]
    <3>1. WindowKept(k) /\ newest[k] \in 0..MaxTime
      BY <1>1, <1>4 DEF LimiterInv, LimiterTypeOK
    <3>2. a.at <= newest'[k]
      BY <1>1, <1>4, <1>8, <2>2, <3>1 DEF WindowKept
    <3>3. a.at > now - Window => a.at \in InWindow(k, now)
      BY <1>1, <1>4, <1>8, <2>2, <3>1, LimiterAssumption DEF WindowKept, InWindow
    <3> QED BY <1>4, <3>2, <3>3
  <2> QED BY <1>5, <2>1, <2>2
<1>10. \A h \in LimitKeys \ overtaken' : WindowKept(h)'
  BY <1>4, <1>5, <1>9 DEF LimiterInv, WindowKept
<1>11. ASSUME k \notin overtaken', NEW a \in admitted'[k]
       PROVE  Cardinality(AdmittedUpTo(k, a.at)') <= a.lim
  <2>0. WindowKept(k) /\ newest[k] \in 0..MaxTime
    BY <1>1, <1>4, <1>11 DEF LimiterInv, LimiterTypeOK
  <2>1. CASE a \in admitted[k]
    <3>1. a.at \in 0..MaxTime /\ a.at <= now
      BY <1>1, <1>4, <1>8, <1>11, <2>0, <2>1 DEF WindowKept
    <3>2. AdmittedUpTo(k, a.at)' = AdmittedUpTo(k, a.at)
      <4>1. ASSUME NEW s \in AdmittedUpTo(k, a.at)' PROVE s \in AdmittedUpTo(k, a.at)
        <5>1. PICK b \in admitted'[k] : b.at = s
          BY <4>1 DEF AdmittedUpTo
        <5>2. a.at - Window < s /\ s <= a.at
          BY <4>1 DEF AdmittedUpTo
        <5>3. CASE b \in admitted[k]
          BY <5>1, <5>2, <5>3 DEF AdmittedUpTo
        <5>4. CASE b = new
          <6>1. s = a.at
            BY <1>1, <1>3, <3>1, <5>1, <5>2, <5>4
          <6> QED BY <2>1, <5>2, <6>1 DEF AdmittedUpTo
        <5> QED BY <1>5, <5>1, <5>3, <5>4
      <4>2. ASSUME NEW s \in AdmittedUpTo(k, a.at) PROVE s \in AdmittedUpTo(k, a.at)'
        <5>1. admitted[k] \subseteq admitted'[k]
          BY <1>1, <1>2 DEF LimiterInv, LimiterTypeOK
        <5> QED BY <4>2, <5>1 DEF AdmittedUpTo
      <4> QED BY <4>1, <4>2
    <3> QED BY <1>1, <1>4, <1>11, <2>1, <3>2 DEF LimiterInv, WithinLimit
  <2>2. CASE a \notin admitted[k]
    <3>1. a = new /\ Cardinality(InWindow(k, now)) < lim
      BY <1>5, <1>11, <2>2
    <3>2. AdmittedUpTo(k, now)' \subseteq InWindow(k, now) \cup {now}
      <4> SUFFICES ASSUME NEW s \in AdmittedUpTo(k, now)', s # now
                   PROVE  s \in InWindow(k, now)
        OBVIOUS
      <4>1. PICK b \in admitted'[k] : b.at = s
        BY DEF AdmittedUpTo
      <4>2. now - Window < s /\ b \in admitted[k] /\ s \in 0..MaxTime
        BY <1>3, <1>5, <1>8, <4>1 DEF AdmittedUpTo
      <4>3. s > newest[k] - Window
        BY <1>1, <1>4, <1>11, <2>0, <4>2, LimiterAssumption
      <4> QED BY <1>1, <2>0, <4>1, <4>2, <4>3, LimiterAssumption DEF WindowKept, InWindow
    <3>3. Cardinality(AdmittedUpTo(k, now)') <= lim
      BY <1>1, <3>1, <3>2, OneMoreFits DEF LimiterInv
    <3> QED BY <1>3, <3>1, <3>3
  <2> QED BY <2>1, <2>2
<1>12. WithinLimit'
  BY <1>4, <1>5, <1>11 DEF LimiterInv, WithinLimit, AdmittedUpTo
<1> QED BY <1>6, <1>7, <1>10, <1>12 DEF LimiterInv

LEMMA FailOpenStep ==
  ASSUME LimiterInv, NEW c \in Slots, NEW landed \in BOOLEAN, FailOpen(c, landed)
  PROVE  LimiterInv'
<1>1. PICK k \in LimitKeys, now \in 0..MaxTime :
        landed => /\ zset' = [zset EXCEPT ![k] = InWindow(k, now) \cup {now}]
                  /\ newest' = [newest EXCEPT ![k] = Later(@, now)]
                  /\ overtaken' = IF now < newest[k] THEN overtaken \cup {k} ELSE overtaken
  <2>1. call[c].key \in LimitKeys /\ call[c].at \in 0..MaxTime
    BY DEF LimiterInv, FailOpen, SentCall
  <2> QED BY <2>1 DEF FailOpen
<1>2. /\ call' = [call EXCEPT ![c] = NoCall] /\ clock' = clock /\ admitted' = admitted
      /\ ~ landed => UNCHANGED <<zset, newest, overtaken>>
  BY DEF FailOpen
<1>3. /\ call' \in [Slots -> [key : LimitKeys \cup {"default"}, at : 0..MaxTime, lim : Nat]]
      /\ \A d \in Slots : call'[d] # NoCall => call'[d] \in SentCall
  <2>1. NoCall \in [key : LimitKeys \cup {"default"}, at : 0..MaxTime, lim : Nat]
    BY LimiterAssumption DEF NoCall
  <2> QED BY <1>2, <2>1 DEF LimiterInv, LimiterTypeOK
<1>4. CASE ~ landed
  BY <1>2, <1>3, <1>4 DEF LimiterInv, LimiterTypeOK, WindowKept, WithinLimit, AdmittedUpTo
<1>5. CASE landed
  <2>1. /\ zset' \in [LimitKeys -> SUBSET (0..MaxTime)]
        /\ newest' \in [LimitKeys -> 0..MaxTime]
        /\ overtaken' \subseteq LimitKeys /\ overtaken \subseteq overtaken'
        /\ k \notin overtaken' => /\ newest'[k] = now /\ newest[k] <= now
                                  /\ zset'[k] = InWindow(k, now) \cup {now}
        /\ \A h \in LimitKeys \ {k} : zset'[h] = zset[h] /\ newest'[h] = newest[h]
    BY <1>1, <1>2, <1>5, WindowMoves
  <2>2. k \notin overtaken' => WindowKept(k)'
    <3> SUFFICES ASSUME k \notin overtaken', NEW a \in admitted[k]
                 PROVE  a.at <= now /\ (a.at > now - Window => a.at \in zset'[k])
      BY <1>2, <2>1 DEF WindowKept
    <3>1. WindowKept(k) /\ newest[k] \in 0..MaxTime /\ a.at \in 0..MaxTime
      BY <1>1, <2>1 DEF LimiterInv, LimiterTypeOK
    <3> QED BY <1>1, <2>1, <3>1, LimiterAssumption DEF WindowKept, InWindow
  <2>3. \A h \in LimitKeys \ overtaken' : WindowKept(h)'
    BY <1>2, <2>1, <2>2 DEF LimiterInv, WindowKept
  <2>4. WithinLimit'
    BY <1>2, <2>1 DEF LimiterInv, WithinLimit, AdmittedUpTo
  <2> QED BY <1>2, <1>3, <2>1, <2>3, <2>4 DEF LimiterInv, LimiterTypeOK
<1> QED BY <1>4, <1>5

LEMMA LimiterStep == LimiterInv /\ [LimiterNext]_limiterVars => LimiterInv'
<1> SUFFICES ASSUME LimiterInv, [LimiterNext]_limiterVars PROVE LimiterInv'
  OBVIOUS
<1>1. ASSUME NEW c \in Slots, NEW k \in LimitKeys, NEW trust, Send(c, k, trust)
      PROVE  LimiterInv'
  <2> DEFINE new == [key |-> k, at |-> clock,
                     lim |-> AdjustForTrustScore(GetEndpointConfig(k), trust)]
  <2>1. new \in SentCall
    BY LimitIsNat DEF SentCall, LimiterInv, LimiterTypeOK
  <2>2. call' = [call EXCEPT ![c] = new] /\ UNCHANGED <<clock, zset, admitted, newest, overtaken>>
    BY <1>1 DEF Send
  <2> HIDE DEF new
  <2>3. new \in [key : LimitKeys \cup {"default"}, at : 0..MaxTime, lim : Nat]
    BY <2>1 DEF SentCall
  <2> QED BY <2>1, <2>2, <2>3
          DEF LimiterInv, LimiterTypeOK, WindowKept, WithinLimit, AdmittedUpTo
<1>2. ASSUME NEW k \in LimitKeys, ResetRateLimit(k) PROVE LimiterInv'
  <2>1. /\ zset' = [zset EXCEPT ![k] = {}] /\ admitted' = [admitted EXCEPT ![k] = {}]
        /\ UNCHANGED <<clock, call, newest, overtaken>>
    BY <1>2 DEF ResetRateLimit
  <2>2. LimiterTypeOK'
    BY <2>1 DEF LimiterInv, LimiterTypeOK
  <2>3. /\ admitted'[k] = {}
        /\ \A h \in LimitKeys \ {k} : admitted'[h] = admitted[h] /\ zset'[h] = zset[h]
    BY <2>1 DEF LimiterInv, LimiterTypeOK
  <2> QED BY <2>1, <2>2, <2>3 DEF LimiterInv, WindowKept, WithinLimit, AdmittedUpTo
<1>3. CASE LimiterTick
  BY <1>3, LimiterAssumption
     DEF LimiterTick, LimiterInv, LimiterTypeOK, WindowKept, WithinLimit, AdmittedUpTo
<1>4. CASE UNCHANGED limiterVars
  BY <1>4 DEF limiterVars, LimiterInv, LimiterTypeOK, WindowKept, WithinLimit, AdmittedUpTo
<1> QED BY <1>1, <1>2, <1>3, <1>4, ExecStep, FailOpenStep DEF LimiterNext

\* For any limits and any window: while its calls reach Redis in the order of
\* their times, no key is admitted more often in a window than its limit allows
\* (checkRateLimit).
THEOREM LimitsHold == LimiterSpec => []WithinLimit
<1>1. LimiterInit => LimiterInv
  <2> SUFFICES ASSUME LimiterInit PROVE LimiterInv
    OBVIOUS
  <2>1. NoCall \in [key : LimitKeys \cup {"default"}, at : 0..MaxTime, lim : Nat]
    BY LimiterAssumption DEF NoCall
  <2>2. LimiterTypeOK
    BY <2>1, LimiterAssumption DEF LimiterInit, LimiterTypeOK
  <2> QED BY <2>2 DEF LimiterInit, LimiterInv, WindowKept, WithinLimit
<1>2. LimiterInv => WithinLimit
  BY DEF LimiterInv
<1> QED BY <1>1, <1>2, LimiterStep, PTL DEF LimiterSpec
=============================================================================
