---------------------------------- MODULE Mfa ----------------------------------
(***************************************************************************)
(* MFAService (mfa.service.ts) for one user: challenges in Redis, the MFA  *)
(* columns of the users row, and requests that read the row, verify a code *)
(* against their copy and write the whole row back.                        *)
(*                                                                         *)
(* StoresMfa = TRUE is what IUserRepository promises.  FALSE is the        *)
(* UserRepository of this commit, which neither writes nor reads the       *)
(* columns: mapToEntity answers mfaEnabled = false for everybody.          *)
(*                                                                         *)
(* The expiresAt inside a challenge comes back from JSON as a string, with *)
(* which no Date compares as greater, so the TTL of the key is what ends a *)
(* challenge.                                                              *)
(***************************************************************************)
EXTENDS Naturals, FiniteSets

CONSTANTS
    MfaRequests,
    Challenges,
    BackupCodes,        \* all codes that can be generated
    CodesPerSetup,      \* BACKUP_CODE_COUNT
    NoChallenge,
    StoresMfa

ASSUME MfaAssumption ==
    /\ CodesPerSetup \in Nat
    /\ StoresMfa \in BOOLEAN
    /\ NoChallenge \notin Challenges
    /\ {"totp", "wrong"} \cap BackupCodes = {}

VARIABLES
    row,        \* [enabled, codes] of the users row
    challenge,  \* "closed" or "open"
    mreq,       \* the requests
    drawn,      \* codes generated so far
    won,        \* history: challenges with a completed login
    spent,      \* history: codes whose use was written
    mfaLost,    \* history: a request wrote a copy that had been overtaken
    verified    \* history: a setup was answered and no disable since

mfaVars == <<row, challenge, mreq, drawn, won, spent, mfaLost, verified>>

Rows == [enabled : BOOLEAN, codes : SUBSET BackupCodes]
NoRow == [enabled |-> FALSE, codes |-> {}]
Points == {"idle", "challenge", "find", "useCode", "delete", "session", "update"}
MfaOps == {"login", "enable", "disable"}
MfaIdle == [pc |-> "idle", op |-> "login", ch |-> NoChallenge,
            code |-> "wrong", image |-> NoRow, late |-> FALSE, stale |-> FALSE]

MfaTypeOK ==
    /\ row \in Rows
    /\ challenge \in [Challenges -> {"closed", "open"}]
    /\ mreq \in [MfaRequests ->
         [pc : Points, op : MfaOps, ch : Challenges \cup {NoChallenge},
          code : BackupCodes \cup {"totp", "wrong"}, image : Rows,
          late : BOOLEAN,       \* the challenge had been won when it began
          stale : BOOLEAN]]     \* the row was written since it was read
    /\ drawn \subseteq BackupCodes
    /\ won \subseteq Challenges
    /\ spent \subseteq BackupCodes
    /\ mfaLost \in BOOLEAN
    /\ verified \in BOOLEAN

MfaInit ==
    /\ row = NoRow
    /\ challenge = [c \in Challenges |-> "closed"]
    /\ mreq = [p \in MfaRequests |-> MfaIdle]
    /\ drawn = {} /\ won = {} /\ spent = {}
    /\ mfaLost = FALSE /\ verified = FALSE

\* What findById makes of the row.
Fetched == IF StoresMfa THEN row ELSE NoRow

EndOf(p) == [mreq EXCEPT ![p] = MfaIdle]
At(p, pc) == [mreq EXCEPT ![p].pc = pc]

\* userRepository.update(user): every other request that holds a copy of the
\* row is overtaken.
WriteRow(p, pc) ==
    /\ row' = IF StoresMfa THEN mreq[p].image ELSE row
    /\ mreq' = [q \in MfaRequests |->
                  IF q = p THEN (IF pc = "idle" THEN MfaIdle ELSE [mreq[p] EXCEPT !.pc = pc])
                  ELSE [mreq[q] EXCEPT !.stale = @ \/ mreq[q].pc \in {"useCode", "delete", "session", "update"}]]
    /\ mfaLost' = (mfaLost \/ mreq[p].stale)

-----------------------------------------------------------------------------

\* A fresh id: the name of a challenge that is over and that no request
\* bears serves again.
CreateMFAChallenge(c) ==
    /\ challenge[c] = "closed"
    /\ \A p \in MfaRequests : mreq[p].ch # c
    /\ challenge' = [challenge EXCEPT ![c] = "open"]
    /\ won' = won \ {c}
    /\ UNCHANGED <<row, mreq, drawn, spent, mfaLost, verified>>

\* MFA_CHALLENGE_TTL
ChallengeExpires(c) ==
    /\ challenge[c] = "open"
    /\ challenge' = [challenge EXCEPT ![c] = "closed"]
    /\ UNCHANGED <<row, mreq, drawn, won, spent, mfaLost, verified>>

BeginMfa(p, op, c, code) ==
    /\ mreq[p].pc = "idle"
    /\ op = "enable" => code = "totp"
    /\ mreq' = [mreq EXCEPT ![p] =
         [MfaIdle EXCEPT !.pc = IF op = "login" THEN "challenge" ELSE "find",
                         !.op = op, !.code = code,
                         !.ch = IF op = "login" THEN c ELSE NoChallenge,
                         !.late = op = "login" /\ c \in won]]
    /\ UNCHANGED <<row, challenge, drawn, won, spent, mfaLost, verified>>

\* getMFAChallenge in validateMFAChallengeAndGetUser
GetMFAChallenge(p) ==
    /\ mreq[p].pc = "challenge"
    /\ mreq' = IF challenge[mreq[p].ch] = "open" THEN At(p, "find") ELSE EndOf(p)
    /\ UNCHANGED <<row, challenge, drawn, won, spent, mfaLost, verified>>

\* findById, then verifyMFACode on the entity: TOTP, else a backup code.
FindForLogin(p) ==
    LET u == Fetched  code == mreq[p].code IN
    /\ mreq[p].pc = "find" /\ mreq[p].op = "login"
    /\ mreq' = CASE ~ u.enabled -> EndOf(p)
                 [] u.enabled /\ code = "totp" ->
                      [mreq EXCEPT ![p].pc = "delete", ![p].image = u]
                 [] u.enabled /\ code \in u.codes ->
                      [mreq EXCEPT ![p].pc = "useCode",
                                   ![p].image = [u EXCEPT !.codes = @ \ {code}]]
                 [] OTHER -> EndOf(p)
    /\ UNCHANGED <<row, challenge, drawn, won, spent, mfaLost, verified>>

\* verifyMFASetup: the codes stored are fresh, not those setupTOTP showed.
FindForEnable(p) ==
    /\ mreq[p].pc = "find" /\ mreq[p].op = "enable"
    /\ \E new \in SUBSET (BackupCodes \ drawn) :
         /\ Cardinality(new) = CodesPerSetup
         /\ drawn' = drawn \cup new
         /\ mreq' = [mreq EXCEPT ![p].pc = "update",
                                 ![p].image = [enabled |-> TRUE, codes |-> new]]
    /\ UNCHANGED <<row, challenge, won, spent, mfaLost, verified>>

\* disableMFA; the controller passes the present as lastAuthTime, so the
\* recency check never fails.
FindForDisable(p) ==
    LET u == Fetched  code == mreq[p].code IN
    /\ mreq[p].pc = "find" /\ mreq[p].op = "disable"
    /\ mreq' = IF u.enabled /\ (code = "totp" \/ code \in u.codes)
               THEN [mreq EXCEPT ![p].pc = "update", ![p].image = NoRow]
               ELSE EndOf(p)
    /\ UNCHANGED <<row, challenge, drawn, won, spent, mfaLost, verified>>

\* Slip: the code is marked in the entity only, and the row is left to the
\* update at the end, which an error may skip.
UseBackupCode_Deferred(p) ==
    /\ mreq[p].pc = "useCode"
    /\ mreq' = At(p, "delete")
    /\ spent' = spent \cup {mreq[p].code}
    /\ UNCHANGED <<row, challenge, drawn, won, mfaLost, verified>>

\* The first write, which marks the backup code as used.
UseBackupCode(p) ==
    /\ mreq[p].pc = "useCode"
    /\ WriteRow(p, "delete")
    /\ spent' = spent \cup {mreq[p].code}
    /\ UNCHANGED <<challenge, drawn, won, verified>>

\* Slip: the challenge is left to its TTL.
DeleteMFAChallenge_Kept(p) ==
    /\ mreq[p].pc = "delete"
    /\ mreq' = At(p, "session")
    /\ UNCHANGED <<row, challenge, drawn, won, spent, mfaLost, verified>>

DeleteMFAChallenge(p) ==
    /\ mreq[p].pc = "delete"
    /\ challenge' = [challenge EXCEPT ![mreq[p].ch] = "closed"]
    /\ mreq' = At(p, "session")
    /\ UNCHANGED <<row, drawn, won, spent, mfaLost, verified>>

CreateMfaSession(p) ==
    /\ mreq[p].pc = "session"
    /\ won' = won \cup {mreq[p].ch}
    /\ mreq' = At(p, "update")
    /\ UNCHANGED <<row, challenge, drawn, spent, mfaLost, verified>>

\* The last write: updateLastLogin, enableMFA or disableMFA.
UpdateUser(p) ==
    /\ mreq[p].pc = "update"
    /\ WriteRow(p, "idle")
    /\ verified' = CASE mreq[p].op = "enable" -> TRUE
                     [] mreq[p].op = "disable" -> FALSE
                     [] OTHER -> verified
    /\ UNCHANGED <<challenge, drawn, won, spent>>

\* A Redis or Postgres error, or a crash.
MfaAbort(p) ==
    /\ mreq[p].pc # "idle"
    /\ mreq' = EndOf(p)
    /\ UNCHANGED <<row, challenge, drawn, won, spent, mfaLost, verified>>

MfaNext ==
    \/ \E c \in Challenges : CreateMFAChallenge(c) \/ ChallengeExpires(c)
    \/ \E p \in MfaRequests :
         \/ \E op \in MfaOps, c \in Challenges, code \in BackupCodes \cup {"totp", "wrong"} :
              BeginMfa(p, op, c, code)
         \/ GetMFAChallenge(p)
         \/ FindForLogin(p) \/ FindForEnable(p) \/ FindForDisable(p)
         \/ UseBackupCode(p) \/ DeleteMFAChallenge(p) \/ CreateMfaSession(p)
         \/ UpdateUser(p) \/ MfaAbort(p)

MfaSpec == MfaInit /\ [][MfaNext]_mfaVars

-----------------------------------------------------------------------------
(* Properties                                                              *)

\* A challenge that completed a login is of no use to a request that begins
\* afterwards.  (Requests that overlap may each complete one with it.)
ChallengeOnce ==
    \A p \in MfaRequests :
        mreq[p].late => mreq[p].pc \notin {"delete", "session", "update"}

\* A backup code whose use was written comes back only with the write of a
\* copy of the row that another write had overtaken.
SpentCodesGone == ~ mfaLost => spent \cap row.codes = {}

\* The last write of a login that nothing overtook leaves the MFA columns as
\* they are: with the backup code that it used already gone.
LoginLeavesColumns ==
    \A p \in MfaRequests :
        mreq[p].pc = "update" /\ mreq[p].op = "login" /\ ~ mreq[p].stale /\ row' # row
            => mreq'[p].pc = "update"
LoginKeepsColumns == [][LoginLeavesColumns]_mfaVars

\* A verified setup activates MFA for the account, and no login in flight that
\* writes an older copy of the row takes that back.
VerifiedMeansEnabled == verified => Fetched.enabled

\* With a repository that stores the MFA columns, what an MFA operation wrote
\* is taken back by no login, except one whose copy of the row was overtaken.
MfaWritesStay ==
    [][SpentCodesGone' /\ VerifiedMeansEnabled' /\ LoginLeavesColumns]_mfaVars
=============================================================================
