--------------------------------- MODULE OAuth ---------------------------------
(***************************************************************************)
(* OAuthService (oauth.service.ts): pending states in memory, and the      *)
(* callback, which exchanges the code, looks the user up by e-mail, else   *)
(* creates one, looks the account up, else creates one.  Each lookup and   *)
(* each insert is an await, so callbacks interleave between them.  The     *)
(* users table has a unique e-mail, deleted users included; oauth_accounts *)
(* has no unique key.  The controller's pkceStorage only fills a field     *)
(* that handleCallback does not read, and is left out.                     *)
(***************************************************************************)
EXTENDS Naturals, FiniteSets

CONSTANTS
    Callbacks,          \* callbacks in flight
    States, Profiles, Emails,
    UserIds, AccountIds,
    Nil                 \* no user, no e-mail, no profile

ASSUME OAuthAssumption == Nil \notin UserIds \cup Emails \cup Profiles

VARIABLES
    pendingStates,      \* "pending", "expired" or "gone"
    emailOf,            \* the e-mail the provider has for a profile, Nil before
                        \* the profile exists
    users,              \* [email, deleted] of each row, email Nil if none
    accounts,           \* [user, profile], user Nil if none
    cb,                 \* the callbacks
    moved,              \* history: profiles whose e-mail has changed
    together            \* history: profiles with two callbacks at once

oauthVars == <<pendingStates, emailOf, users, accounts, cb, moved, together>>

CbIdle == [pc |-> "idle", profile |-> Nil,
           email |-> Nil, user |-> Nil, owner |-> Nil]

OAuthTypeOK ==
    /\ pendingStates \in [States -> {"pending", "expired", "gone"}]
    /\ emailOf \in [Profiles -> Emails \cup {Nil}]
    /\ users \in [UserIds -> [email : Emails \cup {Nil}, deleted : BOOLEAN]]
    /\ accounts \in [AccountIds -> [user : UserIds \cup {Nil}, profile : Profiles \cup {Nil}]]
    /\ cb \in [Callbacks ->
         [pc : {"idle", "exchange", "findUser", "createUser", "findAccount",
                "createAccount", "answered"},
          profile : Profiles \cup {Nil}, email : Emails \cup {Nil},
          user : UserIds \cup {Nil}, owner : UserIds \cup {Nil}]]
    /\ moved \subseteq Profiles
    /\ together \subseteq Profiles

OAuthInit ==
    /\ pendingStates = [s \in States |-> "gone"]
    /\ emailOf = [f \in Profiles |-> Nil]
    /\ users = [u \in UserIds |-> [email |-> Nil, deleted |-> FALSE]]
    /\ accounts = [a \in AccountIds |-> [user |-> Nil, profile |-> Nil]]
    /\ cb = [c \in Callbacks |-> CbIdle]
    /\ moved = {}
    /\ together = {}

Linked(a) == accounts[a].user # Nil
AccountsOf(f) == {a \in AccountIds : Linked(a) /\ accounts[a].profile = f}
UsersWith(e) == {u \in UserIds : users[u].email = e}

\* The state is random: a name that is gone serves again.
GenerateAuthorizationUrl(s) ==
    /\ pendingStates[s] = "gone"
    /\ pendingStates' = [pendingStates EXCEPT ![s] = "pending"]
    /\ UNCHANGED <<emailOf, users, accounts, cb, moved, together>>

\* Ten minutes pass.
StateExpires(s) ==
    /\ pendingStates[s] = "pending"
    /\ pendingStates' = [pendingStates EXCEPT ![s] = "expired"]
    /\ UNCHANGED <<emailOf, users, accounts, cb, moved, together>>

\* A state that is still pending stays so: nothing deletes it after use.
HandleCallback(c, s, f) ==
    /\ cb[c].pc = "idle"
    /\ pendingStates[s] = "pending"
    /\ emailOf[f] # Nil
    /\ cb' = [cb EXCEPT ![c] = [CbIdle EXCEPT !.pc = "exchange", !.profile = f]]
    /\ together' = IF \E d \in Callbacks : cb[d].pc # "idle" /\ cb[d].profile = f
                   THEN together \cup {f} ELSE together
    /\ UNCHANGED <<pendingStates, emailOf, users, accounts, moved>>

RejectExpiredState(s) ==
    /\ pendingStates[s] = "expired"
    /\ pendingStates' = [pendingStates EXCEPT ![s] = "gone"]
    /\ UNCHANGED <<emailOf, users, accounts, cb, moved, together>>

\* exchangeCodeForTokens and fetchUserProfile
Exchange(c) ==
    /\ cb[c].pc = "exchange"
    /\ cb' = [cb EXCEPT ![c].pc = "findUser", ![c].email = emailOf[cb[c].profile]]
    /\ UNCHANGED <<pendingStates, emailOf, users, accounts, moved, together>>

\* findByEmail, which does not see deleted users
FindByEmail(c) ==
    LET found == {u \in UsersWith(cb[c].email) : ~ users[u].deleted} IN
    /\ cb[c].pc = "findUser"
    /\ \/ \E u \in found : cb' = [cb EXCEPT ![c].pc = "findAccount", ![c].user = u]
       \/ found = {} /\ cb' = [cb EXCEPT ![c].pc = "createUser"]
    /\ UNCHANGED <<pendingStates, emailOf, users, accounts, moved, together>>

\* Slip: only the e-mails of users who are not deleted are unique.
CreateUserFromOAuthProfile_LiveUnique(c) ==
    LET e == cb[c].email IN
    /\ cb[c].pc = "createUser"
    /\ \A u \in UsersWith(e) : users[u].deleted
    /\ \E u \in UserIds :
         /\ users[u].email = Nil
         /\ users' = [users EXCEPT ![u].email = e]
         /\ cb' = [cb EXCEPT ![c].pc = "findAccount", ![c].user = u]
    /\ UNCHANGED <<pendingStates, emailOf, accounts, moved, together>>

\* createUserFromOAuthProfile; the unique e-mail makes the loser of a race,
\* and everybody whose account was deleted, fail with a ConflictError.
CreateUserFromOAuthProfile(c) ==
    LET e == cb[c].email IN
    /\ cb[c].pc = "createUser"
    /\ \/ /\ UsersWith(e) = {}
          /\ \E u \in UserIds :
               /\ users[u].email = Nil
               /\ users' = [users EXCEPT ![u].email = e]
               /\ cb' = [cb EXCEPT ![c].pc = "findAccount", ![c].user = u]
       \/ /\ UsersWith(e) # {}
          /\ cb' = [cb EXCEPT ![c] = CbIdle]
          /\ UNCHANGED users
    /\ UNCHANGED <<pendingStates, emailOf, accounts, moved, together>>

\* Slip: linkAccount creates without looking for an account.
FindAccount_Blind(c) ==
    /\ cb[c].pc = "findAccount"
    /\ cb' = [cb EXCEPT ![c].pc = "createAccount"]
    /\ UNCHANGED <<pendingStates, emailOf, users, accounts, moved, together>>

\* linkAccount: findByProviderAndAccountId; whose account it is is not asked.
FindAccount(c) ==
    LET found == AccountsOf(cb[c].profile) IN
    /\ cb[c].pc = "findAccount"
    /\ \/ \E a \in found :
            cb' = [cb EXCEPT ![c].pc = "answered", ![c].owner = accounts[a].user]
       \/ found = {} /\ cb' = [cb EXCEPT ![c].pc = "createAccount"]
    /\ UNCHANGED <<pendingStates, emailOf, users, accounts, moved, together>>

CreateAccount(c) ==
    /\ cb[c].pc = "createAccount"
    /\ \E a \in AccountIds :
         /\ ~ Linked(a)
         /\ accounts' = [accounts EXCEPT ![a] =
                           [user |-> cb[c].user, profile |-> cb[c].profile]]
    /\ cb' = [cb EXCEPT ![c].pc = "answered", ![c].owner = cb[c].user]
    /\ UNCHANGED <<pendingStates, emailOf, users, moved, together>>

\* The answer leaves, or an await before it fails: what was created stays.
EndCallback(c) ==
    /\ cb[c].pc # "idle"
    /\ cb' = [cb EXCEPT ![c] = CbIdle]
    /\ UNCHANGED <<pendingStates, emailOf, users, accounts, moved, together>>

\* unlinkAccount; an owner never changes, so its two queries are one action.
UnlinkAccount(u, a) ==
    /\ Linked(a)
    /\ accounts[a].user = u
    /\ accounts' = [accounts EXCEPT ![a] = [user |-> Nil, profile |-> Nil]]
    /\ UNCHANGED <<pendingStates, emailOf, users, cb, moved, together>>

\* AuthenticationService deletes an account softly.
DeleteUser(u) ==
    /\ users[u].email # Nil /\ ~ users[u].deleted
    /\ users' = [users EXCEPT ![u].deleted = TRUE]
    /\ UNCHANGED <<pendingStates, emailOf, accounts, cb, moved, together>>

\* Somebody signs up with the provider, or changes the e-mail there.
SetEmail(f, e) ==
    /\ emailOf[f] # e
    /\ emailOf' = [emailOf EXCEPT ![f] = e]
    /\ moved' = IF emailOf[f] = Nil THEN moved ELSE moved \cup {f}
    /\ UNCHANGED <<pendingStates, users, accounts, cb, together>>

OAuthNext ==
    \/ \E s \in States :
         GenerateAuthorizationUrl(s) \/ StateExpires(s) \/ RejectExpiredState(s)
    \/ \E c \in Callbacks :
         \/ \E s \in States, f \in Profiles : HandleCallback(c, s, f)
         \/ Exchange(c) \/ FindByEmail(c) \/ CreateUserFromOAuthProfile(c)
         \/ FindAccount(c) \/ CreateAccount(c) \/ EndCallback(c)
    \/ \E u \in UserIds : DeleteUser(u) \/ \E a \in AccountIds : UnlinkAccount(u, a)
    \/ \E f \in Profiles, e \in Emails : SetEmail(f, e)

OAuthSpec == OAuthInit /\ [][OAuthNext]_oauthVars

-----------------------------------------------------------------------------
(* Properties                                                              *)

\* The account of an answer belongs to the user of the answer, unless the
\* profile has changed its e-mail, and with it the user it stands for.
AnswerIsOnePerson ==
    \A c \in Callbacks :
        cb[c].pc = "answered" /\ cb[c].user # cb[c].owner => cb[c].profile \in moved

\* Two accounts of one profile come only from callbacks that overlapped.
DuplicatesNeedOverlap ==
    \A f \in Profiles \ together : Cardinality(AccountsOf(f)) <= 1

\* One e-mail never has two users, however callbacks race, and an account
\* always belongs to a user who was created.
UsersAreReal ==
    /\ \A u, v \in UserIds : users[u].email # Nil /\ users[u].email = users[v].email => u = v
    /\ \A a \in AccountIds : Linked(a) => users[accounts[a].user].email # Nil

\* A callback answers with a user who exists and a link that is theirs.
AnswersAreSound == AnswerIsOnePerson /\ UsersAreReal
=============================================================================
