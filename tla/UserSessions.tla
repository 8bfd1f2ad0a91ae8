----------------------------- MODULE UserSessions -----------------------------
(***************************************************************************)
(* Users and login sessions of internal/auth/auth.go (DefaultUserAuth).    *)
(* CreateUser, UpdateUser and DeleteUser hold the lock throughout, but     *)
(* Authenticate and CreateSession release it after the lookup: the user    *)
(* they go on with is read field by field while UpdateUser writes it, and  *)
(* may have been deleted or replaced.                                      *)
(*                                                                         *)
(* A hash is the pair of password and salt: salts have a fixed length, so  *)
(* what is hashed determines both. Salt and hash strings keep their        *)
(* lengths when they are rewritten, so a torn read of one yields the old   *)
(* or the new string.                                                      *)
(***************************************************************************)
EXTENDS Naturals, Sequences, FiniteSets

CONSTANTS
    SystemIDs,    \* those of users that CreateUser adds; the default users have others
    Passwords,
    Logins,       \* goroutines that authenticate and create sessions
    MaxAccounts,  \* bound: users created
    MaxSalts,     \* bound: salts generated
    MaxSessions   \* bound: sessions that exist at a time

ASSUME SessionsAssumption == MaxAccounts \in Nat /\ MaxSalts \in Nat /\ MaxSessions \in Nat

VARIABLES
    users,     \* DefaultUserAuth.users: the number of the account, 0 if none
    accounts,  \* the *smpp.User objects created: Active, Salt, PasswordHash
    admin,     \* UpdateUser, which holds the lock: its next assignment, account and arguments
    login,     \* each goroutine in Authenticate or CreateSession, see LoggedOut
    sessions,  \* DefaultUserAuth.sessions
    salts      \* salts generated so far

authVars == <<users, accounts, admin, login, sessions, salts>>

\* answer: what Authenticate returns; valid: history, whether the user was active with that
\* password at the lookup; overlap: history, an UpdateUser of the account ran meanwhile.
LoggedOut == [at |-> "out", id |-> {}, account |-> 0, pw |-> {}, salt |-> 0,
              valid |-> FALSE, overlap |-> FALSE]
NoUpdate == [at |-> "none", account |-> 0, pw |-> {}]
Unlocked == admin = NoUpdate

AuthInit ==
    /\ users = [i \in SystemIDs |-> 0]
    /\ accounts = <<>>
    /\ admin = NoUpdate
    /\ login = [l \in Logins |-> LoggedOut]
    /\ sessions = {}
    /\ salts = 0

-----------------------------------------------------------------------------
(* Administration *)

\* CreateUser refuses a system ID that is taken; the password gets a fresh salt.
CreateUser(i, active, pw) ==
    /\ Unlocked /\ users[i] = 0
    /\ Len(accounts) < MaxAccounts /\ salts < MaxSalts
    /\ salts' = salts + 1
    /\ accounts' = Append(accounts, [active |-> active, salt |-> salts', hash |-> <<pw, salts'>>])
    /\ users' = [users EXCEPT ![i] = Len(accounts')]
    /\ UNCHANGED <<admin, login, sessions>>

\* Goroutines that are reading account a.
Reading(a) == {l \in Logins : login[l].account = a /\ login[l].at \in {"active", "salt", "hash"}}

\* UpdateUser takes the lock and sets Active; a password, if given, comes after.
UpdateUser(i, active, pw) ==
    /\ Unlocked /\ users[i] # 0 /\ (pw = {} \/ salts < MaxSalts)
    /\ accounts' = [accounts EXCEPT ![users[i]].active = active]
    /\ admin' = IF pw = {} THEN NoUpdate ELSE [at |-> "salt", account |-> users[i], pw |-> pw]
    /\ login' = [l \in Logins |-> IF l \in Reading(users[i]) THEN [login[l] EXCEPT !.overlap = TRUE]
                                  ELSE login[l]]
    /\ UNCHANGED <<users, sessions, salts>>

\* existing.Salt is set.
UpdateSalt ==
    /\ admin.at = "salt"
    /\ salts' = salts + 1
    /\ accounts' = [accounts EXCEPT ![admin.account].salt = salts']
    /\ admin' = [admin EXCEPT !.at = "hash"]
    /\ UNCHANGED <<users, login, sessions>>

\* existing.PasswordHash is set, and the lock is released.
UpdateHash ==
    /\ admin.at = "hash"
    /\ \E pw \in admin.pw :
         accounts' = [accounts EXCEPT ![admin.account].hash = <<pw, accounts[admin.account].salt>>]
    /\ admin' = NoUpdate
    /\ UNCHANGED <<users, login, sessions, salts>>

\* Fault (for SessionsOfUsers): the sessions are left to expire.
DeleteUserOnly(i) ==
    /\ Unlocked /\ users[i] # 0
    /\ users' = [users EXCEPT ![i] = 0]
    /\ UNCHANGED <<accounts, admin, login, sessions, salts>>

\* DeleteUser removes the user and all its sessions.
DeleteUser(i) ==
    /\ Unlocked /\ users[i] # 0
    /\ users' = [users EXCEPT ![i] = 0]
    /\ sessions' = {s \in sessions : s.id # i}
    /\ UNCHANGED <<accounts, admin, login, salts>>

-----------------------------------------------------------------------------
(* Authenticate *)

\* The user is looked up under the read lock; an unknown one is refused at once.
AuthLookup(l, i, pw) ==
    /\ login[l].at = "out" /\ Unlocked /\ users[i] # 0
    /\ LET a == accounts[users[i]] IN
       login' = [login EXCEPT ![l] =
                   [at |-> "active", id |-> {i}, account |-> users[i], pw |-> {pw}, salt |-> 0,
                    valid |-> a.active /\ a.hash[1] = pw, overlap |-> FALSE]]
    /\ UNCHANGED <<users, accounts, admin, sessions, salts>>

Account(l) == accounts[login[l].account]

\* Fault (for AnswerAsOfLookup): Active is not looked at.
CheckActiveNot(l) ==
    /\ login[l].at = "active"
    /\ login' = [login EXCEPT ![l].at = "salt"]
    /\ UNCHANGED <<users, accounts, admin, sessions, salts>>

\* user.Active is read without the lock.
CheckActive(l) ==
    /\ login[l].at = "active"
    /\ login' = [login EXCEPT ![l].at = IF Account(l).active THEN "salt" ELSE "refused"]
    /\ UNCHANGED <<users, accounts, admin, sessions, salts>>

\* user.Salt is read, and the password hashed with it.
ReadSalt(l) ==
    /\ login[l].at = "salt"
    /\ login' = [login EXCEPT ![l].at = "hash", ![l].salt = Account(l).salt]
    /\ UNCHANGED <<users, accounts, admin, sessions, salts>>

\* user.PasswordHash is read and compared.
CompareHash(l) ==
    /\ login[l].at = "hash"
    /\ \E pw \in login[l].pw :
         login' = [login EXCEPT ![l].at =
                     IF Account(l).hash = <<pw, login[l].salt>> THEN "granted" ELSE "refused"]
    /\ UNCHANGED <<users, accounts, admin, sessions, salts>>

\* Authenticate returns; a granted login first takes the lock for LastLogin and LoginCount.
AuthReturns(l) ==
    /\ login[l].at \in {"granted", "refused"}
    /\ login[l].at = "granted" => Unlocked
    /\ login' = [login EXCEPT ![l] = LoggedOut]
    /\ UNCHANGED <<users, accounts, admin, sessions, salts>>

-----------------------------------------------------------------------------
(* Sessions *)

\* CreateSession looks the user up under the read lock.
SessionLookup(l, i) ==
    /\ login[l].at = "out" /\ Unlocked /\ users[i] # 0
    /\ login' = [login EXCEPT ![l] = [LoggedOut EXCEPT !.at = "session", !.id = {i}, !.account = users[i]]]
    /\ UNCHANGED <<users, accounts, admin, sessions, salts>>

\* CreateSession adds the session under the lock, whatever became of the user meanwhile;
\* raced tells, as history, that it is not that user any more.
AddSession(l) ==
    /\ login[l].at = "session" /\ Unlocked /\ Cardinality(sessions) < MaxSessions
    /\ \E i \in login[l].id, n \in 1..MaxSessions :
         /\ \A s \in sessions : s.n # n
         /\ sessions' = sessions \cup {[n |-> n, id |-> i, account |-> login[l].account,
                                        raced |-> users[i] # login[l].account]}
    /\ login' = [login EXCEPT ![l] = LoggedOut]
    /\ UNCHANGED <<users, accounts, admin, salts>>

\* DeleteSession, or CleanupExpiredSessions for one that was not used for long.
RemoveSession(s) ==
    /\ Unlocked
    /\ sessions' = sessions \ {s}
    /\ UNCHANGED <<users, accounts, admin, login, salts>>

-----------------------------------------------------------------------------
AuthNext ==
    \/ \E i \in SystemIDs, active \in BOOLEAN :
         \/ \E pw \in Passwords : CreateUser(i, active, pw) \/ UpdateUser(i, active, {pw})
         \/ UpdateUser(i, active, {})
    \/ UpdateSalt \/ UpdateHash
    \/ \E i \in SystemIDs : DeleteUser(i)
    \/ \E l \in Logins :
         \/ \E i \in SystemIDs, pw \in Passwords : AuthLookup(l, i, pw)
         \/ CheckActive(l) \/ ReadSalt(l) \/ CompareHash(l) \/ AuthReturns(l)
         \/ \E i \in SystemIDs : SessionLookup(l, i)
         \/ AddSession(l)
    \/ \E s \in sessions : RemoveSession(s)

AuthSpec == AuthInit /\ [][AuthNext]_authVars

-----------------------------------------------------------------------------
(* Properties *)

\* Unless an UpdateUser of the same user ran meanwhile, Authenticate answers as of its lookup: it
\* grants exactly the active user with that password, although it reads the fields one by one,
\* and although the user may be deleted or replaced before it answers (Authenticate).
AnswerAsOfLookup ==
    \A l \in Logins : (login[l].at \in {"granted", "refused"} /\ ~login[l].overlap) =>
        (login[l].at = "granted" <=> login[l].valid)

\* A session belongs to the user that has its system ID now, unless DeleteUser came between the
\* lookup and the insertion of CreateSession; no session outlives its user otherwise (DeleteUser).
SessionsOfUsers == \A s \in sessions : ~s.raced => users[s.id] = s.account

-----------------------------------------------------------------------------
(* The inductive invariant behind the two properties *)

Accounts == [active : BOOLEAN, salt : Nat, hash : Passwords \X Nat]
LoginPlaces == {"out", "active", "salt", "hash", "granted", "refused", "session"}

AuthTypeOK ==
    /\ accounts \in Seq(Accounts)
    /\ users \in [SystemIDs -> 0..Len(accounts)]
    /\ admin \in [at : {"none", "salt", "hash"}, account : 0..Len(accounts), pw : SUBSET Passwords]
    /\ login \in [Logins -> [at : LoginPlaces, id : SUBSET SystemIDs, account : 0..Len(accounts),
                             pw : SUBSET Passwords, salt : Nat, valid : BOOLEAN, overlap : BOOLEAN]]
    /\ sessions \subseteq [n : Nat, id : SystemIDs, account : Nat, raced : BOOLEAN]
    /\ salts \in Nat

\* Numbers of accounts point to accounts where they are used.
Pointing ==
    /\ admin.at # "none" => admin.account # 0
    /\ admin.at = "none" => admin = NoUpdate
    /\ \A l \in Logins : login[l].at \in {"active", "salt", "hash", "session"} => login[l].account # 0
    /\ \A s \in sessions : s.account # 0

\* A hash is made with the salt next to it, but for the account UpdateUser is at.
HashFitsSalt ==
    \A a \in 1..Len(accounts) :
        accounts[a].hash[2] = accounts[a].salt \/ (admin.at = "hash" /\ admin.account = a)

\* What an Authenticate without an overlapping UpdateUser has read so far is what the account
\* still says, and the answer that was right at the lookup still is.
ReadsHold ==
    \A l \in Logins : (login[l].at \in {"active", "salt", "hash"} /\ ~login[l].overlap) =>
        /\ admin.at # "none" => admin.account # login[l].account
        /\ login[l].valid <=> (Account(l).active /\ login[l].pw = {Account(l).hash[1]})
        /\ login[l].at # "active" => Account(l).active
        /\ login[l].at = "hash" => login[l].salt = Account(l).salt
        /\ \E pw \in Passwords : login[l].pw = {pw}

AuthInv == AuthTypeOK /\ Pointing /\ HashFitsSalt /\ ReadsHold /\ AnswerAsOfLookup /\ SessionsOfUsers

=============================================================================
