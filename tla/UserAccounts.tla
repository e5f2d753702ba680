----------------------------- MODULE UserAccounts -----------------------------
(***************************************************************************)
(* Accounts, roles and remembered sessions: UserRepository and             *)
(* PasswordRepository over the tables users, role_assignments and sessions, *)
(* the session half of DatabaseManager, AuthenticationService,              *)
(* UserManagementService, the start-up sequence of main(), LoginDialog and  *)
(* UserManagementDialog.                                                    *)
(*                                                                         *)
(* A client is one operating-system user with its own QSettings; the        *)
(* clients share a data directory and run one after the other.  An          *)
(* operation's checks and its first statement or transaction are one step,  *)
(* every further statement is another: a failure or the end of the process  *)
(* falls between any two.  A refused operation writes an audit row and      *)
(* nothing else; audit rows, which nothing here reads back, and passwords,  *)
(* which no other state depends on, are left out.                           *)
(***************************************************************************)
EXTENDS Naturals, Sequences, FiniteSets

CONSTANTS
    Clients,         \* operating-system users, each with its own settings
    Names,           \* spellings of user names
    Folded,          \* a spelling's representative under COLLATE NOCASE
    Admin,           \* the spelling "admin"
    Tokens,          \* raw session tokens; a generated one is in use nowhere
    Offered,         \* bound: the built-in roles that edits choose
    InitialUsers,    \* the users tables the program may find
    None,
    MaxUsers         \* bound on the rows of users

Roles == {"admin", "operator", "viewer"}

ASSUME ConstantsAssumption ==
    /\ Admin \in Names
    /\ Folded \in [Names -> Names]
    /\ None \notin Names \cup Tokens \cup Roles
    /\ Offered \subseteq Roles
    /\ MaxUsers \in Nat \ {0}

VARIABLES
    users,       \* rows of users by id, each joined with its role_assignments row
    sessions,    \* rows of sessions
    remembered,  \* auth/rememberToken in each client's settings
    proc         \* each client's process

vars == <<users, sessions, remembered, proc>>

-----------------------------------------------------------------------------
(* Rows and look-ups *)

Row == [name: Names, role: Roles \cup {"user"}, assigned: Roles \cup {None},
        enabled: BOOLEAN]

\* A table as an earlier version left it: user names are unique, nobody has an
\* assignment, the column "enabled" begins with 1, and each of its starts had seen
\* to the default account.
ASSUME InitialUsersAssumption ==
    \A us \in InitialUsers :
        /\ us \in Seq(Row) /\ Len(us) <= MaxUsers
        /\ \A i, j \in DOMAIN us : us[i].name = us[j].name => i = j
        /\ \A i \in DOMAIN us : us[i].assigned = None /\ us[i].enabled
        /\ us # << >> => \E i \in DOMAIN us : us[i].name = Admin /\ us[i].role = "admin"

\* "account" is history that no statement reads: the row the sign-in was for, when
\* its name was typed as the row spells it, and 0 for any other spelling.
Session == [user: Names, token: Tokens, account: 0..MaxUsers]

Statement ==
         [st: {"create"}, name: Names, role: Roles, enabled: BOOLEAN]
    \cup [st: {"update"}, id: 1..MaxUsers, name: Names, role: Roles, enabled: BOOLEAN]
    \cup [st: {"enable"}, id: 1..MaxUsers, enabled: BOOLEAN]
    \cup [st: {"credential"}, id: 1..MaxUsers]
    \cup [st: {"revoke"}, user: Names, keep: Tokens \cup {None}]

Process == [at: {"closed", "started", "login", "clearing", "inserting", "saving",
                 "window", "management", "password"},
            user: Names \cup {None}, token: Tokens \cup {None},
            canManage: BOOLEAN, todo: Seq(Statement)]

Closed == [at |-> "closed", user |-> None, token |-> None, canManage |-> FALSE,
           todo |-> << >>]

TypeOK ==
    /\ users \in Seq(Row) /\ Len(users) <= MaxUsers
    /\ sessions \subseteq Session
    /\ remembered \in [Clients -> Tokens \cup {None}]
    /\ proc \in [Clients -> Process]

\* COALESCE(role_assignments.role_code, users.role)
EffectiveRole(u) == IF u.assigned # None THEN u.assigned ELSE u.role

SameName(m, n) == Folded[m] = Folded[n]

Matching(n) == {i \in DOMAIN users : SameName(users[i].name, n)}

\* The row a query by name returns: no index serves NOCASE, so the oldest one.
FindByUsername(n) ==
    IF Matching(n) = {} THEN 0
    ELSE CHOOSE i \in Matching(n) : \A j \in Matching(n) : i <= j

\* The same row when its spelling is n exactly, for the history in Session.
AccountSpelt(n) ==
    LET i == FindByUsername(n)
    IN  IF i # 0 /\ users[i].name = n THEN i ELSE 0

UsernameExists(n, excluded) == Matching(n) \ {excluded} # {}

EnabledAdminCount ==
    Cardinality({i \in DOMAIN users :
                    users[i].enabled /\ EffectiveRole(users[i]) = "admin"})

PermissionsForRole(role) ==
    CASE role = "admin"    -> {"manage_users", "acknowledge_alarm", "modify_settings",
                               "view_history", "control_collection"}
      [] role = "operator" -> {"acknowledge_alarm", "view_history", "control_collection"}
      [] role = "viewer"   -> {"view_history"}
      [] OTHER             -> {}

HasPermission(role, p) == p \in PermissionsForRole(role)

\* The role the main window works with: exact spelling, users.role only.
RoleForUser(n) ==
    LET exact == {i \in DOMAIN users : users[i].name = n}
    IN  IF exact = {} THEN "user" ELSE users[CHOOSE i \in exact : TRUE].role

\* The role the service works with, read again at every call.
Can(n, p) ==
    LET i == FindByUsername(n)
    IN  i # 0 /\ HasPermission(EffectiveRole(users[i]), p)

\* What every start-up does to the account "admin".
WithDefaultUser(us) ==
    IF \E i \in DOMAIN us : us[i].name = Admin
    THEN [i \in DOMAIN us |-> IF us[i].name = Admin
                              THEN [us[i] EXCEPT !.role = "admin"] ELSE us[i]]
    ELSE Append(us, [name |-> Admin, role |-> "admin", assigned |-> None,
                     enabled |-> TRUE])

\* seedRoleAssignments(): missing assignments first, then roles of old versions.
Assigned(us) ==
    [i \in DOMAIN us |->
        IF us[i].assigned # None THEN us[i]
        ELSE [us[i] EXCEPT !.assigned = IF us[i].role \in Roles THEN us[i].role
                                        ELSE "viewer"]]

Seeded(us) ==
    [i \in DOMAIN us |->
        IF us[i].role \in Roles THEN Assigned(us)[i]
        ELSE [Assigned(us)[i] EXCEPT !.role = Assigned(us)[i].assigned]]

Room(us) == Len(WithDefaultUser(us)) <= MaxUsers

-----------------------------------------------------------------------------
(* Statements of a user-management operation *)

Revoke(n) == [st |-> "revoke", user |-> n, keep |-> None]

\* The UNIQUE constraint of users.username compares exact spellings.
Unique(s) ==
    /\ s.st = "create" => \A i \in DOMAIN users : users[i].name # s.name
    /\ s.st = "update" => \A i \in DOMAIN users \ {s.id} : users[i].name # s.name

\* Mutant: the role is written to one of its two places.
UsersAfter_OneTable(s) ==
    CASE s.st = "create" ->
            Append(users, [name |-> s.name, role |-> s.role, assigned |-> s.role,
                           enabled |-> s.enabled])
      [] s.st = "update" ->
            [users EXCEPT ![s.id].name = s.name, ![s.id].role = s.role,
                          ![s.id].enabled = s.enabled]
      [] s.st = "enable" -> [users EXCEPT ![s.id].enabled = s.enabled]
      [] OTHER -> users

UsersAfter(s) ==
    CASE s.st = "create" ->
            Append(users, [name |-> s.name, role |-> s.role, assigned |-> s.role,
                           enabled |-> s.enabled])
      [] s.st = "update" ->
            [users EXCEPT ![s.id].name = s.name, ![s.id].role = s.role,
                          ![s.id].assigned = s.role, ![s.id].enabled = s.enabled]
      [] s.st = "enable" -> [users EXCEPT ![s.id].enabled = s.enabled]
      [] OTHER -> users

\* Mutant: sessions keep the name an account had.
SessionsAfter_KeepsRenamed(s) ==
    IF s.st = "revoke"
    THEN {r \in sessions : r.user = s.user => s.keep # None /\ r.token = s.keep}
    ELSE sessions

SessionsAfter(s) ==
    CASE s.st = "revoke" -> {r \in sessions : r.user = s.user => s.keep # None /\ r.token = s.keep}
      [] s.st = "update" /\ users[s.id].name # s.name ->
            {r \in sessions : r.user # users[s.id].name}
      [] OTHER -> sessions

Run(c, statements) ==
    LET s == Head(statements)
    IN  /\ Unique(s)
        /\ Room(UsersAfter(s))
        /\ users' = UsersAfter(s)
        /\ sessions' = SessionsAfter(s)
        /\ proc' = [proc EXCEPT ![c].todo = Tail(statements),
                                ![c].at = IF @ = "password" /\ Tail(statements) = << >>
                                          THEN "window" ELSE @]
        /\ UNCHANGED remembered

\* An operation whose checks pass runs its first statement ...
Begin(c, statements) == proc[c].todo = << >> /\ Run(c, statements)

\* ... and then the next one, ...
Execute(c) == proc[c].todo # << >> /\ Run(c, proc[c].todo)

\* ... which may fail: the operation reports that and undoes nothing.
Fail(c) ==
    /\ proc[c].todo # << >>
    /\ proc' = [proc EXCEPT ![c].todo = << >>]
    /\ UNCHANGED <<users, sessions, remembered>>

-----------------------------------------------------------------------------
(* UserManagementService, driven by UserManagementDialog *)

Managing(c) == proc[c].at = "management" /\ Can(proc[c].user, "manage_users")

\* Mutant: only switching the last administrator off is refused.
RemovesActiveAdmin_EnabledOnly(i, role, enabled) ==
    users[i].enabled /\ EffectiveRole(users[i]) = "admin" /\ ~enabled

RemovesActiveAdmin(i, role, enabled) ==
    /\ users[i].enabled /\ EffectiveRole(users[i]) = "admin"
    /\ ~enabled \/ role # "admin"

IsSelf(c, i) == FindByUsername(proc[c].user) = i

\* Mutant: an account is switched off with its sessions left.
RevocationFirst_Never(i, enabled) == << >>

\* The sessions go before the account is switched off.
RevocationFirst(i, enabled) ==
    IF users[i].enabled /\ ~enabled THEN <<Revoke(users[i].name)>> ELSE << >>

CreateUser(c, n, role, enabled) ==
    /\ Managing(c)
    /\ ~UsernameExists(n, 0)
    /\ Begin(c, <<[st |-> "create", name |-> n, role |-> role, enabled |-> enabled]>>)

UpdateUser(c, i, n, role, enabled) ==
    /\ Managing(c)
    /\ ~UsernameExists(n, i)
    /\ ~(IsSelf(c, i) /\ users[i].enabled /\ ~enabled)
    /\ RemovesActiveAdmin(i, role, enabled) => EnabledAdminCount > 1
    /\ Begin(c, RevocationFirst(i, enabled)
                \o <<[st |-> "update", id |-> i, name |-> n, role |-> role,
                      enabled |-> enabled]>>)

\* Mutant: the sessions go after the account is switched off.
SetUserEnabled_RevokesLast(c, i, enabled) ==
    /\ Managing(c)
    /\ users[i].enabled # enabled
    /\ enabled \/ ~IsSelf(c, i)
    /\ ~enabled /\ EffectiveRole(users[i]) = "admin" => EnabledAdminCount > 1
    /\ Begin(c, <<[st |-> "enable", id |-> i, enabled |-> enabled]>>
                \o RevocationFirst(i, enabled))

SetUserEnabled(c, i, enabled) ==
    /\ Managing(c)
    /\ users[i].enabled # enabled
    /\ enabled \/ ~IsSelf(c, i)
    /\ ~enabled /\ EffectiveRole(users[i]) = "admin" => EnabledAdminCount > 1
    /\ Begin(c, RevocationFirst(i, enabled)
                \o <<[st |-> "enable", id |-> i, enabled |-> enabled]>>)

SetUserRole(c, i, role) ==
    /\ Managing(c)
    /\ EffectiveRole(users[i]) # role
    /\ RemovesActiveAdmin(i, role, users[i].enabled) => EnabledAdminCount > 1
    /\ Begin(c, <<[st |-> "update", id |-> i, name |-> users[i].name, role |-> role,
                   enabled |-> users[i].enabled]>>)

ResetPassword(c, i) ==
    /\ Managing(c)
    /\ Begin(c, <<[st |-> "credential", id |-> i],
                  Revoke(users[i].name)>>)

\* Neither the permission nor the enabled flag is asked for: only the old password.
ChangeOwnPassword(c) ==
    LET i == FindByUsername(proc[c].user)
    IN  /\ proc[c].at \in {"management", "password"}
        /\ users = Seeded(users)
        /\ i # 0
        /\ Begin(c, <<[st |-> "credential", id |-> i],
                      [st |-> "revoke", user |-> users[i].name, keep |-> remembered[c]]>>)

-----------------------------------------------------------------------------
(* main(): start-up, sign-in and the main window *)

\* DatabaseManager::initialize(): the schema is current, the default account is kept.
Start(c) ==
    /\ \A d \in Clients : proc[d] = Closed
    /\ Room(users)
    /\ users' = WithDefaultUser(users)
    /\ proc' = [proc EXCEPT ![c].at = "started"]
    /\ UNCHANGED <<sessions, remembered>>

\* MainWindow's constructor fixes what the role of the moment permits.
Window(n) == [Closed EXCEPT !.at = "window", !.user = n,
                            !.canManage = HasPermission(RoleForUser(n), "manage_users")]

\* validateRememberSession() finds a row for the token and renews it.
RestoreSession(c) ==
    /\ proc[c].at = "started"
    /\ \E s \in sessions :
        /\ s.token = remembered[c]
        /\ proc' = [proc EXCEPT ![c] = Window(s.user)]
    /\ UNCHANGED <<users, sessions, remembered>>

\* No token, no row for it, or a statement that failed: sign in.
AskForPassword(c) ==
    /\ proc[c].at = "started"
    /\ remembered' = [remembered EXCEPT ![c] = None]
    /\ proc' = [proc EXCEPT ![c].at = "login"]
    /\ UNCHANGED <<users, sessions>>

\* The repository a sign-in or a dialog creates seeds the assignments on first
\* use; a failure between its two statements leaves the first one's rows.
Seeding == {Seeded(users), Assigned(users), users}

\* LoginDialog::attemptLogin() with a name and a password that authenticate.
Login(c, n, keep) ==
    LET i == FindByUsername(n)
    IN  /\ proc[c].at = "login"
        /\ i # 0
        /\ users[i].enabled
        /\ users' = Seeded(users)
        /\ IF keep
           THEN /\ proc' = [proc EXCEPT ![c].at = "clearing", ![c].user = n]
                /\ UNCHANGED <<sessions, remembered>>
           ELSE /\ proc' = [proc EXCEPT ![c] = Window(n)]
                /\ sessions' \in {sessions, {s \in sessions : s.token # remembered[c]}}
                /\ remembered' = [remembered EXCEPT ![c] = None]

\* It is refused; the account data may have been seeded on the way.
LoginRefused(c) ==
    /\ proc[c].at = "login"
    /\ users' \in Seeding
    /\ UNCHANGED <<sessions, remembered, proc>>

\* createRememberSession(), statement by statement, for the name as it was typed.
ClearOldSessions(c) ==
    /\ proc[c].at = "clearing"
    /\ sessions' = {s \in sessions : s.user # proc[c].user}
    /\ proc' = [proc EXCEPT ![c].at = "inserting"]
    /\ UNCHANGED <<users, remembered>>

FreshTokens ==
    Tokens \ ({s.token : s \in sessions} \cup {remembered[d] : d \in Clients}
              \cup {proc[d].token : d \in Clients})

InsertSession(c, t) ==
    /\ proc[c].at = "inserting"
    /\ t \in FreshTokens
    /\ sessions' = sessions \cup {[user |-> proc[c].user, token |-> t,
                                   account |-> AccountSpelt(proc[c].user)]}
    /\ proc' = [proc EXCEPT ![c].at = "saving", ![c].token = t]
    /\ UNCHANGED <<users, remembered>>

SaveToken(c) ==
    /\ proc[c].at = "saving"
    /\ remembered' = [remembered EXCEPT ![c] = proc[c].token]
    /\ proc' = [proc EXCEPT ![c] = Window(proc[c].user)]
    /\ UNCHANGED <<users, sessions>>

\* Signed in all the same, without a remembered session.
RememberFails(c) ==
    /\ proc[c].at \in {"clearing", "inserting"}
    /\ remembered' = [remembered EXCEPT ![c] = None]
    /\ proc' = [proc EXCEPT ![c] = Window(proc[c].user)]
    /\ UNCHANGED <<users, sessions>>

\* The user-management entry of the tool bar or of the settings.
OpenManagement(c) ==
    /\ proc[c].at = "window" /\ proc[c].canManage
    /\ users' = Seeded(users)
    /\ proc' = [proc EXCEPT ![c].at = IF Can(proc[c].user, "manage_users")
                                      THEN "management" ELSE "password"]
    /\ UNCHANGED <<sessions, remembered>>

\* The password entry, which everybody has; a management dialog whose repository
\* cannot be initialized falls back to it, and its next call tries again.
OpenPassword(c) ==
    /\ proc[c].at \in {"window", "password"} /\ proc[c].todo = << >>
    /\ users' \in Seeding
    /\ proc' = [proc EXCEPT ![c].at = "password"]
    /\ UNCHANGED <<sessions, remembered>>

CloseDialog(c) ==
    /\ proc[c].at \in {"management", "password"} /\ proc[c].todo = << >>
    /\ proc' = [proc EXCEPT ![c].at = "window"]
    /\ UNCHANGED <<users, sessions, remembered>>

\* The user cancels the sign-in or quits, or the process dies at any point.
Exit(c) ==
    /\ proc[c].at # "closed"
    /\ proc' = [proc EXCEPT ![c] = Closed]
    /\ UNCHANGED <<users, sessions, remembered>>

\* Thirty days without a start.  Every function that reads the table deletes
\* the expired rows first, so an expired row is a deleted one.
Expire(s) ==
    /\ sessions' = sessions \ {s}
    /\ UNCHANGED <<users, remembered, proc>>

-----------------------------------------------------------------------------

Init ==
    /\ users \in InitialUsers
    /\ sessions = {}
    /\ remembered = [c \in Clients |-> None]
    /\ proc = [c \in Clients |-> Closed]

Manage(c) ==
    \/ \E n \in Names, role \in Offered, enabled \in BOOLEAN :
        \/ CreateUser(c, n, role, enabled)
        \/ \E i \in DOMAIN users : UpdateUser(c, i, n, role, enabled)
    \/ \E i \in DOMAIN users :
        \/ \E enabled \in BOOLEAN : SetUserEnabled(c, i, enabled)
        \/ \E role \in Offered : SetUserRole(c, i, role)
        \/ ResetPassword(c, i)
    \/ ChangeOwnPassword(c)

SignIn(c) ==
    \/ Start(c) \/ RestoreSession(c) \/ AskForPassword(c)
    \/ \E n \in Names, keep \in BOOLEAN : Login(c, n, keep)
    \/ LoginRefused(c)
    \/ ClearOldSessions(c) \/ (\E t \in Tokens : InsertSession(c, t))
    \/ SaveToken(c) \/ RememberFails(c)

Next ==
    \/ \E c \in Clients :
        \/ SignIn(c) \/ Manage(c) \/ Execute(c) \/ Fail(c)
        \/ OpenManagement(c) \/ OpenPassword(c) \/ CloseDialog(c) \/ Exit(c)
    \/ \E s \in sessions : Expire(s)

Spec == Init /\ [][Next]_vars

-----------------------------------------------------------------------------
(* Properties *)

\* While there are accounts at all, one administrator is enabled: no order of
\* edits, disablings, role changes, renames of the default account, failures
\* between two statements and restarts leaves the program without one.
AdminRemains == users # << >> => EnabledAdminCount > 0

\* users.role, which the main window reads, and role_assignments, which the
\* service reads, name the same role once an assignment exists.  The one
\* exception is the account "admin", which every start-up makes an administrator
\* again in the first table only.
RolesAgree ==
    \A i \in DOMAIN users :
        users[i].assigned # None /\ users[i].role \in Roles =>
            \/ users[i].role = users[i].assigned
            \/ users[i].name = Admin /\ users[i].role = "admin"

\* Sessions are compared by exact spelling and accounts are not.  Whatever else
\* happens, an account that is switched off has at that moment no session under
\* its own spelling: the revocation before it was not undone, nor was it a step of
\* an operation that failed.
SwitchOffLeavesNoSession ==
    [][\A i \in DOMAIN users :
          users[i].enabled /\ ~users'[i].enabled =>
              \A s \in sessions' : s.user # users[i].name]_vars

\* It has none later either: no session opened by typing an account's name as it
\* is spelt is left for an account that is disabled.  A session opened with
\* another spelling is, which the documentation rules out and the code does not.
DisabledHoldNoSession ==
    \A s \in sessions : s.account # 0 => users[s.account].enabled

\* Renaming an account takes the sessions under its own spelling along: such a
\* session names the account it was opened for, and never one that got the name
\* afterwards.
SessionsNameAccounts ==
    \A s \in sessions : s.account # 0 => users[s.account].name = s.user

=============================================================================
