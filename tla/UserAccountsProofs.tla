-------------------------- MODULE UserAccountsProofs --------------------------
(***************************************************************************)
(* Proofs about UserAccounts, for any clients, names, spellings, tokens and *)
(* any table an earlier version left: an enabled administrator remains, the *)
(* two role tables agree, switching an account off leaves it no session, and *)
(* none under its own spelling outlives that or a change of its name.       *)
(***************************************************************************)
EXTENDS UserAccounts, FiniteSetTheorems, SequenceTheorems, WellFoundedInduction, TLAPS

ActiveAdmin(i) == users[i].enabled /\ EffectiveRole(users[i]) = "admin"

(* Two rows may be spellings of one name, but are not spelt the same.       *)
NamesUnique ==
  \A i, j \in DOMAIN users : users[i].name = users[j].name => i = j

(* What every table the program leaves behind satisfies. *)
DataOK ==
  /\ users \in Seq(Row) /\ Len(users) <= MaxUsers
  /\ sessions \subseteq Session
  /\ NamesUnique
  /\ users # << >> => \E i \in DOMAIN users : ActiveAdmin(i)
  /\ RolesAgree
  /\ \A s \in sessions : s.account # 0 => s.account \in DOMAIN users
  /\ DisabledHoldNoSession
  /\ SessionsNameAccounts

(* The clients run one after the other. *)
OneProcess ==
  \A c, d \in Clients : proc[c].at # "closed" /\ proc[d].at # "closed" => c = d

(* The checks an operation passed still hold when a statement of it runs:   *)
(* there are accounts, another administrator remains, and an account is     *)
(* switched off without sessions.                                           *)
Justified(s) ==
  /\ s.st = "create" => users # << >>
  /\ s.st = "update" =>
       /\ s.id \in DOMAIN users
       /\ ActiveAdmin(s.id) /\ (~s.enabled \/ s.role # "admin")
            => \E j \in DOMAIN users \ {s.id} : ActiveAdmin(j)
       /\ ~s.enabled => \A r \in sessions : r.account # s.id
       /\ users[s.id].enabled /\ ~s.enabled
            => \A r \in sessions : r.user # users[s.id].name
  /\ s.st = "enable" =>
       /\ s.id \in DOMAIN users
       /\ ActiveAdmin(s.id) /\ ~s.enabled
            => \E j \in DOMAIN users \ {s.id} : ActiveAdmin(j)
       /\ ~s.enabled => \A r \in sessions : r.account # s.id
       /\ users[s.id].enabled /\ ~s.enabled
            => \A r \in sessions : r.user # users[s.id].name

(* An operation has at most one statement left, and no step of anybody      *)
(* comes between the two.                                                   *)
Pending(c) ==
  proc[c].todo # << >> =>
    /\ proc[c].at \in {"management", "password"}
    /\ Len(proc[c].todo) = 1
    /\ Justified(Head(proc[c].todo))

(* The account a query by name finds is not disabled. *)
FoundEnabled(n) ==
  \E i \in DOMAIN users :
    /\ SameName(users[i].name, n) /\ users[i].enabled
    /\ \A j \in DOMAIN users : SameName(users[j].name, n) => i <= j

(* Who is being signed in has an account that is not disabled. *)
SigningIn(c) ==
  proc[c].at \in {"clearing", "inserting", "saving"} =>
    /\ proc[c].user \in Names
    /\ FoundEnabled(proc[c].user)

ProcOK ==
  /\ remembered \in [Clients -> Tokens \cup {None}]
  /\ proc \in [Clients -> Process]
  /\ OneProcess
  /\ \A c \in Clients : Pending(c) /\ SigningIn(c)

IInv == DataOK /\ ProcOK

(* What a step does to the accounts that were enabled before it.            *)
NobodySwitchedOff == \A i \in DOMAIN users : users'[i].enabled = users[i].enabled

SwitchedOffWithout ==
  \A i \in DOMAIN users :
    users[i].enabled /\ ~users'[i].enabled
      => \A s \in sessions' : s.user # users[i].name

Kept == IInv' /\ SwitchedOffWithout

-----------------------------------------------------------------------------
(* Sequences, statements and rows *)

LEMMA Pair ==
  ASSUME NEW a, NEW b
  PROVE  <<a>> \o <<b>> = <<a, b>>
<1>1. /\ <<a>> \in Seq({a, b}) /\ <<b>> \in Seq({a, b})
      /\ Len(<<a>>) = 1 /\ Len(<<b>>) = 1
  OBVIOUS
<1>2. /\ <<a>> \o <<b>> \in Seq({a, b}) /\ Len(<<a>> \o <<b>>) = 2
      /\ (<<a>> \o <<b>>)[1] = a /\ (<<a>> \o <<b>>)[2] = b
  BY <1>1
<1>3. <<a, b>> \in Seq({a, b}) /\ Len(<<a, b>>) = 2
  OBVIOUS
<1>4. \A i \in 1..2 : (<<a>> \o <<b>>)[i] = <<a, b>>[i]
  BY <1>2
<1> QED BY <1>2, <1>3, <1>4, SeqEqual

LEMMA Singleton ==
  ASSUME NEW S, NEW a \in S
  PROVE  /\ <<a>> \in Seq(S) /\ <<a>> # << >> /\ Len(<<a>>) = 1
         /\ Head(<<a>>) = a /\ Tail(<<a>>) = << >>
  OBVIOUS

LEMMA StatementFields ==
  ASSUME NEW s \in Statement
  PROVE  /\ s.st \in {"create", "update", "enable", "credential", "revoke"}
         /\ s.st \in {"create", "update"} => s.name \in Names /\ s.role \in Roles
         /\ s.st \in {"create", "update", "enable"} => s.enabled \in BOOLEAN
         /\ s.st = "revoke" => s.user \in Names /\ s.keep \in Tokens \cup {None}
  BY DEF Statement

(* What replacing one row does to the table. *)
LEMMA RowReplaced ==
  ASSUME NEW us \in Seq(Row), NEW i \in DOMAIN us, NEW row \in Row,
         NEW vs, vs = [us EXCEPT ![i] = row]
  PROVE  /\ vs \in Seq(Row) /\ Len(vs) = Len(us) /\ DOMAIN vs = DOMAIN us
         /\ vs[i] = row /\ \A j \in DOMAIN us \ {i} : vs[j] = us[j]
  OBVIOUS

LEMMA RowAppended ==
  ASSUME NEW us \in Seq(Row), NEW row \in Row,
         NEW vs, vs = Append(us, row)
  PROVE  /\ vs \in Seq(Row) /\ Len(vs) = Len(us) + 1 /\ vs # << >>
         /\ Len(us) + 1 \notin DOMAIN us
         /\ DOMAIN vs = DOMAIN us \cup {Len(us) + 1}
         /\ vs[Len(us) + 1] = row /\ \A j \in DOMAIN us : vs[j] = us[j]
  OBVIOUS

LEMMA AdminCount ==
  ASSUME users \in Seq(Row)
  PROVE  /\ EnabledAdminCount > 0 <=> \E i \in DOMAIN users : ActiveAdmin(i)
         /\ EnabledAdminCount > 1
              => \A i \in DOMAIN users : \E j \in DOMAIN users \ {i} : ActiveAdmin(j)
<1> DEFINE S == {i \in DOMAIN users : ActiveAdmin(i)}
<1>1. IsFiniteSet(S)
  <2>1. DOMAIN users = 1..Len(users) /\ Len(users) \in Nat
    OBVIOUS
  <2>2. S \in SUBSET (1..Len(users)) /\ IsFiniteSet(1..Len(users))
    BY <2>1, FS_Interval
  <2> QED BY <2>2, FS_Subset
<1>2. EnabledAdminCount = Cardinality(S) /\ Cardinality(S) \in Nat
  BY <1>1, FS_CardinalityType DEF EnabledAdminCount, ActiveAdmin
<1>3. Cardinality(S) > 0 <=> S # {}
  BY <1>1, <1>2, FS_EmptySet
<1>5. S = {i \in DOMAIN users : ActiveAdmin(i)}
  OBVIOUS
<1> HIDE DEF S
<1>4. ASSUME NEW i \in DOMAIN users, Cardinality(S) > 1
      PROVE  S \ {i} # {}
  <2>1. Cardinality({i}) = 1
    BY FS_Singleton
  <2>2. ASSUME S = {i} PROVE FALSE
    <3>1. Cardinality(S) = 1
      BY <2>1, <2>2
    <3> QED BY <3>1, <1>4
  <2> QED BY <2>2, <1>4, <1>2, <1>3
<1> QED BY <1>2, <1>3, <1>4, <1>5

-----------------------------------------------------------------------------
(* What start-up and the first use of the accounts do to the table *)

(* Rows keep their names, stay enabled and administrators. *)
LEMMA Rewritten ==
  ASSUME DataOK, sessions' \subseteq sessions, users' \in Seq(Row), DOMAIN users' = DOMAIN users,
         RolesAgree',
         \A i \in DOMAIN users :
            /\ users'[i].name = users[i].name /\ users'[i].enabled = users[i].enabled
            /\ EffectiveRole(users[i]) = "admin" => EffectiveRole(users'[i]) = "admin"
  PROVE  DataOK'
<1>1. Len(users') = Len(users) /\ (users' # << >> => users # << >>)
  BY DEF DataOK
<1>2. NamesUnique'
  BY DEF DataOK, NamesUnique
<1>3. users' # << >> => \E i \in DOMAIN users' : ActiveAdmin(i)'
  BY <1>1 DEF DataOK, ActiveAdmin
<1>4. DisabledHoldNoSession'
  BY DEF DataOK, DisabledHoldNoSession
<1>5. SessionsNameAccounts'
  BY DEF DataOK, SessionsNameAccounts
<1> QED BY <1>1, <1>2, <1>3, <1>4, <1>5 DEF DataOK

LEMMA AssignedRows ==
  ASSUME users \in Seq(Row), NEW i \in DOMAIN users
  PROVE  /\ Assigned(users)[i] =
              IF users[i].assigned # None THEN users[i]
              ELSE [name |-> users[i].name, role |-> users[i].role,
                    assigned |-> IF users[i].role \in Roles THEN users[i].role ELSE "viewer",
                    enabled |-> users[i].enabled]
         /\ Assigned(users)[i] \in Row
         /\ Assigned(users)[i].name = users[i].name
         /\ Assigned(users)[i].enabled = users[i].enabled
         /\ Assigned(users)[i].role = users[i].role
         /\ Assigned(users)[i].assigned \in Roles
         /\ users[i].assigned = None /\ users[i].role \in Roles
              => Assigned(users)[i].assigned = users[i].role
<1>1. users[i] \in Row
  OBVIOUS
<1>2. CASE users[i].assigned # None
  BY <1>1, <1>2 DEF Assigned, Row
<1>3. CASE users[i].assigned = None /\ users[i].role \in Roles
  BY <1>1, <1>3 DEF Assigned, Row
<1>4. CASE users[i].assigned = None /\ users[i].role \notin Roles
  <2>1. "viewer" \in Roles
    BY DEF Roles
  <2> QED BY <1>1, <1>4, <2>1 DEF Assigned, Row
<1> QED BY <1>2, <1>3, <1>4

LEMMA SeededRows ==
  ASSUME users \in Seq(Row), NEW i \in DOMAIN users
  PROVE  /\ Seeded(users)[i] =
              IF users[i].role \in Roles THEN Assigned(users)[i]
              ELSE [name |-> users[i].name, role |-> Assigned(users)[i].assigned,
                    assigned |-> Assigned(users)[i].assigned,
                    enabled |-> users[i].enabled]
         /\ Seeded(users)[i] \in Row
<1>1. users[i] \in Row
  OBVIOUS
<1>2. /\ Assigned(users)[i] \in Row
      /\ Assigned(users)[i].name = users[i].name
      /\ Assigned(users)[i].enabled = users[i].enabled
      /\ Assigned(users)[i].assigned \in Roles
  BY AssignedRows
<1>3. CASE users[i].role \in Roles
  BY <1>2, <1>3 DEF Seeded
<1>4. CASE users[i].role \notin Roles
  <2>1. Seeded(users)[i] = [Assigned(users)[i] EXCEPT !.role = Assigned(users)[i].assigned]
    BY <1>4 DEF Seeded
  <2> QED BY <1>1, <1>2, <1>4, <2>1 DEF Row
<1> QED BY <1>3, <1>4

LEMMA SeedingKeepsData ==
  ASSUME DataOK, users' \in Seeding, sessions' \subseteq sessions
  PROVE  /\ DataOK' /\ DOMAIN users' = DOMAIN users
         /\ \A i \in DOMAIN users : users'[i].name = users[i].name
                                    /\ users'[i].enabled = users[i].enabled
<1>1. users \in Seq(Row) /\ DOMAIN users = 1..Len(users) /\ Len(users) \in Nat
  BY DEF DataOK
<1>2. /\ DOMAIN Assigned(users) = DOMAIN users /\ DOMAIN Seeded(users) = DOMAIN users
      /\ Assigned(users) \in Seq(Row) /\ Seeded(users) \in Seq(Row)
  <2>1. /\ Assigned(users) \in [1..Len(users) -> Row]
        /\ Seeded(users) \in [1..Len(users) -> Row]
    BY <1>1, AssignedRows, SeededRows DEF Assigned, Seeded
  <2> QED BY <2>1, <1>1
<1>3. users' \in Seq(Row) /\ DOMAIN users' = DOMAIN users
  BY <1>1, <1>2 DEF Seeding
<1>4. ASSUME NEW i \in DOMAIN users
      PROVE  /\ users'[i].name = users[i].name /\ users'[i].enabled = users[i].enabled
             /\ EffectiveRole(users[i]) = "admin" => EffectiveRole(users'[i]) = "admin"
             /\ users'[i].assigned # None /\ users'[i].role \in Roles =>
                  \/ users'[i].role = users'[i].assigned
                  \/ users'[i].name = Admin /\ users'[i].role = "admin"
  <2>1. users[i] \in Row /\ (users[i].assigned # None /\ users[i].role \in Roles =>
                  \/ users[i].role = users[i].assigned
                  \/ users[i].name = Admin /\ users[i].role = "admin")
    BY <1>1 DEF DataOK, RolesAgree
  <2>2. users'[i] \in {users[i], Assigned(users)[i], Seeded(users)[i]}
    BY DEF Seeding
  <2>3. CASE users'[i] = users[i]
    BY <2>1, <2>3
  <2>a. /\ Assigned(users)[i].name = users[i].name
        /\ Assigned(users)[i].enabled = users[i].enabled
        /\ Assigned(users)[i].role = users[i].role
        /\ Assigned(users)[i].assigned # None
        /\ users[i].assigned # None => Assigned(users)[i] = users[i]
        /\ users[i].assigned = None /\ users[i].role \in Roles
             => Assigned(users)[i].assigned = users[i].role
    <3>1. None \notin Roles
      BY ConstantsAssumption
    <3>2. /\ Assigned(users)[i].name = users[i].name
          /\ Assigned(users)[i].enabled = users[i].enabled
          /\ Assigned(users)[i].role = users[i].role
          /\ Assigned(users)[i].assigned \in Roles
      BY <1>1, AssignedRows
    <3>3. users[i].assigned # None => Assigned(users)[i] = users[i]
      BY <1>1, AssignedRows
    <3>4. users[i].assigned = None /\ users[i].role \in Roles
             => Assigned(users)[i].assigned = users[i].role
      BY <1>1, AssignedRows
    <3> QED BY <3>1, <3>2, <3>3, <3>4
  <2>b. "admin" \in Roles
    BY DEF Roles
  <2>4. CASE users'[i] = Assigned(users)[i]
    <3>1. users'[i].name = users[i].name /\ users'[i].enabled = users[i].enabled
      BY <2>4, <2>a
    <3>2. EffectiveRole(users[i]) = "admin" => EffectiveRole(users'[i]) = "admin"
      BY <2>4, <2>a, <2>b DEF EffectiveRole
    <3>3. users'[i].assigned # None /\ users'[i].role \in Roles =>
                  \/ users'[i].role = users'[i].assigned
                  \/ users'[i].name = Admin /\ users'[i].role = "admin"
      BY <2>1, <2>4, <2>a, <2>b
    <3> QED BY <3>1, <3>2, <3>3
  <2>5. CASE users'[i] = Seeded(users)[i]
    <3>1. CASE users[i].role \in Roles
      BY <3>1, <2>1, <2>4, <2>5, <1>1, SeededRows
    <3>2. CASE users[i].role \notin Roles
      <4>1. users'[i] = [name |-> users[i].name, role |-> Assigned(users)[i].assigned,
                         assigned |-> Assigned(users)[i].assigned,
                         enabled |-> users[i].enabled]
        BY <3>2, <2>5, <1>1, SeededRows
      <4>2. EffectiveRole(users[i]) = "admin" => users[i].assigned = "admin"
        BY <3>2, <2>b DEF EffectiveRole
      <4>3. EffectiveRole(users'[i]) = Assigned(users)[i].assigned
        BY <4>1 DEF EffectiveRole
      <4>4. users'[i].name = users[i].name /\ users'[i].enabled = users[i].enabled
        BY <4>1
      <4>5. EffectiveRole(users[i]) = "admin" => EffectiveRole(users'[i]) = "admin"
        <5>1. SUFFICES ASSUME users[i].assigned = "admin"
                       PROVE  Assigned(users)[i].assigned = "admin"
          BY <4>2, <4>3
        <5>2. "admin" # None
          BY <2>b, ConstantsAssumption
        <5> QED BY <5>1, <5>2, <2>a
      <4>6. users'[i].role = users'[i].assigned
        BY <4>1
      <4> QED BY <4>4, <4>5, <4>6
    <3> QED BY <3>1, <3>2
  <2> QED BY <2>2, <2>3, <2>4, <2>5
<1>5. RolesAgree'
  BY <1>3, <1>4 DEF RolesAgree
<1> QED BY <1>3, <1>4, <1>5, Rewritten

LEMMA SeedingSwitchesNobodyOff ==
  ASSUME users \in Seq(Row), users' \in Seeding
  PROVE  NobodySwitchedOff
<1> SUFFICES ASSUME NEW i \in DOMAIN users PROVE users'[i].enabled = users[i].enabled
  BY DEF NobodySwitchedOff
<1>1. Assigned(users)[i].enabled = users[i].enabled
  BY AssignedRows
<1>2. Seeded(users)[i].enabled = users[i].enabled
  <2>1. CASE users[i].role \in Roles
    BY <1>1, <2>1, SeededRows
  <2>2. CASE users[i].role \notin Roles
    <3>1. Seeded(users)[i] = [name |-> users[i].name, role |-> Assigned(users)[i].assigned,
                              assigned |-> Assigned(users)[i].assigned,
                              enabled |-> users[i].enabled]
      BY <2>2, SeededRows
    <3> QED BY <3>1
  <2> QED BY <2>1, <2>2
<1>3. users'[i] \in {users[i], Assigned(users)[i], Seeded(users)[i]}
  BY DEF Seeding
<1> QED BY <1>1, <1>2, <1>3

LEMMA DefaultRows ==
  ASSUME NEW us \in Seq(Row), \E i \in DOMAIN us : us[i].name = Admin,
         NEW i \in DOMAIN us
  PROVE  /\ WithDefaultUser(us)[i] =
              IF us[i].name = Admin
              THEN [name |-> Admin, role |-> "admin", assigned |-> us[i].assigned,
                    enabled |-> us[i].enabled]
              ELSE us[i]
         /\ WithDefaultUser(us)[i] \in Row
<1>1. us[i] \in Row
  OBVIOUS
<1>2. WithDefaultUser(us)[i] = IF us[i].name = Admin
                               THEN [us[i] EXCEPT !.role = "admin"] ELSE us[i]
  BY DEF WithDefaultUser
<1> QED BY <1>1, <1>2 DEF Row, Roles

(* The table of an account more. *)
LEMMA Appended ==
  ASSUME DataOK, NEW row \in Row, users' = Append(users, row), Len(users') <= MaxUsers,
         UNCHANGED sessions,
         \A i \in DOMAIN users : users[i].name # row.name,
         users = << >> => row.enabled /\ EffectiveRole(row) = "admin",
         row.assigned = None \/ row.assigned = row.role
  PROVE  DataOK'
<1> DEFINE n == Len(users) + 1
<1>1. /\ users' \in Seq(Row) /\ n \notin DOMAIN users /\ n \in DOMAIN users'
      /\ DOMAIN users' = DOMAIN users \cup {n}
      /\ users'[n] = row /\ \A j \in DOMAIN users : users'[j] = users[j]
  BY RowAppended DEF DataOK
<1>e. users = << >> => n = 1
  OBVIOUS
<1> HIDE DEF n
<1>2. NamesUnique'
  <2> SUFFICES ASSUME NEW i \in DOMAIN users', NEW j \in DOMAIN users',
                      users'[i].name = users'[j].name
               PROVE  i = j
    BY DEF NamesUnique
  <2>1. CASE i = n \/ j = n
    BY <1>1, <2>1
  <2>2. CASE i \in DOMAIN users /\ j \in DOMAIN users
    BY <1>1, <2>2 DEF DataOK, NamesUnique
  <2> QED BY <1>1, <2>1, <2>2
<1>3. \E i \in DOMAIN users' : ActiveAdmin(i)'
  <2>1. CASE users = << >>
    <3>1. users'[n].enabled /\ EffectiveRole(users'[n]) = "admin"
      BY <1>1, <2>1
    <3> QED BY <3>1, <1>1 DEF ActiveAdmin
  <2>2. CASE users # << >>
    <3>1. PICK i \in DOMAIN users : ActiveAdmin(i)
      BY <2>2 DEF DataOK
    <3>2. ActiveAdmin(i)' /\ i \in DOMAIN users'
      BY <1>1, <3>1 DEF ActiveAdmin
    <3> QED BY <3>2
  <2> QED BY <2>1, <2>2
<1>4. RolesAgree'
  <2> SUFFICES ASSUME NEW i \in DOMAIN users',
                      users'[i].assigned # None, users'[i].role \in Roles
               PROVE  \/ users'[i].role = users'[i].assigned
                      \/ users'[i].name = Admin /\ users'[i].role = "admin"
    BY DEF RolesAgree
  <2>1. CASE i = n
    BY <1>1, <2>1
  <2>2. CASE i \in DOMAIN users
    BY <1>1, <2>2 DEF DataOK, RolesAgree
  <2> QED BY <1>1, <2>1, <2>2
<1>5. /\ \A s \in sessions' : s.account # 0 => s.account \in DOMAIN users'
      /\ DisabledHoldNoSession' /\ SessionsNameAccounts'
  BY <1>1 DEF DataOK, DisabledHoldNoSession, SessionsNameAccounts
<1> QED BY <1>1, <1>2, <1>3, <1>4, <1>5 DEF DataOK

LEMMA DefaultUserKeepsData ==
  ASSUME DataOK, Room(users), users' = WithDefaultUser(users), UNCHANGED sessions
  PROVE  DataOK' /\ NobodySwitchedOff
<1>0. users \in Seq(Row) /\ DOMAIN users = 1..Len(users) /\ Len(users) \in Nat
  BY DEF DataOK
<1>a. "admin" \in Roles /\ None \notin Roles
  BY ConstantsAssumption DEF Roles
<1>1. CASE \E i \in DOMAIN users : users[i].name = Admin
  <2>1. ASSUME NEW i \in DOMAIN users
        PROVE  /\ users'[i] =
                    IF users[i].name = Admin
                    THEN [name |-> Admin, role |-> "admin", assigned |-> users[i].assigned,
                          enabled |-> users[i].enabled]
                    ELSE users[i]
               /\ users'[i] \in Row
    BY <1>0, <1>1, DefaultRows
  <2>2. users' \in Seq(Row) /\ DOMAIN users' = DOMAIN users
    <3>1. users' \in [1..Len(users) -> Row]
      BY <1>0, <1>1, <2>1 DEF WithDefaultUser
    <3> QED BY <1>0, <3>1
  <2>3. ASSUME NEW i \in DOMAIN users
        PROVE  /\ users'[i].name = users[i].name /\ users'[i].enabled = users[i].enabled
               /\ EffectiveRole(users[i]) = "admin" => EffectiveRole(users'[i]) = "admin"
               /\ users'[i].assigned # None /\ users'[i].role \in Roles =>
                    \/ users'[i].role = users'[i].assigned
                    \/ users'[i].name = Admin /\ users'[i].role = "admin"
    <3>1. CASE users[i].name = Admin
      <4>1. users'[i] = [name |-> Admin, role |-> "admin", assigned |-> users[i].assigned,
                         enabled |-> users[i].enabled]
        BY <2>1, <3>1
      <4>2. /\ users'[i].name = users[i].name /\ users'[i].enabled = users[i].enabled
            /\ users'[i].name = Admin /\ users'[i].role = "admin"
            /\ users'[i].assigned = users[i].assigned
        BY <4>1, <3>1
      <4>3. EffectiveRole(users[i]) = "admin" => EffectiveRole(users'[i]) = "admin"
        BY <4>2 DEF EffectiveRole
      <4> QED BY <4>2, <4>3
    <3>2. CASE users[i].name # Admin
      BY <2>1, <3>2 DEF DataOK, RolesAgree
    <3> QED BY <3>1, <3>2
  <2>4. RolesAgree'
    BY <2>2, <2>3 DEF RolesAgree
  <2> QED BY <2>2, <2>3, <2>4, Rewritten DEF NobodySwitchedOff
<1>2. CASE ~\E i \in DOMAIN users : users[i].name = Admin
  <2> DEFINE row == [name |-> Admin, role |-> "admin", assigned |-> None, enabled |-> TRUE]
  <2>1. users' = Append(users, row) /\ Len(users') <= MaxUsers
    BY <1>2 DEF WithDefaultUser, Room
  <2>2. row \in Row /\ row.name = Admin /\ row.assigned = None
    BY <1>a, ConstantsAssumption DEF Row
  <2>3. row.enabled /\ EffectiveRole(row) = "admin"
    BY DEF EffectiveRole
  <2> HIDE DEF row
  <2>4. \A i \in DOMAIN users : users'[i] = users[i]
    BY <1>0, <2>1, <2>2, RowAppended
  <2> QED BY <2>1, <2>2, <2>3, <2>4, <1>2, Appended DEF NobodySwitchedOff
<1> QED BY <1>1, <1>2

LEMMA RoomBound ==
  ASSUME NEW us \in Seq(Row), Room(us)
  PROVE  Len(us) <= MaxUsers
<1>1. Len(us) \in Nat /\ DOMAIN us = 1..Len(us) /\ MaxUsers \in Nat
  BY ConstantsAssumption
<1>2. CASE \E i \in DOMAIN us : us[i].name = Admin
  <2>1. DOMAIN WithDefaultUser(us) = 1..Len(us)
    BY <1>1, <1>2 DEF WithDefaultUser
  <2>2. WithDefaultUser(us) \in Seq(Row)
    <3>1. WithDefaultUser(us) \in [1..Len(us) -> Row]
      BY <1>1, <1>2, <2>1, DefaultRows DEF WithDefaultUser
    <3> QED BY <1>1, <3>1
  <2>3. Len(WithDefaultUser(us)) = Len(us)
    BY <1>1, <2>1, <2>2
  <2> QED BY <2>3 DEF Room
<1>3. CASE ~\E i \in DOMAIN us : us[i].name = Admin
  <2> DEFINE row == [name |-> Admin, role |-> "admin", assigned |-> None, enabled |-> TRUE]
  <2>1. WithDefaultUser(us) = Append(us, row)
    BY <1>3 DEF WithDefaultUser
  <2>2. Len(Append(us, row)) = Len(us) + 1
    OBVIOUS
  <2> QED BY <1>1, <2>1, <2>2 DEF Room
<1> QED BY <1>2, <1>3

-----------------------------------------------------------------------------
(* Statements *)

(* One account is written, its sessions go with its old name. *)
LEMMA RowWritten ==
  ASSUME DataOK, NEW i \in DOMAIN users, NEW row \in Row,
         users' = [users EXCEPT ![i] = row],
         sessions' = IF row.name = users[i].name THEN sessions
                     ELSE {r \in sessions : r.user # users[i].name},
         \A j \in DOMAIN users \ {i} : users[j].name # row.name,
         row.assigned = row.role \/ (/\ row.assigned = users[i].assigned
                                     /\ row.role = users[i].role
                                     /\ row.name = users[i].name),
         ActiveAdmin(i) /\ ~(row.enabled /\ EffectiveRole(row) = "admin")
            => \E j \in DOMAIN users \ {i} : ActiveAdmin(j),
         ~row.enabled => \A r \in sessions : r.account # i
  PROVE  DataOK'
<1>1. /\ users' \in Seq(Row) /\ Len(users') = Len(users) /\ DOMAIN users' = DOMAIN users
      /\ users'[i] = row /\ \A j \in DOMAIN users \ {i} : users'[j] = users[j]
  BY RowReplaced DEF DataOK
<1>2. sessions' \subseteq sessions
  OBVIOUS
<1>3. NamesUnique'
  BY <1>1 DEF DataOK, NamesUnique
<1>4. \E k \in DOMAIN users' : ActiveAdmin(k)'
  <2>0. users # << >>
    OBVIOUS
  <2>1. PICK k \in DOMAIN users : ActiveAdmin(k)
    BY <2>0 DEF DataOK
  <2>2. CASE k # i
    BY <1>1, <2>1, <2>2 DEF ActiveAdmin
  <2>3. CASE k = i /\ row.enabled /\ EffectiveRole(row) = "admin"
    BY <1>1, <2>3 DEF ActiveAdmin
  <2>4. CASE k = i /\ ~(row.enabled /\ EffectiveRole(row) = "admin")
    <3>1. PICK j \in DOMAIN users \ {i} : ActiveAdmin(j)
      BY <2>1, <2>4
    <3> QED BY <1>1, <3>1 DEF ActiveAdmin
  <2> QED BY <2>2, <2>3, <2>4
<1>5. RolesAgree'
  <2> SUFFICES ASSUME NEW j \in DOMAIN users,
                      users'[j].assigned # None, users'[j].role \in Roles
               PROVE  \/ users'[j].role = users'[j].assigned
                      \/ users'[j].name = Admin /\ users'[j].role = "admin"
    BY <1>1 DEF RolesAgree
  <2>0. users[j].assigned # None /\ users[j].role \in Roles =>
            \/ users[j].role = users[j].assigned
            \/ users[j].name = Admin /\ users[j].role = "admin"
    BY DEF DataOK, RolesAgree
  <2>1. CASE j = i
    <3>1. CASE row.assigned = row.role
      BY <1>1, <2>1, <3>1
    <3>2. CASE /\ row.assigned = users[i].assigned /\ row.role = users[i].role
               /\ row.name = users[i].name
      BY <1>1, <2>0, <2>1, <3>2
    <3> QED BY <3>1, <3>2
  <2>2. CASE j # i
    BY <1>1, <2>0, <2>2
  <2> QED BY <2>1, <2>2
<1>6. ASSUME NEW s \in sessions', s.account # 0
      PROVE  /\ s.account \in DOMAIN users' /\ users'[s.account].enabled
             /\ users'[s.account].name = s.user
  <2>1. /\ s \in sessions /\ s.account \in DOMAIN users /\ users[s.account].enabled
        /\ users[s.account].name = s.user
    BY <1>2, <1>6 DEF DataOK, DisabledHoldNoSession, SessionsNameAccounts
  <2>2. CASE s.account # i
    BY <1>1, <2>1, <2>2
  <2>3. CASE s.account = i
    <3>1. row.enabled
      BY <2>1, <2>3 DEF Row
    <3>2. row.name = users[i].name
      BY <2>1, <2>3
    <3> QED BY <1>1, <2>1, <2>3, <3>1, <3>2
  <2> QED BY <2>2, <2>3
<1>7. /\ \A s \in sessions' : s.account # 0 => s.account \in DOMAIN users'
      /\ DisabledHoldNoSession' /\ SessionsNameAccounts'
  BY <1>6 DEF DisabledHoldNoSession, SessionsNameAccounts
<1>8. sessions' \subseteq Session /\ Len(users') <= MaxUsers
  BY <1>1, <1>2 DEF DataOK
<1> QED BY <1>1, <1>3, <1>4, <1>5, <1>7, <1>8 DEF DataOK

(* Fewer sessions harm nobody. *)
LEMMA SessionsRemoved ==
  ASSUME DataOK, UNCHANGED users, sessions' \subseteq sessions
  PROVE  DataOK'
<1>1. NamesUnique' /\ RolesAgree' /\ (users' # << >> => \E i \in DOMAIN users' : ActiveAdmin(i)')
  BY DEF DataOK, NamesUnique, RolesAgree, ActiveAdmin
<1>2. /\ \A s \in sessions' : s.account # 0 => s.account \in DOMAIN users'
      /\ DisabledHoldNoSession' /\ SessionsNameAccounts'
  BY DEF DataOK, DisabledHoldNoSession, SessionsNameAccounts
<1> QED BY <1>1, <1>2 DEF DataOK

LEMMA StatementSafe ==
  ASSUME DataOK, NEW s \in Statement, Justified(s), Unique(s), Room(UsersAfter(s)),
         users' = UsersAfter(s), sessions' = SessionsAfter(s)
  PROVE  DataOK' /\ SwitchedOffWithout
<1>0. users \in Seq(Row)
  BY DEF DataOK
<1>1. CASE s.st = "create"
  <2> DEFINE row == [name |-> s.name, role |-> s.role, assigned |-> s.role,
                     enabled |-> s.enabled]
  <2>1. row \in Row /\ row.assigned = row.role /\ row.name = s.name
    BY <1>1, StatementFields DEF Row
  <2>2. users' = Append(users, row) /\ sessions' = sessions
    BY <1>1 DEF UsersAfter, SessionsAfter
  <2>3. users # << >> /\ \A i \in DOMAIN users : users[i].name # row.name
    BY <1>1, <2>1 DEF Justified, Unique
  <2> HIDE DEF row
  <2>4. Len(users') <= MaxUsers
    BY <1>0, <2>1, <2>2, RoomBound, RowAppended
  <2>5. NobodySwitchedOff
    BY <1>0, <2>1, <2>2, RowAppended DEF NobodySwitchedOff
  <2> QED BY <2>1, <2>2, <2>3, <2>4, <2>5, Appended DEF NobodySwitchedOff, SwitchedOffWithout
<1>2. CASE s.st = "update"
  <2> DEFINE row == [name |-> s.name, role |-> s.role, assigned |-> s.role,
                     enabled |-> s.enabled]
  <2>0. s.id \in DOMAIN users /\ users[s.id] \in Row
    BY <1>0, <1>2 DEF Justified
  <2>1. row \in Row /\ row.assigned = row.role /\ row.name = s.name
        /\ row.enabled = s.enabled /\ row.role = s.role /\ row.assigned = s.role
    BY <1>2, StatementFields DEF Row
  <2>2. users' = [users EXCEPT ![s.id] = row]
    <3>1. users' = [users EXCEPT ![s.id].name = s.name, ![s.id].role = s.role,
                          ![s.id].assigned = s.role, ![s.id].enabled = s.enabled]
      BY <1>2 DEF UsersAfter
    <3> QED BY <1>0, <2>0, <3>1 DEF Row
  <2>3. sessions' = IF row.name = users[s.id].name THEN sessions
                    ELSE {r \in sessions : r.user # users[s.id].name}
    BY <1>2, <2>1 DEF SessionsAfter
  <2>4. \A j \in DOMAIN users \ {s.id} : users[j].name # row.name
    BY <1>2, <2>1 DEF Unique
  <2>5. row.assigned # None
    BY <1>2, <2>1, StatementFields, ConstantsAssumption
  <2>6. ActiveAdmin(s.id) /\ ~(row.enabled /\ EffectiveRole(row) = "admin")
            => \E j \in DOMAIN users \ {s.id} : ActiveAdmin(j)
    BY <1>2, <2>1, <2>5 DEF Justified, EffectiveRole
  <2>7. ~row.enabled => \A r \in sessions : r.account # s.id
    BY <1>2, <2>1 DEF Justified
  <2> HIDE DEF row
  <2>8. SwitchedOffWithout
    <3>1. /\ users'[s.id] = row /\ \A j \in DOMAIN users \ {s.id} : users'[j] = users[j]
          /\ sessions' \subseteq sessions
      BY <1>0, <2>0, <2>1, <2>2, <2>3, RowReplaced
    <3>2. users[s.id].enabled /\ ~row.enabled => \A r \in sessions : r.user # users[s.id].name
      BY <1>2, <2>1 DEF Justified
    <3> QED BY <3>1, <3>2 DEF SwitchedOffWithout
  <2> QED BY <2>0, <2>1, <2>2, <2>3, <2>4, <2>6, <2>7, <2>8, RowWritten
<1>3. CASE s.st = "enable"
  <2>0. s.id \in DOMAIN users /\ users[s.id] \in Row
    BY <1>0, <1>3 DEF Justified
  <2> DEFINE u == users[s.id]
             row == [name |-> u.name, role |-> u.role, assigned |-> u.assigned,
                     enabled |-> s.enabled]
  <2>1. row \in Row /\ row.name = u.name /\ row.role = u.role
        /\ row.assigned = u.assigned /\ row.enabled = s.enabled
    BY <1>3, <2>0, StatementFields DEF Row
  <2>2. users' = [users EXCEPT ![s.id] = row] /\ sessions' = sessions
    <3>1. users' = [users EXCEPT ![s.id].enabled = s.enabled] /\ sessions' = sessions
      BY <1>3 DEF UsersAfter, SessionsAfter
    <3>2. [users[s.id] EXCEPT !.enabled = s.enabled] = row
      BY <2>0 DEF Row
    <3> HIDE DEF row
    <3>3. [users EXCEPT ![s.id].enabled = s.enabled] = [users EXCEPT ![s.id] = row]
      BY <1>0, <2>0, <3>2
    <3> QED BY <3>1, <3>3
  <2>4. \A j \in DOMAIN users \ {s.id} : users[j].name # row.name
    BY <2>0, <2>1 DEF DataOK, NamesUnique
  <2>6. ActiveAdmin(s.id) /\ ~(row.enabled /\ EffectiveRole(row) = "admin")
            => \E j \in DOMAIN users \ {s.id} : ActiveAdmin(j)
    BY <1>3, <2>1 DEF Justified, EffectiveRole, ActiveAdmin
  <2>7. ~row.enabled => \A r \in sessions : r.account # s.id
    BY <1>3, <2>1 DEF Justified
  <2> HIDE DEF row
  <2>8. SwitchedOffWithout
    <3>1. /\ users'[s.id] = row /\ \A j \in DOMAIN users \ {s.id} : users'[j] = users[j]
          /\ sessions' \subseteq sessions
      BY <1>0, <2>0, <2>1, <2>2, RowReplaced
    <3>2. users[s.id].enabled /\ ~row.enabled => \A r \in sessions : r.user # users[s.id].name
      BY <1>3, <2>1 DEF Justified
    <3> QED BY <3>1, <3>2 DEF SwitchedOffWithout
  <2> QED BY <2>0, <2>1, <2>2, <2>4, <2>6, <2>7, <2>8, RowWritten
<1>4. CASE s.st \in {"credential", "revoke"}
  <2>1. users' = users /\ sessions' \subseteq sessions
    BY <1>4 DEF UsersAfter, SessionsAfter
  <2> QED BY <2>1, SessionsRemoved DEF SwitchedOffWithout
<1> QED BY <1>1, <1>2, <1>3, <1>4, StatementFields

-----------------------------------------------------------------------------
(* Names and processes *)

LEMMA SmallestNumber ==
  ASSUME NEW T, T \subseteq Nat, T # {}
  PROVE  \E x \in T : \A y \in T : x <= y
<1> DEFINE R == {p \in Nat \X Nat : p[1] < p[2]}
<1>1. OpToRel(<, Nat) = R
  BY DEF OpToRel
<1>2. IsWellFoundedOn(R, Nat)
  BY <1>1, NatLessThanWellFounded, Zenon
<1>3. PICK x \in T : \A y \in T : ~(<<y, x>> \in R)
  <2> HIDE DEF R
  <2> QED BY <1>2, WFMin
<1>4. \A y \in T : <<y, x>> \in Nat \X Nat /\ <<y, x>>[1] = y /\ <<y, x>>[2] = x
  OBVIOUS
<1>5. \A y \in T : ~(y < x)
  BY <1>3, <1>4
<1> QED BY <1>5

(* A query by name returns the oldest account of that name, or none. *)
LEMMA Found ==
  ASSUME users \in Seq(Row), NEW n, FindByUsername(n) # 0
  PROVE  /\ FindByUsername(n) \in DOMAIN users
         /\ SameName(users[FindByUsername(n)].name, n)
         /\ \A j \in DOMAIN users : SameName(users[j].name, n) => FindByUsername(n) <= j
<1>1. Matching(n) # {} /\ Matching(n) \subseteq Nat
  BY DEF FindByUsername, Matching
<1>2. \E i \in Matching(n) : \A j \in Matching(n) : i <= j
  BY <1>1, SmallestNumber
<1>3. FindByUsername(n) = CHOOSE i \in Matching(n) : \A j \in Matching(n) : i <= j
  BY <1>1 DEF FindByUsername
<1>4. /\ FindByUsername(n) \in Matching(n)
      /\ \A j \in Matching(n) : FindByUsername(n) <= j
  BY <1>2, <1>3
<1> QED BY <1>4 DEF Matching

LEMMA OthersClosed ==
  ASSUME ProcOK, NEW c \in Clients, proc[c].at # "closed"
  PROVE  \A d \in Clients \ {c} : proc[d].at = "closed"
BY DEF ProcOK, OneProcess

(* A step of the one client that runs. *)
LEMMA ProcessStep ==
  ASSUME ProcOK, NEW c \in Clients, NEW p \in Process,
         \A d \in Clients \ {c} : proc[d].at = "closed",
         proc' = [proc EXCEPT ![c] = p],
         remembered' \in [Clients -> Tokens \cup {None}],
         p.todo # << >> =>
            /\ p.at \in {"management", "password"} /\ Len(p.todo) = 1
            /\ Justified(Head(p.todo))',
         p.at \in {"clearing", "inserting", "saving"} =>
            /\ p.user \in Names
            /\ FoundEnabled(p.user)'
  PROVE  ProcOK'
<1>1. proc' \in [Clients -> Process] /\ proc'[c] = p /\ \A d \in Clients \ {c} : proc'[d] = proc[d]
  BY DEF ProcOK
<1>2. OneProcess'
  BY <1>1 DEF OneProcess
<1>3. ASSUME NEW d \in Clients \ {c}
      PROVE  proc'[d].todo = << >> /\ proc'[d].at = "closed"
  BY <1>1, <1>3 DEF ProcOK, Pending
<1>4. \A d \in Clients : Pending(d)'
  <2>1. Pending(c)'
    BY <1>1 DEF Pending
  <2>2. \A d \in Clients \ {c} : Pending(d)'
    BY <1>3 DEF Pending
  <2> QED BY <2>1, <2>2
<1>5. \A d \in Clients : SigningIn(d)'
  <2>1. SigningIn(c)'
    BY <1>1 DEF SigningIn, FoundEnabled, SameName
  <2>2. \A d \in Clients \ {c} : SigningIn(d)'
    BY <1>3 DEF SigningIn
  <2> QED BY <2>1, <2>2
<1> QED BY <1>1, <1>2, <1>4, <1>5 DEF ProcOK

LEMMA ProcessFields ==
  ASSUME proc \in [Clients -> Process], NEW c \in Clients
  PROVE  /\ proc[c] \in Process
         /\ proc[c] = [at |-> proc[c].at, user |-> proc[c].user, token |-> proc[c].token,
                       canManage |-> proc[c].canManage, todo |-> proc[c].todo]
         /\ proc[c].at \in {"closed", "started", "login", "clearing", "inserting", "saving",
                            "window", "management", "password"}
         /\ proc[c].user \in Names \cup {None} /\ proc[c].token \in Tokens \cup {None}
         /\ proc[c].canManage \in BOOLEAN /\ proc[c].todo \in Seq(Statement)
<1>1. proc[c] \in Process
  OBVIOUS
<1> QED BY <1>1 DEF Process

-----------------------------------------------------------------------------
(* Operations of the user management *)

LEMMA ProcessMoved ==
  ASSUME NEW q \in Process, NEW next, NEW rest,
         NEW r, r = [q EXCEPT !.todo = rest, !.at = next]
  PROVE  r = [at |-> next, user |-> q.user, token |-> q.token,
              canManage |-> q.canManage, todo |-> rest]
BY DEF Process

LEMMA RunKeeps ==
  ASSUME IInv, NEW c \in Clients, proc[c].at \in {"management", "password"},
         NEW ss \in Seq(Statement), ss # << >>, Justified(Head(ss)), Run(c, ss),
         Tail(ss) # << >> => Len(Tail(ss)) = 1 /\ Justified(Head(Tail(ss)))'
  PROVE  Kept
<1>1. Head(ss) \in Statement /\ Tail(ss) \in Seq(Statement)
  OBVIOUS
<1>2. DataOK' /\ SwitchedOffWithout
  BY <1>1, StatementSafe DEF IInv, Run
<1> DEFINE at == IF proc[c].at = "password" /\ Tail(ss) = << >> THEN "window" ELSE proc[c].at
           p == [at |-> at, user |-> proc[c].user, token |-> proc[c].token,
                 canManage |-> proc[c].canManage, todo |-> Tail(ss)]
<1>3. proc \in [Clients -> Process]
  BY DEF IInv, ProcOK
<1>4. p \in Process
  <2>1. at \in {"window", "management", "password"}
    OBVIOUS
  <2> HIDE DEF at
  <2> QED BY <1>1, <1>3, <2>1, ProcessFields DEF Process
<1>5. proc' = [proc EXCEPT ![c] = p]
  <2>1. proc' = [proc EXCEPT ![c].todo = Tail(ss), ![c].at = at]
    BY <1>3 DEF Run
  <2>2. [proc EXCEPT ![c].todo = Tail(ss), ![c].at = at]
          = [proc EXCEPT ![c] = [proc[c] EXCEPT !.todo = Tail(ss), !.at = at]]
    <3> HIDE DEF at, p
    <3> QED BY <1>3
  <2>3. proc[c] \in Process
    BY <1>3
  <2>4. [proc[c] EXCEPT !.todo = Tail(ss), !.at = at] = p
    <3> HIDE DEF at
    <3> QED BY <2>3, ProcessMoved
  <2> QED BY <2>1, <2>2, <2>4
<1>6. remembered' \in [Clients -> Tokens \cup {None}]
  BY DEF IInv, ProcOK, Run
<1>7. p.todo = Tail(ss) /\ (Tail(ss) # << >> => p.at \in {"management", "password"})
      /\ p.at \notin {"clearing", "inserting", "saving"}
  OBVIOUS
<1>8. \A d \in Clients \ {c} : proc[d].at = "closed"
  BY OthersClosed DEF IInv
<1> HIDE DEF p
<1>9. ProcOK'
  BY <1>4, <1>5, <1>6, <1>7, <1>8, ProcessStep DEF IInv
<1> QED BY <1>2, <1>9 DEF IInv, Kept

LEMMA OneStatement ==
  ASSUME IInv, NEW c \in Clients, proc[c].at \in {"management", "password"},
         NEW s \in Statement, Justified(s), Run(c, <<s>>)
  PROVE  Kept
<1>1. <<s>> \in Seq(Statement) /\ <<s>> # << >> /\ Head(<<s>>) = s /\ Tail(<<s>>) = << >>
  BY Singleton
<1> QED BY <1>1, RunKeeps

LEMMA TwoStatements ==
  ASSUME IInv, NEW c \in Clients, proc[c].at \in {"management", "password"},
         NEW r \in Statement, NEW s \in Statement, Justified(r), Run(c, <<r, s>>),
         Justified(s)'
  PROVE  Kept
<1>1. /\ <<r, s>> \in Seq(Statement) /\ <<r, s>> # << >> /\ Head(<<r, s>>) = r
      /\ Tail(<<r, s>>) = <<s>>
  OBVIOUS
<1>2. <<s>> # << >> /\ Len(<<s>>) = 1 /\ Head(<<s>>) = s
  BY Singleton
<1> QED BY <1>1, <1>2, RunKeeps

LEMMA Revoked ==
  ASSUME NEW n \in Names
  PROVE  Revoke(n) \in Statement /\ Justified(Revoke(n)) /\ Revoke(n).st = "revoke"
         /\ Revoke(n).user = n /\ Revoke(n).keep = None
BY DEF Revoke, Statement, Justified

(* Switching an account off: its sessions went before, or it was off.       *)
LEMMA SwitchedOff ==
  ASSUME IInv, NEW c \in Clients, proc[c].at \in {"management", "password"},
         NEW i \in DOMAIN users,
         NEW s \in Statement, s.st \in {"update", "enable"}, s.id = i,
         ActiveAdmin(i) /\ (~s.enabled \/ (s.st = "update" /\ s.role # "admin"))
            => \E j \in DOMAIN users \ {i} : ActiveAdmin(j),
         Run(c, RevocationFirst(i, s.enabled) \o <<s>>)
  PROVE  Kept
<1>0. users[i].name \in Names
  <2>1. users[i] \in Row
    BY DEF IInv, DataOK
  <2> QED BY <2>1 DEF Row
<1>1. CASE users[i].enabled /\ ~s.enabled
  <2> DEFINE r == Revoke(users[i].name)
  <2>1. RevocationFirst(i, s.enabled) \o <<s>> = <<r, s>>
    BY <1>1, Pair DEF RevocationFirst
  <2>2. /\ r \in Statement /\ Justified(r) /\ r.st = "revoke"
        /\ r.user = users[i].name /\ r.keep = None
    BY <1>0, Revoked
  <2> HIDE DEF r
  <2>3. Run(c, <<r, s>>)
    BY <2>1
  <2>a. Head(<<r, s>>) = r
    OBVIOUS
  <2>4. users' = users /\ sessions' = {x \in sessions : x.user # users[i].name}
    <3>1. users' = UsersAfter(r) /\ sessions' = SessionsAfter(r)
      BY <2>3, <2>a DEF Run
    <3> QED BY <2>2, <3>1 DEF UsersAfter, SessionsAfter
  <2>b. /\ \A x \in sessions' : x.user # users'[i].name /\ x.account # i
        /\ \A j \in DOMAIN users : ActiveAdmin(j)' <=> ActiveAdmin(j)
    BY <2>4 DEF ActiveAdmin, IInv, DataOK, SessionsNameAccounts
  <2>5. Justified(s)'
    <3>1. CASE s.st = "update"
      BY <2>4, <2>b, <3>1 DEF Justified
    <3>2. CASE s.st = "enable"
      BY <2>4, <2>b, <3>2 DEF Justified
    <3> QED BY <3>1, <3>2
  <2> QED BY <2>2, <2>3, <2>5, TwoStatements
<1>2. CASE ~(users[i].enabled /\ ~s.enabled)
  <2>1. RevocationFirst(i, s.enabled) \o <<s>> = <<s>>
    <3>1. RevocationFirst(i, s.enabled) = << >>
      BY <1>2 DEF RevocationFirst
    <3>2. << >> \o <<s>> = <<s>>
      <4>1. <<s>> \in Seq({s})
        OBVIOUS
      <4> QED BY <4>1, ConcatEmptySeq
    <3> QED BY <3>1, <3>2
  <2>2. ~s.enabled => \A r \in sessions : r.account # i
    BY <1>2 DEF IInv, DataOK, DisabledHoldNoSession
  <2>3. Justified(s)
    <3>1. CASE s.st = "update"
      BY <1>2, <2>2, <3>1 DEF Justified
    <3>2. CASE s.st = "enable"
      BY <1>2, <2>2, <3>2 DEF Justified
    <3> QED BY <3>1, <3>2
  <2> QED BY <2>1, <2>3, OneStatement
<1> QED BY <1>1, <1>2

LEMMA ManagingAccounts ==
  ASSUME NEW c \in Clients, Managing(c)
  PROVE  proc[c].at = "management" /\ users # << >>
<1>1. proc[c].at = "management" /\ FindByUsername(proc[c].user) # 0
  BY DEF Managing, Can
<1>2. Matching(proc[c].user) # {}
  BY <1>1 DEF FindByUsername
<1> QED BY <1>1, <1>2 DEF Matching

LEMMA RowFields ==
  ASSUME DataOK, NEW i \in DOMAIN users
  PROVE  /\ i \in 1..MaxUsers /\ users[i] \in Row
         /\ users[i].name \in Names /\ users[i].enabled \in BOOLEAN
<1>1. users[i] \in Row /\ i \in 1..Len(users) /\ Len(users) \in Nat /\ Len(users) <= MaxUsers
  BY DEF DataOK
<1>2. users[i].name \in Names /\ users[i].enabled \in BOOLEAN
  BY <1>1 DEF Row
<1> QED BY <1>1, <1>2, ConstantsAssumption

LEMMA CreateUserKeeps ==
  ASSUME IInv, NEW c \in Clients, NEW n \in Names, NEW role \in Offered,
         NEW enabled \in BOOLEAN, CreateUser(c, n, role, enabled)
  PROVE  Kept
<1> DEFINE s == [st |-> "create", name |-> n, role |-> role, enabled |-> enabled]
<1>1. s \in Statement /\ s.st = "create"
  BY ConstantsAssumption DEF Statement
<1>2. proc[c].at = "management" /\ users # << >>
  BY ManagingAccounts DEF CreateUser
<1>3. Run(c, <<s>>)
  BY DEF CreateUser, Begin
<1> HIDE DEF s
<1>4. Justified(s)
  BY <1>1, <1>2 DEF Justified
<1> QED BY <1>1, <1>2, <1>3, <1>4, OneStatement

LEMMA UpdateUserKeeps ==
  ASSUME IInv, NEW c \in Clients, NEW i \in DOMAIN users, NEW n \in Names,
         NEW role \in Offered, NEW enabled \in BOOLEAN, UpdateUser(c, i, n, role, enabled)
  PROVE  Kept
<1> DEFINE s == [st |-> "update", id |-> i, name |-> n, role |-> role, enabled |-> enabled]
<1>1. /\ s \in Statement /\ s.st = "update" /\ s.id = i /\ s.enabled = enabled
      /\ s.role = role
  <2>1. i \in 1..MaxUsers /\ role \in Roles
    BY RowFields, ConstantsAssumption DEF IInv
  <2> QED BY <2>1 DEF Statement
<1>2. proc[c].at = "management"
  BY ManagingAccounts DEF UpdateUser
<1>3. Run(c, RevocationFirst(i, enabled) \o <<s>>)
  BY DEF UpdateUser, Begin
<1>4. ActiveAdmin(i) /\ (~enabled \/ role # "admin")
        => \E j \in DOMAIN users \ {i} : ActiveAdmin(j)
  <2> SUFFICES ASSUME ActiveAdmin(i), ~enabled \/ role # "admin"
               PROVE  \E j \in DOMAIN users \ {i} : ActiveAdmin(j)
    OBVIOUS
  <2>1. EnabledAdminCount > 1
    BY DEF UpdateUser, RemovesActiveAdmin, ActiveAdmin
  <2> QED BY <2>1, AdminCount DEF IInv, DataOK
<1> HIDE DEF s
<1>5. ActiveAdmin(i) /\ (~s.enabled \/ (s.st = "update" /\ s.role # "admin"))
        => \E j \in DOMAIN users \ {i} : ActiveAdmin(j)
  BY <1>1, <1>4
<1>6. Run(c, RevocationFirst(i, s.enabled) \o <<s>>)
  BY <1>1, <1>3
<1> QED BY <1>1, <1>2, <1>5, <1>6, SwitchedOff

LEMMA SetUserEnabledKeeps ==
  ASSUME IInv, NEW c \in Clients, NEW i \in DOMAIN users, NEW enabled \in BOOLEAN,
         SetUserEnabled(c, i, enabled)
  PROVE  Kept
<1> DEFINE s == [st |-> "enable", id |-> i, enabled |-> enabled]
<1>1. s \in Statement /\ s.st = "enable" /\ s.id = i /\ s.enabled = enabled
  <2>1. i \in 1..MaxUsers
    BY RowFields DEF IInv
  <2> QED BY <2>1 DEF Statement
<1>2. proc[c].at = "management"
  BY ManagingAccounts DEF SetUserEnabled
<1>3. Run(c, RevocationFirst(i, enabled) \o <<s>>)
  BY DEF SetUserEnabled, Begin
<1>4. ActiveAdmin(i) /\ ~enabled => \E j \in DOMAIN users \ {i} : ActiveAdmin(j)
  <2> SUFFICES ASSUME ActiveAdmin(i), ~enabled
               PROVE  \E j \in DOMAIN users \ {i} : ActiveAdmin(j)
    OBVIOUS
  <2>1. EnabledAdminCount > 1
    BY DEF SetUserEnabled, ActiveAdmin
  <2> QED BY <2>1, AdminCount DEF IInv, DataOK
<1> HIDE DEF s
<1>5. ActiveAdmin(i) /\ (~s.enabled \/ (s.st = "update" /\ s.role # "admin"))
        => \E j \in DOMAIN users \ {i} : ActiveAdmin(j)
  BY <1>1, <1>4
<1>6. Run(c, RevocationFirst(i, s.enabled) \o <<s>>)
  BY <1>1, <1>3
<1> QED BY <1>1, <1>2, <1>5, <1>6, SwitchedOff

LEMMA SetUserRoleKeeps ==
  ASSUME IInv, NEW c \in Clients, NEW i \in DOMAIN users, NEW role \in Offered,
         SetUserRole(c, i, role)
  PROVE  Kept
<1> DEFINE s == [st |-> "update", id |-> i, name |-> users[i].name, role |-> role,
                 enabled |-> users[i].enabled]
<1>1. /\ s \in Statement /\ s.st = "update" /\ s.id = i /\ s.enabled = users[i].enabled
      /\ s.role = role
  <2>1. i \in 1..MaxUsers /\ role \in Roles /\ users[i].name \in Names
        /\ users[i].enabled \in BOOLEAN
    BY RowFields, ConstantsAssumption DEF IInv
  <2> QED BY <2>1 DEF Statement
<1>2. proc[c].at = "management"
  BY ManagingAccounts DEF SetUserRole
<1>3. Run(c, <<s>>)
  BY DEF SetUserRole, Begin
<1>4. ActiveAdmin(i) /\ (~users[i].enabled \/ role # "admin")
        => \E j \in DOMAIN users \ {i} : ActiveAdmin(j)
  <2> SUFFICES ASSUME ActiveAdmin(i), ~users[i].enabled \/ role # "admin"
               PROVE  \E j \in DOMAIN users \ {i} : ActiveAdmin(j)
    OBVIOUS
  <2>1. EnabledAdminCount > 1
    BY DEF SetUserRole, RemovesActiveAdmin, ActiveAdmin
  <2> QED BY <2>1, AdminCount DEF IInv, DataOK
<1>5. ~users[i].enabled => \A r \in sessions : r.account # i
  BY DEF IInv, DataOK, DisabledHoldNoSession
<1> HIDE DEF s
<1>6. Justified(s)
  BY <1>1, <1>4, <1>5 DEF Justified
<1> QED BY <1>1, <1>2, <1>3, <1>6, OneStatement

LEMMA ResetPasswordKeeps ==
  ASSUME IInv, NEW c \in Clients, NEW i \in DOMAIN users, ResetPassword(c, i)
  PROVE  Kept
<1> DEFINE s == [st |-> "credential", id |-> i]
           r == Revoke(users[i].name)
<1>0. i \in 1..MaxUsers /\ users[i].name \in Names
  BY RowFields DEF IInv
<1>1. s \in Statement /\ Justified(s) /\ r \in Statement /\ r.st = "revoke"
  BY <1>0, Revoked DEF Statement, Justified
<1>2. proc[c].at = "management"
  BY ManagingAccounts DEF ResetPassword
<1>3. Run(c, <<s, r>>)
  BY DEF ResetPassword, Begin
<1> HIDE DEF s, r
<1>4. PICK t \in Statement : t = r
  BY <1>1
<1>5. Run(c, <<s, t>>) /\ Justified(t)'
  BY <1>1, <1>3, <1>4 DEF Justified
<1> QED BY <1>1, <1>2, <1>4, <1>5, TwoStatements

LEMMA ChangeOwnPasswordKeeps ==
  ASSUME IInv, NEW c \in Clients, ChangeOwnPassword(c)
  PROVE  Kept
<1> DEFINE i == FindByUsername(proc[c].user)
           s == [st |-> "credential", id |-> i]
           r == [st |-> "revoke", user |-> users[i].name, keep |-> remembered[c]]
<1>0. i \in DOMAIN users
  <2>1. i # 0 /\ users \in Seq(Row)
    BY DEF ChangeOwnPassword, IInv, DataOK
  <2> QED BY <2>1, Found
<1>1. proc[c].at \in {"management", "password"} /\ Run(c, <<s, r>>)
  BY DEF ChangeOwnPassword, Begin
<1> HIDE DEF i
<1>2. i \in 1..MaxUsers /\ users[i].name \in Names /\ remembered[c] \in Tokens \cup {None}
  BY <1>0, RowFields DEF IInv, ProcOK
<1>3. s \in Statement /\ Justified(s) /\ r \in Statement /\ r.st = "revoke"
  BY <1>2 DEF Statement, Justified
<1> HIDE DEF s, r
<1>4. PICK t \in Statement : t = r
  BY <1>3
<1>5. Run(c, <<s, t>>) /\ Justified(t)'
  BY <1>1, <1>3, <1>4 DEF Justified
<1> QED BY <1>1, <1>3, <1>4, <1>5, TwoStatements

LEMMA ExecuteKeeps ==
  ASSUME IInv, NEW c \in Clients, Execute(c)
  PROVE  Kept
<1>1. proc[c].todo # << >> /\ Run(c, proc[c].todo)
  BY DEF Execute
<1>2. proc[c].todo \in Seq(Statement)
  BY ProcessFields DEF IInv, ProcOK
<1>3. /\ proc[c].at \in {"management", "password"} /\ Len(proc[c].todo) = 1
      /\ Justified(Head(proc[c].todo))
  BY <1>1 DEF IInv, ProcOK, Pending
<1> DEFINE s == Head(proc[c].todo)
<1>4. s \in Statement /\ proc[c].todo = <<s>>
  <2>1. s \in Statement
    BY <1>1, <1>2
  <2>2. <<s>> \in Seq(Statement) /\ Len(<<s>>) = 1 /\ <<s>>[1] = proc[c].todo[1]
    BY <2>1, <1>1, <1>2
  <2>3. \A k \in 1..Len(proc[c].todo) : proc[c].todo[k] = <<s>>[k]
    BY <1>3, <2>2
  <2> HIDE DEF s
  <2> QED BY <1>2, <1>3, <2>1, <2>2, <2>3, SeqEqual
<1>5. Run(c, <<s>>)
  BY <1>1, <1>4
<1>6. Justified(s)
  BY <1>3
<1> HIDE DEF s
<1> QED BY <1>3, <1>4, <1>5, <1>6, OneStatement

-----------------------------------------------------------------------------
(* Start-up, sign-in and the windows *)

LEMMA WindowProcess ==
  ASSUME NEW n \in Names
  PROVE  /\ Window(n) \in Process /\ Window(n).todo = << >>
         /\ Window(n).at \notin {"clearing", "inserting", "saving"}
<1>1. Closed \in Process /\ Closed.todo = << >>
  <2>1. << >> \in Seq(Statement)
    OBVIOUS
  <2> QED BY <2>1 DEF Closed, Process
<1>2. HasPermission(RoleForUser(n), "manage_users") \in BOOLEAN
  BY DEF HasPermission
<1>3. ASSUME NEW q \in Process, q.todo = << >>, NEW b \in BOOLEAN,
             NEW w, w = [q EXCEPT !.at = "window", !.user = n, !.canManage = b]
      PROVE  w \in Process /\ w.todo = << >> /\ w.at = "window"
  BY <1>3 DEF Process
<1>4. PICK w : w = Window(n)
  OBVIOUS
<1>5. w \in Process /\ w.todo = << >> /\ w.at = "window"
  BY <1>1, <1>2, <1>3, <1>4 DEF Window
<1> QED BY <1>4, <1>5

(* A process that only moves on. *)
LEMMA ProcessAt ==
  ASSUME proc \in [Clients -> Process], NEW c \in Clients,
         NEW at \in {"started", "login", "inserting", "window", "management", "password"},
         NEW p, p = [proc[c] EXCEPT !.at = at]
  PROVE  p \in Process /\ p.at = at /\ p.todo = proc[c].todo /\ p.user = proc[c].user
<1>1. proc[c] \in Process
  OBVIOUS
<1> QED BY <1>1 DEF Process

LEMMA NothingPending ==
  ASSUME ProcOK, NEW c \in Clients, proc[c].at \notin {"management", "password"}
  PROVE  proc[c].todo = << >>
BY DEF ProcOK, Pending

LEMMA StartKeeps ==
  ASSUME IInv, NEW c \in Clients, Start(c)
  PROVE  IInv'
<1>1. DataOK' /\ NobodySwitchedOff
  BY DefaultUserKeepsData DEF IInv, Start
<1>2. proc[c] = Closed /\ \A d \in Clients \ {c} : proc[d].at = "closed"
  <2>1. \A d \in Clients : proc[d] = Closed
    BY DEF Start
  <2>2. Closed.at = "closed"
    BY DEF Closed
  <2> QED BY <2>1, <2>2
<1>3. PICK p : p = [proc[c] EXCEPT !.at = "started"]
  OBVIOUS
<1>4. p \in Process /\ p.at = "started" /\ p.todo = << >>
  <2>1. p \in Process /\ p.at = "started" /\ p.todo = proc[c].todo
    BY <1>3, ProcessAt DEF IInv, ProcOK
  <2>2. proc[c].todo = << >>
    BY <1>2 DEF Closed
  <2> QED BY <2>1, <2>2
<1>5. proc' = [proc EXCEPT ![c] = p]
  BY <1>3 DEF Start
<1>6. remembered' \in [Clients -> Tokens \cup {None}]
  BY DEF Start, IInv, ProcOK
<1> QED BY <1>1, <1>2, <1>4, <1>5, <1>6, ProcessStep DEF IInv

(* The user of a window is the one a session names or the one who signed in. *)
LEMMA WindowOpens ==
  ASSUME IInv, NEW c \in Clients, proc[c].at # "closed", NEW n \in Names,
         proc' = [proc EXCEPT ![c] = Window(n)],
         remembered' \in [Clients -> Tokens \cup {None}], DataOK'
  PROVE  IInv'
<1>1. \A d \in Clients \ {c} : proc[d].at = "closed"
  BY OthersClosed DEF IInv
<1>2. /\ Window(n) \in Process /\ Window(n).todo = << >>
      /\ Window(n).at \notin {"clearing", "inserting", "saving"}
  BY WindowProcess
<1>3. PICK p \in Process : p = Window(n)
  BY <1>2
<1>4. proc' = [proc EXCEPT ![c] = p]
  BY <1>3
<1> QED BY <1>1, <1>2, <1>3, <1>4, ProcessStep DEF IInv

LEMMA RestoreSessionKeeps ==
  ASSUME IInv, NEW c \in Clients, RestoreSession(c)
  PROVE  IInv'
<1>1. PICK r \in sessions : proc' = [proc EXCEPT ![c] = Window(r.user)]
  BY DEF RestoreSession
<1>2. r.user \in Names
  BY DEF IInv, DataOK, Session
<1>3. DataOK' /\ remembered' \in [Clients -> Tokens \cup {None}] /\ proc[c].at # "closed"
  <2>1. UNCHANGED <<users, sessions, remembered>> /\ proc[c].at = "started"
    BY DEF RestoreSession
  <2> QED BY <2>1, SessionsRemoved DEF IInv, ProcOK
<1> QED BY <1>1, <1>2, <1>3, WindowOpens

LEMMA AskForPasswordKeeps ==
  ASSUME IInv, NEW c \in Clients, AskForPassword(c)
  PROVE  IInv'
<1>1. proc[c].at = "started" /\ \A d \in Clients \ {c} : proc[d].at = "closed"
  BY OthersClosed DEF AskForPassword, IInv
<1>2. DataOK'
  BY SessionsRemoved DEF AskForPassword, IInv
<1>3. PICK p : p = [proc[c] EXCEPT !.at = "login"]
  OBVIOUS
<1>4. p \in Process /\ p.at = "login" /\ p.todo = << >>
  BY <1>1, <1>3, ProcessAt, NothingPending DEF IInv, ProcOK
<1>5. proc' = [proc EXCEPT ![c] = p]
  BY <1>3 DEF AskForPassword
<1>6. remembered' \in [Clients -> Tokens \cup {None}]
  BY DEF AskForPassword, IInv, ProcOK
<1> QED BY <1>1, <1>2, <1>4, <1>5, <1>6, ProcessStep DEF IInv

LEMMA LoginKeeps ==
  ASSUME IInv, NEW c \in Clients, NEW n \in Names, NEW keep \in BOOLEAN, Login(c, n, keep)
  PROVE  IInv'
<1>1. proc[c].at = "login" /\ \A d \in Clients \ {c} : proc[d].at = "closed"
  BY OthersClosed DEF Login, IInv
<1>2. PICK i \in DOMAIN users :
        /\ users[i].enabled /\ SameName(users[i].name, n)
        /\ \A j \in DOMAIN users : SameName(users[j].name, n) => i <= j
  BY Found DEF Login, IInv, DataOK
<1>3. CASE keep
  <2>0. /\ users' = Seeded(users) /\ UNCHANGED <<sessions, remembered>>
        /\ proc' = [proc EXCEPT ![c].at = "clearing", ![c].user = n]
    BY <1>3 DEF Login
  <2>1. /\ DataOK' /\ DOMAIN users' = DOMAIN users
        /\ \A j \in DOMAIN users : users'[j].name = users[j].name
                                   /\ users'[j].enabled = users[j].enabled
    BY <2>0, <1>2, SeedingKeepsData DEF Seeding, IInv
  <2>2. PICK p : p = [proc[c] EXCEPT !.at = "clearing", !.user = n]
    OBVIOUS
  <2>3. p \in Process /\ p.at = "clearing" /\ p.user = n /\ p.todo = proc[c].todo
    <3>1. proc[c] \in Process
      BY DEF IInv, ProcOK
    <3> QED BY <2>2, <3>1 DEF Process
  <2>4. proc[c].todo = << >>
    BY <1>1, NothingPending DEF IInv
  <2>5. proc' = [proc EXCEPT ![c] = p]
    BY <2>0, <2>2 DEF IInv, ProcOK
  <2>6. FoundEnabled(p.user)'
    BY <1>2, <2>1, <2>3 DEF FoundEnabled, SameName
  <2>7. remembered' \in [Clients -> Tokens \cup {None}]
    BY <2>0 DEF IInv, ProcOK
  <2> QED BY <1>1, <2>1, <2>3, <2>4, <2>5, <2>6, <2>7, ProcessStep DEF IInv
<1>4. CASE ~keep
  <2>0. /\ users' = Seeded(users) /\ proc' = [proc EXCEPT ![c] = Window(n)]
        /\ sessions' \subseteq sessions /\ remembered' = [remembered EXCEPT ![c] = None]
    BY <1>4 DEF Login
  <2>1. DataOK'
    BY <2>0, SeedingKeepsData DEF Seeding, IInv
  <2>2. remembered' \in [Clients -> Tokens \cup {None}]
    BY <2>0 DEF IInv, ProcOK
  <2> QED BY <1>1, <2>0, <2>1, <2>2, WindowOpens
<1> QED BY <1>3, <1>4

(* A refused sign-in may have seeded the table and nothing else. *)
LEMMA LoginRefusedKeeps ==
  ASSUME IInv, NEW c \in Clients, LoginRefused(c)
  PROVE  IInv'
<1>1. proc[c].at = "login" /\ \A d \in Clients \ {c} : proc[d].at = "closed"
  BY OthersClosed DEF LoginRefused, IInv
<1>2. DataOK'
  BY SeedingKeepsData DEF LoginRefused, IInv
<1>3. /\ proc[c] \in Process /\ proc[c].todo = << >>
      /\ proc' = [proc EXCEPT ![c] = proc[c]]
      /\ remembered' \in [Clients -> Tokens \cup {None}]
  BY <1>1, NothingPending DEF LoginRefused, IInv, ProcOK
<1> QED BY <1>1, <1>2, <1>3, ProcessStep DEF IInv

LEMMA ClearOldSessionsKeeps ==
  ASSUME IInv, NEW c \in Clients, ClearOldSessions(c)
  PROVE  IInv'
<1>1. proc[c].at = "clearing" /\ \A d \in Clients \ {c} : proc[d].at = "closed"
  BY OthersClosed DEF ClearOldSessions, IInv
<1>2. DataOK' /\ UNCHANGED users
  BY SessionsRemoved DEF ClearOldSessions, IInv
<1>3. PICK p : p = [proc[c] EXCEPT !.at = "inserting"]
  OBVIOUS
<1>4. p \in Process /\ p.at = "inserting" /\ p.todo = << >> /\ p.user = proc[c].user
  BY <1>1, <1>3, ProcessAt, NothingPending DEF IInv, ProcOK
<1>5. proc' = [proc EXCEPT ![c] = p] /\ remembered' \in [Clients -> Tokens \cup {None}]
  BY <1>3 DEF ClearOldSessions, IInv, ProcOK
<1>6. p.user \in Names /\ FoundEnabled(p.user)'
  BY <1>1, <1>2, <1>4 DEF IInv, ProcOK, SigningIn, FoundEnabled, SameName
<1> QED BY <1>1, <1>2, <1>4, <1>5, <1>6, ProcessStep DEF IInv

(* The account of a new session is enabled and spelt like it, or it has none. *)
LEMMA SessionAdded ==
  ASSUME DataOK, NEW n \in Names, NEW t \in Tokens, FoundEnabled(n), UNCHANGED users,
         sessions' = sessions \cup {[user |-> n, token |-> t, account |-> AccountSpelt(n)]}
  PROVE  DataOK'
<1>1. PICK k : k = AccountSpelt(n)
  OBVIOUS
<1>2. /\ k \in 0..MaxUsers
      /\ k # 0 => k \in DOMAIN users /\ users[k].enabled /\ users[k].name = n
  <2>1. 0 \in 0..MaxUsers /\ \A m \in 1..MaxUsers : m \in 0..MaxUsers
    BY ConstantsAssumption
  <2>2. CASE k = 0
    BY <2>1, <2>2
  <2>3. CASE k # 0
    <3>1. k = FindByUsername(n) /\ users[k].name = n
      BY <1>1, <2>3 DEF AccountSpelt
    <3>2. /\ k \in DOMAIN users /\ SameName(users[k].name, n)
          /\ \A j \in DOMAIN users : SameName(users[j].name, n) => k <= j
      BY <2>3, <3>1, Found DEF DataOK
    <3>3. PICK i \in DOMAIN users :
            /\ SameName(users[i].name, n) /\ users[i].enabled
            /\ \A j \in DOMAIN users : SameName(users[j].name, n) => i <= j
      BY DEF FoundEnabled
    <3>4. i <= k /\ k <= i
      BY <3>2, <3>3
    <3>5. i = k
      BY <3>2, <3>3, <3>4, RowFields
    <3> QED BY <2>1, <3>1, <3>2, <3>3, <3>5, RowFields
  <2> QED BY <2>2, <2>3
<1> DEFINE new == [user |-> n, token |-> t, account |-> k]
<1>3. new \in Session /\ new.user = n /\ new.account = k
  BY <1>2 DEF Session
<1>4. sessions' = sessions \cup {new}
  BY <1>1
<1> HIDE DEF new
<1>5. NamesUnique' /\ RolesAgree' /\ (users' # << >> => \E j \in DOMAIN users' : ActiveAdmin(j)')
  BY DEF DataOK, NamesUnique, RolesAgree, ActiveAdmin
<1>6. ASSUME NEW s \in sessions', s.account # 0
      PROVE  /\ s.account \in DOMAIN users /\ users[s.account].enabled
             /\ users[s.account].name = s.user
  <2>1. CASE s \in sessions
    BY <1>6, <2>1 DEF DataOK, DisabledHoldNoSession, SessionsNameAccounts
  <2>2. CASE s = new
    BY <1>2, <1>3, <1>6, <2>2
  <2> QED BY <1>4, <2>1, <2>2
<1>7. /\ \A s \in sessions' : s.account # 0 => s.account \in DOMAIN users'
      /\ DisabledHoldNoSession' /\ SessionsNameAccounts'
  BY <1>6 DEF DisabledHoldNoSession, SessionsNameAccounts
<1>8. users' \in Seq(Row) /\ Len(users') <= MaxUsers /\ sessions' \subseteq Session
  BY <1>3, <1>4 DEF DataOK
<1> QED BY <1>5, <1>7, <1>8 DEF DataOK

LEMMA InsertSessionKeeps ==
  ASSUME IInv, NEW c \in Clients, NEW t \in Tokens, InsertSession(c, t)
  PROVE  IInv'
<1>1. proc[c].at = "inserting" /\ \A d \in Clients \ {c} : proc[d].at = "closed"
  BY OthersClosed DEF InsertSession, IInv
<1>2. proc[c].user \in Names /\ FoundEnabled(proc[c].user)
  BY <1>1 DEF IInv, ProcOK, SigningIn
<1>3. DataOK'
  BY <1>2, SessionAdded DEF InsertSession, IInv
<1>4. PICK p : p = [proc[c] EXCEPT !.at = "saving", !.token = t]
  OBVIOUS
<1>5. p \in Process /\ p.at = "saving" /\ p.todo = << >> /\ p.user = proc[c].user
  <2>1. proc[c] \in Process /\ proc[c].todo = << >>
    BY <1>1, NothingPending DEF IInv, ProcOK
  <2> QED BY <2>1, <1>4 DEF Process
<1>6. proc' = [proc EXCEPT ![c] = p]
  BY <1>4 DEF InsertSession, IInv, ProcOK
<1>7. remembered' \in [Clients -> Tokens \cup {None}] /\ UNCHANGED users
  BY DEF InsertSession, IInv, ProcOK
<1>8. p.user \in Names /\ FoundEnabled(p.user)'
  BY <1>2, <1>5, <1>7 DEF FoundEnabled, SameName
<1> QED BY <1>1, <1>3, <1>5, <1>6, <1>7, <1>8, ProcessStep DEF IInv

LEMMA ToWindow ==
  ASSUME IInv, NEW c \in Clients, proc[c].at \in {"clearing", "inserting", "saving"},
         proc' = [proc EXCEPT ![c] = Window(proc[c].user)],
         remembered' \in [Clients -> Tokens \cup {None}], UNCHANGED <<users, sessions>>
  PROVE  IInv'
<1>1. proc[c].user \in Names
  BY DEF IInv, ProcOK, SigningIn
<1>2. DataOK'
  BY SessionsRemoved DEF IInv
<1> QED BY <1>1, <1>2, WindowOpens

LEMMA SaveTokenKeeps ==
  ASSUME IInv, NEW c \in Clients, SaveToken(c) \/ RememberFails(c)
  PROVE  IInv'
<1>1. /\ proc[c].at \in {"clearing", "inserting", "saving"}
      /\ proc' = [proc EXCEPT ![c] = Window(proc[c].user)]
      /\ UNCHANGED <<users, sessions>>
  BY DEF SaveToken, RememberFails
<1>2. remembered' \in [Clients -> Tokens \cup {None}]
  <2>1. proc[c].token \in Tokens \cup {None}
    BY ProcessFields DEF IInv, ProcOK
  <2> QED BY <2>1 DEF IInv, ProcOK, SaveToken, RememberFails
<1> QED BY <1>1, <1>2, ToWindow

LEMMA DialogMoves ==
  ASSUME IInv, NEW c \in Clients, proc[c].at # "closed",
         NEW at \in {"window", "management", "password"}, proc[c].todo = << >>,
         proc' = [proc EXCEPT ![c].at = at], UNCHANGED <<sessions, remembered>>,
         users' \in Seeding
  PROVE  IInv'
<1>1. \A d \in Clients \ {c} : proc[d].at = "closed"
  BY OthersClosed DEF IInv
<1>2. DataOK'
  BY SeedingKeepsData DEF IInv
<1>3. PICK p : p = [proc[c] EXCEPT !.at = at]
  OBVIOUS
<1>4. p \in Process /\ p.at \notin {"clearing", "inserting", "saving"} /\ p.todo = << >>
  BY <1>3, ProcessAt DEF IInv, ProcOK
<1>5. proc' = [proc EXCEPT ![c] = p] /\ remembered' \in [Clients -> Tokens \cup {None}]
  BY <1>3 DEF IInv, ProcOK
<1> QED BY <1>1, <1>2, <1>4, <1>5, ProcessStep DEF IInv

LEMMA DialogsKeep ==
  ASSUME IInv, NEW c \in Clients, OpenManagement(c) \/ OpenPassword(c) \/ CloseDialog(c)
  PROVE  IInv'
<1>1. CASE OpenManagement(c)
  <2>1. proc[c].at = "window" /\ proc[c].todo = << >> /\ users' \in Seeding
    BY <1>1, NothingPending DEF OpenManagement, Seeding, IInv
  <2>2. PICK at \in {"management", "password"} : proc' = [proc EXCEPT ![c].at = at]
    BY <1>1 DEF OpenManagement
  <2> QED BY <1>1, <2>1, <2>2, DialogMoves DEF OpenManagement
<1>2. CASE OpenPassword(c)
  BY <1>2, DialogMoves DEF OpenPassword
<1>3. CASE CloseDialog(c)
  BY <1>3, DialogMoves DEF CloseDialog, Seeding
<1> QED BY <1>1, <1>2, <1>3

LEMMA FailKeeps ==
  ASSUME IInv, NEW c \in Clients, Fail(c)
  PROVE  IInv'
<1>1. proc[c].at \in {"management", "password"}
  BY DEF Fail, IInv, ProcOK, Pending
<1>2. \A d \in Clients \ {c} : proc[d].at = "closed"
  BY <1>1, OthersClosed DEF IInv
<1>3. PICK p : p = [proc[c] EXCEPT !.todo = << >>]
  OBVIOUS
<1>4. p \in Process /\ p.at = proc[c].at /\ p.todo = << >>
  <2>1. proc[c] \in Process /\ << >> \in Seq(Statement)
    BY DEF IInv, ProcOK
  <2> QED BY <1>3, <2>1 DEF Process
<1>5. proc' = [proc EXCEPT ![c] = p] /\ remembered' \in [Clients -> Tokens \cup {None}]
  BY <1>3 DEF Fail, IInv, ProcOK
<1>6. DataOK'
  BY SessionsRemoved DEF Fail, IInv
<1> QED BY <1>1, <1>2, <1>4, <1>5, <1>6, ProcessStep DEF IInv

LEMMA ExitKeeps ==
  ASSUME IInv, NEW c \in Clients, Exit(c)
  PROVE  IInv'
<1>1. \A d \in Clients \ {c} : proc[d].at = "closed"
  BY OthersClosed DEF Exit, IInv
<1>2. Closed \in Process /\ Closed.at = "closed" /\ Closed.todo = << >>
  <2>1. << >> \in Seq(Statement)
    OBVIOUS
  <2> QED BY <2>1 DEF Closed, Process
<1>3. PICK p \in Process : p = Closed
  BY <1>2
<1>4. proc' = [proc EXCEPT ![c] = p] /\ remembered' \in [Clients -> Tokens \cup {None}]
  BY <1>3 DEF Exit, IInv, ProcOK
<1>5. DataOK'
  BY SessionsRemoved DEF Exit, IInv
<1> QED BY <1>1, <1>2, <1>3, <1>4, <1>5, ProcessStep DEF IInv

(* An expired session is forgotten under a running operation too. *)
LEMMA ExpireKeeps ==
  ASSUME IInv, NEW s \in sessions, Expire(s)
  PROVE  IInv'
<1>1. DataOK'
  BY SessionsRemoved DEF Expire, IInv
<1>2. UNCHANGED <<users, remembered, proc>> /\ sessions' \subseteq sessions
  BY DEF Expire
<1>3. ASSUME NEW c \in Clients PROVE Pending(c)' /\ SigningIn(c)'
  <2>1. \A j \in DOMAIN users : ActiveAdmin(j)' <=> ActiveAdmin(j)
    BY <1>2 DEF ActiveAdmin
  <2>2. \A x : Justified(x) => Justified(x)'
    BY <1>2, <2>1 DEF Justified
  <2>3. Pending(c)'
    BY <1>2, <2>2 DEF IInv, ProcOK, Pending
  <2>4. SigningIn(c)'
    BY <1>2 DEF IInv, ProcOK, SigningIn, FoundEnabled, SameName
  <2> QED BY <2>3, <2>4
<1>4. ProcOK'
  BY <1>2, <1>3 DEF IInv, ProcOK, OneProcess
<1> QED BY <1>1, <1>4 DEF IInv

-----------------------------------------------------------------------------
(* The theorems *)

(* Any table an earlier version left is one the program keeps in order. *)
LEMMA InitOK == Init => IInv
<1> SUFFICES ASSUME Init PROVE IInv
  OBVIOUS
<1>1. /\ users \in Seq(Row) /\ Len(users) <= MaxUsers
      /\ \A i, j \in DOMAIN users : users[i].name = users[j].name => i = j
      /\ \A i \in DOMAIN users : users[i].assigned = None /\ users[i].enabled
      /\ users # << >> => \E i \in DOMAIN users : users[i].name = Admin /\ users[i].role = "admin"
  BY InitialUsersAssumption DEF Init
<1>2. users # << >> => \E i \in DOMAIN users : ActiveAdmin(i)
  BY <1>1 DEF ActiveAdmin, EffectiveRole
<1>3. NamesUnique /\ RolesAgree
  BY <1>1 DEF NamesUnique, RolesAgree
<1>4. DisabledHoldNoSession /\ SessionsNameAccounts
  BY DEF Init, DisabledHoldNoSession, SessionsNameAccounts
<1>5. DataOK
  BY <1>1, <1>2, <1>3, <1>4 DEF Init, DataOK
<1>6. Closed \in Process /\ Closed.at = "closed" /\ Closed.todo = << >>
  <2>1. << >> \in Seq(Statement)
    OBVIOUS
  <2> QED BY <2>1 DEF Closed, Process
<1>7. ProcOK
  BY <1>6 DEF Init, ProcOK, OneProcess, Pending, SigningIn
<1> QED BY <1>5, <1>7 DEF IInv

LEMMA ManageKeeps ==
  ASSUME IInv, NEW c \in Clients, Manage(c)
  PROVE  Kept
<1>1. CASE \E n \in Names, role \in Offered, enabled \in BOOLEAN : CreateUser(c, n, role, enabled)
  BY <1>1, CreateUserKeeps
<1>2. CASE \E n \in Names, role \in Offered, enabled \in BOOLEAN, i \in DOMAIN users :
             UpdateUser(c, i, n, role, enabled)
  BY <1>2, UpdateUserKeeps
<1>3. CASE \E i \in DOMAIN users, enabled \in BOOLEAN : SetUserEnabled(c, i, enabled)
  BY <1>3, SetUserEnabledKeeps
<1>4. CASE \E i \in DOMAIN users, role \in Offered : SetUserRole(c, i, role)
  BY <1>4, SetUserRoleKeeps
<1>5. CASE \E i \in DOMAIN users : ResetPassword(c, i)
  BY <1>5, ResetPasswordKeeps
<1>6. CASE ChangeOwnPassword(c)
  BY <1>6, ChangeOwnPasswordKeeps
<1> QED BY <1>1, <1>2, <1>3, <1>4, <1>5, <1>6 DEF Manage

LEMMA SignInKeeps ==
  ASSUME IInv, NEW c \in Clients, SignIn(c)
  PROVE  IInv'
<1>1. CASE Start(c) \/ RestoreSession(c) \/ AskForPassword(c)
  BY <1>1, StartKeeps, RestoreSessionKeeps, AskForPasswordKeeps
<1>2. CASE (\E n \in Names, keep \in BOOLEAN : Login(c, n, keep)) \/ LoginRefused(c)
  BY <1>2, LoginKeeps, LoginRefusedKeeps
<1>3. CASE ClearOldSessions(c) \/ \E t \in Tokens : InsertSession(c, t)
  BY <1>3, ClearOldSessionsKeeps, InsertSessionKeeps
<1>4. CASE SaveToken(c) \/ RememberFails(c)
  BY <1>4, SaveTokenKeeps
<1> QED BY <1>1, <1>2, <1>3, <1>4 DEF SignIn

(* Only the statements of the user management switch an account off.        *)
LEMMA OthersSwitchNobodyOff ==
  ASSUME IInv, NEW c \in Clients,
         \/ SignIn(c) \/ Fail(c) \/ Exit(c)
         \/ OpenManagement(c) \/ OpenPassword(c) \/ CloseDialog(c)
  PROVE  NobodySwitchedOff
<1>1. CASE Start(c)
  BY <1>1, DefaultUserKeepsData DEF Start, IInv
<1>2. CASE ~Start(c)
  <2>1. users' \in Seeding
    BY <1>2 DEF SignIn, RestoreSession, AskForPassword, Login, LoginRefused,
                ClearOldSessions, InsertSession, SaveToken, RememberFails, Fail, Exit,
                OpenManagement, OpenPassword, CloseDialog, Seeding
  <2> QED BY <2>1, SeedingSwitchesNobodyOff DEF IInv, DataOK
<1> QED BY <1>1, <1>2

LEMMA NextOK == IInv /\ [Next]_vars => Kept
<1> SUFFICES ASSUME IInv, [Next]_vars PROVE Kept
  OBVIOUS
<1>a. NobodySwitchedOff => SwitchedOffWithout
  BY DEF NobodySwitchedOff, SwitchedOffWithout
<1>1. ASSUME NEW c \in Clients, SignIn(c) PROVE Kept
  BY <1>1, <1>a, SignInKeeps, OthersSwitchNobodyOff DEF Kept
<1>2. ASSUME NEW c \in Clients, Manage(c) PROVE Kept
  BY <1>2, ManageKeeps
<1>3. ASSUME NEW c \in Clients, Execute(c) \/ Fail(c) PROVE Kept
  BY <1>3, <1>a, ExecuteKeeps, FailKeeps, OthersSwitchNobodyOff DEF Kept
<1>4. ASSUME NEW c \in Clients, OpenManagement(c) \/ OpenPassword(c) \/ CloseDialog(c)
      PROVE  Kept
  BY <1>4, <1>a, DialogsKeep, OthersSwitchNobodyOff DEF Kept
<1>5. ASSUME NEW c \in Clients, Exit(c) PROVE Kept
  BY <1>5, <1>a, ExitKeeps, OthersSwitchNobodyOff DEF Kept
<1>6. ASSUME NEW s \in sessions, Expire(s) PROVE Kept
  <2>1. NobodySwitchedOff
    BY <1>6 DEF Expire, NobodySwitchedOff
  <2> QED BY <1>6, <1>a, <2>1, ExpireKeeps DEF Kept
<1>7. CASE UNCHANGED vars
  <2>1. DataOK'
    BY <1>7, SessionsRemoved DEF vars, IInv
  <2>2. ASSUME NEW c \in Clients PROVE Pending(c)' /\ SigningIn(c)'
    <3>1. \A j \in DOMAIN users : ActiveAdmin(j)' <=> ActiveAdmin(j)
      BY <1>7 DEF ActiveAdmin, vars
    <3>2. \A x : Justified(x) => Justified(x)'
      BY <1>7, <3>1 DEF Justified, vars
    <3> QED BY <1>7, <3>2 DEF IInv, ProcOK, Pending, SigningIn, FoundEnabled, SameName, vars
  <2>3. ProcOK'
    BY <1>7, <2>2 DEF IInv, ProcOK, OneProcess, vars
  <2>4. NobodySwitchedOff
    BY <1>7 DEF vars, NobodySwitchedOff
  <2> QED BY <1>a, <2>1, <2>3, <2>4 DEF IInv, Kept
<1> QED BY <1>1, <1>2, <1>3, <1>4, <1>5, <1>6, <1>7 DEF Next

(* The accounts are in order and every running operation is justified. *)
THEOREM Invariance == Spec => []IInv
<1>1. IInv /\ [Next]_vars => IInv'
  BY NextOK DEF Kept
<1> QED BY <1>1, InitOK, PTL DEF Spec

(* Tables, tokens and processes keep their types. *)
THEOREM TypeCorrect == Spec => []TypeOK
<1>1. IInv => TypeOK
  BY DEF IInv, DataOK, ProcOK, TypeOK
<1> QED BY <1>1, Invariance, PTL

(* No order of edits, disablings, role changes, renames, failures between two *)
(* statements and restarts leaves the program without an administrator.       *)
THEOREM AdminAlwaysRemains == Spec => []AdminRemains
<1>1. IInv => AdminRemains
  BY AdminCount DEF IInv, DataOK, AdminRemains
<1> QED BY <1>1, Invariance, PTL

(* The table the window reads and the one the service reads name one role,  *)
(* the default account apart.                                               *)
THEOREM RolesAlwaysAgree == Spec => []RolesAgree
<1>1. IInv => RolesAgree
  BY DEF IInv, DataOK
<1> QED BY <1>1, Invariance, PTL

(* Switching an account off, whatever failed on the way, leaves no session   *)
(* under the account's own spelling.                                          *)
THEOREM SwitchingOffLeavesNoSession == Spec => SwitchOffLeavesNoSession
<1>1. IInv /\ [Next]_vars
        => [\A i \in DOMAIN users : users[i].enabled /\ ~users'[i].enabled
               => \A s \in sessions' : s.user # users[i].name]_vars
  BY NextOK DEF Kept, SwitchedOffWithout
<1> QED BY <1>1, Invariance, PTL DEF Spec, SwitchOffLeavesNoSession

(* No session opened under an account's own spelling is there while the       *)
(* account is switched off.                                                   *)
THEOREM DisabledNeverHoldSession == Spec => []DisabledHoldNoSession
<1>1. IInv => DisabledHoldNoSession
  BY DEF IInv, DataOK
<1> QED BY <1>1, Invariance, PTL

(* A session opened under an account's own spelling names that account for as *)
(* long as it lasts: renaming takes it along.                                 *)
THEOREM SessionsAlwaysNameAccounts == Spec => []SessionsNameAccounts
<1>1. IInv => SessionsNameAccounts
  BY DEF IInv, DataOK
<1> QED BY <1>1, Invariance, PTL
=============================================================================
