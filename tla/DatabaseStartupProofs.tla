------------------------- MODULE DatabaseStartupProofs -------------------------
(***************************************************************************)
(* Proofs about DatabaseStartup, for any number of instances and legacy    *)
(* databases and whatever the data directory holds at first: an import is  *)
(* whole or not there, a migration changes a database in one piece and     *)
(* with a backup of what it was, and an instance that is ready relies on a *)
(* complete database whatever the others do.                               *)
(***************************************************************************)
EXTENDS DatabaseStartup, SequenceTheorems, WellFoundedInduction, TLAPS

Databases == {db \in Database : WellKept(db)}

(* The phases an instance goes through with the lock. *)
Holding == Phases \ {"closed", "locking", "ready"}

(* What its connection sees. *)
View(p) == IF proc[p].work = None THEN active ELSE proc[p].work

Marks == {"timestamps", "statuses"}

(* How much of a migration is done when so much of it is left. *)
Progress(p) ==
  LET view == View(p)
      todo == proc[p].todo
  IN  \/ /\ todo = <<"tables", "timestamps", "statuses", "record 1", "auth", "record 2", "commit">>
         /\ view.versions = {}
      \/ /\ todo = <<"timestamps", "statuses", "record 1", "auth", "record 2", "commit">>
         /\ view.versions = {} /\ view.tables
      \/ /\ todo = <<"statuses", "record 1", "auth", "record 2", "commit">>
         /\ view.versions = {} /\ view.tables /\ "timestamps" \in view.marks
      \/ /\ todo = <<"record 1", "auth", "record 2", "commit">>
         /\ view.versions = {} /\ view.tables /\ view.marks = Marks
      \/ /\ todo = <<"auth", "record 2", "commit">>
         /\ view.versions = {1} /\ view.tables /\ view.marks = Marks
      \/ /\ todo = <<"record 2", "commit">>
         /\ view.versions = {1} /\ view.tables /\ view.marks = Marks /\ view.auth
      \/ /\ todo = <<"commit">>
         /\ view.versions = {1, 2} /\ view.tables /\ view.marks = Marks /\ view.auth
         /\ proc[p].work # None

(* A migration under way: it started from what the file still holds. *)
Migrating(p) ==
  /\ active \in Databases /\ View(p) \in Databases
  /\ View(p).origin = active.origin /\ View(p).admin = active.admin
  /\ Progress(p)

(* What an instance knows in the phase it is in. *)
Knows(p) ==
  /\ proc[p].at \in Holding => lock = p
  /\ proc[p].at \notin {"copying", "moving"} => proc[p].copy = None
  /\ proc[p].at # "migrating" => proc[p].work = None
  /\ proc[p].at \in {"validating", "copying", "moving"} => active = None
  /\ proc[p].at = "copying" =>
       /\ proc[p].candidate \in Candidates
       /\ legacy[proc[p].candidate] \in Databases
       /\ proc[p].copy \in {None, Partial}
  /\ proc[p].at = "moving" =>
       proc[p].copy \in Databases /\ proc[p].copy.origin = "imported"
  /\ proc[p].at \in {"probing", "opening"} /\ active = None =>
       \A i \in Candidates : legacy[i] = None
  /\ proc[p].at = "opening" => proc[p].existed = (active # None)
  /\ proc[p].at = "reading" =>
       active \in Databases /\ (~proc[p].existed => active.origin = "new")
  /\ proc[p].at = "backing up" => proc[p].existed /\ Migrating(p)
  /\ proc[p].at = "migrating" =>
       /\ Migrating(p)
       /\ active.origin = "new" \/ active \in backups
  /\ proc[p].at = "account" => active \in Databases /\ Complete(active)
  /\ proc[p].at = "ready" => active \in Databases /\ Complete(active) /\ active.admin

DataOK ==
  /\ active \in Databases \cup {None, Broken}
  /\ legacy \in [Candidates -> Databases \cup {None, Broken}]
  /\ backups \subseteq Database
  /\ lock \in Instances \cup {Free, Stale}
  /\ proc \in [Instances -> Process]
  /\ active \in Databases /\ active.origin = "new" => \A i \in Candidates : legacy[i] = None

IInv == DataOK /\ \A p \in Instances : Knows(p)

-----------------------------------------------------------------------------
(* Files and versions *)

LEMMA Distinct ==
  ASSUME NEW db \in Databases
  PROVE  db \in Database /\ IsDatabase(db) /\ db # None /\ db # Broken /\ db # Partial
BY StartupAssumption DEF Databases, IsDatabase

LEMMA VersionOf ==
  ASSUME NEW db \in Databases
  PROVE  \E v \in 0..3 : db.versions = 1..v /\ SchemaVersion(db) = v
<1>1. PICK v \in 0..3 : db.versions = 1..v
  BY DEF Databases, WellKept, kCurrentSchemaVersion
<1>2. CASE v = 0
  BY <1>1, <1>2 DEF SchemaVersion
<1>3. CASE v # 0
  <2>1. v \in 1..v /\ \A w \in 1..v : w <= v
    BY <1>3
  <2>2. \A x, y \in 1..v : (\A w \in 1..v : w <= x) /\ (\A w \in 1..v : w <= y) => x = y
    OBVIOUS
  <2>3. SchemaVersion(db) = CHOOSE x \in 1..v : \A w \in 1..v : w <= x
    BY <1>1, <2>1 DEF SchemaVersion
  <2>4. (CHOOSE x \in 1..v : \A w \in 1..v : w <= x) = v
    BY <2>1, <2>2
  <2> QED BY <1>1, <2>3, <2>4
<1> QED BY <1>2, <1>3

(* The record of version 2 stands for everything the version promises. *)
LEMMA CurrentComplete ==
  ASSUME NEW db \in Databases
  PROVE  /\ db.versions = {1, 2} => Complete(db)
         /\ SchemaVersion(db) = 2 => db.versions = {1, 2}
<1>1. PICK v \in 0..3 : db.versions = 1..v /\ SchemaVersion(db) = v
  BY VersionOf
<1>2. WellKept(db)
  BY DEF Databases
<1>3. ASSUME db.versions = {1, 2} PROVE Complete(db)
  <2>1. v = 2
    <3>1. 1..v = {1, 2} /\ v \in 0..3
      BY <1>1, <1>3
    <3>2. 2 \in 1..v
      BY <3>1
    <3>3. 3 \notin 1..v
      BY <3>1
    <3> QED BY <3>1, <3>2, <3>3
  <2>2. db.tables /\ db.auth /\ "local" \notin db.times /\ "text" \notin db.codes
    BY <1>2, <1>3 DEF WellKept
  <2> QED BY <1>1, <1>3, <2>1, <2>2 DEF Complete, kCurrentSchemaVersion
<1>4. ASSUME SchemaVersion(db) = 2 PROVE db.versions = {1, 2}
  BY <1>1, <1>4
<1> QED BY <1>3, <1>4

LEMMA ThreeOf ==
  ASSUME NEW x, NEW y, NEW z
  PROVE  (<< >> \o <<x, y>>) \o <<z>> = <<x, y, z>>
<1>0. PICK S : S = {x, y, z}
  OBVIOUS
<1>1. <<x, y>> \in Seq(S) /\ <<z>> \in Seq(S) /\ <<x, y, z>> \in Seq(S)
  BY <1>0
<1>2. << >> \o <<x, y>> = <<x, y>>
  BY <1>1, ConcatEmptySeq
<1>3. \A i \in 1..3 : (<<x, y>> \o <<z>>)[i] = <<x, y, z>>[i]
  BY <1>1
<1>4. Len(<<x, y>> \o <<z>>) = 3 /\ <<x, y>> \o <<z>> \in Seq(S)
  BY <1>1
<1>5. <<x, y>> \o <<z>> = <<x, y, z>>
  BY <1>1, <1>3, <1>4, SeqEqual
<1> QED BY <1>2, <1>5

LEMMA SevenOf ==
  ASSUME NEW p, NEW q, NEW r, NEW s, NEW x, NEW y, NEW z
  PROVE  (<<p, q, r, s>> \o <<x, y>>) \o <<z>> = <<p, q, r, s, x, y, z>>
<1>0. PICK S : S = {p, q, r, s, x, y, z}
  OBVIOUS
<1>1. /\ <<p, q, r, s>> \in Seq(S) /\ <<x, y>> \in Seq(S) /\ <<z>> \in Seq(S)
      /\ <<p, q, r, s, x, y>> \in Seq(S) /\ <<p, q, r, s, x, y, z>> \in Seq(S)
  BY <1>0
<1>2. <<p, q, r, s>> \o <<x, y>> = <<p, q, r, s, x, y>>
  <2>1. \A i \in 1..6 : (<<p, q, r, s>> \o <<x, y>>)[i] = <<p, q, r, s, x, y>>[i]
    BY <1>1
  <2>2. Len(<<p, q, r, s>> \o <<x, y>>) = 6 /\ <<p, q, r, s>> \o <<x, y>> \in Seq(S)
    BY <1>1
  <2> QED BY <1>1, <2>1, <2>2, SeqEqual
<1>3. <<p, q, r, s, x, y>> \o <<z>> = <<p, q, r, s, x, y, z>>
  <2>1. \A i \in 1..7 : (<<p, q, r, s, x, y>> \o <<z>>)[i] = <<p, q, r, s, x, y, z>>[i]
    BY <1>1
  <2>2. Len(<<p, q, r, s, x, y>> \o <<z>>) = 7 /\ <<p, q, r, s, x, y>> \o <<z>> \in Seq(S)
    BY <1>1
  <2> QED BY <1>1, <2>1, <2>2, SeqEqual
<1> QED BY <1>2, <1>3

LEMMA Migrations ==
  /\ MigrationFrom(0) = <<"tables", "timestamps", "statuses", "record 1", "auth", "record 2", "commit">>
  /\ MigrationFrom(1) = <<"auth", "record 2", "commit">>
<1>2. MigrationFrom(0) = (<<"tables", "timestamps", "statuses", "record 1">>
                          \o <<"auth", "record 2">>) \o <<"commit">>
  BY DEF MigrationFrom
<1>3. MigrationFrom(1) = (<< >> \o <<"auth", "record 2">>) \o <<"commit">>
  BY DEF MigrationFrom
<1>4. MigrationFrom(0) = <<"tables", "timestamps", "statuses", "record 1", "auth", "record 2", "commit">>
  <2>1. PICK p, q, r, s, x, y, z :
          /\ p = "tables" /\ q = "timestamps" /\ r = "statuses" /\ s = "record 1"
          /\ x = "auth" /\ y = "record 2" /\ z = "commit"
    OBVIOUS
  <2>2. MigrationFrom(0) = (<<p, q, r, s>> \o <<x, y>>) \o <<z>>
    BY <1>2, <2>1
  <2>3. MigrationFrom(0) = <<p, q, r, s, x, y, z>>
    BY <2>2, SevenOf
  <2> QED BY <2>1, <2>3
<1>5. MigrationFrom(1) = <<"auth", "record 2", "commit">>
  BY <1>3, ThreeOf
<1> QED BY <1>4, <1>5

-----------------------------------------------------------------------------
(* Steps of one instance *)

LEMMA Phase ==
  ASSUME IInv, NEW p \in Instances
  PROVE  /\ proc[p] \in Process /\ Knows(p)
         /\ proc[p].at \in Holding => lock = p
         /\ proc[p].at \in Phases /\ proc[p].candidate \in 0..LegacyCount
         /\ proc[p].copy \in Files /\ proc[p].existed \in BOOLEAN
         /\ proc[p].todo \in Seq(Steps) /\ proc[p].work \in Database \cup {None}
<1>1. proc[p] \in Process /\ Knows(p)
  BY DEF IInv, DataOK
<1>2. proc[p].at \in Holding => lock = p
  BY <1>1 DEF Knows
<1> QED BY <1>1, <1>2 DEF Process

(* A step of another instance leaves the holder of the lock alone.          *)
LEMMA OthersKnow ==
  ASSUME IInv, NEW q \in Instances, proc'[q] = proc[q], UNCHANGED legacy,
         backups \subseteq backups',
         lock = q => lock' = q /\ active' = active,
         active \in Databases /\ Complete(active) /\ active.admin
            => active' \in Databases /\ Complete(active') /\ active'.admin
  PROVE  Knows(q)'
<1>1. Knows(q) /\ proc[q].at \in Phases
  BY Phase
<1>2. CASE proc[q].at \in Holding
  <2>1. lock = q /\ lock' = q /\ active' = active
    BY <1>1, <1>2 DEF Knows
  <2>2. Migrating(q) => Migrating(q)'
    BY <2>1 DEF Migrating, View, Progress
  <2>3. proc[q].at # "ready"
    BY <1>2 DEF Holding
  <2> QED BY <1>1, <2>1, <2>2, <2>3 DEF Knows
<1>3. CASE proc[q].at \in {"closed", "locking"}
  BY <1>1, <1>3 DEF Knows, Holding
<1>4. CASE proc[q].at = "ready"
  <2>1. proc[q].copy = None /\ proc[q].work = None /\ active \in Databases
        /\ Complete(active) /\ active.admin
    BY <1>1, <1>4 DEF Knows
  <2> QED BY <1>4, <2>1 DEF Knows, Holding
<1> QED BY <1>1, <1>2, <1>3, <1>4 DEF Holding

LEMMA StepKeeps ==
  ASSUME IInv, NEW p \in Instances, NEW r \in Process, proc' = [proc EXCEPT ![p] = r],
         UNCHANGED legacy,
         active' \in Databases \cup {None, Broken},
         backups' \subseteq Database, backups \subseteq backups',
         lock' \in Instances \cup {Free, Stale},
         active' \in Databases /\ active'.origin = "new" => \A i \in Candidates : legacy[i] = None,
         \A q \in Instances \ {p} : lock = q => lock' = q /\ active' = active,
         active \in Databases /\ Complete(active) /\ active.admin
            => active' \in Databases /\ Complete(active') /\ active'.admin,
         Knows(p)'
  PROVE  IInv'
<1>1. /\ proc' \in [Instances -> Process] /\ proc'[p] = r
      /\ \A q \in Instances \ {p} : proc'[q] = proc[q]
  BY DEF IInv, DataOK
<1>2. \A q \in Instances \ {p} : Knows(q)'
  BY <1>1, OthersKnow
<1>3. DataOK'
  BY <1>1 DEF IInv, DataOK
<1> QED BY <1>2, <1>3 DEF IInv

(* A step that touches no file. *)
LEMMA QuietStep ==
  ASSUME IInv, NEW p \in Instances, NEW r \in Process, proc' = [proc EXCEPT ![p] = r],
         UNCHANGED <<active, legacy, backups, lock>>, Knows(p)'
  PROVE  IInv'
<1>1. /\ active \in Databases \cup {None, Broken} /\ backups \subseteq Database
      /\ lock \in Instances \cup {Free, Stale}
      /\ active \in Databases /\ active.origin = "new" => \A i \in Candidates : legacy[i] = None
  BY DEF IInv, DataOK
<1> QED BY <1>1, StepKeeps

LEMMA BeginKeeps ==
  ASSUME IInv, NEW p \in Instances, Begin(p)
  PROVE  IInv'
<1>1. proc[p] \in Process /\ proc[p].at = "closed" /\ proc[p].copy = None /\ proc[p].work = None
  BY Phase DEF Begin, Knows
<1>2. PICK r : r = [proc[p] EXCEPT !.at = "locking"]
  OBVIOUS
<1>3. r \in Process /\ r.at = "locking" /\ r.copy = None /\ r.work = None
  BY <1>1, <1>2 DEF Process, Phases
<1>4. proc' = [proc EXCEPT ![p] = r] /\ proc'[p] = r
  BY <1>2 DEF Begin, IInv, DataOK
<1>5. Knows(p)'
  BY <1>3, <1>4 DEF Knows, Holding
<1> QED BY <1>3, <1>4, <1>5, QuietStep DEF Begin

LEMMA TakeLockKeeps ==
  ASSUME IInv, NEW p \in Instances, TakeLock(p)
  PROVE  IInv'
<1>1. proc[p] \in Process /\ proc[p].at = "locking" /\ proc[p].copy = None /\ proc[p].work = None
  BY Phase DEF TakeLock, Knows
<1>2. PICK r : r = [proc[p] EXCEPT !.at = "looking"]
  OBVIOUS
<1>3. r \in Process /\ r.at = "looking" /\ r.copy = None /\ r.work = None
  BY <1>1, <1>2 DEF Process, Phases
<1>4. proc' = [proc EXCEPT ![p] = r] /\ proc'[p] = r
  BY <1>2 DEF TakeLock, IInv, DataOK
<1>5. lock \notin Instances /\ lock' = p /\ UNCHANGED <<active, legacy, backups>>
  BY StartupAssumption DEF TakeLock
<1>6. Knows(p)'
  BY <1>3, <1>4, <1>5 DEF Knows, Holding
<1> QED BY <1>3, <1>4, <1>5, <1>6, StepKeeps DEF IInv, DataOK

LEMMA LookKeeps ==
  ASSUME IInv, NEW p \in Instances, Look(p)
  PROVE  IInv'
<1>1. proc[p] \in Process /\ proc[p].at = "looking" /\ proc[p].copy = None /\ proc[p].work = None
      /\ lock = p
  BY Phase DEF Look, Knows, Holding, Phases
<1> DEFINE at == IF active = None /\ \E i \in Candidates : legacy[i] # None
                 THEN "validating" ELSE "probing"
<1>2. PICK r : r = [proc[p] EXCEPT !.at = at]
  OBVIOUS
<1>3. r \in Process /\ r.at = at /\ r.copy = None /\ r.work = None
  BY <1>1, <1>2 DEF Process, Phases
<1>4. proc' = [proc EXCEPT ![p] = r] /\ proc'[p] = r /\ UNCHANGED <<active, legacy, backups, lock>>
  BY <1>2 DEF Look, IInv, DataOK
<1>5. Knows(p)'
  BY <1>1, <1>3, <1>4 DEF Knows
<1> QED BY <1>3, <1>4, <1>5, QuietStep

LEMMA SmallestNumber ==
  ASSUME NEW T, T \subseteq Nat, T # {}
  PROVE  \E x \in T : \A y \in T : x <= y
<1> DEFINE R == {p \in Nat \X Nat : p[1] < p[2]}
<1>1. OpToRel(<, Nat) = R
  BY DEF OpToRel
<1>2. IsWellFoundedOn(R, Nat)
  BY <1>1, NatLessThanWellFounded, Zenon
<1>3. PICK x \in T : \A y \in T : ~(<<y, x>> \in R)
  <2> HIDE DEF R
  <2> QED BY <1>2, WFMin
<1>4. \A y \in T : <<y, x>> \in Nat \X Nat /\ <<y, x>>[1] = y /\ <<y, x>>[2] = x
  OBVIOUS
<1>5. \A y \in T : ~(y < x)
  BY <1>3, <1>4
<1> QED BY <1>5

LEMMA CandidateFound ==
  ASSUME IInv, NEW p \in Instances, NextCandidate(p) # 0
  PROVE  NextCandidate(p) \in Candidates /\ legacy[NextCandidate(p)] \in Databases \cup {Broken}
<1> DEFINE left == {i \in Candidates : i > proc[p].candidate /\ legacy[i] # None}
<1>1. left # {} /\ NextCandidate(p) = CHOOSE i \in left : \A j \in left : i <= j
  BY DEF NextCandidate
<1>2. left \subseteq Nat
  BY StartupAssumption DEF Candidates
<1>3. \E i \in left : \A j \in left : i <= j
  <2> HIDE DEF left
  <2> QED BY <1>1, <1>2, SmallestNumber
<1>4. NextCandidate(p) \in left
  <2> HIDE DEF left
  <2> QED BY <1>1, <1>3
<1> QED BY <1>4 DEF IInv, DataOK

LEMMA ValidateKeeps ==
  ASSUME IInv, NEW p \in Instances, Validate(p) \/ PassOver(p)
  PROVE  IInv'
<1>1. /\ proc[p] \in Process /\ proc[p].at = "validating" /\ proc[p].copy = None
      /\ proc[p].work = None /\ lock = p /\ active = None
  BY Phase DEF Validate, PassOver, Knows, Holding, Phases
<1>2. /\ NextCandidate(p) \in Candidates /\ NextCandidate(p) \in 0..LegacyCount
      /\ legacy[NextCandidate(p)] \in Databases \cup {Broken}
  BY CandidateFound, StartupAssumption DEF Validate, PassOver, Candidates
<1>3. PICK at \in {"validating", "copying"} :
        /\ proc' = [proc EXCEPT ![p].candidate = NextCandidate(p), ![p].at = at]
        /\ at = "copying" => legacy[NextCandidate(p)] # Broken
  <2>1. CASE Validate(p)
    BY <1>1, <2>1 DEF Validate, IInv, DataOK
  <2>2. CASE PassOver(p)
    <3>1. [proc EXCEPT ![p].candidate = NextCandidate(p)]
            = [proc EXCEPT ![p].candidate = NextCandidate(p), ![p].at = "validating"]
      <4>1. PICK q \in Process : q = proc[p]
        BY <1>1
      <4>2. PICK a, b : a = [q EXCEPT !.candidate = NextCandidate(p)]
                     /\ b = [q EXCEPT !.candidate = NextCandidate(p), !.at = "validating"]
        OBVIOUS
      <4>3. a = b
        BY <4>1, <4>2, <1>1 DEF Process
      <4> QED BY <4>1, <4>2, <4>3 DEF IInv, DataOK
    <3> QED BY <2>2, <3>1 DEF PassOver
  <2> QED BY <2>1, <2>2
<1>4. PICK r : r = [proc[p] EXCEPT !.candidate = NextCandidate(p), !.at = at]
  OBVIOUS
<1>5. /\ r \in Process /\ r.at = at /\ r.copy = None /\ r.work = None
      /\ r.candidate = NextCandidate(p)
  BY <1>1, <1>2, <1>4 DEF Process, Phases
<1>6. proc' = [proc EXCEPT ![p] = r] /\ proc'[p] = r /\ UNCHANGED <<active, legacy, backups, lock>>
  BY <1>3, <1>4 DEF Validate, PassOver, IInv, DataOK
<1>7. at = "copying" => legacy[NextCandidate(p)] \in Databases
  BY <1>2, <1>3
<1>8. Knows(p)'
  BY <1>1, <1>2, <1>5, <1>6, <1>7 DEF Knows
<1> QED BY <1>5, <1>6, <1>8, QuietStep

LEMMA StartCopyKeeps ==
  ASSUME IInv, NEW p \in Instances, StartCopy(p)
  PROVE  IInv'
<1>1. /\ proc[p] \in Process /\ proc[p].at = "copying" /\ proc[p].work = None /\ lock = p
      /\ active = None /\ proc[p].candidate \in Candidates
      /\ legacy[proc[p].candidate] \in Databases
  BY Phase DEF StartCopy, Knows, Holding, Phases
<1>2. PICK r : r = [proc[p] EXCEPT !.copy = Partial]
  OBVIOUS
<1>3. /\ r \in Process /\ r.at = "copying" /\ r.copy = Partial /\ r.work = None
      /\ r.candidate = proc[p].candidate
  BY <1>1, <1>2 DEF Process, Files
<1>4. proc' = [proc EXCEPT ![p] = r] /\ proc'[p] = r /\ UNCHANGED <<active, legacy, backups, lock>>
  BY <1>2 DEF StartCopy, Destination, IInv, DataOK
<1>5. Knows(p)'
  BY <1>1, <1>3, <1>4 DEF Knows
<1> QED BY <1>3, <1>4, <1>5, QuietStep

LEMMA FinishCopyKeeps ==
  ASSUME IInv, NEW p \in Instances, FinishCopy(p)
  PROVE  IInv'
<1>1. /\ proc[p] \in Process /\ proc[p].at = "copying" /\ proc[p].work = None /\ lock = p
      /\ active = None /\ legacy[proc[p].candidate] \in Databases
  BY Phase DEF FinishCopy, Knows, Holding, Phases
<1>2. PICK db : db = [legacy[proc[p].candidate] EXCEPT !.origin = "imported"]
  OBVIOUS
<1>3. db \in Databases /\ db.origin = "imported"
  <2>1. PICK old \in Databases : old = legacy[proc[p].candidate]
    BY <1>1
  <2>2. /\ db \in Database /\ db.origin = "imported" /\ db.versions = old.versions
        /\ db.tables = old.tables /\ db.auth = old.auth /\ db.marks = old.marks
        /\ db.times = old.times /\ db.codes = old.codes
    BY <1>2, <2>1 DEF Databases, Database
  <2>3. WellKept(old)
    BY DEF Databases
  <2> QED BY <2>2, <2>3 DEF Databases, WellKept
<1>4. PICK r : r = [proc[p] EXCEPT !.copy = db, !.at = "moving"]
  OBVIOUS
<1>5. r \in Process /\ r.at = "moving" /\ r.copy = db /\ r.work = None
  BY <1>1, <1>3, <1>4 DEF Process, Files, Phases, Databases
<1>6. proc' = [proc EXCEPT ![p] = r] /\ proc'[p] = r /\ UNCHANGED <<active, legacy, backups, lock>>
  BY <1>2, <1>4 DEF FinishCopy, Destination, IInv, DataOK
<1>7. Knows(p)'
  BY <1>1, <1>3, <1>5, <1>6 DEF Knows
<1> QED BY <1>5, <1>6, <1>7, QuietStep

LEMMA MoveKeeps ==
  ASSUME IInv, NEW p \in Instances, Move(p)
  PROVE  IInv'
<1>1. /\ proc[p] \in Process /\ proc[p].at = "moving" /\ proc[p].work = None /\ lock = p
      /\ active = None /\ proc[p].copy \in Databases /\ proc[p].copy.origin = "imported"
  BY Phase DEF Move, Knows, Holding, Phases
<1>2. PICK r : r = [proc[p] EXCEPT !.copy = None, !.at = "probing"]
  OBVIOUS
<1>3. r \in Process /\ r.at = "probing" /\ r.copy = None /\ r.work = None
  BY <1>1, <1>2 DEF Process, Files, Phases
<1>4. /\ proc' = [proc EXCEPT ![p] = r] /\ proc'[p] = r /\ UNCHANGED <<legacy, backups, lock>>
      /\ active' = proc[p].copy
  BY <1>2 DEF Move, IInv, DataOK
<1>5. active' # None /\ active \notin Databases /\ active'.origin # "new" /\ active' \in Databases
  BY <1>1, <1>4, Distinct
<1>6. Knows(p)'
  BY <1>1, <1>3, <1>4, <1>5 DEF Knows
<1> QED BY <1>1, <1>3, <1>4, <1>5, <1>6, StepKeeps DEF IInv, DataOK

LEMMA ProbeKeeps ==
  ASSUME IInv, NEW p \in Instances, Probe(p)
  PROVE  IInv'
<1>1. /\ proc[p] \in Process /\ proc[p].at = "probing" /\ proc[p].work = None
      /\ proc[p].copy = None /\ lock = p /\ (active = None => \A i \in Candidates : legacy[i] = None)
  BY Phase DEF Probe, Knows, Holding, Phases
<1>2. PICK r : r = [proc[p] EXCEPT !.existed = (active # None), !.at = "opening"]
  OBVIOUS
<1>3. /\ r \in Process /\ r.at = "opening" /\ r.copy = None /\ r.work = None
      /\ r.existed = (active # None)
  BY <1>1, <1>2 DEF Process, Phases
<1>4. proc' = [proc EXCEPT ![p] = r] /\ proc'[p] = r /\ UNCHANGED <<active, legacy, backups, lock>>
  BY <1>2 DEF Probe, Existed, IInv, DataOK
<1>5. Knows(p)'
  BY <1>1, <1>3, <1>4 DEF Knows
<1> QED BY <1>3, <1>4, <1>5, QuietStep

LEMMA NewDatabaseKept == NewDatabase \in Databases /\ NewDatabase.origin = "new"
<1>1. NewDatabase \in Database /\ NewDatabase.origin = "new"
  BY DEF NewDatabase, Database
<1>2. NewDatabase.versions = 1..0 /\ 0 \in 0..kCurrentSchemaVersion + 1
  BY DEF NewDatabase, kCurrentSchemaVersion
<1>3. NewDatabase.versions = {} /\ NewDatabase.marks = {}
  BY DEF NewDatabase
<1> QED BY <1>1, <1>2, <1>3 DEF Databases, WellKept

LEMMA OpenKeeps ==
  ASSUME IInv, NEW p \in Instances, Open(p)
  PROVE  IInv'
<1>1. /\ proc[p] \in Process /\ proc[p].at = "opening" /\ proc[p].work = None
      /\ proc[p].copy = None /\ lock = p /\ proc[p].existed = (active # None)
      /\ (active = None => \A i \in Candidates : legacy[i] = None)
      /\ active \in Databases \cup {None}
  BY Phase DEF Open, Knows, Holding, Phases, IInv, DataOK
<1>2. PICK r : r = [proc[p] EXCEPT !.at = "reading"]
  OBVIOUS
<1>3. /\ r \in Process /\ r.at = "reading" /\ r.copy = None /\ r.work = None
      /\ r.existed = (active # None)
  BY <1>1, <1>2 DEF Process, Phases
<1>4. /\ proc' = [proc EXCEPT ![p] = r] /\ proc'[p] = r /\ UNCHANGED <<legacy, backups, lock>>
      /\ active' = IF active = None THEN NewDatabase ELSE active
  BY <1>2 DEF Open, IInv, DataOK
<1>5. /\ active' \in Databases /\ (~r.existed => active'.origin = "new")
      /\ active \in Databases => active' = active
      /\ active'.origin = "new" => \A i \in Candidates : legacy[i] = None
  BY <1>1, <1>3, <1>4, NewDatabaseKept, Distinct DEF IInv, DataOK
<1>6. Knows(p)'
  BY <1>1, <1>3, <1>4, <1>5 DEF Knows
<1> QED BY <1>1, <1>3, <1>4, <1>5, <1>6, StepKeeps DEF IInv, DataOK

LEMMA ReadVersionKeeps ==
  ASSUME IInv, NEW p \in Instances, ReadVersion(p)
  PROVE  IInv'
<1>1. /\ proc[p] \in Process /\ proc[p].at = "reading" /\ proc[p].work = None
      /\ proc[p].copy = None /\ lock = p /\ active \in Databases
      /\ (~proc[p].existed => active.origin = "new")
  BY Phase DEF ReadVersion, Knows, Holding, Phases
<1>2. PICK v \in 0..3 : active.versions = 1..v /\ SchemaVersion(active) = v
  BY <1>1, VersionOf
<1>3. v # 3 /\ UNCHANGED <<active, legacy, backups, lock>>
  <2>1. ~Refuses(SchemaVersion(active)) /\ UNCHANGED <<active, legacy, backups, lock>>
    BY DEF ReadVersion
  <2>2. ~(v > 2)
    BY <1>2, <2>1 DEF Refuses, kCurrentSchemaVersion
  <2> QED BY <2>1, <2>2
<1>4. CASE v = 2
  <2>1. Complete(active)
    BY <1>1, <1>2, <1>4, CurrentComplete
  <2>2. PICK r : r = [proc[p] EXCEPT !.at = "account"]
    OBVIOUS
  <2>3. r \in Process /\ r.at = "account" /\ r.copy = None /\ r.work = None
    BY <1>1, <2>2 DEF Process, Phases
  <2>4. proc' = [proc EXCEPT ![p] = r] /\ proc'[p] = r
    BY <1>2, <1>4, <2>2 DEF ReadVersion, UpToDate, kCurrentSchemaVersion, IInv, DataOK
  <2>5. Knows(p)'
    BY <1>1, <1>3, <2>1, <2>3, <2>4 DEF Knows
  <2> QED BY <1>3, <2>3, <2>4, <2>5, QuietStep
<1>5. CASE v # 2
  <2>1. v \in {0, 1}
    BY <1>3, <1>5
  <2> DEFINE at == IF proc[p].existed THEN "backing up" ELSE "migrating"
  <2>2. PICK r : r = [proc[p] EXCEPT !.at = at, !.todo = MigrationFrom(v)]
    OBVIOUS
  <2>3. MigrationFrom(v) \in Seq(Steps)
    <3>1. MigrationFrom(0) \in Seq(Steps) /\ MigrationFrom(1) \in Seq(Steps)
      <4>1. /\ <<"tables", "timestamps", "statuses", "record 1", "auth", "record 2", "commit">>
                  \in Seq(Steps)
            /\ <<"auth", "record 2", "commit">> \in Seq(Steps)
        BY DEF Steps
      <4> QED BY <4>1, Migrations, Zenon
    <3> QED BY <2>1, <3>1
  <2>4. /\ r \in Process /\ r.at = at /\ r.copy = None /\ r.work = None
        /\ r.existed = proc[p].existed /\ r.todo = MigrationFrom(v)
    BY <1>1, <2>2, <2>3 DEF Process, Phases
  <2>5. proc' = [proc EXCEPT ![p] = r] /\ proc'[p] = r
    BY <1>2, <1>5, <2>2 DEF ReadVersion, UpToDate, kCurrentSchemaVersion, IInv, DataOK
  <2>6. View(p)' = active
    BY <1>3, <2>4, <2>5 DEF View
  <2>7. Progress(p)'
    <3>1. CASE v = 0
      <4>1. active.versions = {} /\ proc'[p].todo = MigrationFrom(0)
        <5>1. 1..0 = {}
          OBVIOUS
        <5>2. MigrationFrom(v) = MigrationFrom(0)
          BY <3>1
        <5> QED BY <1>2, <2>4, <2>5, <3>1, <5>1, <5>2
      <4> QED BY <2>6, <4>1, Migrations DEF Progress
    <3>2. CASE v = 1
      <4>1. active.versions = {1} /\ proc'[p].todo = MigrationFrom(1)
        <5>1. 1..1 = {1}
          OBVIOUS
        <5>2. MigrationFrom(v) = MigrationFrom(1)
          BY <3>2
        <5> QED BY <1>2, <2>4, <2>5, <3>2, <5>1, <5>2
      <4>2. active.tables /\ active.marks = Marks
        BY <1>1, <4>1 DEF Databases, WellKept, Marks
      <4> QED BY <2>6, <4>1, <4>2, Migrations DEF Progress
    <3> QED BY <2>1, <3>1, <3>2
  <2>8. Migrating(p)'
    BY <1>1, <1>3, <2>6, <2>7 DEF Migrating
  <2>9. Knows(p)'
    BY <1>1, <1>3, <2>4, <2>5, <2>8 DEF Knows
  <2> QED BY <1>3, <2>4, <2>5, <2>9, QuietStep
<1> QED BY <1>4, <1>5

LEMMA BackupKeeps ==
  ASSUME IInv, NEW p \in Instances, Backup(p)
  PROVE  IInv'
<1>1. /\ proc[p] \in Process /\ proc[p].at = "backing up" /\ proc[p].work = None
      /\ proc[p].copy = None /\ lock = p /\ Migrating(p) /\ active \in Databases
  BY Phase DEF Backup, Knows, Holding, Phases, Migrating
<1>2. PICK r : r = [proc[p] EXCEPT !.at = "migrating"]
  OBVIOUS
<1>3. /\ r \in Process /\ r.at = "migrating" /\ r.copy = None /\ r.work = None
      /\ r.todo = proc[p].todo
  BY <1>1, <1>2 DEF Process, Phases
<1>4. /\ proc' = [proc EXCEPT ![p] = r] /\ proc'[p] = r /\ UNCHANGED <<active, legacy, lock>>
      /\ backups' = backups \cup {active}
  BY <1>2 DEF Backup, IInv, DataOK
<1>5. Migrating(p)'
  BY <1>1, <1>3, <1>4 DEF Migrating, Progress, View
<1>6. Knows(p)'
  BY <1>1, <1>3, <1>4, <1>5 DEF Knows
<1>7. backups' \subseteq Database /\ backups \subseteq backups'
  BY <1>1, <1>4, Distinct DEF IInv, DataOK
<1> QED BY <1>1, <1>3, <1>4, <1>6, <1>7, StepKeeps DEF IInv, DataOK

-----------------------------------------------------------------------------
(* The steps of a migration *)

LEMMA NormalizedTimestamps ==
  ASSUME NEW db \in Databases, NEW new, new = NormalizeTimestamps(db)
  PROVE  /\ new \in Database /\ new.origin = db.origin /\ new.admin = db.admin
         /\ new.versions = db.versions /\ new.tables = db.tables /\ new.auth = db.auth
         /\ new.codes = db.codes /\ new.marks = db.marks \cup {"timestamps"}
         /\ "local" \notin new.times
<1>1. db \in Database /\ ("timestamps" \in db.marks => "local" \notin db.times)
  BY DEF Databases, WellKept
<1>2. CASE "timestamps" \in db.marks
  <2>1. new = db
    BY <1>2 DEF NormalizeTimestamps
  <2> QED BY <1>1, <1>2, <2>1 DEF Database
<1>3. CASE "timestamps" \notin db.marks
  <2>1. PICK times : times = {IF t = "local" THEN "utc" ELSE t : t \in db.times}
    OBVIOUS
  <2>2. "local" \notin times /\ times \subseteq {"local", "utc", "unreadable"}
    BY <1>1, <2>1 DEF Database
  <2>3. PICK marks \in SUBSET {"timestamps", "statuses"} : marks = db.marks \cup {"timestamps"}
    BY <1>1 DEF Database
  <2>4. new = [db EXCEPT !.times = times, !.marks = marks]
    BY <1>3, <2>1, <2>3 DEF NormalizeTimestamps
  <2>5. /\ new \in Database /\ new.origin = db.origin /\ new.admin = db.admin
        /\ new.versions = db.versions /\ new.tables = db.tables /\ new.auth = db.auth
        /\ new.codes = db.codes /\ new.marks = marks /\ new.times = times
    BY <1>1, <2>2, <2>4 DEF Database
  <2> QED BY <2>2, <2>3, <2>5
<1> QED BY <1>2, <1>3

LEMMA NormalizedStatuses ==
  ASSUME NEW db \in Databases, NEW new, new = NormalizeStatuses(db)
  PROVE  /\ new \in Database /\ new.origin = db.origin /\ new.admin = db.admin
         /\ new.versions = db.versions /\ new.tables = db.tables /\ new.auth = db.auth
         /\ new.times = db.times /\ new.marks = db.marks \cup {"statuses"}
         /\ "text" \notin new.codes
<1>1. db \in Database /\ ("statuses" \in db.marks => "text" \notin db.codes)
  BY DEF Databases, WellKept
<1>2. CASE "statuses" \in db.marks
  <2>1. new = db
    BY <1>2 DEF NormalizeStatuses
  <2> QED BY <1>1, <1>2, <2>1 DEF Database
<1>3. CASE "statuses" \notin db.marks
  <2>1. PICK codes : codes = {"code" : s \in db.codes}
    OBVIOUS
  <2>2. "text" \notin codes /\ codes \subseteq {"text", "code"}
    BY <2>1
  <2>3. PICK marks \in SUBSET {"timestamps", "statuses"} : marks = db.marks \cup {"statuses"}
    BY <1>1 DEF Database
  <2>4. new = [db EXCEPT !.codes = codes, !.marks = marks]
    BY <1>3, <2>1, <2>3 DEF NormalizeStatuses
  <2>5. /\ new \in Database /\ new.origin = db.origin /\ new.admin = db.admin
        /\ new.versions = db.versions /\ new.tables = db.tables /\ new.auth = db.auth
        /\ new.times = db.times /\ new.marks = marks /\ new.codes = codes
    BY <1>1, <2>2, <2>4 DEF Database
  <2> QED BY <2>2, <2>3, <2>5
<1> QED BY <1>2, <1>3

LEMMA Ranges ==
  /\ 1 \in 1..kCurrentSchemaVersion + 1 /\ 2 \in 1..kCurrentSchemaVersion + 1
  /\ 1 \in 0..kCurrentSchemaVersion + 1 /\ 2 \in 0..kCurrentSchemaVersion + 1
  /\ {1} = 1..1 /\ {1, 2} = 1..2 /\ 2 \notin {1}
<1>1. kCurrentSchemaVersion + 1 = 3
  BY DEF kCurrentSchemaVersion
<1>2. 1 \in 1..3 /\ 2 \in 1..3 /\ 1 \in 0..3 /\ 2 \in 0..3 /\ 2 \notin {1}
  OBVIOUS
<1>3. {1} = 1..1 /\ {1, 2} = 1..2
  OBVIOUS
<1> QED BY <1>1, <1>2, <1>3

AsApplied(step, db, new) ==
  /\ new = Apply(step, db)
  /\ new.origin = db.origin /\ new.admin = db.admin
  /\ new.versions = IF step = "record 1" THEN {1}
                    ELSE IF step = "record 2" THEN {1, 2} ELSE db.versions
  /\ new.tables <=> step = "tables" \/ db.tables
  /\ new.auth <=> step = "auth" \/ db.auth
  /\ new.marks = IF step \in Marks THEN db.marks \cup {step} ELSE db.marks

(* A statement group does the next part of the work and keeps the rest.     *)
LEMMA Applied ==
  ASSUME NEW db \in Databases,
         NEW step \in {"tables", "timestamps", "statuses", "record 1", "auth", "record 2"},
         step = "record 1" => db.versions = {} /\ db.tables /\ db.marks = Marks,
         step = "record 2" => db.versions = {1} /\ db.auth
  PROVE  \E new \in Databases : AsApplied(step, db, new)
<1>d. PICK new : new = Apply(step, db)
  OBVIOUS
<1> SUFFICES /\ new \in Databases /\ new.origin = db.origin /\ new.admin = db.admin
             /\ new.versions = IF step = "record 1" THEN {1}
                               ELSE IF step = "record 2" THEN {1, 2} ELSE db.versions
             /\ (new.tables <=> step = "tables" \/ db.tables)
             /\ (new.auth <=> step = "auth" \/ db.auth)
             /\ new.marks = IF step \in Marks THEN db.marks \cup {step} ELSE db.marks
  BY <1>d DEF AsApplied
<1>0. db \in Database /\ WellKept(db) /\ db.tables \in BOOLEAN /\ db.auth \in BOOLEAN
  BY DEF Databases, Database
<1>a. /\ 1 \in 1..kCurrentSchemaVersion + 1 /\ 2 \in 1..kCurrentSchemaVersion + 1
      /\ 1 \in 0..kCurrentSchemaVersion + 1 /\ 2 \in 0..kCurrentSchemaVersion + 1
      /\ {1} = 1..1 /\ {1, 2} = 1..2 /\ 2 \notin {1}
  BY Ranges
<1>1. CASE step = "tables"
  <2>1. new = [db EXCEPT !.tables = TRUE]
    BY <1>d, <1>1 DEF Apply
  <2>2. /\ new \in Database /\ new.origin = db.origin /\ new.admin = db.admin
        /\ new.versions = db.versions /\ new.tables = TRUE /\ new.auth = db.auth
        /\ new.times = db.times /\ new.marks = db.marks /\ new.codes = db.codes
    BY <1>0, <2>1 DEF Database
  <2>3. new \in Databases
    BY <1>0, <2>2 DEF Databases, WellKept
  <2> QED BY <1>0, <1>1, <2>2, <2>3 DEF Marks
<1>2. CASE step = "timestamps"
  <2>1. new = NormalizeTimestamps(db)
    BY <1>d, <1>2 DEF Apply
  <2>2. /\ new \in Database /\ new.origin = db.origin /\ new.admin = db.admin
        /\ new.versions = db.versions /\ new.tables = db.tables /\ new.auth = db.auth
        /\ new.codes = db.codes /\ new.marks = db.marks \cup {"timestamps"}
        /\ "local" \notin new.times
    BY <2>1, NormalizedTimestamps
  <2>3. new \in Databases
    BY <1>0, <2>2 DEF Databases, WellKept
  <2> QED BY <1>0, <1>2, <2>2, <2>3 DEF Marks
<1>3. CASE step = "statuses"
  <2>1. new = NormalizeStatuses(db)
    BY <1>d, <1>3 DEF Apply
  <2>2. /\ new \in Database /\ new.origin = db.origin /\ new.admin = db.admin
        /\ new.versions = db.versions /\ new.tables = db.tables /\ new.auth = db.auth
        /\ new.times = db.times /\ new.marks = db.marks \cup {"statuses"}
        /\ "text" \notin new.codes
    BY <2>1, NormalizedStatuses
  <2>3. new \in Databases
    BY <1>0, <2>2 DEF Databases, WellKept
  <2> QED BY <1>0, <1>3, <2>2, <2>3 DEF Marks
<1>4. CASE step = "auth"
  <2>1. new = [db EXCEPT !.auth = TRUE]
    BY <1>d, <1>4 DEF Apply
  <2>2. /\ new \in Database /\ new.origin = db.origin /\ new.admin = db.admin
        /\ new.versions = db.versions /\ new.tables = db.tables /\ new.auth = TRUE
        /\ new.times = db.times /\ new.marks = db.marks /\ new.codes = db.codes
    BY <1>0, <2>1 DEF Database
  <2>3. new \in Databases
    BY <1>0, <2>2 DEF Databases, WellKept
  <2> QED BY <1>0, <1>4, <2>2, <2>3 DEF Marks
<1>5. CASE step \in {"record 1", "record 2"}
  <2>1. PICK vs :
          /\ vs = IF step = "record 1" THEN {1} ELSE {1, 2}
          /\ new = [db EXCEPT !.versions = vs]
    <3>1. CASE step = "record 1"
      BY <1>d, <3>1 DEF Apply
    <3>2. CASE step = "record 2"
      <4>1. {1} \cup {2} = {1, 2}
        OBVIOUS
      <4> QED BY <1>d, <3>2, <4>1 DEF Apply
    <3> QED BY <1>5, <3>1, <3>2
  <2>2. /\ new \in Database /\ new.origin = db.origin /\ new.admin = db.admin
        /\ new.versions = vs /\ new.tables = db.tables /\ new.auth = db.auth
        /\ new.times = db.times /\ new.marks = db.marks /\ new.codes = db.codes
    <3>1. vs \in SUBSET (1..kCurrentSchemaVersion + 1)
      BY <1>a, <2>1
    <3> QED BY <1>0, <2>1, <3>1 DEF Database
  <2>3. \E v \in 0..kCurrentSchemaVersion + 1 : vs = 1..v
    BY <1>a, <2>1
  <2>4. db.tables /\ db.marks = Marks /\ (2 \in vs => db.auth)
    <3>1. CASE step = "record 1"
      <4>1. 2 \notin vs
        BY <1>a, <2>1, <3>1
      <4> QED BY <3>1, <4>1
    <3>2. CASE step = "record 2"
      <4>1. 1 \in db.versions /\ db.auth
        BY <3>2
      <4> QED BY <1>0, <4>1 DEF WellKept, Marks
    <3> QED BY <1>5, <3>1, <3>2
  <2>5. new \in Databases
    BY <1>0, <2>2, <2>3, <2>4 DEF Databases, WellKept, Marks
  <2> QED BY <1>0, <1>5, <2>1, <2>2, <2>5 DEF Marks
<1> QED BY <1>1, <1>2, <1>3, <1>4, <1>5

LEMMA HeadsAndTails ==
  ASSUME NEW p, NEW q, NEW r, NEW s, NEW x, NEW y, NEW z
  PROVE  /\ Head(<<p, q, r, s, x, y, z>>) = p /\ Tail(<<p, q, r, s, x, y, z>>) = <<q, r, s, x, y, z>>
         /\ Head(<<q, r, s, x, y, z>>) = q /\ Tail(<<q, r, s, x, y, z>>) = <<r, s, x, y, z>>
         /\ Head(<<r, s, x, y, z>>) = r /\ Tail(<<r, s, x, y, z>>) = <<s, x, y, z>>
         /\ Head(<<s, x, y, z>>) = s /\ Tail(<<s, x, y, z>>) = <<x, y, z>>
         /\ Head(<<x, y, z>>) = x /\ Tail(<<x, y, z>>) = <<y, z>>
         /\ Head(<<y, z>>) = y /\ Tail(<<y, z>>) = <<z>>
         /\ Head(<<z>>) = z
<1>1. Head(<<p, q, r, s, x, y, z>>) = p /\ Tail(<<p, q, r, s, x, y, z>>) = <<q, r, s, x, y, z>>
  OBVIOUS
<1>2. Head(<<q, r, s, x, y, z>>) = q /\ Tail(<<q, r, s, x, y, z>>) = <<r, s, x, y, z>>
  OBVIOUS
<1>3. Head(<<r, s, x, y, z>>) = r /\ Tail(<<r, s, x, y, z>>) = <<s, x, y, z>>
  OBVIOUS
<1>4. Head(<<s, x, y, z>>) = s /\ Tail(<<s, x, y, z>>) = <<x, y, z>>
  OBVIOUS
<1>5. Head(<<x, y, z>>) = x /\ Tail(<<x, y, z>>) = <<y, z>>
  OBVIOUS
<1>6. Head(<<y, z>>) = y /\ Tail(<<y, z>>) = <<z>> /\ Head(<<z>>) = z
  OBVIOUS
<1> QED BY <1>1, <1>2, <1>3, <1>4, <1>5, <1>6

LEMMA Tails ==
  /\ Head(<<"tables", "timestamps", "statuses", "record 1", "auth", "record 2", "commit">>) = "tables"
     /\ Tail(<<"tables", "timestamps", "statuses", "record 1", "auth", "record 2", "commit">>)
          = <<"timestamps", "statuses", "record 1", "auth", "record 2", "commit">>
  /\ Head(<<"timestamps", "statuses", "record 1", "auth", "record 2", "commit">>) = "timestamps"
     /\ Tail(<<"timestamps", "statuses", "record 1", "auth", "record 2", "commit">>)
          = <<"statuses", "record 1", "auth", "record 2", "commit">>
  /\ Head(<<"statuses", "record 1", "auth", "record 2", "commit">>) = "statuses"
     /\ Tail(<<"statuses", "record 1", "auth", "record 2", "commit">>)
          = <<"record 1", "auth", "record 2", "commit">>
  /\ Head(<<"record 1", "auth", "record 2", "commit">>) = "record 1"
     /\ Tail(<<"record 1", "auth", "record 2", "commit">>)
          = <<"auth", "record 2", "commit">>
  /\ Head(<<"auth", "record 2", "commit">>) = "auth"
     /\ Tail(<<"auth", "record 2", "commit">>)
          = <<"record 2", "commit">>
  /\ Head(<<"record 2", "commit">>) = "record 2"
     /\ Tail(<<"record 2", "commit">>)
          = <<"commit">>
  /\ Head(<<"commit">>) = "commit"
<1>1. PICK p, q, r, s, x, y, z :
        /\ p = "tables" /\ q = "timestamps" /\ r = "statuses" /\ s = "record 1"
        /\ x = "auth" /\ y = "record 2" /\ z = "commit"
  OBVIOUS
<1>2. /\ Head(<<"tables", "timestamps", "statuses", "record 1", "auth", "record 2", "commit">>) = "tables"
      /\ Tail(<<"tables", "timestamps", "statuses", "record 1", "auth", "record 2", "commit">>)
           = <<"timestamps", "statuses", "record 1", "auth", "record 2", "commit">>
  <2>1. Head(<<p, q, r, s, x, y, z>>) = p /\ Tail(<<p, q, r, s, x, y, z>>) = <<q, r, s, x, y, z>>
    BY HeadsAndTails
  <2> QED BY <1>1, <2>1
<1>3. /\ Head(<<"timestamps", "statuses", "record 1", "auth", "record 2", "commit">>) = "timestamps"
      /\ Tail(<<"timestamps", "statuses", "record 1", "auth", "record 2", "commit">>)
           = <<"statuses", "record 1", "auth", "record 2", "commit">>
  <2>1. Head(<<q, r, s, x, y, z>>) = q /\ Tail(<<q, r, s, x, y, z>>) = <<r, s, x, y, z>>
    BY HeadsAndTails
  <2> QED BY <1>1, <2>1
<1>4. /\ Head(<<"statuses", "record 1", "auth", "record 2", "commit">>) = "statuses"
      /\ Tail(<<"statuses", "record 1", "auth", "record 2", "commit">>)
           = <<"record 1", "auth", "record 2", "commit">>
  <2>1. Head(<<r, s, x, y, z>>) = r /\ Tail(<<r, s, x, y, z>>) = <<s, x, y, z>>
    BY HeadsAndTails
  <2> QED BY <1>1, <2>1
<1>5. /\ Head(<<"record 1", "auth", "record 2", "commit">>) = "record 1"
      /\ Tail(<<"record 1", "auth", "record 2", "commit">>)
           = <<"auth", "record 2", "commit">>
  <2>1. Head(<<s, x, y, z>>) = s /\ Tail(<<s, x, y, z>>) = <<x, y, z>>
    BY HeadsAndTails
  <2> QED BY <1>1, <2>1
<1>6. /\ Head(<<"auth", "record 2", "commit">>) = "auth"
      /\ Tail(<<"auth", "record 2", "commit">>)
           = <<"record 2", "commit">>
  <2>1. Head(<<x, y, z>>) = x /\ Tail(<<x, y, z>>) = <<y, z>>
    BY HeadsAndTails
  <2> QED BY <1>1, <2>1
<1>7. /\ Head(<<"record 2", "commit">>) = "record 2"
      /\ Tail(<<"record 2", "commit">>)
           = <<"commit">>
  <2>1. Head(<<y, z>>) = y /\ Tail(<<y, z>>) = <<z>>
    BY HeadsAndTails
  <2> QED BY <1>1, <2>1
<1>8. Head(<<"commit">>) = "commit"
  OBVIOUS
<1> QED BY <1>2, <1>3, <1>4, <1>5, <1>6, <1>7, <1>8

LEMMA Advanced ==
  ASSUME NEW p \in Instances, Migrating(p), Head(proc[p].todo) # "commit",
         NEW new, new = Apply(Head(proc[p].todo), View(p)),
         proc'[p].work = new, proc'[p].todo = Tail(proc[p].todo), UNCHANGED active
  PROVE  Migrating(p)' /\ new \in Databases
<1>d. PICK todo, view : todo = proc[p].todo /\ view = View(p)
  OBVIOUS
<1>0. view \in Databases /\ view.origin = active.origin /\ view.admin = active.admin
      /\ active \in Databases /\ Progress(p)
  BY <1>d DEF Migrating
<1>v. view.tables \in BOOLEAN /\ view.auth \in BOOLEAN /\ view.marks \subseteq Marks
  BY <1>0 DEF Databases, Database, Marks
<1>t. \A s \in {"tables", "timestamps", "statuses", "record 1", "auth", "record 2"} :
        /\ Head(todo) = s
        /\ s = "record 1" => view.versions = {} /\ view.tables /\ view.marks = Marks
        /\ s = "record 2" => view.versions = {1} /\ view.auth
        => /\ new \in Databases /\ new.origin = view.origin /\ new.admin = view.admin
           /\ new.versions = IF s = "record 1" THEN {1}
                             ELSE IF s = "record 2" THEN {1, 2} ELSE view.versions
           /\ (new.tables <=> s = "tables" \/ view.tables)
           /\ (new.auth <=> s = "auth" \/ view.auth)
           /\ new.marks = IF s \in Marks THEN view.marks \cup {s} ELSE view.marks
  <2>1. SUFFICES ASSUME NEW s \in {"tables", "timestamps", "statuses", "record 1", "auth", "record 2"},
                        Head(todo) = s,
                        s = "record 1" => view.versions = {} /\ view.tables /\ view.marks = Marks,
                        s = "record 2" => view.versions = {1} /\ view.auth
                 PROVE  /\ new \in Databases /\ new.origin = view.origin /\ new.admin = view.admin
                        /\ new.versions = IF s = "record 1" THEN {1}
                                          ELSE IF s = "record 2" THEN {1, 2} ELSE view.versions
                        /\ (new.tables <=> s = "tables" \/ view.tables)
                        /\ (new.auth <=> s = "auth" \/ view.auth)
                        /\ new.marks = IF s \in Marks THEN view.marks \cup {s} ELSE view.marks
    OBVIOUS
  <2>2. new = Apply(s, view)
    BY <1>d, <2>1
  <2>3. view \in Databases
    BY <1>0
  <2>4. \E x \in Databases : AsApplied(s, view, x)
    BY <2>1, <2>3, Applied
  <2> QED BY <2>2, <2>4 DEF AsApplied
<1>1. SUFFICES new \in Databases /\ new.origin = view.origin /\ new.admin = view.admin
               /\ Progress(p)'
  <2>1. new # None /\ View(p)' = new
    BY Distinct DEF View
  <2> QED BY <1>0, <2>1 DEF Migrating
<1>2. CASE todo = <<"tables", "timestamps", "statuses", "record 1", "auth", "record 2", "commit">>
              /\ view.versions = {}
  <2>1. Head(todo) = "tables" /\ Tail(todo) = <<"timestamps", "statuses", "record 1", "auth", "record 2", "commit">>
    BY <1>2, Tails
  <2>2. /\ new \in Databases /\ new.origin = view.origin /\ new.admin = view.admin
        /\ new.versions = {} /\ new.tables
    BY <1>2, <1>t, <1>v, <2>1 DEF Marks
  <2>3. new # None /\ View(p)' = new
    BY <2>2, Distinct DEF View
  <2>4. Progress(p)'
    BY <1>d, <2>1, <2>2, <2>3 DEF Progress
  <2> QED BY <2>2, <2>4
<1>3. CASE todo = <<"timestamps", "statuses", "record 1", "auth", "record 2", "commit">>
              /\ view.versions = {} /\ view.tables
  <2>1. Head(todo) = "timestamps" /\ Tail(todo) = <<"statuses", "record 1", "auth", "record 2", "commit">>
    BY <1>3, Tails
  <2>2. /\ new \in Databases /\ new.origin = view.origin /\ new.admin = view.admin
        /\ new.versions = {} /\ new.tables /\ "timestamps" \in new.marks
    BY <1>3, <1>t, <1>v, <2>1 DEF Marks
  <2>3. new # None /\ View(p)' = new
    BY <2>2, Distinct DEF View
  <2>4. Progress(p)'
    BY <1>d, <2>1, <2>2, <2>3 DEF Progress
  <2> QED BY <2>2, <2>4
<1>4. CASE todo = <<"statuses", "record 1", "auth", "record 2", "commit">>
              /\ view.versions = {} /\ view.tables /\ "timestamps" \in view.marks
  <2>1. Head(todo) = "statuses" /\ Tail(todo) = <<"record 1", "auth", "record 2", "commit">>
    BY <1>4, Tails
  <2>2. /\ new \in Databases /\ new.origin = view.origin /\ new.admin = view.admin
        /\ new.versions = {} /\ new.tables /\ new.marks = Marks
    BY <1>4, <1>t, <1>v, <2>1 DEF Marks
  <2>3. new # None /\ View(p)' = new
    BY <2>2, Distinct DEF View
  <2>4. Progress(p)'
    BY <1>d, <2>1, <2>2, <2>3 DEF Progress
  <2> QED BY <2>2, <2>4
<1>5. CASE todo = <<"record 1", "auth", "record 2", "commit">>
              /\ view.versions = {} /\ view.tables /\ view.marks = Marks
  <2>1. Head(todo) = "record 1" /\ Tail(todo) = <<"auth", "record 2", "commit">>
    BY <1>5, Tails
  <2>2. /\ new \in Databases /\ new.origin = view.origin /\ new.admin = view.admin
        /\ new.versions = {1} /\ new.tables /\ new.marks = Marks
    BY <1>5, <1>t, <1>v, <2>1 DEF Marks
  <2>3. new # None /\ View(p)' = new
    BY <2>2, Distinct DEF View
  <2>4. Progress(p)'
    BY <1>d, <2>1, <2>2, <2>3 DEF Progress
  <2> QED BY <2>2, <2>4
<1>6. CASE todo = <<"auth", "record 2", "commit">>
              /\ view.versions = {1} /\ view.tables /\ view.marks = Marks
  <2>1. Head(todo) = "auth" /\ Tail(todo) = <<"record 2", "commit">>
    BY <1>6, Tails
  <2>2. /\ new \in Databases /\ new.origin = view.origin /\ new.admin = view.admin
        /\ new.versions = {1} /\ new.tables /\ new.marks = Marks /\ new.auth
    BY <1>6, <1>t, <1>v, <2>1 DEF Marks
  <2>3. new # None /\ View(p)' = new
    BY <2>2, Distinct DEF View
  <2>4. Progress(p)'
    BY <1>d, <2>1, <2>2, <2>3 DEF Progress
  <2> QED BY <2>2, <2>4
<1>7. CASE todo = <<"record 2", "commit">>
              /\ view.versions = {1} /\ view.tables /\ view.marks = Marks /\ view.auth
  <2>1. Head(todo) = "record 2" /\ Tail(todo) = <<"commit">>
    BY <1>7, Tails
  <2>2. /\ new \in Databases /\ new.origin = view.origin /\ new.admin = view.admin
        /\ new.versions = {1, 2} /\ new.tables /\ new.marks = Marks /\ new.auth
    BY <1>7, <1>t, <1>v, <2>1 DEF Marks
  <2>3. new # None /\ View(p)' = new
    BY <2>2, Distinct DEF View
  <2>4. Progress(p)'
    BY <1>d, <2>1, <2>2, <2>3 DEF Progress
  <2> QED BY <2>2, <2>4
<1>8. CASE todo = <<"commit">>
  BY <1>d, <1>8, Tails
<1> QED BY <1>0, <1>d, <1>2, <1>3, <1>4, <1>5, <1>6, <1>7, <1>8 DEF Progress


LEMMA MigrateStepKeeps ==
  ASSUME IInv, NEW p \in Instances, MigrateStep(p)
  PROVE  IInv'
<1>1. /\ proc[p] \in Process /\ proc[p].at = "migrating" /\ proc[p].copy = None
      /\ lock = p /\ Migrating(p) /\ (active.origin = "new" \/ active \in backups)
  BY Phase DEF MigrateStep, Knows, Holding, Phases
<1>2. PICK step, new, rest : step = Head(proc[p].todo) /\ new = Apply(step, View(p)) /\ rest = Tail(proc[p].todo)
  OBVIOUS
<1>3. step # "commit" /\ UNCHANGED <<active, legacy, backups, lock>>
      /\ proc' = [proc EXCEPT ![p].work = new, ![p].todo = Tail(@)]
  BY <1>2 DEF MigrateStep, View, Visible
<1>4. PICK r : r = [proc[p] EXCEPT !.work = new, !.todo = rest]
  OBVIOUS
<1>5. proc' = [proc EXCEPT ![p] = r] /\ proc'[p] = r
  BY <1>2, <1>3, <1>4 DEF IInv, DataOK
<1>6. r.work = new /\ r.todo = rest /\ r.at = "migrating" /\ r.copy = None
      /\ r.candidate = proc[p].candidate /\ r.existed = proc[p].existed
  BY <1>1, <1>4 DEF Process
<1>7. Migrating(p)' /\ new \in Databases
  BY <1>1, <1>2, <1>3, <1>5, <1>6, Advanced
<1>8. rest \in Seq(Steps)
  <2>1. Progress(p)' /\ proc'[p].todo = rest
    BY <1>5, <1>6, <1>7 DEF Migrating
  <2>2. \/ rest = <<"tables", "timestamps", "statuses", "record 1", "auth", "record 2", "commit">>
        \/ rest = <<"timestamps", "statuses", "record 1", "auth", "record 2", "commit">>
        \/ rest = <<"statuses", "record 1", "auth", "record 2", "commit">>
        \/ rest = <<"record 1", "auth", "record 2", "commit">>
        \/ rest = <<"auth", "record 2", "commit">>
        \/ rest = <<"record 2", "commit">>
        \/ rest = <<"commit">>
    BY <2>1 DEF Progress
  <2>3. /\ <<"tables", "timestamps", "statuses", "record 1", "auth", "record 2", "commit">> \in Seq(Steps)
        /\ <<"timestamps", "statuses", "record 1", "auth", "record 2", "commit">> \in Seq(Steps)
        /\ <<"statuses", "record 1", "auth", "record 2", "commit">> \in Seq(Steps)
        /\ <<"record 1", "auth", "record 2", "commit">> \in Seq(Steps)
        /\ <<"auth", "record 2", "commit">> \in Seq(Steps)
        /\ <<"record 2", "commit">> \in Seq(Steps)
        /\ <<"commit">> \in Seq(Steps)
    BY DEF Steps
  <2> QED BY <2>2, <2>3, Zenon
<1>9. r \in Process
  BY <1>1, <1>4, <1>7, <1>8, Distinct DEF Process
<1>10. Knows(p)'
  BY <1>1, <1>3, <1>5, <1>6, <1>7 DEF Knows
<1> QED BY <1>3, <1>5, <1>9, <1>10, QuietStep

LEMMA CommitKeeps ==
  ASSUME IInv, NEW p \in Instances, Commit(p)
  PROVE  /\ IInv'
         /\ active' \in Databases /\ Complete(active')
         /\ active.origin = "new" \/ active \in backups
<1>1. /\ proc[p] \in Process /\ proc[p].at = "migrating" /\ proc[p].copy = None
      /\ lock = p /\ Migrating(p) /\ (active.origin = "new" \/ active \in backups)
  BY Phase DEF Commit, Knows, Holding, Phases
<1>2. PICK new : new = proc[p].work
  OBVIOUS
<1>3. new \in Databases /\ new.versions = {1, 2} /\ new.origin = active.origin
      /\ new.admin = active.admin
  <2>1. proc[p].todo = <<"commit">>
    BY DEF Commit
  <2>2. Head(<<"tables", "timestamps", "statuses", "record 1", "auth", "record 2", "commit">>) # Head(<<"commit">>)
        /\ Head(<<"timestamps", "statuses", "record 1", "auth", "record 2", "commit">>) # Head(<<"commit">>)
        /\ Head(<<"statuses", "record 1", "auth", "record 2", "commit">>) # Head(<<"commit">>)
        /\ Head(<<"record 1", "auth", "record 2", "commit">>) # Head(<<"commit">>)
        /\ Head(<<"auth", "record 2", "commit">>) # Head(<<"commit">>)
        /\ Head(<<"record 2", "commit">>) # Head(<<"commit">>)
    BY Tails
  <2>3. View(p).versions = {1, 2} /\ proc[p].work # None
    BY <1>1, <2>1, <2>2 DEF Migrating, Progress
  <2>4. View(p) = new
    BY <1>2, <2>3 DEF View
  <2> QED BY <1>1, <2>3, <2>4 DEF Migrating
<1>4. Complete(new)
  BY <1>3, CurrentComplete
<1>5. active' = new /\ UNCHANGED <<legacy, backups, lock>>
      /\ proc' = [proc EXCEPT ![p].at = "account", ![p].work = None, ![p].todo = << >>]
  BY <1>2 DEF Commit
<1>6. PICK r : r = [proc[p] EXCEPT !.at = "account", !.work = None, !.todo = << >>]
  OBVIOUS
<1>7. r \in Process /\ r.at = "account" /\ r.work = None /\ r.copy = None
  <2>1. PICK nothing : nothing \in Seq(Steps) /\ nothing = << >>
    <3>1. << >> \in Seq(Steps)
      BY EmptySeq
    <3> QED BY <3>1
  <2>2. PICK q \in Process : q = proc[p] /\ q.copy = None
    BY <1>1
  <2>3. r = [q EXCEPT !.at = "account", !.work = None, !.todo = nothing]
    BY <1>6, <2>1, <2>2
  <2>4. r \in Process /\ r.at = "account" /\ r.work = None /\ r.copy = q.copy
    BY <2>1, <2>2, <2>3 DEF Process, Phases
  <2> QED BY <2>2, <2>4
<1>8. proc' = [proc EXCEPT ![p] = r] /\ proc'[p] = r
  BY <1>5, <1>6 DEF IInv, DataOK
<1>9. Knows(p)'
  BY <1>1, <1>3, <1>4, <1>5, <1>7, <1>8 DEF Knows
<1>10. active'.origin = "new" => \A i \in Candidates : legacy[i] = None
  BY <1>1, <1>3, <1>5 DEF Migrating, IInv, DataOK
<1>11. lock' \in Instances \cup {Free, Stale} /\ backups' \subseteq Database /\ backups \subseteq backups'
  BY <1>5 DEF IInv, DataOK
<1>12. IInv'
  BY <1>1, <1>3, <1>4, <1>5, <1>7, <1>8, <1>9, <1>10, <1>11, StepKeeps
<1> QED BY <1>1, <1>3, <1>4, <1>5, <1>12

LEMMA ClosedProcess ==
  Closed \in Process /\ Closed.at = "closed" /\ Closed.copy = None /\ Closed.work = None
BY StartupAssumption DEF Closed, Process, Phases, Files

LEMMA DefaultUserKeeps ==
  ASSUME IInv, NEW p \in Instances, DefaultUser(p)
  PROVE  /\ IInv'
         /\ active \in Databases /\ active' \in Databases /\ Complete(active')
         /\ active'.versions = active.versions
<1>1. /\ proc[p].at = "account" /\ lock = p /\ active \in Databases /\ Complete(active)
  BY Phase DEF DefaultUser, Knows, Holding, Phases
<1>2. PICK new : new = [active EXCEPT !.admin = TRUE]
  OBVIOUS
<1>3. /\ new \in Database /\ new.origin = active.origin /\ new.versions = active.versions
      /\ new.tables = active.tables /\ new.auth = active.auth /\ new.marks = active.marks
      /\ new.times = active.times /\ new.codes = active.codes /\ new.admin
  BY <1>1, <1>2 DEF Databases, Database
<1>4. new \in Databases
  BY <1>1, <1>3 DEF Databases, WellKept
<1>5. Complete(new)
  BY <1>1, <1>3 DEF Complete, SchemaVersion
<1>6. active' = new /\ lock' = Free /\ UNCHANGED <<legacy, backups>>
      /\ proc' = [proc EXCEPT ![p] = [Closed EXCEPT !.at = "ready"]]
  BY <1>2 DEF DefaultUser
<1>7. PICK r : r = [Closed EXCEPT !.at = "ready"]
  OBVIOUS
<1>8. r \in Process /\ r.at = "ready" /\ r.copy = None /\ r.work = None
  BY <1>7, ClosedProcess DEF Process, Phases
<1>9. proc' = [proc EXCEPT ![p] = r] /\ proc'[p] = r
  BY <1>6, <1>7 DEF IInv, DataOK
<1>10. Knows(p)'
  BY <1>3, <1>4, <1>5, <1>6, <1>8, <1>9 DEF Knows, Holding
<1>11. active'.origin = "new" => \A i \in Candidates : legacy[i] = None
  BY <1>1, <1>3, <1>6 DEF IInv, DataOK
<1>12. IInv'
  BY <1>1, <1>3, <1>4, <1>5, <1>6, <1>8, <1>9, <1>10, <1>11, StepKeeps DEF IInv, DataOK
<1> QED BY <1>1, <1>3, <1>4, <1>5, <1>6, <1>12

LEMMA EndKeeps ==
  ASSUME IInv, NEW p \in Instances, Fail(p) \/ Crash(p) \/ Shutdown(p)
  PROVE  IInv' /\ UNCHANGED active
<1>1. proc' = [proc EXCEPT ![p] = Closed] /\ proc'[p] = Closed
      /\ UNCHANGED <<active, legacy, backups>>
  BY DEF Fail, Crash, Shutdown, IInv, DataOK
<1>2. lock' \in Instances \cup {Free, Stale} /\ (lock # p => lock' = lock)
  BY DEF Fail, Crash, Shutdown, IInv, DataOK
<1>3. Knows(p)'
  BY <1>1, ClosedProcess DEF Knows, Holding
<1>4. IInv'
  BY <1>1, <1>2, <1>3, ClosedProcess, StepKeeps DEF IInv, DataOK
<1> QED BY <1>1, <1>4

-----------------------------------------------------------------------------
(* The specification *)

(* What a step does to the database. *)
LEMMA Changes ==
  ASSUME IInv, NEW p \in Instances,
         \/ Begin(p) \/ TakeLock(p) \/ Import(p) \/ Probe(p) \/ Open(p)
         \/ Migrate(p) \/ DefaultUser(p)
         \/ Fail(p) \/ Crash(p) \/ Shutdown(p)
  PROVE  /\ IInv'
         /\ IsDatabase(active) /\ active' # active =>
              /\ active' \in Databases /\ Complete(active')
              /\ active'.versions = active.versions
                   \/ active.origin = "new" \/ active \in backups
<1>1. CASE Begin(p)
  BY <1>1, BeginKeeps DEF Begin
<1>2. CASE TakeLock(p)
  BY <1>2, TakeLockKeeps DEF TakeLock
<1>3. CASE Import(p)
  <2>1. CASE Look(p)
    BY <2>1, LookKeeps DEF Look
  <2>2. CASE Validate(p) \/ PassOver(p)
    BY <2>2, ValidateKeeps DEF Validate, PassOver
  <2>3. CASE StartCopy(p)
    BY <2>3, StartCopyKeeps DEF StartCopy, Destination
  <2>4. CASE FinishCopy(p)
    BY <2>4, FinishCopyKeeps DEF FinishCopy, Destination
  <2>5. CASE Move(p)
    BY <2>5, MoveKeeps DEF Move, IsDatabase
  <2> QED BY <1>3, <2>1, <2>2, <2>3, <2>4, <2>5 DEF Import
<1>4. CASE Probe(p)
  BY <1>4, ProbeKeeps DEF Probe
<1>5. CASE Open(p)
  BY <1>5, OpenKeeps DEF Open, IsDatabase
<1>6. CASE Migrate(p)
  <2>1. CASE ReadVersion(p)
    BY <2>1, ReadVersionKeeps DEF ReadVersion
  <2>2. CASE Backup(p)
    BY <2>2, BackupKeeps DEF Backup
  <2>3. CASE MigrateStep(p)
    BY <2>3, MigrateStepKeeps DEF MigrateStep, Visible
  <2>4. CASE Commit(p)
    BY <2>4, CommitKeeps
  <2> QED BY <1>6, <2>1, <2>2, <2>3, <2>4 DEF Migrate
<1>7. CASE DefaultUser(p)
  BY <1>7, DefaultUserKeeps
<1>8. CASE Fail(p) \/ Crash(p) \/ Shutdown(p)
  BY <1>8, EndKeeps
<1> QED BY <1>1, <1>2, <1>3, <1>4, <1>5, <1>6, <1>7, <1>8

LEMMA InitOK == Init => IInv
<1> SUFFICES ASSUME Init PROVE IInv
  OBVIOUS
<1>1. active \in {db \in Databases : db.origin = "old"} \cup {None, Broken}
  BY StartupAssumption DEF Init, Databases
<1>2. legacy \in [Candidates -> Databases \cup {None, Broken}]
  BY StartupAssumption DEF Init, Databases
<1>3. active \in Databases => active.origin # "new"
  <2>1. None \notin Databases /\ Broken \notin Databases
    BY Distinct
  <2> QED BY <1>1, <2>1
<1>4. DataOK
  BY <1>1, <1>2, <1>3, ClosedProcess DEF Init, DataOK
<1>5. \A p \in Instances : Knows(p)
  BY ClosedProcess DEF Init, Knows, Holding
<1> QED BY <1>4, <1>5 DEF IInv

LEMMA NextOK == IInv /\ [Next]_vars => IInv'
<1> SUFFICES ASSUME IInv, [Next]_vars PROVE IInv'
  OBVIOUS
<1>1. CASE Next
  BY <1>1, Changes DEF Next
<1>2. CASE UNCHANGED vars
  <2>1. \A p \in Instances : Knows(p)'
    BY <1>2, OthersKnow DEF vars, IInv, DataOK
  <2> QED BY <1>2, <2>1 DEF vars, IInv, DataOK
<1> QED BY <1>1, <1>2

(* In every reachable state an instance between locking and being ready    *)
(* holds the lock file, knows what is in the data directory, and has done  *)
(* exactly the part of the migration that is no longer on its list.        *)
THEOREM Invariance == Spec => []IInv
BY InitOK, NextOK, PTL DEF Spec

(* Every variable of initialize() keeps its type.                          *)
THEOREM TypeCorrect == Spec => []TypeOK
<1>1. IInv => TypeOK
  BY Distinct DEF IInv, DataOK, TypeOK, Databases
<1> QED BY <1>1, Invariance, PTL

(* Whatever candidate fails and wherever a process dies between copying,   *)
(* moving and opening, the active database is never an unfinished copy,    *)
(* and never a new one beside a legacy database.                           *)
THEOREM ImportAlwaysWhole == Spec => []ImportWhole
<1>1. IInv => ImportWhole
  BY StartupAssumption, Distinct DEF IInv, DataOK, ImportWhole, IsDatabase
<1> QED BY <1>1, Invariance, PTL

(* An instance past initialize() relies on a complete database with its    *)
(* administrator, and no other instance's start takes that away.           *)
THEOREM ReadyAlwaysComplete == Spec => []ReadyComplete
<1>1. IInv => ReadyComplete
  BY Distinct DEF IInv, Knows, ReadyComplete
<1> QED BY <1>1, Invariance, PTL

LEMMA StepChanges ==
  ASSUME IInv, [Next]_vars, IsDatabase(active), active' # active
  PROVE  /\ active' \in Databases /\ Complete(active')
         /\ active'.versions = active.versions
              \/ active.origin = "new" \/ active \in backups
<1>1. Next
  BY DEF vars
<1>2. PICK p \in Instances :
         \/ Begin(p) \/ TakeLock(p) \/ Import(p) \/ Probe(p) \/ Open(p)
         \/ Migrate(p) \/ DefaultUser(p)
         \/ Fail(p) \/ Crash(p) \/ Shutdown(p)
  BY <1>1 DEF Next
<1> QED BY <1>2, Changes

(* The transaction of migrateSchema() is all that changes a database: what *)
(* other processes and later starts find is as before or complete.         *)
THEOREM MigrationsInOnePiece == Spec => MigrationInOnePiece
<1>1. IInv /\ [Next]_vars =>
        [IsDatabase(active) /\ active' # active => IsDatabase(active') /\ Complete(active')]_vars
  BY StepChanges, Distinct
<1> QED BY <1>1, Invariance, PTL DEF Spec, MigrationInOnePiece

(* A schema changes only when the rows that were there are in a backup,    *)
(* as they were.                                                           *)
THEOREM AlwaysBackedUp == Spec => BackedUp
<1>1. IInv /\ [Next]_vars =>
        [IsDatabase(active) /\ active.origin # "new" /\ active'.versions # active.versions
          => active \in backups]_vars
  BY StepChanges
<1> QED BY <1>1, Invariance, PTL DEF Spec, BackedUp
=============================================================================
