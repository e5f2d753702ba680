----------------------- MODULE TelemetryDatabaseProofs -----------------------
(***************************************************************************)
(* Proofs about TelemetryDatabase, for any batches, any chunk size and any *)
(* interleaving of the submitting threads: the tables hold exactly what    *)
(* the completions report, and a query reads all that was stored before    *)
(* it.                                                                     *)
(***************************************************************************)
EXTENDS TelemetryDatabase, TelemetryRepositoryProofs

Row == [batch : Serials, index : Nat \ {0}, device : Devices]

TableState == [telemetry : Seq(Row), status : [Devices -> Row \cup {None}]]

RowAt(c, b, i) == [batch |-> b, index |-> i, device |-> c[b].rows[i]]

(* A row of the first n[b] rows of a batch b for the table. *)
IsRowOf(x, table, n, c) ==
  /\ x \in Row
  /\ c[x.batch].table = table
  /\ x.index <= n[x.batch]
  /\ x.device = c[x.batch].rows[x.index]

(* A device's status: the last of these rows that is about it. *)
IsStatus(r, d, n, c) ==
  /\ r # None => IsRowOf(r, "device_status", n, c) /\ r.device = d
  /\ \A b \in Serials : \A i \in 1..n[b] :
       c[b].table = "device_status" /\ c[b].rows[i] = d
         => r # None /\ (RowAt(c, b, i) = r \/ Precedes(RowAt(c, b, i), r))

Ascending(s) == \A i, j \in DOMAIN s : i < j => Precedes(s[i], s[j])

(* The tables hold the first n[b] rows of every batch b, and nothing else. *)
Holds(tables, n, c) ==
  /\ tables \in TableState
  /\ \A j \in DOMAIN tables.telemetry : IsRowOf(tables.telemetry[j], "telemetry", n, c)
  /\ \A b \in Serials : \A i \in 1..n[b] :
       c[b].table = "telemetry" => Has(tables.telemetry, RowAt(c, b, i))
  /\ Ascending(tables.telemetry)
  /\ \A d \in Devices : IsStatus(tables.status[d], d, n, c)

(* The counts when a transaction has written the first k rows of batch o. *)
Reaching(o, k) == [insertedCount EXCEPT ![o] = k]

StoreTyped ==
  /\ content \in [Serials -> Batches \cup {NoBatch}]
  /\ bound \in Nat
  /\ insertedCount \in [Serials -> Nat]
  /\ outcome \in [Serials -> Ends \cup {"none"}]
  /\ answers \in [Serials -> SUBSET Row]

(* What each task is, by the batch kept for its serial number. *)
Fits(task, c) ==
  /\ task.kind = "batch" => c[task.serial] \in Batches
  /\ task.kind = "query" => c[task.serial] = NoBatch

TasksFit ==
  /\ \A i \in DOMAIN repo.tasks : Fits(repo.tasks[i], content)
  /\ worker.at \in {"announce", "run"} => Fits(worker.task, content)
  /\ \A b \in Serials : b > history.pushed => content[b] = NoBatch

(* How far the batches are: those that ended, the one that runs, and those *)
(* not begun.                                                              *)
Counted ==
  /\ \A b \in Serials :
       /\ insertedCount[b] <= Len(content[b].rows)
       /\ insertedCount[b] = Len(content[b].rows) \/ insertedCount[b] % BatchSize = 0
       /\ outcome[b] = "done" => insertedCount[b] = Len(content[b].rows)
       /\ outcome[b] # "none" <=> b <= history.ran
       /\ b > history.ran /\ ~(worker.at = "run" /\ b = Running) => insertedCount[b] = 0
  /\ Writing => insertedCount[Running] <= bound /\ bound <= ChunkEnd
  /\ ~Writing => bound = 0
  /\ worker.at = "run" /\ ~Writing => insertedCount[Running] = 0

(* What is committed, and what is not: the rows of the running chunk, or   *)
(* those of a task that threw.                                             *)
Committed == Holds(database, insertedCount, content)

Left(tables, o, k) ==
  /\ outcome[o] = "threw"
  /\ insertedCount[o] <= k /\ k <= Len(content[o].rows)
  /\ Holds(tables, Reaching(o, k), content)

Uncommitted ==
  IF Writing /\ InChunk
  THEN transaction # None /\ Holds(transaction, Reaching(Running, bound), content)
  ELSE transaction # None => \E o \in Serials, k \in Nat : Left(transaction, o, k)

Answered(q) ==
  outcome[q] = "done" /\ content[q] = NoBatch =>
    /\ \A b \in Serials : \A i \in 1..insertedCount[b] :
         b < q /\ content[b].table = "telemetry" => RowAt(content, b, i) \in answers[q]
    /\ \A row \in answers[q] :
         /\ row.batch < q
         /\ row.index > insertedCount[row.batch] => outcome[row.batch] = "threw"

StoreInv ==
  /\ IInv
  /\ StoreTyped
  /\ TasksFit
  /\ Counted
  /\ Committed
  /\ Uncommitted
  /\ \A q \in Serials : Answered(q)

-----------------------------------------------------------------------------
(* Rows and batches *)

LEMMA NotNone ==
  /\ \A t \in TableState : t # None
  /\ \A r \in Row : r # None
  /\ NoBatch \notin Batches
<1>1. ASSUME NEW t \in TableState PROVE t # None
  <2>1. DOMAIN t = {"telemetry", "status"} /\ DOMAIN None = {"none"}
    BY DEF TableState, None
  <2> QED BY <2>1
<1>2. ASSUME NEW r \in Row PROVE r # None
  <2>1. DOMAIN r = {"batch", "index", "device"} /\ DOMAIN None = {"none"}
    BY DEF Row, None
  <2> QED BY <2>1
<1>3. NoBatch \notin Batches
  BY BatchesAssumption DEF Tables, NoBatch
<1> QED BY <1>1, <1>2, <1>3

LEMMA BatchFacts ==
  ASSUME NEW batch \in Batches \cup {NoBatch}
  PROVE  /\ batch.rows \in Seq(Devices)
         /\ Len(batch.rows) \in Nat
         /\ batch = NoBatch => Len(batch.rows) = 0 /\ batch.table \notin Tables
         /\ batch # NoBatch => batch \in Batches /\ batch.table \in Tables
         /\ \A i \in 1..Len(batch.rows) : batch.rows[i] \in Devices
<1>1. batch.rows \in Seq(Devices)
  <2>1. CASE batch = NoBatch
    <3>1. batch.rows = << >>
      BY <2>1 DEF NoBatch
    <3> QED BY <3>1
  <2>2. CASE batch \in Batches
    BY <2>2, BatchesAssumption
  <2> QED BY <2>1, <2>2
<1>2. batch = NoBatch => Len(batch.rows) = 0 /\ batch.table \notin Tables
  BY DEF NoBatch, Tables
<1>3. batch # NoBatch => batch \in Batches /\ batch.table \in Tables
  BY BatchesAssumption
<1> QED BY <1>1, <1>2, <1>3

Contents == [Serials -> Batches \cup {NoBatch}]

LEMMA RowAtTyped ==
  ASSUME NEW c \in Contents, NEW b \in Serials, NEW i \in 1..Len(c[b].rows)
  PROVE  /\ RowAt(c, b, i) \in Row
         /\ RowAt(c, b, i).batch = b /\ RowAt(c, b, i).index = i
         /\ RowAt(c, b, i).device = c[b].rows[i]
<1>1. c[b] \in Batches \cup {NoBatch}
  BY DEF Contents
<1>2. c[b].rows[i] \in Devices /\ i \in Nat \ {0}
  BY <1>1, BatchFacts
<1> QED BY <1>2 DEF RowAt, Row

LEMMA RowIsAt ==
  ASSUME NEW c, NEW table, NEW n, NEW x, IsRowOf(x, table, n, c)
  PROVE  /\ x = RowAt(c, x.batch, x.index)
         /\ x.batch \in Serials /\ x.index \in Nat \ {0} /\ x.index <= n[x.batch]
<1>1. /\ x \in Row /\ x.device = c[x.batch].rows[x.index] /\ x.index <= n[x.batch]
  BY DEF IsRowOf
<1>2. x = [batch |-> x.batch, index |-> x.index, device |-> x.device]
  BY <1>1 DEF Row
<1>3. x.batch \in Serials /\ x.index \in Nat \ {0}
  BY <1>1 DEF Row
<1> QED BY <1>1, <1>2, <1>3 DEF RowAt

-----------------------------------------------------------------------------
(* What the tables hold *)

(* A batch of which nothing is written may be another one. *)
LEMMA HoldsKept ==
  ASSUME NEW tables, NEW n \in [Serials -> Nat], NEW c, NEW d, Holds(tables, n, c),
         \A b \in Serials : n[b] > 0 => d[b] = c[b]
  PROVE  Holds(tables, n, d)
<1>1. ASSUME NEW x, NEW table, IsRowOf(x, table, n, c)
      PROVE  IsRowOf(x, table, n, d)
  <2>1. x \in Row /\ x.batch \in Serials /\ x.index \in Nat \ {0} /\ x.index <= n[x.batch]
    BY <1>1 DEF IsRowOf, Row
  <2>2. n[x.batch] \in Nat
    BY <2>1
  <2>3. d[x.batch] = c[x.batch]
    BY <2>1, <2>2
  <2> QED BY <1>1, <2>3 DEF IsRowOf
<1>2. ASSUME NEW b \in Serials, NEW i \in 1..n[b]
      PROVE  d[b] = c[b] /\ RowAt(d, b, i) = RowAt(c, b, i)
  <2>1. n[b] > 0
    BY <1>2
  <2> QED BY <2>1 DEF RowAt
<1>3. \A e \in Devices : IsStatus(tables.status[e], e, n, d)
  <2> SUFFICES ASSUME NEW e \in Devices
               PROVE  IsStatus(tables.status[e], e, n, d)
    OBVIOUS
  <2>1. IsStatus(tables.status[e], e, n, c)
    BY DEF Holds
  <2> QED BY <2>1, <1>1, <1>2 DEF IsStatus
<1>4. \A b \in Serials : \A i \in 1..n[b] :
        d[b].table = "telemetry" => Has(tables.telemetry, RowAt(d, b, i))
  BY <1>2 DEF Holds
<1>5. \A j \in DOMAIN tables.telemetry : IsRowOf(tables.telemetry[j], "telemetry", n, d)
  BY <1>1 DEF Holds
<1> QED BY <1>3, <1>4, <1>5 DEF Holds

(* A written row is a row also when more is written. *)
LEMMA RowStays ==
  ASSUME NEW n \in [Serials -> Nat], NEW c, NEW o \in Serials,
         NEW x, NEW table, IsRowOf(x, table, n, c)
  PROVE  IsRowOf(x, table, [n EXCEPT ![o] = n[o] + 1], c)
<1>1. x \in Row /\ x.batch \in Serials /\ x.index \in Nat \ {0} /\ x.index <= n[x.batch]
  BY DEF IsRowOf, Row
<1>2. n[x.batch] \in Nat /\ n[o] \in Nat
  BY <1>1
<1>3. x.index <= [n EXCEPT ![o] = n[o] + 1][x.batch]
  BY <1>1, <1>2
<1> QED BY <1>3 DEF IsRowOf

(* The next row of a batch is written behind all that is there. *)
LEMMA Behind ==
  ASSUME NEW n \in [Serials -> Nat], NEW c \in Contents, NEW o \in Serials,
         n[o] < Len(c[o].rows), \A b \in Serials : b > o => n[b] = 0
  PROVE  /\ RowAt(c, o, n[o] + 1) \in Row
         /\ IsRowOf(RowAt(c, o, n[o] + 1), c[o].table, [n EXCEPT ![o] = n[o] + 1], c)
         /\ \A x, table : IsRowOf(x, table, n, c) => Precedes(x, RowAt(c, o, n[o] + 1))
         /\ \A b \in Serials : \A i \in 1..[n EXCEPT ![o] = n[o] + 1][b] :
              i \in 1..n[b] \/ (b = o /\ i = n[o] + 1)
<1>1. PICK new : new = RowAt(c, o, n[o] + 1)
  OBVIOUS
<1>2. PICK m : m = [n EXCEPT ![o] = n[o] + 1]
  OBVIOUS
<1>3. n[o] \in Nat /\ c[o] \in Batches \cup {NoBatch} /\ m[o] = n[o] + 1
  BY <1>2 DEF Contents
<1>4. Len(c[o].rows) \in Nat
  BY <1>3, BatchFacts
<1>5. n[o] + 1 \in 1..Len(c[o].rows)
  BY <1>3, <1>4
<1>6. new \in Row /\ new.batch = o /\ new.index = n[o] + 1
      /\ new.device = c[o].rows[n[o] + 1]
  BY <1>1, <1>5, RowAtTyped
<1>7. IsRowOf(new, c[o].table, m, c)
  BY <1>3, <1>6 DEF IsRowOf
<1>8. ASSUME NEW x, NEW table, IsRowOf(x, table, n, c)
      PROVE  Precedes(x, new)
  <2>1. x.batch \in Serials /\ x.index \in Nat \ {0} /\ x.index <= n[x.batch]
    BY <1>8 DEF IsRowOf, Row
  <2>2. n[x.batch] # 0
    BY <2>1
  <2>3. ~(x.batch > o)
    BY <2>1, <2>2
  <2>4. x.batch < o \/ x.batch = o
    BY <2>1, <2>3, BoundsAssumption DEF Serials
  <2> QED BY <1>3, <1>6, <2>1, <2>4 DEF Precedes
<1>9. ASSUME NEW b \in Serials, NEW i \in 1..m[b]
      PROVE  i \in 1..n[b] \/ (b = o /\ i = n[o] + 1)
  BY <1>2, <1>3
<1> QED BY <1>1, <1>2, <1>6, <1>7, <1>8, <1>9

(* Rows that are not about a device leave its status. *)
LEMMA StatusStays ==
  ASSUME NEW n, NEW m, NEW c, NEW d, NEW r, IsStatus(r, d, n, c),
         \A x, table : IsRowOf(x, table, n, c) => IsRowOf(x, table, m, c),
         \A b \in Serials : \A i \in 1..m[b] :
           i \in 1..n[b] \/ c[b].table # "device_status" \/ c[b].rows[i] # d
  PROVE  IsStatus(r, d, m, c)
<1>1. r # None => IsRowOf(r, "device_status", m, c) /\ r.device = d
  <2> SUFFICES ASSUME r # None
               PROVE  IsRowOf(r, "device_status", m, c) /\ r.device = d
    OBVIOUS
  <2>1. IsRowOf(r, "device_status", n, c) /\ r.device = d
    BY DEF IsStatus
  <2> QED BY <2>1
<1>2. ASSUME NEW b \in Serials, NEW i \in 1..m[b],
             c[b].table = "device_status", c[b].rows[i] = d
      PROVE  r # None /\ (RowAt(c, b, i) = r \/ Precedes(RowAt(c, b, i), r))
  <2>1. i \in 1..n[b]
    BY <1>2
  <2> QED BY <1>2, <2>1 DEF IsStatus
<1> QED BY <1>1, <1>2 DEF IsStatus

LEMMA InsertHolds ==
  ASSUME NEW n \in [Serials -> Nat], NEW c \in Contents, NEW o \in Serials,
         c[o] \in Batches, n[o] < Len(c[o].rows), \A b \in Serials : b > o => n[b] = 0,
         NEW tables, Holds(tables, n, c)
  PROVE  Holds(Insert(tables, c[o].table, RowAt(c, o, n[o] + 1)),
               [n EXCEPT ![o] = n[o] + 1], c)
<1>1. PICK new : new = RowAt(c, o, n[o] + 1)
  OBVIOUS
<1>2. PICK m : m = [n EXCEPT ![o] = n[o] + 1]
  OBVIOUS
<1>3. /\ new \in Row
      /\ IsRowOf(new, c[o].table, m, c)
      /\ \A x, table : IsRowOf(x, table, n, c) => Precedes(x, new)
      /\ \A b \in Serials : \A i \in 1..m[b] : i \in 1..n[b] \/ (b = o /\ i = n[o] + 1)
  BY <1>1, <1>2, Behind
<1>4. \A x, table : IsRowOf(x, table, n, c) => IsRowOf(x, table, m, c)
  BY <1>2, RowStays
<1>5. PICK tel, status : tel = tables.telemetry /\ status = tables.status
  OBVIOUS
<1>6. /\ tables = [telemetry |-> tel, status |-> status]
      /\ tel \in Seq(Row) /\ status \in [Devices -> Row \cup {None}]
      /\ \A j \in DOMAIN tel : IsRowOf(tel[j], "telemetry", n, c)
      /\ \A b \in Serials : \A i \in 1..n[b] :
           c[b].table = "telemetry" => Has(tel, RowAt(c, b, i))
      /\ Ascending(tel)
      /\ \A d \in Devices : IsStatus(status[d], d, n, c)
  BY <1>5 DEF Holds, TableState
<1>7. c[o].table \in Tables
  BY BatchesAssumption
<1>8. CASE c[o].table = "telemetry"
  <2>1. PICK more : more = Append(tel, new)
    OBVIOUS
  <2>2. /\ more \in Seq(Row)
        /\ DOMAIN more = 1..(Len(tel) + 1)
        /\ \A i \in 1..Len(tel) : more[i] = tel[i]
        /\ more[Len(tel) + 1] = new
        /\ DOMAIN tel = 1..Len(tel) /\ Len(tel) \in Nat
    BY <1>3, <1>6, <2>1, AppendFacts
  <2>3. Insert(tables, c[o].table, new) = [telemetry |-> more, status |-> status]
    BY <1>6, <1>8, <2>1 DEF Insert
  <2>4. \A j \in DOMAIN more : IsRowOf(more[j], "telemetry", m, c)
    <3> SUFFICES ASSUME NEW j \in DOMAIN more
                 PROVE  IsRowOf(more[j], "telemetry", m, c)
      OBVIOUS
    <3>1. CASE j = Len(tel) + 1
      BY <1>3, <1>8, <2>2, <3>1
    <3>2. CASE j \in 1..Len(tel)
      BY <1>4, <1>6, <2>2, <3>2
    <3> QED BY <2>2, <3>1, <3>2
  <2>5. \A x : Has(more, x) <=> Has(tel, x) \/ new = x
    BY <1>3, <1>6, <2>1, HasAppend
  <2>6. \A b \in Serials : \A i \in 1..m[b] :
          c[b].table = "telemetry" => Has(more, RowAt(c, b, i))
    BY <1>1, <1>3, <1>6, <2>5
  <2>7. Ascending(more)
    <3> SUFFICES ASSUME NEW i \in DOMAIN more, NEW j \in DOMAIN more, i < j
                 PROVE  Precedes(more[i], more[j])
      BY DEF Ascending
    <3>1. i \in 1..Len(tel) /\ more[i] = tel[i]
      BY <2>2
    <3>2. CASE j = Len(tel) + 1
      BY <1>3, <1>6, <2>2, <3>1, <3>2
    <3>3. CASE j \in 1..Len(tel)
      <4>1. more[j] = tel[j] /\ i \in DOMAIN tel /\ j \in DOMAIN tel
        BY <2>2, <3>1, <3>3
      <4> QED BY <1>6, <3>1, <4>1 DEF Ascending
    <3> QED BY <2>2, <3>2, <3>3
  <2>8. \A d \in Devices : IsStatus(status[d], d, m, c)
    <3> SUFFICES ASSUME NEW d \in Devices
                 PROVE  IsStatus(status[d], d, m, c)
      OBVIOUS
    <3>1. IsStatus(status[d], d, n, c)
      BY <1>6
    <3>2. \A b \in Serials : \A i \in 1..m[b] :
            i \in 1..n[b] \/ c[b].table # "device_status" \/ c[b].rows[i] # d
      BY <1>3, <1>8
    <3> QED BY <1>4, <3>1, <3>2, StatusStays
  <2>9. [telemetry |-> more, status |-> status] \in TableState
    BY <1>6, <2>2 DEF TableState
  <2>10. PICK after : after = [telemetry |-> more, status |-> status]
    OBVIOUS
  <2>11. after.telemetry = more /\ after.status = status
    BY <2>10
  <2>12. Holds(after, m, c)
    BY <2>4, <2>6, <2>7, <2>8, <2>9, <2>10, <2>11 DEF Holds
  <2> QED BY <1>1, <1>2, <2>3, <2>10, <2>12
<1>9. CASE c[o].table = "device_status"
  <2>1. PICK e : e = new.device /\ e \in Devices
    BY <1>3 DEF Row
  <2>2. PICK next : next = [status EXCEPT ![e] = new]
    OBVIOUS
  <2>3. next \in [Devices -> Row \cup {None}] /\ next[e] = new
        /\ \A d \in Devices : d # e => next[d] = status[d]
    BY <1>3, <1>6, <2>1, <2>2
  <2>4. Insert(tables, c[o].table, new) = [telemetry |-> tel, status |-> next]
    BY <1>6, <1>9, <2>1, <2>2 DEF Insert
  <2>5. \A j \in DOMAIN tel : IsRowOf(tel[j], "telemetry", m, c)
    BY <1>4, <1>6
  <2>6. \A b \in Serials : \A i \in 1..m[b] :
          c[b].table = "telemetry" => Has(tel, RowAt(c, b, i))
    BY <1>3, <1>6, <1>9
  <2>7. IsStatus(new, e, m, c)
    <3>1. new # None
      BY <1>3, NotNone
    <3>2. ASSUME NEW b \in Serials, NEW i \in 1..n[b],
                 c[b].table = "device_status", c[b].rows[i] = e
          PROVE  Precedes(RowAt(c, b, i), new)
      <4>1. IsStatus(status[e], e, n, c)
        BY <1>6, <2>1
      <4>2. PICK r : r = status[e]
        OBVIOUS
      <4>3. r # None /\ IsRowOf(r, "device_status", n, c)
            /\ (RowAt(c, b, i) = r \/ Precedes(RowAt(c, b, i), r))
        BY <3>2, <4>1, <4>2 DEF IsStatus
      <4>4. Precedes(r, new) /\ r.batch \in Nat /\ r.index \in Nat
        BY <1>3, <4>3 DEF IsRowOf, Row, Serials
      <4>5. RowAt(c, b, i).batch = b /\ RowAt(c, b, i).index = i
        BY DEF RowAt
      <4>6. new.batch \in Nat /\ new.index \in Nat /\ b \in Nat /\ i \in Nat
        BY <1>3, <3>2 DEF Row, Serials
      <4> QED BY <4>3, <4>4, <4>5, <4>6 DEF Precedes
    <3> QED BY <1>1, <1>3, <1>9, <2>1, <3>1, <3>2 DEF IsStatus
  <2>8. \A d \in Devices : IsStatus(next[d], d, m, c)
    <3> SUFFICES ASSUME NEW d \in Devices
                 PROVE  IsStatus(next[d], d, m, c)
      OBVIOUS
    <3>1. CASE d = e
      BY <2>3, <2>7, <3>1
    <3>2. CASE d # e
      <4>1. IsStatus(status[d], d, n, c) /\ next[d] = status[d]
        BY <1>6, <2>3, <3>2
      <4>2. c[o].rows[n[o] + 1] # d
        BY <1>1, <2>1, <3>2 DEF RowAt
      <4>3. \A b \in Serials : \A i \in 1..m[b] :
              i \in 1..n[b] \/ c[b].table # "device_status" \/ c[b].rows[i] # d
        BY <1>3, <4>2
      <4>4. IsStatus(status[d], d, m, c)
        BY <1>4, <4>1, <4>3, StatusStays
      <4> QED BY <4>1, <4>4
    <3> QED BY <3>1, <3>2
  <2>9. [telemetry |-> tel, status |-> next] \in TableState
    BY <1>6, <2>3 DEF TableState
  <2>10. PICK after : after = [telemetry |-> tel, status |-> next]
    OBVIOUS
  <2>11. after.telemetry = tel /\ after.status = next
    BY <2>10
  <2>12. Holds(after, m, c)
    BY <1>6, <2>5, <2>6, <2>8, <2>9, <2>10, <2>11 DEF Holds
  <2> QED BY <1>1, <1>2, <2>4, <2>10, <2>12
<1> QED BY <1>7, <1>8, <1>9 DEF Tables

-----------------------------------------------------------------------------
(* The state *)

LEMMA NextMultiple ==
  ASSUME NEW n \in Nat, NEW b \in Nat \ {0}, n % b = 0
  PROVE  (n + b) % b = 0
<1>1. n = b * (n \div b) + (n % b)
  OBVIOUS
<1>2. PICK q \in Nat : q = n \div b
  OBVIOUS
<1>3. n + b = b * (q + 1)
  BY <1>1, <1>2
<1>4. (b * (q + 1)) % b = 0
  OBVIOUS
<1> QED BY <1>3, <1>4

LEMMA RowsFacts ==
  ASSUME StoreTyped, NEW b \in Serials
  PROVE  /\ content \in Contents /\ content[b] \in Batches \cup {NoBatch}
         /\ Len(content[b].rows) \in Nat
         /\ RowsOf(b) \in Seq(Row)
         /\ Len(RowsOf(b)) = Len(content[b].rows)
         /\ DOMAIN RowsOf(b) = 1..Len(content[b].rows)
         /\ \A i \in 1..Len(content[b].rows) : RowsOf(b)[i] = RowAt(content, b, i)
<1>1. content \in Contents /\ content[b] \in Batches \cup {NoBatch}
  BY DEF StoreTyped, Contents
<1>2. content[b].rows \in Seq(Devices) /\ Len(content[b].rows) \in Nat
  BY <1>1, BatchFacts
<1>3. PICK n \in Nat : n = Len(content[b].rows) /\ DOMAIN content[b].rows = 1..n
  BY <1>2
<1>4. RowsOf(b) = [i \in 1..n |-> RowAt(content, b, i)]
  BY <1>3 DEF RowsOf, RowAt
<1>5. \A i \in 1..n : RowAt(content, b, i) \in Row
  BY <1>1, <1>3, RowAtTyped
<1>6. RowsOf(b) \in Seq(Row) /\ Len(RowsOf(b)) = n /\ DOMAIN RowsOf(b) = 1..n
  BY <1>3, <1>4, <1>5
<1> QED BY <1>1, <1>2, <1>3, <1>4, <1>6

LEMMA RunFacts ==
  ASSUME StoreInv, worker.at = "run"
  PROVE  /\ Running = history.ran + 1 /\ Running \in Serials /\ history.ran \in Nat
         /\ content[Running] \in Batches \cup {NoBatch}
         /\ Len(content[Running].rows) \in Nat
         /\ worker.task.kind \in {"batch", "query"}
         /\ worker.task.kind = "batch" => content[Running] \in Batches
         /\ worker.task.kind = "query" => /\ content[Running] = NoBatch
                                          /\ Len(content[Running].rows) = 0
                                          /\ insertedCount[Running] = 0
         /\ insertedCount[Running] \in Nat /\ bound \in Nat
         /\ Len(Rows) = Len(content[Running].rows)
         /\ ChunkEnd \in Nat /\ ChunkEnd <= Len(content[Running].rows)
<1>1. /\ worker \in Worker /\ history \in History /\ NothingLost /\ StoreTyped
      /\ TasksFit /\ Counted
  BY DEF StoreInv, IInv, Typed, TypeOK
<1>2. Running = history.ran + 1 /\ history.ran \in Nat
  BY <1>1 DEF NothingLost, Held, Running, History
<1>3. worker.task \in Task
  BY <1>1, <1>2 DEF Worker, NoTask, Running
<1>4. Running \in Serials /\ worker.task.kind \in {"batch", "query"}
  BY <1>3, KindsAssumption DEF Task, Serials, Running
<1>5. Fits(worker.task, content)
  BY <1>1 DEF TasksFit
<1>6. /\ worker.task.kind = "batch" => content[Running] \in Batches
      /\ worker.task.kind = "query" => content[Running] = NoBatch
  BY <1>5 DEF Fits, Running
<1>7. /\ content[Running] \in Batches \cup {NoBatch} /\ Len(content[Running].rows) \in Nat
      /\ Len(RowsOf(Running)) = Len(content[Running].rows)
  BY <1>1, <1>4, RowsFacts
<1>8. insertedCount[Running] \in Nat /\ bound \in Nat
      /\ insertedCount[Running] <= Len(content[Running].rows)
  BY <1>1, <1>4 DEF StoreTyped, Counted
<1>9. content[Running] = NoBatch => Len(content[Running].rows) = 0
  BY <1>7, BatchFacts
<1>10. worker.task.kind = "query" => insertedCount[Running] = 0
  BY <1>6, <1>8, <1>9
<1>11. Len(Rows) = Len(content[Running].rows)
  BY <1>7 DEF Rows
<1>12. ChunkEnd \in Nat /\ ChunkEnd <= Len(content[Running].rows)
  BY <1>7, <1>8, <1>11, BatchSizeAssumption DEF ChunkEnd
<1> QED BY <1>2, <1>4, <1>6, <1>7, <1>8, <1>9, <1>10, <1>11, <1>12

LEMMA Numbers ==
  ASSUME StoreInv
  PROVE  /\ history.ran \in Nat /\ history.pushed \in Nat
         /\ history.ran <= history.pushed /\ history.pushed <= MaxRequests
         /\ \A b \in Serials : b \in Nat /\ b >= 1 /\ insertedCount[b] \in Nat
  <1>1. history \in History /\ NothingLost /\ repo \in Repository /\ StoreTyped
    BY DEF StoreInv, IInv, Typed, TypeOK
  <1>2. Len(repo.tasks) \in Nat /\ Held \in Nat
    BY <1>1 DEF Repository, Held
  <1>3. /\ history.ran \in Nat /\ history.pushed \in Nat /\ history.pushed <= MaxRequests
        /\ history.ran + Held + Len(repo.tasks) = history.pushed
    BY <1>1, BoundsAssumption DEF History, NothingLost
  <1>4. \A b \in Serials : b \in Nat /\ b >= 1 /\ insertedCount[b] \in Nat
    BY <1>1, BoundsAssumption DEF StoreTyped, Serials
  <1> QED BY <1>2, <1>3, <1>4

(* Nothing is written of a batch that has not begun. *)
LEMMA NotBegun ==
  ASSUME StoreInv, NEW b \in Serials, b > history.pushed
  PROVE  insertedCount[b] = 0
<1>1. CASE worker.at = "run"
  <2>1. Held = 1 /\ Len(repo.tasks) \in Nat /\ history.ran + Held + Len(repo.tasks) = history.pushed
    BY <1>1 DEF StoreInv, IInv, Typed, TypeOK, Repository, NothingLost, Held
  <2>2. Running = history.ran + 1
    BY <1>1, RunFacts
  <2>3. b > history.ran /\ b # Running
    BY <2>1, <2>2, Numbers
  <2> QED BY <2>3 DEF StoreInv, Counted
<1>2. CASE worker.at # "run"
  <2>1. b > history.ran
    BY Numbers
  <2> QED BY <1>2, <2>1 DEF StoreInv, Counted
<1> QED BY <1>1, <1>2

-----------------------------------------------------------------------------
(* What stays *)

LEMMA CommittedStays ==
  ASSUME StoreInv, database' = database, insertedCount' = insertedCount,
         \A b \in Serials : b <= history.pushed => content'[b] = content[b]
  PROVE  Committed'
<1>1. \A b \in Serials : insertedCount[b] > 0 => content'[b] = content[b]
  BY Numbers, NotBegun
<1>2. insertedCount \in [Serials -> Nat] /\ Holds(database, insertedCount, content)
  BY DEF StoreInv, StoreTyped, Committed
<1>3. Holds(database, insertedCount, content')
  BY <1>1, <1>2, HoldsKept
<1> QED BY <1>3 DEF Committed

LEMMA LeftStays ==
  ASSUME StoreInv, transaction' = transaction, insertedCount' = insertedCount,
         \A b \in Serials : b <= history.pushed => content'[b] = content[b],
         \A b \in Serials : b <= history.ran => outcome'[b] = outcome[b],
         NEW o \in Serials, NEW k \in Nat, Left(transaction, o, k)
  PROVE  Left(transaction, o, k)'
<1>1. o <= history.ran /\ o <= history.pushed
  BY Numbers DEF StoreInv, Counted, Left
<1>2. outcome'[o] = outcome[o] /\ content'[o] = content[o]
  BY <1>1
<1>3. PICK n \in [Serials -> Nat] : n = Reaching(o, k)
  BY DEF StoreInv, StoreTyped, Reaching
<1>4. \A b \in Serials : n[b] > 0 => content'[b] = content[b]
  <2> SUFFICES ASSUME NEW b \in Serials, n[b] > 0
               PROVE  content'[b] = content[b]
    OBVIOUS
  <2>1. CASE b = o
    BY <1>2, <2>1
  <2>2. CASE b # o
    <3>1. n[b] = insertedCount[b]
      BY <1>3, <2>2 DEF StoreInv, StoreTyped, Reaching
    <3> QED BY <3>1, Numbers, NotBegun
  <2> QED BY <2>1, <2>2
<1>5. Holds(transaction, n, content)
  BY <1>3 DEF Left
<1>6. Holds(transaction, n, content')
  BY <1>4, <1>5, HoldsKept
<1>7. Reaching(o, k)' = n
  BY <1>3 DEF Reaching
<1> QED BY <1>2, <1>6, <1>7 DEF Left

LEMMA AnswerStays ==
  ASSUME StoreInv, NEW q \in Serials, q <= history.ran,
         \A b \in Serials : b <= history.ran =>
           /\ content'[b] = content[b] /\ insertedCount'[b] = insertedCount[b]
           /\ outcome'[b] = outcome[b] /\ answers'[b] = answers[b]
  PROVE  Answered(q)'
<1>1. Answered(q) /\ history.ran \in Nat
  BY Numbers DEF StoreInv
<1>2. /\ content'[q] = content[q] /\ outcome'[q] = outcome[q]
      /\ answers'[q] = answers[q]
  OBVIOUS
<1>3. ASSUME outcome[q] = "done", content[q] = NoBatch,
             NEW b \in Serials, NEW i \in 1..insertedCount'[b],
             b < q, content'[b].table = "telemetry"
      PROVE  RowAt(content', b, i) \in answers'[q]
  <2>1. b <= history.ran
    BY <1>1, <1>3 DEF Serials
  <2>2. /\ content'[b] = content[b] /\ insertedCount'[b] = insertedCount[b]
    BY <2>1
  <2>3. RowAt(content', b, i) = RowAt(content, b, i)
    BY <2>2 DEF RowAt
  <2> QED BY <1>1, <1>2, <1>3, <2>2, <2>3 DEF Answered
<1>4. ASSUME outcome[q] = "done", content[q] = NoBatch, NEW row \in answers'[q]
      PROVE  /\ row.batch < q
             /\ row.index > insertedCount'[row.batch] => outcome'[row.batch] = "threw"
  <2>1. row \in answers[q]
    BY <1>2, <1>4
  <2>2. row.batch \in Serials
    BY <2>1 DEF StoreInv, StoreTyped, Row
  <2>3. row.batch < q
    BY <1>1, <1>4, <2>1 DEF Answered
  <2>4. row.batch <= history.ran
    BY <1>1, <2>2, <2>3 DEF Serials
  <2>5. insertedCount'[row.batch] = insertedCount[row.batch]
        /\ outcome'[row.batch] = outcome[row.batch]
    BY <2>2, <2>4
  <2> QED BY <1>1, <1>4, <2>1, <2>3, <2>5 DEF Answered
<1> QED BY <1>2, <1>3, <1>4 DEF Answered

-----------------------------------------------------------------------------
(* Steps *)

LEMMA StoreInitHolds == StoreInit => StoreInv
<1> SUFFICES ASSUME StoreInit PROVE StoreInv
  OBVIOUS
<1>1. /\ content = [b \in Serials |-> NoBatch]
      /\ database = [telemetry |-> <<>>, status |-> [d \in Devices |-> None]]
      /\ transaction = None /\ bound = 0
      /\ insertedCount = [b \in Serials |-> 0]
      /\ outcome = [b \in Serials |-> "none"]
      /\ answers = [b \in Serials |-> {}]
      /\ worker.at = "idle" /\ repo.tasks = <<>> /\ history.ran = 0
  BY DEF StoreInit, Init
<1>2. IInv
  BY InitHolds DEF StoreInit
<1>3. StoreTyped
  BY <1>1 DEF StoreTyped, Ends
<1>4. TasksFit
  BY <1>1 DEF TasksFit
<1>5. \A b \in Serials : Len(content[b].rows) = 0 /\ b > 0
  BY <1>1, BoundsAssumption DEF NoBatch, Serials
<1>6. Counted
  BY <1>1, <1>5 DEF Counted, Writing
<1>7. Committed
  <2>1. PICK tables : tables = database /\ tables.telemetry = <<>>
                      /\ tables.status = [d \in Devices |-> None]
    BY <1>1
  <2>2. database \in TableState
    <3>1. <<>> \in Seq(Row) /\ [d \in Devices |-> None] \in [Devices -> Row \cup {None}]
      OBVIOUS
    <3> QED BY <1>1, <3>1 DEF TableState
  <2>3. \A b \in Serials : 1..insertedCount[b] = {}
    BY <1>1
  <2>4. \A d \in Devices : IsStatus(None, d, insertedCount, content)
    BY <2>3 DEF IsStatus
  <2>5. Ascending(<<>>)
    BY DEF Ascending
  <2> QED BY <2>1, <2>2, <2>3, <2>4, <2>5 DEF Committed, Holds
<1>8. Uncommitted
  BY <1>1 DEF Uncommitted, Writing
<1>9. \A q \in Serials : Answered(q)
  BY <1>1 DEF Answered
<1> QED BY <1>2, <1>3, <1>4, <1>6, <1>7, <1>8, <1>9 DEF StoreInv

(* Steps of the queue that neither take nor end a task. *)
LEMMA QuietStep ==
  ASSUME StoreInv, IInv', UNCHANGED store,
         history'.ran = history.ran, history'.pushed = history.pushed,
         repo'.tasks = repo.tasks \/ repo'.tasks = <<>>,
         \/ worker' = worker
         \/ worker.at \notin {"announce", "run"} /\ worker'.at \notin {"announce", "run"}
  PROVE  StoreInv'
<1>1. /\ content' = content /\ database' = database /\ transaction' = transaction
      /\ bound' = bound /\ insertedCount' = insertedCount /\ outcome' = outcome
      /\ answers' = answers
  BY DEF store
<1>2. StoreTyped'
  BY <1>1 DEF StoreInv, StoreTyped
<1>3. TasksFit'
  BY <1>1 DEF StoreInv, TasksFit
<1>4. /\ worker'.at = "run" <=> worker.at = "run"
      /\ worker'.at = "run" => worker' = worker
  OBVIOUS
<1>5. /\ Writing' <=> Writing
      /\ Writing => Running' = Running /\ ChunkEnd' = ChunkEnd /\ (InChunk' <=> InChunk)
      /\ worker.at = "run" => Running' = Running
  BY <1>1, <1>4 DEF Writing, Running, ChunkEnd, InChunk, Rows, RowsOf
<1>6. Counted'
  BY <1>1, <1>4, <1>5 DEF StoreInv, Counted
<1>7. Committed'
  BY <1>1, CommittedStays
<1>8. Uncommitted'
  <2>1. CASE Writing /\ InChunk
    BY <1>1, <1>5, <2>1 DEF StoreInv, Uncommitted, Reaching
  <2>2. CASE ~(Writing /\ InChunk)
    <3>1. ASSUME transaction # None
          PROVE  \E o \in Serials, k \in Nat : Left(transaction, o, k)'
      <4>1. PICK o \in Serials, k \in Nat : Left(transaction, o, k)
        BY <2>2, <3>1 DEF StoreInv, Uncommitted
      <4>2. Left(transaction, o, k)'
        BY <1>1, <4>1, LeftStays
      <4> QED BY <4>2
    <3>2. ~(Writing' /\ InChunk')
      BY <1>5, <2>2
    <3> QED BY <1>1, <3>1, <3>2 DEF Uncommitted
  <2> QED BY <2>1, <2>2
<1>9. ASSUME NEW q \in Serials PROVE Answered(q)'
  BY <1>1 DEF StoreInv, Answered, RowAt
<1> QED BY <1>2, <1>3, <1>6, <1>7, <1>8, <1>9 DEF StoreInv

(* What an unfinished step leaves of the store when no task runs. *)
LEMMA IdleUncommitted ==
  ASSUME StoreInv, UNCHANGED store, ~Writing, ~Writing'
  PROVE  Uncommitted'
<1>1. /\ content' = content /\ transaction' = transaction
      /\ insertedCount' = insertedCount /\ outcome' = outcome
  BY DEF store
<1>2. ASSUME transaction # None
      PROVE  \E o \in Serials, k \in Nat : Left(transaction, o, k)'
  <2>1. PICK o \in Serials, k \in Nat : Left(transaction, o, k)
    BY <1>2 DEF StoreInv, Uncommitted
  <2>2. Left(transaction, o, k)'
    BY <1>1, <2>1, LeftStays
  <2> QED BY <2>2
<1> QED BY <1>1, <1>2 DEF Uncommitted

LEMMA popTask_Stored ==
  ASSUME StoreInv, IInv', popTask, UNCHANGED store
  PROVE  StoreInv'
<1>1. /\ content' = content /\ database' = database /\ transaction' = transaction
      /\ bound' = bound /\ insertedCount' = insertedCount /\ outcome' = outcome
      /\ answers' = answers
  BY DEF store
<1>2. /\ worker.at = "pop" /\ repo.tasks # <<>> /\ history' = history
      /\ repo' = [repo EXCEPT !.tasks = Tail(@)]
      /\ worker' = [worker EXCEPT !.at = "announce", !.task = Head(repo.tasks)]
      /\ worker \in Worker /\ repo \in Repository
  BY DEF popTask, StoreInv, IInv, Typed, TypeOK
<1>3. PICK tasks : tasks = repo.tasks /\ tasks \in Seq(Task) /\ tasks # <<>>
  BY <1>2 DEF Repository
<1>4. repo'.tasks = Tail(tasks) /\ worker'.at = "announce" /\ worker'.task = Head(tasks)
  BY <1>2, <1>3 DEF Worker, Repository
<1>5. /\ \A i \in DOMAIN Tail(tasks) : i + 1 \in DOMAIN tasks /\ Tail(tasks)[i] = tasks[i + 1]
      /\ 1 \in DOMAIN tasks /\ Head(tasks) = tasks[1]
  BY <1>3, TailFacts
<1>6. \A i \in DOMAIN tasks : Fits(tasks[i], content)
  BY <1>3 DEF StoreInv, TasksFit
<1>7. StoreTyped'
  BY <1>1 DEF StoreInv, StoreTyped
<1>8. TasksFit'
  <2>1. \A i \in DOMAIN repo'.tasks : Fits(repo'.tasks[i], content')
    BY <1>1, <1>4, <1>5, <1>6
  <2>2. Fits(worker'.task, content')
    BY <1>1, <1>4, <1>5, <1>6
  <2> QED BY <1>1, <1>2, <2>1, <2>2 DEF StoreInv, TasksFit
<1>9. ~Writing /\ ~Writing' /\ worker.at # "run" /\ worker'.at # "run"
  BY <1>2, <1>4 DEF Writing
<1>10. Counted'
  BY <1>1, <1>2, <1>9 DEF StoreInv, Counted
<1>11. Committed' /\ Uncommitted'
  BY <1>1, <1>9, CommittedStays, IdleUncommitted
<1>12. ASSUME NEW q \in Serials PROVE Answered(q)'
  BY <1>1 DEF StoreInv, Answered, RowAt
<1> QED BY <1>7, <1>8, <1>10, <1>11, <1>12 DEF StoreInv

LEMMA announcePop_Stored ==
  ASSUME StoreInv, IInv', announcePop, UNCHANGED store
  PROVE  StoreInv'
<1>1. /\ content' = content /\ database' = database /\ transaction' = transaction
      /\ bound' = bound /\ insertedCount' = insertedCount /\ outcome' = outcome
      /\ answers' = answers
  BY DEF store
<1>2. /\ worker.at = "announce" /\ repo' = repo /\ history' = history
      /\ worker' = [worker EXCEPT !.at = "run"] /\ worker \in Worker
      /\ NothingLost /\ history \in History
  BY DEF announcePop, StoreInv, IInv, Typed, TypeOK
<1>3. worker'.at = "run" /\ worker'.task = worker.task /\ Running' = Running
  BY <1>2 DEF Worker, Running
<1>4. Running = history.ran + 1 /\ history.ran \in Nat
  BY <1>2 DEF NothingLost, Held, Running, History
<1>5. worker.task \in Task
  BY <1>2, <1>4 DEF Worker, NoTask, Running
<1>6. Running \in Serials
  BY <1>5 DEF Task, Serials, Running
<1>7. insertedCount[Running] = 0 /\ bound = 0 /\ ~Writing
  BY <1>2, <1>4, <1>6 DEF StoreInv, Counted, Writing
<1>8. StoreTyped'
  BY <1>1 DEF StoreInv, StoreTyped
<1>9. TasksFit'
  BY <1>1, <1>2, <1>3 DEF StoreInv, TasksFit
<1>10. Len(Rows) \in Nat /\ Rows' = Rows
  BY <1>1, <1>3, <1>6, RowsFacts DEF StoreInv, Rows, RowsOf
<1>11. insertedCount'[Running'] <= bound' /\ bound' <= ChunkEnd'
  BY <1>1, <1>3, <1>7, <1>10, BatchSizeAssumption DEF ChunkEnd
<1>12. Counted'
  BY <1>1, <1>2, <1>3, <1>7, <1>11 DEF StoreInv, Counted
<1>13. ~InChunk'
  BY <1>1, <1>3, <1>7 DEF InChunk
<1>14. Committed'
  BY <1>1, CommittedStays
<1>15. Uncommitted'
  <2>1. ASSUME transaction # None
        PROVE  \E o \in Serials, k \in Nat : Left(transaction, o, k)'
    <3>1. PICK o \in Serials, k \in Nat : Left(transaction, o, k)
      BY <1>7, <2>1 DEF StoreInv, Uncommitted
    <3>2. Left(transaction, o, k)'
      BY <1>1, <3>1, LeftStays
    <3> QED BY <3>2
  <2> QED BY <1>1, <1>13, <2>1 DEF Uncommitted
<1>16. ASSUME NEW q \in Serials PROVE Answered(q)'
  BY <1>1 DEF StoreInv, Answered, RowAt
<1> QED BY <1>8, <1>9, <1>12, <1>14, <1>15, <1>16 DEF StoreInv

LEMMA submit_Stored ==
  ASSUME StoreInv, IInv', NEW t \in Threads, NEW kind \in Kinds, submit(t, kind)
  PROVE  StoreInv'
<1>1. /\ database' = database /\ transaction' = transaction
      /\ bound' = bound /\ insertedCount' = insertedCount /\ outcome' = outcome
      /\ answers' = answers /\ worker' = worker
      /\ enqueueTask(t, kind)
  BY DEF submit, enqueueTask
<1>2. /\ history \in History /\ repo \in Repository /\ worker \in Worker
      /\ history.requests < MaxRequests /\ history.pushed <= history.requests
  BY <1>1 DEF enqueueTask, StoreInv, IInv, Typed, TypeOK
<1>3. PICK n : n = history.pushed + 1
  OBVIOUS
<1>4. n \in Serials /\ n \in Nat
  BY <1>2, <1>3, BoundsAssumption DEF History, Serials
<1>5. history'.pushed = n /\ history'.ran = history.ran
  BY <1>1, <1>2, <1>3 DEF enqueueTask, History
<1>6. PICK task : task = [id |-> repo.nextRequestId, kind |-> kind, serial |-> n]
  OBVIOUS
<1>7. repo'.tasks = Append(repo.tasks, task) /\ repo.tasks \in Seq(Task)
  BY <1>1, <1>2, <1>3, <1>6 DEF enqueueTask, Repository
<1>8. task \in Task /\ task.serial = n /\ task.kind = kind
  BY <1>2, <1>4, <1>6 DEF Task, Repository, Serials
<1>9. PICK batch : /\ batch \in IF kind = "batch" THEN Batches ELSE {NoBatch}
                   /\ content' = [content EXCEPT ![n] = batch]
  BY <1>3 DEF submit
<1>10. /\ content \in [Serials -> Batches \cup {NoBatch}]
       /\ content'[n] = batch /\ \A b \in Serials : b # n => content'[b] = content[b]
       /\ content' \in [Serials -> Batches \cup {NoBatch}]
  BY <1>4, <1>9 DEF StoreInv, StoreTyped
<1>11. \A b \in Serials : b <= history.pushed => content'[b] = content[b]
  BY <1>3, <1>10, Numbers
<1>12. \A b \in Serials : b <= history.ran => content'[b] = content[b]
  BY <1>11, Numbers
<1>13. StoreTyped'
  BY <1>1, <1>10 DEF StoreInv, StoreTyped
<1>14. ASSUME worker.at \in {"announce", "run"}
       PROVE  worker.task.serial \in Serials /\ worker.task.serial <= history.pushed
  <2>1. worker.task.serial = history.ran + 1 /\ Held = 1 /\ history.ran \in Nat
    BY <1>2, <1>14 DEF StoreInv, IInv, NothingLost, Held, History
  <2>2. worker.task \in Task
    BY <1>2, <2>1 DEF Worker, NoTask
  <2>3. history.ran + Held + Len(repo.tasks) = history.pushed /\ Len(repo.tasks) \in Nat
    BY <1>7 DEF StoreInv, IInv, NothingLost
  <2> QED BY <2>1, <2>2, <2>3 DEF Task, Serials
<1>15. TasksFit'
  <2>1. Fits(task, content')
    BY <1>8, <1>9, <1>10, KindsAssumption DEF Fits
  <2>2. ASSUME NEW i \in 1..Len(repo.tasks)
        PROVE  Fits(repo.tasks[i], content')
    <3>1. i \in DOMAIN repo.tasks /\ repo.tasks[i] \in Task
      BY <1>7
    <3>2. repo.tasks[i].serial = history.ran + Held + i
          /\ history.ran + Held + Len(repo.tasks) = history.pushed
      BY <3>1 DEF StoreInv, IInv, NothingLost
    <3>3. repo.tasks[i].serial \in Serials /\ repo.tasks[i].serial <= history.pushed
      BY <1>7, <2>2, <3>1, <3>2, Numbers DEF Task, Serials, Held
    <3>4. Fits(repo.tasks[i], content) /\ content'[repo.tasks[i].serial] = content[repo.tasks[i].serial]
      BY <1>11, <3>1, <3>3 DEF StoreInv, TasksFit
    <3> QED BY <3>4 DEF Fits
  <2>3. ASSUME NEW i \in DOMAIN repo'.tasks
        PROVE  Fits(repo'.tasks[i], content')
    <3>1. /\ DOMAIN repo'.tasks = 1..(Len(repo.tasks) + 1) /\ Len(repo.tasks) \in Nat
          /\ \A j \in 1..Len(repo.tasks) : repo'.tasks[j] = repo.tasks[j]
          /\ repo'.tasks[Len(repo.tasks) + 1] = task
      BY <1>7, <1>8, AppendFacts
    <3>2. i = Len(repo.tasks) + 1 \/ i \in 1..Len(repo.tasks)
      BY <2>3, <3>1
    <3> QED BY <2>1, <2>2, <3>1, <3>2
  <2>4. worker'.at \in {"announce", "run"} => Fits(worker'.task, content')
    BY <1>1, <1>11, <1>14 DEF StoreInv, TasksFit, Fits
  <2>5. \A b \in Serials : b > history'.pushed => content'[b] = NoBatch
    BY <1>3, <1>4, <1>5, <1>10, Numbers DEF StoreInv, TasksFit
  <2> QED BY <2>3, <2>4, <2>5 DEF TasksFit
<1>16. \A b \in Serials : content'[b] = content[b] \/
          (b = n /\ insertedCount[b] = 0 /\ outcome[b] = "none")
  <2> SUFFICES ASSUME n \in Serials
               PROVE  insertedCount[n] = 0 /\ outcome[n] = "none"
    BY <1>4, <1>10
  <2>1. n > history.pushed /\ n > history.ran
    BY <1>3, Numbers
  <2>2. insertedCount[n] = 0
    BY <2>1, NotBegun
  <2>3. ~(n <= history.ran)
    BY <1>4, <2>1, Numbers
  <2> QED BY <2>2, <2>3 DEF StoreInv, Counted
<1>17. /\ Writing' <=> Writing
       /\ Running' = Running
       /\ worker.at = "run" => content'[Running] = content[Running]
       /\ worker.at = "run" => ChunkEnd' = ChunkEnd /\ (InChunk' <=> InChunk)
  BY <1>1, <1>11, <1>14 DEF Writing, Running, ChunkEnd, InChunk, Rows, RowsOf
<1>18. Counted'
  <2>1. ASSUME NEW b \in Serials
        PROVE  /\ insertedCount[b] <= Len(content'[b].rows)
               /\ insertedCount[b] = Len(content'[b].rows) \/ insertedCount[b] % BatchSize = 0
               /\ outcome[b] = "done" => insertedCount[b] = Len(content'[b].rows)
    <3>1. CASE content'[b] = content[b]
      BY <3>1 DEF StoreInv, Counted
    <3>2. CASE insertedCount[b] = 0 /\ outcome[b] = "none"
      <4>1. Len(content'[b].rows) \in Nat
        BY <1>10, BatchFacts
      <4>2. 0 % BatchSize = 0
        BY BatchSizeAssumption
      <4> QED BY <3>2, <4>1, <4>2
    <3> QED BY <1>16, <3>1, <3>2
  <2> QED BY <1>1, <1>5, <1>17, <2>1 DEF StoreInv, Counted, Writing
<1>19. Committed'
  BY <1>1, <1>11, CommittedStays
<1>20. Uncommitted'
  <2>1. CASE Writing /\ InChunk
    <3>1. Running \in Serials /\ Running <= history.pushed /\ worker.at = "run"
      BY <1>14, <2>1 DEF Running, Writing
    <3>2. PICK m \in [Serials -> Nat] : m = Reaching(Running, bound)
      BY DEF StoreInv, StoreTyped, Reaching
    <3>3. \A b \in Serials : m[b] > 0 => content'[b] = content[b]
      <4> SUFFICES ASSUME NEW b \in Serials, m[b] > 0
                   PROVE  content'[b] = content[b]
        OBVIOUS
      <4>1. CASE b = Running
        BY <1>11, <3>1, <4>1
      <4>2. CASE b # Running
        <5>1. m[b] = insertedCount[b]
          BY <3>2, <4>2 DEF StoreInv, StoreTyped, Reaching
        <5> QED BY <1>16, <5>1
      <4> QED BY <4>1, <4>2
    <3>4. transaction # None /\ Holds(transaction, m, content)
      BY <2>1, <3>2 DEF StoreInv, Uncommitted
    <3>5. Holds(transaction, m, content')
      BY <3>3, <3>4, HoldsKept
    <3>6. Reaching(Running, bound)' = m
      BY <1>1, <1>17, <3>2 DEF Reaching
    <3> QED BY <1>1, <1>17, <2>1, <3>1, <3>4, <3>5, <3>6 DEF Uncommitted
  <2>2. CASE ~(Writing /\ InChunk)
    <3>1. ASSUME transaction # None
          PROVE  \E o \in Serials, k \in Nat : Left(transaction, o, k)'
      <4>1. PICK o \in Serials, k \in Nat : Left(transaction, o, k)
        BY <2>2, <3>1 DEF StoreInv, Uncommitted
      <4>2. Left(transaction, o, k)'
        BY <1>1, <1>11, <4>1, LeftStays
      <4> QED BY <4>2
    <3>2. ~(Writing' /\ InChunk')
      BY <1>17, <2>2 DEF Writing
    <3> QED BY <1>1, <3>1, <3>2 DEF Uncommitted
  <2> QED BY <2>1, <2>2
<1>21. ASSUME NEW q \in Serials PROVE Answered(q)'
  <2>1. CASE q <= history.ran
    BY <1>1, <1>12, <2>1, AnswerStays
  <2>2. CASE ~(q <= history.ran)
    <3>1. outcome'[q] = "none"
      BY <1>1, <2>2 DEF StoreInv, Counted
    <3> QED BY <3>1 DEF Answered
  <2> QED BY <2>1, <2>2
<1> QED BY <1>13, <1>15, <1>18, <1>19, <1>20, <1>21 DEF StoreInv

(* The connection's tables, with what the running chunk has written. *)
LEMMA Current ==
  ASSUME StoreInv, Writing, InChunk \/ transaction = None
  PROVE  Holds(IF InChunk THEN transaction ELSE database, Reaching(Running, bound), content)
<1>1. CASE InChunk
  BY <1>1 DEF StoreInv, Uncommitted
<1>2. CASE ~InChunk
  <2>1. bound = insertedCount[Running]
    BY <1>2, RunFacts DEF StoreInv, Counted, InChunk, Writing
  <2>2. Reaching(Running, bound) = insertedCount
    BY <2>1 DEF StoreInv, StoreTyped, Reaching
  <2> QED BY <1>2, <2>2 DEF StoreInv, Committed
<1> QED BY <1>1, <1>2

LEMMA InsertRow_Stored ==
  ASSUME StoreInv, IInv', InsertRow
  PROVE  StoreInv'
<1>1. /\ Writing /\ bound < ChunkEnd /\ bound' = bound + 1 /\ database' = database
      /\ bound = insertedCount[Running] => transaction = None
      /\ transaction' = Insert(IF bound = insertedCount[Running] THEN database ELSE transaction,
                               content[Running].table, Rows[bound + 1])
      /\ content' = content /\ insertedCount' = insertedCount /\ outcome' = outcome
      /\ answers' = answers /\ vars' = vars
  BY DEF InsertRow, ChunkState
<1>2. /\ repo' = repo /\ worker' = worker /\ history' = history
  BY <1>1 DEF vars
<1>3. worker.at = "run" /\ worker.task.kind = "batch"
  BY <1>1 DEF Writing
<1>4. /\ Running = history.ran + 1 /\ Running \in Serials /\ history.ran \in Nat
      /\ content[Running] \in Batches
      /\ insertedCount[Running] \in Nat /\ bound \in Nat
      /\ Len(Rows) = Len(content[Running].rows) /\ Len(Rows) \in Nat
      /\ ChunkEnd \in Nat /\ ChunkEnd <= Len(Rows)
  BY <1>3, RunFacts
<1>5. insertedCount[Running] <= bound /\ content \in Contents
  BY <1>1 DEF StoreInv, StoreTyped, Counted, Contents
<1>6. InChunk <=> bound # insertedCount[Running]
  BY <1>4, <1>5 DEF InChunk
<1>7. bound + 1 \in 1..Len(content[Running].rows)
  BY <1>1, <1>4
<1>8. Rows[bound + 1] = RowAt(content, Running, bound + 1)
  BY <1>4, <1>7, RowsFacts DEF StoreInv, Rows
<1>9. PICK base : base = (IF InChunk THEN transaction ELSE database)
  OBVIOUS
<1>10. PICK n \in [Serials -> Nat] : n = Reaching(Running, bound)
  BY <1>4 DEF StoreInv, StoreTyped, Reaching
<1>11. n[Running] = bound /\ Reaching(Running, bound + 1) = [n EXCEPT ![Running] = n[Running] + 1]
  BY <1>4, <1>10 DEF StoreInv, StoreTyped, Reaching
<1>12. Holds(base, n, content)
  BY <1>1, <1>6, <1>9, <1>10, Current
<1>13. \A b \in Serials : b > Running => n[b] = 0
  <2> SUFFICES ASSUME NEW b \in Serials, b > Running
               PROVE  n[b] = 0
    OBVIOUS
  <2>1. n[b] = insertedCount[b] /\ b # Running /\ b > history.ran
    BY <1>4, <1>10, Numbers DEF StoreInv, StoreTyped, Reaching
  <2> QED BY <2>1 DEF StoreInv, Counted
<1>14. transaction' = Insert(base, content[Running].table, RowAt(content, Running, n[Running] + 1))
  BY <1>1, <1>6, <1>8, <1>9, <1>11
<1>15. n[Running] < Len(content[Running].rows)
  BY <1>1, <1>4, <1>11
<1>16. Holds(transaction', [n EXCEPT ![Running] = n[Running] + 1], content)
  BY <1>4, <1>5, <1>12, <1>13, <1>14, <1>15, InsertHolds
<1>17. transaction' # None
  <2>1. transaction' \in TableState
    BY <1>16 DEF Holds
  <2> QED BY <2>1, NotNone
<1>18. /\ Writing' /\ Running' = Running /\ ChunkEnd' = ChunkEnd
  BY <1>1, <1>2 DEF Writing, Running, ChunkEnd, Rows, RowsOf
<1>19. InChunk' /\ bound' <= ChunkEnd' /\ insertedCount'[Running'] <= bound'
  BY <1>1, <1>4, <1>5, <1>18 DEF InChunk
<1>20. Uncommitted'
  <2>1. Reaching(Running, bound)' = [n EXCEPT ![Running] = n[Running] + 1]
    BY <1>1, <1>11, <1>18 DEF Reaching
  <2>2. Holds(transaction', Reaching(Running, bound)', content')
    BY <1>1, <1>16, <2>1
  <2> QED BY <1>17, <1>18, <1>19, <2>2 DEF Uncommitted
<1>21. StoreTyped'
  BY <1>1, <1>4 DEF StoreInv, StoreTyped
<1>22. TasksFit'
  BY <1>1, <1>2 DEF StoreInv, TasksFit
<1>23. Counted'
  BY <1>1, <1>2, <1>3, <1>18, <1>19 DEF StoreInv, Counted
<1>24. Committed'
  BY <1>1, CommittedStays
<1>25. ASSUME NEW q \in Serials PROVE Answered(q)'
  BY <1>1 DEF StoreInv, Answered, RowAt
<1> QED BY <1>20, <1>21, <1>22, <1>23, <1>24, <1>25 DEF StoreInv

LEMMA Commit_Stored ==
  ASSUME StoreInv, IInv', Commit
  PROVE  StoreInv'
<1>1. /\ Writing /\ InChunk /\ bound = ChunkEnd
      /\ database' = transaction /\ transaction' = None
      /\ insertedCount' = [insertedCount EXCEPT ![Running] = bound]
      /\ content' = content /\ bound' = bound /\ outcome' = outcome
      /\ answers' = answers /\ vars' = vars
  BY DEF Commit
<1>2. /\ repo' = repo /\ worker' = worker /\ history' = history
  BY <1>1 DEF vars
<1>3. worker.at = "run" /\ worker.task.kind = "batch"
  BY <1>1 DEF Writing
<1>4. /\ Running = history.ran + 1 /\ Running \in Serials /\ history.ran \in Nat
      /\ insertedCount[Running] \in Nat /\ bound \in Nat
      /\ Len(Rows) = Len(content[Running].rows) /\ Len(Rows) \in Nat
      /\ ChunkEnd \in Nat /\ ChunkEnd <= Len(Rows)
  BY <1>3, RunFacts
<1>5. /\ insertedCount' \in [Serials -> Nat] /\ insertedCount'[Running] = bound
      /\ \A b \in Serials : b # Running => insertedCount'[b] = insertedCount[b]
  BY <1>1, <1>4 DEF StoreInv, StoreTyped
<1>6. bound = Len(content[Running].rows) \/ bound % BatchSize = 0
  <2>1. insertedCount[Running] < Len(Rows)
    BY <1>1, <1>4 DEF InChunk
  <2>2. insertedCount[Running] % BatchSize = 0
    BY <1>4, <2>1 DEF StoreInv, Counted
  <2>3. (insertedCount[Running] + BatchSize) % BatchSize = 0
    BY <1>4, <2>2, NextMultiple, BatchSizeAssumption
  <2> QED BY <1>1, <1>4, <2>3 DEF ChunkEnd
<1>7. Holds(transaction, Reaching(Running, bound), content)
  BY <1>1 DEF StoreInv, Uncommitted
<1>8. Committed'
  <2>1. insertedCount' = Reaching(Running, bound)
    BY <1>1 DEF Reaching
  <2> QED BY <1>1, <1>7, <2>1 DEF Committed
<1>9. Writing' /\ Running' = Running /\ Rows' = Rows
  BY <1>1, <1>2 DEF Writing, Running, Rows, RowsOf
<1>10. ~InChunk'
  BY <1>1, <1>4, <1>5, <1>9 DEF InChunk
<1>11. Uncommitted'
  BY <1>1, <1>10 DEF Uncommitted
<1>12. insertedCount'[Running'] <= bound' /\ bound' <= ChunkEnd'
  BY <1>1, <1>4, <1>5, <1>9, BatchSizeAssumption DEF ChunkEnd
<1>13. StoreTyped'
  BY <1>1, <1>5 DEF StoreInv, StoreTyped
<1>14. TasksFit'
  BY <1>1, <1>2 DEF StoreInv, TasksFit
<1>15. Counted'
  <2>1. ASSUME NEW b \in Serials
        PROVE  /\ insertedCount'[b] <= Len(content[b].rows)
               /\ insertedCount'[b] = Len(content[b].rows) \/ insertedCount'[b] % BatchSize = 0
               /\ outcome[b] = "done" => insertedCount'[b] = Len(content[b].rows)
               /\ outcome[b] # "none" <=> b <= history.ran
               /\ b > history.ran /\ b # Running => insertedCount'[b] = 0
    <3>1. CASE b = Running
      <4>1. ~(b <= history.ran)
        BY <1>4, <3>1
      <4> QED BY <1>1, <1>4, <1>5, <1>6, <3>1, <4>1 DEF StoreInv, Counted
    <3>2. CASE b # Running
      BY <1>3, <1>5, <3>2 DEF StoreInv, Counted
    <3> QED BY <3>1, <3>2
  <2> QED BY <1>1, <1>2, <1>3, <1>9, <1>12, <2>1 DEF Counted
<1>16. ASSUME NEW q \in Serials PROVE Answered(q)'
  <2>1. CASE q <= history.ran
    <3>1. \A b \in Serials : b <= history.ran => b # Running
      BY <1>4
    <3> QED BY <1>1, <1>5, <2>1, <3>1, AnswerStays
  <2>2. CASE ~(q <= history.ran)
    <3>1. outcome'[q] = "none"
      BY <1>1, <2>2 DEF StoreInv, Counted
    <3> QED BY <3>1 DEF Answered
  <2> QED BY <2>1, <2>2
<1> QED BY <1>8, <1>11, <1>13, <1>14, <1>15, <1>16 DEF StoreInv

(* However a task ends, what it leaves uncommitted is rolled back or is     *)
(* that of a task that threw.                                              *)
LEMMA TaskEnded ==
  ASSUME StoreInv, IInv', NEW end \in Ends, Ended(end),
         UNCHANGED <<content, database, insertedCount>>,
         transaction' = transaction \/ transaction' = None,
         end = "done" => insertedCount[Running] = Len(content[Running].rows),
         transaction' # None => end = "threw" \/ ~(Writing /\ InChunk),
         answers' \in [Serials -> SUBSET Row],
         \A b \in Serials : b # Running => answers'[b] = answers[b],
         \A q \in Serials : q = Running => Answered(q)'
  PROVE  StoreInv'
<1>1. /\ worker.at = "run" /\ repo' = repo /\ bound' = 0
      /\ outcome' = [outcome EXCEPT ![Running] = end]
      /\ worker' = [worker EXCEPT !.at = "pop", !.task = NoTask]
      /\ history' = [history EXCEPT
           !.ran = worker.task.serial,
           !.lostCompletions = IF worker.task.kind = "batch" /\ end = "threw"
                               THEN @ \cup {worker.task.id} ELSE @]
  BY DEF Ended, endTask, afterTask
<1>2. worker \in Worker /\ history \in History
  BY DEF StoreInv, IInv, Typed, TypeOK
<1>3. worker'.at = "pop" /\ history'.ran = Running /\ history'.pushed = history.pushed
  BY <1>1, <1>2 DEF Worker, History, Running
<1>4. Running = history.ran + 1 /\ Running \in Serials /\ history.ran \in Nat
      /\ bound \in Nat
  BY <1>1, RunFacts
<1>5. /\ outcome' \in [Serials -> Ends \cup {"none"}] /\ outcome'[Running] = end
      /\ \A b \in Serials : b # Running => outcome'[b] = outcome[b]
  BY <1>1, <1>4 DEF StoreInv, StoreTyped
<1>6. content' = content /\ database' = database /\ insertedCount' = insertedCount
  OBVIOUS
<1>7. \A b \in Serials : (b <= Running <=> b <= history.ran \/ b = Running)
                         /\ (b <= history.ran => b # Running)
  BY <1>4, Numbers
<1>8. StoreTyped'
  BY <1>1, <1>5, <1>6 DEF StoreInv, StoreTyped
<1>9. TasksFit'
  BY <1>1, <1>3, <1>6 DEF StoreInv, TasksFit
<1>10. Counted'
  <2>1. ASSUME NEW b \in Serials
        PROVE  /\ outcome'[b] = "done" => insertedCount[b] = Len(content[b].rows)
               /\ outcome'[b] # "none" <=> b <= Running
               /\ b > Running => insertedCount[b] = 0
    <3>1. CASE b = Running
      BY <1>4, <1>5, <1>7, <3>1 DEF Ends
    <3>2. CASE b # Running
      <4>1. b > Running => b > history.ran
        BY <1>4, Numbers
      <4> QED BY <1>1, <1>5, <1>7, <3>2, <4>1 DEF StoreInv, Counted
    <3> QED BY <3>1, <3>2
  <2> QED BY <1>1, <1>3, <1>6, <2>1 DEF StoreInv, Counted, Writing
<1>11. Committed'
  BY <1>6, CommittedStays
<1>12. Uncommitted'
  <2>1. ~Writing'
    BY <1>3 DEF Writing
  <2>2. ASSUME transaction' # None
        PROVE  \E o \in Serials, k \in Nat : Left(transaction, o, k)'
    <3>1. transaction' = transaction
      BY <2>2
    <3>2. CASE Writing /\ InChunk
      <4>1. end = "threw"
        BY <2>2, <3>2
      <4>2. Holds(transaction, Reaching(Running, bound), content)
        BY <3>2 DEF StoreInv, Uncommitted
      <4>3. insertedCount[Running] <= bound /\ bound <= Len(content[Running].rows)
        <5>1. insertedCount[Running] <= bound /\ bound <= ChunkEnd
          BY <3>2 DEF StoreInv, Counted
        <5> QED BY <1>1, <5>1, RunFacts
      <4>4. PICK o \in Serials, k \in Nat : o = Running /\ k = bound
        BY <1>4
      <4>5. Reaching(o, k)' = Reaching(Running, bound)
        BY <1>6, <4>4 DEF Reaching
      <4>6. Left(transaction, o, k)'
        BY <1>5, <1>6, <3>1, <4>1, <4>2, <4>3, <4>4, <4>5 DEF Left
      <4> QED BY <4>6
    <3>3. CASE ~(Writing /\ InChunk)
      <4>1. PICK o \in Serials, k \in Nat : Left(transaction, o, k)
        BY <2>2, <3>1, <3>3 DEF StoreInv, Uncommitted
      <4>2. Left(transaction, o, k)'
        BY <1>5, <1>6, <1>7, <3>1, <4>1, LeftStays
      <4> QED BY <4>2
    <3> QED BY <3>2, <3>3
  <2> QED BY <2>1, <2>2 DEF Uncommitted
<1>13. ASSUME NEW q \in Serials PROVE Answered(q)'
  <2>1. CASE q = Running
    BY <2>1
  <2>2. CASE q <= history.ran
    BY <1>5, <1>6, <1>7, <2>2, AnswerStays
  <2>3. CASE q # Running /\ ~(q <= history.ran)
    <3>1. outcome'[q] = "none"
      BY <1>5, <2>3 DEF StoreInv, Counted
    <3> QED BY <3>1 DEF Answered
  <2> QED BY <2>1, <2>2, <2>3
<1> QED BY <1>8, <1>9, <1>10, <1>11, <1>12, <1>13 DEF StoreInv

(* A task that is no answered query owes nothing. *)
LEMMA NoAnswer ==
  ASSUME StoreInv, worker.at = "run", NEW end \in Ends,
         outcome' = [outcome EXCEPT ![Running] = end], content' = content,
         end # "done" \/ worker.task.kind = "batch"
  PROVE  \A q \in Serials : q = Running => Answered(q)'
<1>1. Running \in Serials /\ worker.task.kind = "batch" => content[Running] # NoBatch
  BY RunFacts, NotNone
<1>2. Running \in Serials
  BY RunFacts
<1>3. outcome'[Running] = end
  BY <1>2 DEF StoreInv, StoreTyped
<1> QED BY <1>1, <1>2, <1>3 DEF Answered

LEMMA EndedStores ==
  ASSUME StoreInv, IInv', BatchDone \/ WriteFails \/ TaskThrows \/ QueryFails
  PROVE  StoreInv'
<1>1. PICK end \in Ends : /\ Ended(end)
                          /\ UNCHANGED <<content, database, insertedCount, answers>>
                          /\ transaction' = transaction \/ transaction' = None
                          /\ end = "done" => BatchDone
                          /\ transaction' # None => end = "threw" \/ ~(Writing /\ InChunk)
  <2>1. CASE BatchDone
    <3>1. worker.at = "run" /\ Writing /\ insertedCount[Running] = Len(Rows)
      BY <2>1 DEF BatchDone, Writing
    <3>2. bound <= Len(Rows) /\ bound \in Nat
      <4>1. bound <= ChunkEnd
        BY <3>1 DEF StoreInv, Counted
      <4> QED BY <3>1, <4>1, RunFacts
    <3>3. ~InChunk
      BY <3>1, <3>2, RunFacts DEF InChunk
    <3>4. "done" \in Ends
      BY DEF Ends
    <3> QED BY <2>1, <3>3, <3>4 DEF BatchDone
  <2>2. CASE WriteFails
    BY <2>2 DEF WriteFails, Ends
  <2>3. CASE TaskThrows
    BY <2>3 DEF TaskThrows, Ends
  <2>4. CASE QueryFails
    BY <2>4 DEF QueryFails, Ends, Writing
  <2> QED BY <2>1, <2>2, <2>3, <2>4
<1>2. worker.at = "run" /\ outcome' = [outcome EXCEPT ![Running] = end]
  BY <1>1 DEF Ended, endTask
<1>3. end = "done" => /\ worker.task.kind = "batch"
                      /\ insertedCount[Running] = Len(content[Running].rows)
  BY <1>1, <1>2, RunFacts DEF BatchDone, Writing
<1>4. \A q \in Serials : q = Running => Answered(q)'
  <2>1. end # "done" \/ worker.task.kind = "batch"
    BY <1>3
  <2>2. content' = content
    BY <1>1
  <2> QED BY <1>2, <2>1, <2>2, NoAnswer
<1>5. answers' \in [Serials -> SUBSET Row] /\ answers' = answers
  BY <1>1 DEF StoreInv, StoreTyped
<1> QED BY <1>1, <1>3, <1>4, <1>5, TaskEnded

LEMMA AnswerQuery_Stored ==
  ASSUME StoreInv, IInv', AnswerQuery
  PROVE  StoreInv'
<1>1. /\ worker.at = "run" /\ worker.task.kind = "query" /\ ~Writing
      /\ outcome' = [outcome EXCEPT ![Running] = "done"]
      /\ answers' = [answers EXCEPT ![Running] = ToSet(Seen.telemetry)]
      /\ content' = content /\ database' = database /\ insertedCount' = insertedCount
      /\ transaction' = transaction
  BY DEF AnswerQuery, Ended, endTask, Writing
<1>2. /\ Running = history.ran + 1 /\ Running \in Serials /\ history.ran \in Nat
      /\ insertedCount[Running] = 0 /\ Len(content[Running].rows) = 0
  BY <1>1, RunFacts
<1>3. PICK tel : tel = Seen.telemetry
  OBVIOUS
<1>4. PICK n \in [Serials -> Nat] :
        /\ \E tables : Holds(tables, n, content) /\ tables.telemetry = tel
        /\ \A b \in Serials : insertedCount[b] <= n[b]
        /\ \A b \in Serials : n[b] = insertedCount[b] \/ outcome[b] = "threw"
  <2>1. CASE transaction = None
    <3>1. Holds(database, insertedCount, content) /\ database.telemetry = tel
      BY <1>3, <2>1 DEF StoreInv, Committed, Seen
    <3>2. insertedCount \in [Serials -> Nat]
      BY DEF StoreInv, StoreTyped
    <3>3. \A b \in Serials : insertedCount[b] <= insertedCount[b]
      BY <3>2
    <3> QED BY <3>1, <3>2, <3>3
  <2>2. CASE transaction # None
    <3>1. PICK o \in Serials, k \in Nat : Left(transaction, o, k)
      BY <1>1, <2>2 DEF StoreInv, Uncommitted
    <3>2. PICK m \in [Serials -> Nat] : m = Reaching(o, k)
      BY DEF StoreInv, StoreTyped, Reaching
    <3>3. m[o] = k /\ \A b \in Serials : b # o => m[b] = insertedCount[b]
      BY <3>2 DEF StoreInv, StoreTyped, Reaching
    <3>4. Holds(transaction, m, content) /\ transaction.telemetry = tel
      BY <1>3, <2>2, <3>1, <3>2 DEF Seen, Left
    <3>5. \A b \in Serials : insertedCount[b] <= m[b]
      BY <3>1, <3>3, Numbers DEF Left
    <3> QED BY <3>1, <3>3, <3>4, <3>5 DEF Left
  <2> QED BY <2>1, <2>2
<1>5. /\ tel \in Seq(Row)
      /\ \A j \in DOMAIN tel : IsRowOf(tel[j], "telemetry", n, content)
      /\ \A b \in Serials : \A i \in 1..n[b] :
           content[b].table = "telemetry" => Has(tel, RowAt(content, b, i))
  BY <1>4 DEF Holds, TableState
<1>6. \A x : x \in ToSet(tel) <=> Has(tel, x)
  BY <1>5 DEF ToSet, Has
<1>7. ToSet(tel) \in SUBSET Row
  BY <1>5, <1>6 DEF Has
<1>8. /\ answers' \in [Serials -> SUBSET Row] /\ answers'[Running] = ToSet(tel)
      /\ \A b \in Serials : b # Running => answers'[b] = answers[b]
  BY <1>1, <1>2, <1>3, <1>7 DEF StoreInv, StoreTyped
<1>9. ASSUME NEW x \in ToSet(tel)
      PROVE  /\ x.batch < Running
             /\ x.index > insertedCount[x.batch] => outcome[x.batch] = "threw"
  <2>1. PICK j \in DOMAIN tel : tel[j] = x
    BY <1>6, <1>9 DEF Has
  <2>2. x.batch \in Serials /\ x.index \in Nat \ {0} /\ x.index <= n[x.batch]
    BY <1>5, <2>1 DEF IsRowOf, Row
  <2>3. PICK b \in Serials : b = x.batch
    BY <2>2
  <2>4. n[b] = insertedCount[b] \/ outcome[b] = "threw"
    BY <1>4
  <2>5. b <= history.ran
    <3>1. CASE outcome[b] = "threw"
      BY <3>1 DEF StoreInv, Counted
    <3>2. CASE n[b] = insertedCount[b]
      <4>1. insertedCount[b] # 0
        BY <2>2, <2>3, <3>2
      <4>2. ~(b > history.ran)
        BY <1>2, <4>1 DEF StoreInv, Counted
      <4> QED BY <1>2, <4>2, Numbers
    <3> QED BY <2>4, <3>1, <3>2
  <2>6. b < Running
    BY <1>2, <2>5, Numbers
  <2>7. x.index > insertedCount[b] => n[b] # insertedCount[b]
    BY <2>2, <2>3, Numbers
  <2> QED BY <2>3, <2>4, <2>6, <2>7
<1>10. ASSUME NEW b \in Serials, NEW i \in 1..insertedCount[b], content[b].table = "telemetry"
       PROVE  RowAt(content, b, i) \in ToSet(tel)
  <2>1. i \in 1..n[b]
    BY <1>4, Numbers
  <2> QED BY <1>5, <1>6, <1>10, <2>1
<1>11. ASSUME NEW x \in ToSet(tel), outcome[x.batch] = "threw"
       PROVE  outcome'[x.batch] = "threw"
  <2>1. x.batch \in Serials
    BY <1>7, <1>11 DEF Row
  <2>2. x.batch # Running
    BY <1>2, <1>9, <2>1, Numbers
  <2> QED BY <1>1, <1>11, <2>1, <2>2 DEF StoreInv, StoreTyped
<1>12. \A q \in Serials : q = Running => Answered(q)'
  BY <1>1, <1>8, <1>9, <1>10, <1>11 DEF Answered
<1>13. Ended("done") /\ "done" \in Ends
  BY DEF AnswerQuery, Ends
<1> QED BY <1>1, <1>2, <1>8, <1>12, <1>13, TaskEnded

LEMMA close_Stored ==
  ASSUME StoreInv, IInv', close
  PROVE  StoreInv'
<1>1. /\ content' = content /\ database' = database /\ transaction' = None
      /\ bound' = bound /\ insertedCount' = insertedCount /\ outcome' = outcome
      /\ answers' = answers
      /\ worker' = worker /\ repo' = repo /\ history' = history /\ worker.at = "idle"
  BY DEF close, threadEnds
<1>2. StoreTyped'
  BY <1>1 DEF StoreInv, StoreTyped
<1>3. TasksFit'
  BY <1>1 DEF StoreInv, TasksFit
<1>4. ~Writing /\ ~Writing'
  BY <1>1 DEF Writing
<1>5. Counted'
  BY <1>1, <1>4 DEF StoreInv, Counted
<1>6. Committed' /\ Uncommitted'
  BY <1>1, <1>4, CommittedStays DEF Uncommitted
<1>7. ASSUME NEW q \in Serials PROVE Answered(q)'
  BY <1>1 DEF StoreInv, Answered, RowAt
<1> QED BY <1>2, <1>3, <1>5, <1>6, <1>7 DEF StoreInv

LEMMA StutterStored ==
  ASSUME StoreInv, UNCHANGED storeVars
  PROVE  StoreInv'
<1>1. IInv' /\ vars' = vars /\ store' = store
  BY StutterHolds DEF StoreInv, storeVars
<1>2. history' = history /\ repo' = repo /\ worker' = worker
  BY <1>1 DEF vars
<1> QED BY <1>1, <1>2, QuietStep DEF store

-----------------------------------------------------------------------------
(* Every step of the store is a step of the queue or leaves it alone. *)

LEMMA StoreStep ==
  ASSUME StoreNext
  PROVE  Next \/ UNCHANGED vars
<1>1. CASE open \/ (shutdown /\ UNCHANGED store) \/ Ending
  BY <1>1 DEF open, Ending, Next
<1>2. CASE \E t \in Threads, kind \in Kinds : submit(t, kind)
  BY <1>2 DEF submit, Next
<1>3. CASE \E t \in Threads : rejectTask(t) /\ UNCHANGED store
  BY <1>3 DEF Next
<1>4. CASE \E t \in Threads : Calling(t)
  BY <1>4 DEF Calling, Next
<1>5. CASE Handing
  BY <1>5 DEF Handing, Processing, Next
<1>6. CASE InsertRow \/ Commit
  BY <1>6 DEF InsertRow, Commit
<1>7. CASE BatchDone \/ WriteFails \/ TaskThrows \/ AnswerQuery \/ QueryFails
  <2>1. PICK end \in Ends : Ended(end)
    BY <1>7 DEF BatchDone, WriteFails, TaskThrows, AnswerQuery, QueryFails, Ends
  <2>2. runTask
    BY <2>1 DEF Ended, runTask
  <2> QED BY <2>2 DEF Processing, Next
<1>8. CASE close
  BY <1>8 DEF close, Processing, Next
<1>9. CASE Delivering
  BY <1>9 DEF Delivering, Next
<1> QED BY <1>1, <1>2, <1>3, <1>4, <1>5, <1>6, <1>7, <1>8, <1>9 DEF StoreNext, Working

LEMMA Undisturbed ==
  ASSUME StoreInv, IInv', UNCHANGED store,
         \/ start \/ shutdown \/ Stopping \/ deliverSignal
         \/ \E t \in Threads : rejectTask(t) \/ InCall(t)
         \/ beginProcessing \/ loopEnds \/ recheck \/ postAgain
  PROVE  StoreInv'
<1>1. repo \in Repository /\ worker \in Worker /\ history \in History
  BY DEF StoreInv, IInv, Typed, TypeOK
<1>2. /\ history'.ran = history.ran /\ history'.pushed = history.pushed
      /\ repo'.tasks = repo.tasks \/ repo'.tasks = <<>>
      /\ \/ worker' = worker
         \/ worker.at \notin {"announce", "run"} /\ worker'.at \notin {"announce", "run"}
  <2>1. CASE start
    BY <1>1, <2>1 DEF start, Repository, History
  <2>2. CASE shutdown
    BY <1>1, <2>2 DEF shutdown, Repository
  <2>3. CASE Stopping
    BY <1>1, <2>3 DEF Stopping, postDrain, endShutdown
  <2>4. CASE deliverSignal
    BY <2>4 DEF deliverSignal
  <2>5. CASE \E t \in Threads : rejectTask(t)
    BY <1>1, <2>5 DEF rejectTask, Repository, History
  <2>6. CASE \E t \in Threads : InCall(t)
    <3>1. PICK t \in Threads : announceDepth(t) \/ scheduleWakeup(t) \/ postWakeup(t)
      BY <2>6 DEF InCall
    <3> QED BY <1>1, <3>1 DEF announceDepth, scheduleWakeup, postWakeup, Repository, History
  <2>7. CASE beginProcessing
    BY <1>1, <2>7 DEF beginProcessing, Repository, Worker
  <2>8. CASE loopEnds
    BY <1>1, <2>8 DEF loopEnds, Worker
  <2>9. CASE recheck
    BY <1>1, <2>9 DEF recheck, processed, Repository, Worker
  <2>10. CASE postAgain
    BY <1>1, <2>10 DEF postAgain, processed, Worker
  <2> QED BY <2>1, <2>2, <2>3, <2>4, <2>5, <2>6, <2>7, <2>8, <2>9, <2>10
<1> QED BY <1>2, QuietStep

LEMMA StoreNextHolds ==
  ASSUME StoreInv, IInv', [StoreNext]_storeVars
  PROVE  StoreInv'
<1>1. CASE open \/ (shutdown /\ UNCHANGED store) \/ Ending \/ Delivering
  BY <1>1, Undisturbed DEF open, Ending, Delivering
<1>2. CASE \E t \in Threads, kind \in Kinds : submit(t, kind)
  BY <1>2, submit_Stored
<1>3. CASE \E t \in Threads : (rejectTask(t) /\ UNCHANGED store) \/ Calling(t)
  <2>1. (\E t \in Threads : rejectTask(t) \/ InCall(t)) /\ UNCHANGED store
    BY <1>3 DEF Calling
  <2> QED BY <2>1, Undisturbed
<1>4. CASE Handing
  BY <1>4, Undisturbed, popTask_Stored, announcePop_Stored DEF Handing
<1>5. CASE InsertRow \/ Commit
  BY <1>5, InsertRow_Stored, Commit_Stored
<1>6. CASE BatchDone \/ WriteFails \/ TaskThrows \/ QueryFails
  BY <1>6, EndedStores
<1>7. CASE AnswerQuery \/ close
  BY <1>7, AnswerQuery_Stored, close_Stored
<1>8. CASE UNCHANGED storeVars
  BY <1>8, StutterStored
<1> QED BY <1>1, <1>2, <1>3, <1>4, <1>5, <1>6, <1>7, <1>8 DEF StoreNext, Working

-----------------------------------------------------------------------------
(* What the invariant says of the tables *)

LEMMA StoredIsRow ==
  ASSUME StoreInv, NEW table
  PROVE  /\ \A x \in StoredRows(table) : IsRowOf(x, table, insertedCount, content)
         /\ \A b \in Serials : \A i \in 1..insertedCount[b] :
              content[b].table = table => RowAt(content, b, i) \in StoredRows(table)
         /\ \A x : IsRowOf(x, table, insertedCount, content) => x \in StoredRows(table)
<1>1. ASSUME NEW b \in Serials
      PROVE  /\ \A x \in ToSet(Stored(b)) : \E i \in 1..insertedCount[b] : x = RowAt(content, b, i)
             /\ \A i \in 1..insertedCount[b] : RowAt(content, b, i) \in ToSet(Stored(b))
             /\ \A i \in 1..insertedCount[b] : i \in 1..Len(content[b].rows)
             /\ content \in Contents
  <2>1. PICK rows, n : rows = RowsOf(b) /\ n = insertedCount[b]
    OBVIOUS
  <2>2. /\ rows \in Seq(Row) /\ n \in Nat /\ n <= Len(rows)
        /\ Len(rows) = Len(content[b].rows) /\ content \in Contents
        /\ \A i \in 1..Len(rows) : rows[i] = RowAt(content, b, i)
    BY <2>1, RowsFacts DEF StoreInv, StoreTyped, Counted
  <2>3. PICK part : part = SubSeq(rows, 1, n)
    OBVIOUS
  <2>4. DOMAIN part = 1..n /\ \A i \in 1..n : part[i] = rows[i]
    BY <2>2, <2>3
  <2>5. \A i \in 1..n : i \in 1..Len(rows)
    BY <2>2
  <2>6. Stored(b) = part
    BY <2>1, <2>3 DEF Stored
  <2> QED BY <2>1, <2>2, <2>4, <2>5, <2>6 DEF ToSet
<1>2. ASSUME NEW x \in StoredRows(table)
      PROVE  IsRowOf(x, table, insertedCount, content)
  <2>1. PICK b \in Serials : content[b].table = table /\ x \in ToSet(Stored(b))
    BY <1>2 DEF StoredRows
  <2>2. PICK i \in 1..insertedCount[b] : x = RowAt(content, b, i)
    BY <1>1, <2>1
  <2>3. i \in 1..Len(content[b].rows) /\ content \in Contents
    BY <1>1
  <2>4. x \in Row /\ x.batch = b /\ x.index = i /\ x.device = content[b].rows[i]
    BY <2>2, <2>3, RowAtTyped
  <2>5. i <= insertedCount[b]
    BY <2>2, Numbers
  <2> QED BY <2>1, <2>4, <2>5 DEF IsRowOf
<1>3. ASSUME NEW b \in Serials, NEW i \in 1..insertedCount[b], content[b].table = table
      PROVE  RowAt(content, b, i) \in StoredRows(table)
  BY <1>1, <1>3 DEF StoredRows
<1>4. ASSUME NEW x, IsRowOf(x, table, insertedCount, content)
      PROVE  x \in StoredRows(table)
  <2>1. /\ x = RowAt(content, x.batch, x.index)
        /\ x.batch \in Serials /\ x.index \in Nat \ {0} /\ x.index <= insertedCount[x.batch]
    BY <1>4, RowIsAt
  <2>2. x.index \in 1..insertedCount[x.batch] /\ content[x.batch].table = table
    BY <1>4, <2>1, Numbers DEF IsRowOf
  <2> QED BY <1>3, <2>1, <2>2
<1> QED BY <1>2, <1>3, <1>4

LEMMA StoreImplies ==
  ASSUME StoreInv
  PROVE  BatchesStored /\ AnswersComplete
<1>1. /\ database.telemetry \in Seq(Row)
      /\ \A j \in DOMAIN database.telemetry :
           IsRowOf(database.telemetry[j], "telemetry", insertedCount, content)
      /\ \A b \in Serials : \A i \in 1..insertedCount[b] :
           content[b].table = "telemetry" => Has(database.telemetry, RowAt(content, b, i))
      /\ Ascending(database.telemetry)
      /\ \A d \in Devices : IsStatus(database.status[d], d, insertedCount, content)
  BY DEF StoreInv, Committed, Holds, TableState
<1>2. ToSet(database.telemetry) = StoredRows("telemetry")
  <2>1. ASSUME NEW x \in ToSet(database.telemetry)
        PROVE  x \in StoredRows("telemetry")
    BY <1>1, <2>1, StoredIsRow DEF ToSet
  <2>2. ASSUME NEW x \in StoredRows("telemetry")
        PROVE  x \in ToSet(database.telemetry)
    <3>1. IsRowOf(x, "telemetry", insertedCount, content)
      BY <2>2, StoredIsRow
    <3>2. /\ x = RowAt(content, x.batch, x.index)
          /\ x.batch \in Serials /\ x.index \in Nat \ {0} /\ x.index <= insertedCount[x.batch]
      BY <3>1, RowIsAt
    <3>3. x.index \in 1..insertedCount[x.batch] /\ content[x.batch].table = "telemetry"
      BY <3>1, <3>2, Numbers DEF IsRowOf
    <3>4. Has(database.telemetry, x)
      BY <1>1, <3>2, <3>3
    <3> QED BY <3>4 DEF Has, ToSet
  <2> QED BY <2>1, <2>2
<1>3. ASSUME NEW d \in Devices,
             NEW rows, rows = {row \in StoredRows("device_status") : row.device = d},
             NEW status, status = database.status[d]
      PROVE  IF rows = {} THEN status = None
             ELSE status \in rows /\ \A row \in rows : row = status \/ Precedes(row, status)
  <2>1. IsStatus(status, d, insertedCount, content)
    BY <1>1, <1>3
  <2>2. status # None => status \in rows
    BY <1>3, <2>1, StoredIsRow DEF IsStatus
  <2>3. ASSUME NEW row \in rows
        PROVE  status # None /\ (row = status \/ Precedes(row, status))
    <3>1. IsRowOf(row, "device_status", insertedCount, content) /\ row.device = d
      BY <1>3, <2>3, StoredIsRow
    <3>2. /\ row = RowAt(content, row.batch, row.index)
          /\ row.batch \in Serials /\ row.index \in Nat \ {0}
          /\ row.index <= insertedCount[row.batch]
      BY <3>1, RowIsAt
    <3>3. /\ row.index \in 1..insertedCount[row.batch]
          /\ content[row.batch].table = "device_status"
          /\ content[row.batch].rows[row.index] = d
      BY <3>1, <3>2, Numbers DEF IsRowOf
    <3> QED BY <2>1, <3>2, <3>3 DEF IsStatus
  <2> QED BY <2>2, <2>3
<1>4. \A b \in Serials :
        /\ insertedCount[b] = Len(content[b].rows) \/ insertedCount[b] % BatchSize = 0
        /\ outcome[b] = "done" => insertedCount[b] = Len(content[b].rows)
  BY DEF StoreInv, Counted
<1>5. BatchesStored
  BY <1>1, <1>2, <1>3, <1>4 DEF BatchesStored, Ascending
<1>6. AnswersComplete
  <2> SUFFICES ASSUME NEW q \in Serials, content[q] = NoBatch, outcome[q] = "done"
               PROVE  /\ \A b \in 1..(q - 1) :
                           content[b].table = "telemetry" => ToSet(Stored(b)) \subseteq answers[q]
                      /\ \A row \in answers[q] :
                           /\ row.batch < q
                           /\ row.index > insertedCount[row.batch]
                                => outcome[row.batch] = "threw"
    BY DEF AnswersComplete
  <2>1. Answered(q)
    BY DEF StoreInv
  <2>2. ASSUME NEW b \in 1..(q - 1), content[b].table = "telemetry", NEW x \in ToSet(Stored(b))
        PROVE  x \in answers[q]
    <3>1. b \in Serials /\ b < q
      BY BoundsAssumption DEF Serials
    <3>2. x \in StoredRows("telemetry")
      BY <2>2, <3>1 DEF StoredRows
    <3>3. IsRowOf(x, "telemetry", insertedCount, content)
      BY <3>2, StoredIsRow
    <3>4. PICK rows, n : rows = RowsOf(b) /\ n = insertedCount[b]
      OBVIOUS
    <3>5. /\ rows \in Seq(Row) /\ n \in Nat /\ n <= Len(rows)
          /\ Len(rows) = Len(content[b].rows)
          /\ \A i \in 1..Len(rows) : rows[i] = RowAt(content, b, i)
      BY <3>1, <3>4, RowsFacts DEF StoreInv, StoreTyped, Counted
    <3>6. PICK part : part = SubSeq(rows, 1, n)
      OBVIOUS
    <3>7. DOMAIN part = 1..n /\ \A i \in 1..n : part[i] = rows[i]
      BY <3>5, <3>6
    <3>8. Stored(b) = part
      BY <3>4, <3>6 DEF Stored
    <3>9. PICK i \in 1..n : x = part[i]
      BY <2>2, <3>7, <3>8 DEF ToSet
    <3>10. i \in 1..insertedCount[b] /\ x = RowAt(content, b, i)
      BY <3>4, <3>5, <3>7, <3>9
    <3> QED BY <2>1, <2>2, <3>1, <3>10 DEF Answered
  <2> QED BY <2>1, <2>2 DEF Answered
<1> QED BY <1>5, <1>6

-----------------------------------------------------------------------------
(* Theorems *)

(* Writing and reading the database under the queue never changes what the *)
(* queue does: every step is one of SqliteTelemetryRepository or leaves    *)
(* its state alone, so all that is proved of the queue holds here.         *)
THEOREM StoreRunsQueue == StoreSpec => Spec
<1>1. StoreInit => Init
  BY DEF StoreInit
<1>2. [StoreNext]_storeVars => [Next]_vars
  <2> SUFFICES ASSUME [StoreNext]_storeVars
               PROVE  [Next]_vars
    OBVIOUS
  <2>1. CASE StoreNext
    BY <2>1, StoreStep
  <2>2. CASE UNCHANGED storeVars
    BY <2>2 DEF storeVars
  <2> QED BY <2>1, <2>2
<1> QED BY <1>1, <1>2, PTL DEF StoreSpec, Spec

(* The inductive invariant holds in every reachable state of the queue and *)
(* its database.                                                           *)
THEOREM StoreInvariance == StoreSpec => []StoreInv
<1>1. StoreInit => StoreInv
  BY StoreInitHolds
<1>2. StoreInv /\ IInv' /\ [StoreNext]_storeVars => StoreInv'
  BY StoreNextHolds
<1>3. StoreSpec => []IInv
  BY StoreRunsQueue, Invariance, PTL
<1> QED BY <1>1, <1>2, <1>3, PTL DEF StoreSpec

(* The tables always hold exactly what the completions of the batches      *)
(* report, in the order of submission: whole batches, or whole chunks from *)
(* the start of a batch that failed (insertTelemetry, insertHeartbeats).   *)
THEOREM BatchesAlwaysStored == StoreSpec => []BatchesStored
<1>1. StoreInv => BatchesStored
  BY StoreImplies
<1> QED BY <1>1, StoreInvariance, PTL

(* A query always reads what the batches before it have stored and nothing *)
(* that was submitted after it (processQueue runs the tasks in order).     *)
THEOREM AnswersAlwaysComplete == StoreSpec => []AnswersComplete
<1>1. StoreInv => AnswersComplete
  BY StoreImplies
<1> QED BY <1>1, StoreInvariance, PTL

(* The controller's account of its batches holds also over the database.   *)
THEOREM StoreAlwaysAccounted ==
  ASSUME AsMainUsesIt
  PROVE  StoreSpec => []BatchesAccounted
<1>1. Spec => []BatchesAccounted
  BY BatchesAlwaysAccounted
<1> QED BY <1>1, StoreRunsQueue, PTL
=============================================================================
