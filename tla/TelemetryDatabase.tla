--------------------------- MODULE TelemetryDatabase ---------------------------
(***************************************************************************)
(* The task queue of SqliteTelemetryRepository with the database under it: *)
(* how a batch is written in chunks of one transaction each, what a query  *)
(* on the same connection reads, and what the window reads meanwhile on    *)
(* the connection of DatabaseManager, which sees what is committed.  The   *)
(* same is left when the process dies.                                     *)
(***************************************************************************)
EXTENDS SqliteTelemetryRepository, SequencesExt

CONSTANTS
  Devices,
  Batches,    (* what may be submitted: a table and the devices of its rows *)
  BatchSize   (* options.batchSize                                         *)

Tables == {"telemetry", "device_status"}

ASSUME BatchesAssumption ==
  \A batch \in Batches : batch.table \in Tables /\ batch.rows \in Seq(Devices)
                         /\ batch.rows # <<>>

ASSUME BatchSizeAssumption == BatchSize \in Nat \ {0}

VARIABLES
  content,        (* of each accepted batch, by serial number              *)
  database,       (* what is committed                                     *)
  transaction,    (* what the connection has written but not committed     *)
  bound,          (* rows of the running batch that were executed          *)
  insertedCount,  (* of each batch, as its completion reports it           *)
  outcome,        (* how each task ended                                   *)
  answers         (* the telemetry rows each query read                    *)

store == <<content, database, transaction, bound, insertedCount, outcome, answers>>
storeVars == <<vars, store>>

Serials == 1..MaxRequests

None == [none |-> TRUE]
NoBatch == [table |-> "none", rows |-> <<>>]

(* Rows are told apart by the batch they came with and their place in it.  *)
RowsOf(b) ==
  [i \in DOMAIN content[b].rows |->
     [batch |-> b, index |-> i, device |-> content[b].rows[i]]]

Running == worker.task.serial
Rows == RowsOf(Running)

(* INSERT INTO telemetry, INSERT OR REPLACE INTO device_status *)
Insert(tables, table, row) ==
  IF table = "telemetry"
  THEN [tables EXCEPT !.telemetry = Append(@, row)]
  ELSE [tables EXCEPT !.status[row.device] = row]

(* The end of the chunk that follows what is committed. *)
ChunkEnd ==
  IF insertedCount[Running] + BatchSize < Len(Rows)
  THEN insertedCount[Running] + BatchSize ELSE Len(Rows)

InChunk == bound > insertedCount[Running]

(* What a statement of the database thread's connection sees. *)
Seen == IF transaction = None THEN database ELSE transaction

-----------------------------------------------------------------------------
(* insertTelemetry() and insertHeartbeats() *)

Writing == worker.at = "run" /\ worker.task.kind = "batch"

(* Mutant: a row is committed by itself. *)
ChunkState_AutoCommit(tables) == /\ transaction' = tables /\ database' = tables

ChunkState(tables) == transaction' = tables /\ UNCHANGED database

(* BEGIN with the first row of a chunk; a transaction that an exception    *)
(* left open makes it fail.                                                *)
InsertRow ==
  LET begin == bound = insertedCount[Running]
  IN  /\ Writing
      /\ bound < ChunkEnd
      /\ begin => transaction = None
      /\ ChunkState(Insert(IF begin THEN database ELSE transaction,
                           content[Running].table, Rows[bound + 1]))
      /\ bound' = bound + 1
      /\ UNCHANGED <<vars, content, insertedCount, outcome, answers>>

Commit ==
  /\ Writing
  /\ InChunk /\ bound = ChunkEnd
  /\ database' = transaction
  /\ transaction' = None
  /\ insertedCount' = [insertedCount EXCEPT ![Running] = bound]
  /\ UNCHANGED <<vars, content, bound, outcome, answers>>

Ended(end) ==
  /\ endTask(end)
  /\ outcome' = [outcome EXCEPT ![Running] = end]
  /\ bound' = 0

BatchDone ==
  /\ Writing
  /\ insertedCount[Running] = Len(Rows)
  /\ Ended("done")
  /\ UNCHANGED <<content, database, transaction, insertedCount, answers>>

(* Mutant: the function returns without the rollback. *)
WriteFails_LeavesOpen ==
  /\ Writing
  /\ insertedCount[Running] < Len(Rows)
  /\ Ended("failed")
  /\ UNCHANGED <<content, database, transaction, insertedCount, answers>>

(* BEGIN, a row or COMMIT fails: the chunk is rolled back and the rest of  *)
(* the batch is given up, the chunks before it stay.                       *)
WriteFails ==
  /\ Writing
  /\ insertedCount[Running] < Len(Rows)
  /\ transaction' = IF InChunk THEN None ELSE transaction
  /\ Ended("failed")
  /\ UNCHANGED <<content, database, insertedCount, answers>>

(* An exception passes both functions: nobody rolls back. *)
TaskThrows ==
  /\ Ended("threw")
  /\ UNCHANGED <<content, database, transaction, insertedCount, answers>>

-----------------------------------------------------------------------------
(* Queries: what each of them filters and orders is left out, it reads     *)
(* what the connection sees.  One that fails resolves its future, too.     *)

AnswerQuery ==
  /\ worker.task.kind = "query"
  /\ Ended("done")
  /\ answers' = [answers EXCEPT ![Running] = ToSet(Seen.telemetry)]
  /\ UNCHANGED <<content, database, transaction, insertedCount>>

QueryFails ==
  /\ worker.task.kind = "query"
  /\ Ended("failed")
  /\ UNCHANGED <<content, database, transaction, insertedCount, answers>>

-----------------------------------------------------------------------------
(* The queue's own steps *)

submit(t, kind) ==
  /\ enqueueTask(t, kind)
  /\ \E batch \in IF kind = "batch" THEN Batches ELSE {NoBatch} :
       content' = [content EXCEPT ![history.pushed + 1] = batch]
  /\ UNCHANGED <<database, transaction, bound, insertedCount, outcome, answers>>

(* start() makes the worker open its connection and check the tables; a    *)
(* database that is not there, damaged or without them is refused.         *)
open == start /\ UNCHANGED store

(* close() rolls back what is open. *)
close ==
  /\ threadEnds
  /\ transaction' = None
  /\ UNCHANGED <<content, database, bound, insertedCount, outcome, answers>>

Handing ==
  /\ \/ beginProcessing \/ popTask \/ announcePop \/ loopEnds \/ recheck \/ postAgain
  /\ UNCHANGED store

Working ==
  \/ Handing \/ InsertRow \/ Commit \/ BatchDone \/ WriteFails \/ TaskThrows
  \/ AnswerQuery \/ QueryFails \/ close

Calling(t) == InCall(t) /\ UNCHANGED store
Ending == Stopping /\ UNCHANGED store
Delivering == deliverSignal /\ UNCHANGED store

StoreInit ==
  /\ Init
  /\ content = [b \in Serials |-> NoBatch]
  /\ database = [telemetry |-> <<>>, status |-> [d \in Devices |-> None]]
  /\ transaction = None
  /\ bound = 0
  /\ insertedCount = [b \in Serials |-> 0]
  /\ outcome = [b \in Serials |-> "none"]
  /\ answers = [b \in Serials |-> {}]

StoreNext ==
  \/ open
  \/ shutdown /\ UNCHANGED store
  \/ Ending
  \/ \E t \in Threads, kind \in Kinds : submit(t, kind)
  \/ \E t \in Threads : rejectTask(t) /\ UNCHANGED store
  \/ \E t \in Threads : Calling(t)
  \/ Working
  \/ Delivering

(* The same threads take the same turns as in the queue's own module. *)
StoreSpec ==
  /\ StoreInit /\ [][StoreNext]_storeVars
  /\ \A t \in Threads : WF_storeVars(Calling(t))
  /\ WF_storeVars(Ending)
  /\ WF_storeVars(Working)
  /\ WF_storeVars(Delivering)

-----------------------------------------------------------------------------
(* Properties *)

Stored(b) == SubSeq(RowsOf(b), 1, insertedCount[b])

StoredRows(table) ==
  UNION {ToSet(Stored(b)) : b \in {c \in Serials : content[c].table = table}}

(* The order of submission, and within a batch that of its rows. *)
Precedes(r, s) == r.batch < s.batch \/ (r.batch = s.batch /\ r.index < s.index)

(* At every moment the tables hold, of each batch in the order of their    *)
(* submission, exactly the rows its completion reports or will report:     *)
(* all of them if it reports no error, otherwise whole chunks from its     *)
(* start.  No failure, exception or other reader ever sees a part of a     *)
(* chunk, and a device's status is the one its newest heartbeat brought    *)
(* (insertTelemetry, insertHeartbeats).                                    *)
BatchesStored ==
  /\ ToSet(database.telemetry) = StoredRows("telemetry")
  /\ \A i, j \in DOMAIN database.telemetry :
       i < j => Precedes(database.telemetry[i], database.telemetry[j])
  /\ \A d \in Devices :
       LET rows == {row \in StoredRows("device_status") : row.device = d}
           status == database.status[d]
       IN  IF rows = {} THEN status = None
           ELSE status \in rows /\ \A row \in rows : row = status \/ Precedes(row, status)
  /\ \A b \in Serials :
       /\ insertedCount[b] = Len(content[b].rows) \/ insertedCount[b] % BatchSize = 0
       /\ outcome[b] = "done" => insertedCount[b] = Len(content[b].rows)

(* A query reads what every batch submitted before it has stored, nothing  *)
(* submitted after it, and beyond that only the chunk that an exception    *)
(* left open (processQueue runs the tasks in their order).                 *)
AnswersComplete ==
  \A q \in Serials : content[q] = NoBatch /\ outcome[q] = "done" =>
    /\ \A b \in 1..(q - 1) :
         content[b].table = "telemetry" => ToSet(Stored(b)) \subseteq answers[q]
    /\ \A row \in answers[q] :
         /\ row.batch < q
         /\ row.index > insertedCount[row.batch] => outcome[row.batch] = "threw"
=============================================================================
