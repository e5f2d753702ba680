# TLA+ verification of Mu-Monitor

Mu-Monitor is a single-machine monitoring and alarm client for industrial
devices (C++17, Qt 6). This directory holds TLA+ models of its stateful
components, the TLC configurations that check them on small instances, and
TLAPS proofs of their central invariants for every instance. `PROJECT.json`
maps every definition to the source lines it stands for.

## 1. The system

| Component | Thread | State it keeps | Operations |
|---|---|---|---|
| Alarm engine (`src/alarm`) | GUI | rules, open and last event per key, pending activations, last heartbeats, stored events | `processTelemetry`, `processHeartbeat`, `updateOfflineStates`, `acknowledge`, rule changes, `restore` |
| TCP connection worker (`src/network/TcpConnectionWorker`) | network | socket, three timers, decoder, backoff counter, the user's wish, reported state | ten public slots, five socket signals, three timers |
| Telemetry repository (`src/database/SqliteTelemetryRepository`) | callers and database | bounded task queue, wakeup flag, thread, SQLite connection | `start`, `shutdown`, submissions, queries, `processQueue` |
| Application controller (`src/app/AppController`) | GUI | pending batches, counters, queue depth, device list | commands of the UI, the repository's signals |
| TCP facade and adapter (`TcpDeviceDataSource`, `...Adapter`) | GUI | running, collection flags, connection state | `start`, `stop`, collection switches, frames and states of the worker |
| Monitoring service (`src/app/MonitoringService`) | GUI | connection and collection state, online and collecting flags | `start`, `stop`, pause, resume, the source's signals |
| Simulation source | GUI | two timers, device flags | as the adapter |
| Protocol (`src/protocol`, `FrameDecoder`) | network | receive buffer, decoded events | `appendData`, `takeNextEvent` |
| Users and authentication (`src/auth`, `UserRepository`) | GUI | accounts, roles in two tables, remembered sessions, audit log | login, account management, password changes |
| Database manager | GUI | schema version, SQLite file, backups, lock file | initialisation, import, migration, remembered sessions, synchronous queries |
| Start and exit (`main.cpp`) | GUI | `auth/rememberToken` in the settings | initialise, sign in, run, shut down |
| Configuration, core types, utilities, UI | GUI | settings, widgets | |
| DeviceSimulator (tool) | own process | clients, device scenarios, wire format, sequence number | start, stop, the timer's `sendTelemetry`, scenario buttons |

Who talks to whom: the worker's signals are queued to the facade on the GUI
thread, commands are queued in the other direction; the adapter turns frames
into samples and heartbeats for the monitoring service, which feeds the alarm
engine and hands batches to the controller; the controller submits them to the
repository, whose database thread answers with queued signals. The alarm engine
saves its events in an `IAlarmRepository` by direct calls.

What is hard, and what makes each part correct:

* **Alarm engine**: many inputs (rules, three kinds of calls, two clocks,
  refused saves, restarts) move one small state machine per key. Correct means:
  one open event per key at most, acknowledged and cleared events never
  forgotten, no alarm without its condition having lasted, and a restart that
  loses nothing that was saved.
* **Connection worker**: a loss arrives as several signals, timers race
  answers, commands come at any time. Correct means: the reconnect timer runs
  exactly when a connection should be restored, nothing waits without a timer,
  a loss counts once, and bytes of two connections never mix.
* **Repository**: a lock-protected queue with a wakeup posted outside the lock,
  a shutdown that drains. Correct means: what was accepted runs once and in
  order, nobody sleeps on a full queue, and shutdown returns.
* **Controller**: counts what it submitted from signals that may arrive late.
  Correct means: its pending set is what is really under way.
* **Facade, adapter, monitoring service**: states and frames of an earlier
  session are still queued when the user stops and starts again; three layers
  keep their own copy of the connection state. Correct means: the copies agree
  once the queues are empty and no device is online without a connection.
* **Database under the queue**: a batch is several transactions, a task may
  throw in the middle of one, and another connection reads meanwhile. Correct
  means: what a completion reports is what is stored, and a query sees all of
  the batches before it.
* **Users**: an operation is several statements, each of which may fail; the
  program may die between any two; roles are kept in two tables, and names are
  compared in two ways. Correct means: an enabled administrator always remains,
  the two tables agree, and no account keeps a session under its own spelling
  when it is disabled or renamed.
* **Start-up**: import, backup, migration and the default account each may fail
  or be cut off, while another instance starts. Correct means: an imported
  database is whole, a migration is seen whole or not at all, old rows are
  backed up before it.
* **Decoder**: the stream is cut anywhere and may be damaged. Correct means:
  every intact frame comes out once, in order and at once.

## 2. Plan

The modules, in the order they were written:

1. `AlarmLifecycle` (abstract) and `AlarmEngine`, with `AlarmEngineProofs`.
2. `TcpConnectionWorker` with `TcpConnectionProofs`.
3. `SqliteTelemetryRepository` with `TelemetryRepositoryProofs`.
4. `MonitoringSession`: facade, adapter and monitoring service around an
   INSTANCE of `TcpConnectionWorker`, two queues between the threads, with
   `MonitoringSessionProofs`.
5. `TelemetryDatabase`: the queue of 3 with the database under it.
6. `UserAccounts`: accounts, roles and sessions over starts and sign-ins.
7. `DatabaseStartup`: initialisation, import and migration by several instances.
8. `FrameDecoder` (operators only) and `DeviceLink`: the simulator, the stream
   and the decoder, with `DeviceLinkProofs`.

Each module but `FrameDecoder` and `AlarmLifecycle` that has state and safety
properties has its proofs beside it: `AlarmEngineProofs`, `TcpConnectionProofs`,
`TelemetryRepositoryProofs`, `TelemetryDatabaseProofs` (which extends the
queue's), `MonitoringSessionProofs`, `UserAccountsProofs`,
`DatabaseStartupProofs` and `DeviceLinkProofs`. What is left to prove is named in section 6.

## 3. Modules and their correspondence to the code

Everywhere, a public method, slot, signal handler or timer handler is one
action with the code's conditions as its guard, and a private helper is an
operator from the old record to the new one, so that the order of calls in the
code is the nesting of operators in the model. Operators whose name contains an
underscore (`clearAlarm_NotSaved`) are deliberately wrong variants: each
property is known to fail when the named definition is replaced by one.

### AlarmLifecycle, AlarmEngine

`alarm[k]` joins, for the key `<<device, rule>>`, the entries of
`m_activeEvents`, `m_lastEvents`, `m_candidates` and the repository's events of
that key. `raised`, `unsaved` and `since` are history: how many events there
have been, whether a save was lost, since when the condition has been met;
`lastCall` says which kind of call came last.
An event id is the serial number of the event in its key; a uuid is only ever
compared. `InMemoryAlarmRepository` appends or replaces, which is a function
from serial numbers. A save may be refused (`IAlarmRepository::saveEvent`
returns false), per key and call. `Restart` builds a new engine on the same
repository, which may be unreadable. Calls read the local clock
(`currentTime()`); a heartbeat carries the device's own time, off by up to
`MaxSkew`. Messages, severities and measured values appear only as far as the
conditions compare them; signals to the UI are left out.

`AlarmLifecycle` is the operator's view: a key is Normal, Active or
Acknowledged and shows one of its numbered occurrences, and storage has a record
of each. There are three kinds of calls. `Evaluate` leaves a key, raises it as a
new occurrence or clears it; `Acknowledge` acknowledges one key once storage has
recorded it, and touches no other; `Recover` writes nothing and shows what
storage records as open, or nothing. `LifecycleSpec` checks that the engine
implements it with `lastCall` as the kind of call: only `restore` and `Restart`
may recover and only `acknowledge` acknowledge, so that a telemetry, heartbeat,
timer or rule call can neither reopen nor skip nor un-acknowledge.

### TcpConnectionWorker

`w` is the worker: its members, the state of the socket and of the timers, and
whether the decoder holds an incomplete frame. `connectTimer` and `decoder`
tell the current attempt from an earlier one. `wanted` is history: what the
user last asked for. `becomeUnconnected`, `abort` and `close` are QTcpSocket:
stateChanged and, after a connection, disconnected are emitted synchronously,
so the handlers are nested in them; `disconnectFromHost()` on a socket that is
still connecting sets `pendingClose`. `handleSocketError` changes no state and
has no action. A call of a slot is one of `MaxCommands`.

### SqliteTelemetryRepository

A step is one section under `m_mutex` or one call outside of it. `repo` is what
the mutex protects, `events` the event loop of the database thread, `worker`
and `caller` the places where the threads stand, `inbox` the signals queued to
the GUI thread, `controller` the members of `AppController` that account for
persistence. A signal emitted on the GUI thread is handled at once, any other
is queued (Qt's automatic connection); the depth it announces is only shown, so
its value is left out. A task ends as done, failed or thrown.
`history` numbers the accepted tasks over all sessions.

### TelemetryDatabase

EXTENDS the queue and puts the database under it: where the queue's `runTask`
lets a task end in any way, here the database thread executes it statement by
statement and takes the queue's own `endTask` at its end; every other action is
the queue's, with the store unchanged. `database` is what is committed, and so
what the connection of `DatabaseManager` reads and what is left if the process
dies; `transaction` is what the worker's connection has written beyond it.
`InsertRow` begins the transaction of a chunk with its first row, `Commit` ends
it. Each statement may fail (`WriteFails`: rollback, give up) and each task may
throw at any point (`TaskThrows`: nobody rolls back; the next BEGIN then fails
until `close`). A row is known by its batch and place; device and table matter
for `INSERT OR REPLACE`. Filters and orders of the six queries are left out.

### UserAccounts

`users` is the table, each row joined with its `role_assignments` row
(`assigned`), because `users.role` and the assignment are two places for one
role; `sessions` is the table of remembered sessions, `remembered` the token in
a user's settings, `proc` where each process stands between start, sign-in,
window and dialog. An operation of `UserManagementService` checks, executes its
first statement and leaves the others in `todo`; a statement may fail, which
ends the operation without undoing anything, and the process may die at any
point (`Exit`). `Folded` is NOCASE: accounts are looked up without regard to
case, while UNIQUE, sessions and `roleForUser` compare exactly. Role and account
tables of older versions are initial states (`InitialUsers`); `Expire` deletes
sessions at any time, which is what every reader of the table does first. The
field `account` of a session is history: the row that was signed in for, if the
name was typed as the row spells it, and 0 otherwise. A
generated token is one that is in use nowhere. Password hashes and audit rows
are left out: nothing else depends on them.

### DatabaseStartup

`active` is the file the program works on, `legacy` the files older versions may
have left, `backups` the copies in the backup directory, `lock` the lock file,
`proc` the step of `DatabaseManager::initialize()` each instance is in. A
database is what the properties tell apart: where it came from, its schema
versions, tables, marks of the two normalisations, how its timestamps and status
codes are stored. A migration is a sequence of steps in one transaction
(`work`), each may fail (`Fail`: rollback); `Crash` ends an instance anywhere,
leaves its lock stale, its unfinished copy aside and its transaction undone.
The instance that holds the lock does the work; the lock is only held during
initialisation.

### FrameDecoder, DeviceLink

`FrameDecoder` holds the codec and the decoder as operators: one turn of the
loop in `appendData` (`Turn`) and the loop (`Drain`), with the ways out the code
has. A byte carries its value (the magic, the length) and, for the
properties, which frame it belongs to and where; a checksum holds exactly for
the bytes of one frame in their places. Sizes are scaled down: a header of
three bytes, a minimum of four, a maximum from the configuration. `Contents` is
what frames hold after the length, which may look like another header.

`DeviceLink` is a simulator server and the monitors connected to it: the timer's
`SendTelemetry` writes, for each device, a frame, a frame with a bad checksum, a
JSON line (one byte of noise) or a disconnect; `WriteDamaged` writes what a
device other than the simulator might. `channel` is what TCP has not delivered,
`ReadyRead` takes any number of its bytes. `m_sequence` does not wrap within
its bound. `written` keeps the writes of a connection as units, a whole frame or
anything else; `BytesOf` is the stream they make and `StartOf` the place of a
unit in it, in which the properties say where a frame was and what announced
over it (`Announces`): a header anywhere in the stream, also one that two damaged
writes make together, with which no whole frame begins.

### MonitoringSession

The worker is an INSTANCE of `TcpConnectionWorker`; its slots and the events of
the network are that module's actions, each conjoined with the signals it emits
(`Emit`). `posted` holds the slots the facade posted, `signals` what the worker
emitted and the GUI thread has not handled. `adapter` and `service` are members
of `TcpDeviceDataSourceAdapter` and `MonitoringService`; `devices` is the set
of discovered devices, which a discovery adds to the adapter, the controller
and the service in one call. `deliverSignal` runs the whole chain of direct
signals, adapter to service. The user acts through the buttons of the main
window and the device menu with their guards (`onConnectClicked`,
`onStartClicked`); the menu is modal and may be confirmed after the connection
it was opened on is lost, so `setDeviceCollection` needs a running source only.

A frame is what it decodes to: a valid sample, a heartbeat, or a payload
`ProtocolPayloadMapper` refuses. `Init` is the application after
`createTcpSource`, with the slot that sets reconnection still posted. The
endpoint is valid (`DataSourceConfig` checks it), so `start()` of the adapter
does not fail. Of the worker's steps those the application cannot cause are
left out (`reconnectNow`, `sendFrame`, changes of delays and timeouts, and
`bytesSent` with them), and `peerDies`, because without clocks the read timeout
may come at any time anyway.

## 4. Runs

| Run | What it shows | Instance |
|---|---|---|
| `AlarmMixed` | type correctness; the tables agree; a shown acknowledgement is durable; a restored engine takes the shown event or one later by the skew at most; the engine refines `AlarmLifecycle` | 1 device, 1 rule id, 5 rule contents (2 invalid), 3 readings, times 0..1, skew 1, 2 events, saves may fail |
| `AlarmTiming` | the duration filter; offline alarms are justified | 2 devices that send heartbeats, offline rules for one of them with and without delay, times 0..3, no skew |
| `AlarmRestoreTie` (violation) | a restore picks the cleared event when the key was raised again at the same instant | as above, times 0..4 |
| `TcpWorker` | reconnect timer, reported state, timers of attempts, decoder, backoff range; attempts, waits and dead connections end | any 6 slot calls, any network, delays -1 and 40000, timeouts -1 and 200 |
| `TcpManualDisconnect` (violation) | a disconnect while connecting is followed by a reconnection | 3 slot calls |
| `RepositoryThreads` | type correctness and capacity, tasks run once and in order over restarts, no lost wakeup, accepted tasks run, shutdown returns | 2 submitting threads, capacity 2, 3 requests, 2 starts |
| `RepositoryController` | the tables hold what the completions report, queries see every earlier batch, the pending set and the counters agree, pending batches settle | `TelemetryDatabase`: GUI thread only, capacity 1, 3 requests, telemetry batches of two chunks (2 rows and 1), heartbeat batches of two rows for one device, queries |
| `Session` | the shown state settles on the worker's; a loss stops the collection; devices online only while connected; nothing collecting after a stop | 6 clicks, 1 device, at most 3 queued signals when the worker steps, reconnection on or off |
| `SessionPause` (violation) | a pause survives stop and start, collection is shown running | 4 clicks |
| `UserAccounts` | an enabled administrator remains; both role tables agree; switching an account off leaves no session under its spelling; a session opened under an account's spelling is there only while that account is enabled and so spelt | 1 client, 2 tokens, 4 names of which 2 differ in case only, 3 rows, 3 initial tables, roles admin and operator to choose |
| `Startup` | imports are whole; a migration is seen whole or not at all; old rows are backed up; whoever is ready finds a complete database | 2 instances, 6 states of the database, 2 legacy places with 4 states each |
| `Link` | intact frames come out once and in order, none is lost, none waits | 1 monitor, 2 devices, 2 sequence numbers, 3 writes per connection, frames of 4 and 5 bytes, maximum 8, headers with lengths 1 and 8 and nothing behind them |

Bounds. Alarm: two events per key show a reopened or restored predecessor, two
devices a heartbeat that checks another device, and times up to 3 let a delay
or a timeout pass and be missed by one. TCP: six calls are enough to connect,
disconnect, connect again and change two settings around it; the attempt
counter is capped at 10, where the delay has long reached its maximum (the code
shifts by at most 20). Repository: capacity 2 with 3 requests fills the queue
and rejects one; two starts cover a restart with ids from 1. In the run with
the database three requests are a batch behind a batch that failed or threw and
a query behind both; the order of several queued tasks is the matter of
`RepositoryThreads`, so capacity 1 is enough and lets requests be rejected.
Session: six
clicks are three sessions, or two with a pause and a resume between them; with
up to three signals waiting (the step of the worker may add two more) the last
states, frames and errors of a session arrive in the next one. Devices do not
interact, so one is enough. Accounts: three rows hold an administrator, the
default account that a start adds after a rename, and a third to demote or
disable; two tokens are an old and a new session. The clients would run one
after the other, so one that restarts is enough for the tables. Start-up: two
instances reach every meeting at the lock, before and after it; two candidates
let a damaged one be passed over. Link: two writes around a damaged one, cut at
every byte, with a frame that ends with the magic or half of it; the maximum
exceeds a frame, so that a truncated header can
announce more than follows and swallow a frame. Whether a frame inside the size
that such a header announced survives depends on how the stream was cut, which
is why `NoFrameLost` leaves it open.
`CHECK_DEADLOCK FALSE` is set where the bounds end the calls. The TCP runs also
stop by themselves: after `shutdown` nothing can happen.

### The three disagreements

* `AlarmEngine.cpp:160` compares `updatedAt` with a strict `<`, so of two
  events with one timestamp the first stored wins. The engine's own test clears
  and raises at one instant (`AlarmEngineTest.cpp:268-275`); a restore after
  that shows no open alarm.
* `TcpConnectionWorker.cpp:216` resets `m_userDisconnected` on every
  connection, also on one whose close is already pending because the user
  disconnected while it was being made. The close is then taken for a loss.
* `MonitoringService.cpp:185` sets the collection state to Running on a start
  without switching the source's collection on again. After a pause, a stop and
  a start the adapter drops every frame (`TcpDeviceDataSourceAdapter.cpp:134`)
  while the window says that collection has started (`mainwindow.cpp:1623`).

A fourth is shown by no run of its own. `DATABASE_DESIGN.md:654` and `706` have
all remembered sessions of a user deleted before the account is disabled, and
`UserRepository.cpp:492` deletes those of the exact spelling. Accounts are found
without regard to case, and a session keeps the name as it was typed
(`LoginDialog` passes it on), so a session opened as "Bob" for the account "bob"
outlives both disabling and renaming "bob", and "Bob" may become another account's
name. `SwitchOffLeavesNoSession` says what is true of every session: none is left
under the spelling the account has when it is switched off.
`DisabledHoldNoSession` and `SessionsNameAccounts` hold of the sessions whose
`account` is not 0, those opened under the account's own spelling; their
counterparts up to case, for every session, are violated in the model as in the
code.

## 5. Fairness

* `TcpConnectionWorker`: a running timer fires unless something stops or
  restarts it (QTimer). Weak fairness is given to the connect timer during an
  attempt, to the reconnect timer, and to the read timer of a silent
  connection; arriving data restarts the read timer, so it is not fair in
  general. Nothing is assumed of the network.
* `SqliteTelemetryRepository`: a thread inside a call goes on, the database
  thread takes the calls posted to it, and the GUI thread takes its signals
  when it is in no call. Nobody is obliged to submit, start or shut down. A
  database operation ends.
* `TelemetryDatabase`: the same, for the steps a task now takes.
* The other modules have no liveness property checked: what they do next is up
  to a user, a device or the file system.

## 6. Proofs

The `*Proofs` modules prove their theorems for every value of the constants
that satisfies the named assumptions. `PROJECT.json` lists them under
"theorems". Most assumptions only say what a parameter is: bounds are natural
numbers, `None` is none of the values it marks the absence of, configurations
have the fields of `AlarmRule`, a queue has at least a capacity of one. Those
that say more:

| Assumption | Where | Why the code justifies it |
|---|---|---|
| `InitialUsersAssumption`: a table an earlier version left names no account twice, all its accounts are enabled, and it has the default administrator unless it is empty | `UserAccounts` | `users.username` is UNIQUE, the column `enabled` is added with 1, and `ensureDefaultUser` saw to the default account on every start |
| `WellKept` in `StartupAssumption`: a database's versions are 1 to v, and a version stands for its tables and marks | `DatabaseStartup` | versions are only recorded by `migrateSchema`, after the work they stand for, in one transaction |
| `AsMainUsesIt`: only the GUI thread calls the repository, and `start` is called once | hypothesis of `BatchesAlwaysAccounted` | `main.cpp` creates one controller, which starts it once; with other callers the signals of two threads overtake each other, and a second start counts ids from 1 again |
| `MaxSkew = 0` | hypothesis of `DurationFilteredExactly`, `OfflineExactlyJustified` | device and monitor on one clock, as with the simulator on the same machine; `DurationFiltered` and `OfflineAlwaysJustified` state what is left of it with any skew |

The inductive invariants, and why each is needed:

* **AlarmEngineProofs**. `IInv` is the type invariant, `RulesValid` (only valid
  rules are installed) and `SlotInv` of every key: a stored event sits at its
  own serial number, none is numbered above `raised`, an open event is also the
  last event, has no candidate beside it, and a stored version of it is open
  and agrees with it about the acknowledgement. A new occurrence therefore
  never overwrites a stored event, and a clear or restore keeps the operator's
  name. `AcknowledgementIsKept` and `ClearedStaysCleared` are action properties
  that need it.
  An evaluation has four outcomes (`StaysOpen`, `Clears`, `Waits`, `Raises`);
  a heartbeat evaluates an offline rule of its device twice, and `EvaluateAgain`
  shows that the second time changes nothing. Every call is therefore one
  evaluation of the slots it reaches, from which `EngineImplementsLifecycle`,
  the refinement of `AlarmLifecycle`, follows key by key. `Paced` adds that a
  pending activation was noted inside the run of met conditions it stands for,
  up to the skew. `Kept` adds that no stored event is stamped later than a device
  may stamp it by now, and that as long as no save was lost the last event is
  stored as it is shown and no other is stamped later than it by more than twice
  the skew: a restore, which goes by the times, then takes that event or one
  inside this distance (`RestoredAlwaysWithinSkew`, for any clocks). Exact
  agreement is what `AlarmRestoreTie` refutes.
* **TcpConnectionProofs**. `IInv` is `WInv(w)`: the type invariant, the four
  state properties of the run written as operators on a record (`Armed`,
  `Honest`, `Timed`, `Clean`), and the two facts they need: no incomplete frame
  of an earlier attempt is kept, and no connect timer runs while the timeout is
  off. Each socket helper is a lemma on records (what `scheduleReconnect`,
  `becomeUnconnected`, `close` and `startConnection` make of a worker that
  satisfies part of it), each action cites them.
* **TelemetryRepositoryProofs**. `NothingLost` is not inductive: it needs
  that shutdown can clear the queue only when it is empty. `Session` says which
  events can be posted in which phase of a shutdown and that the queue is empty
  once the thread is told to quit; `FlagHonest` that a set wakeup flag means a
  posted or coming wakeup; `Awake` is the strengthened form of
  `WakeupOnTheWay`. For the controller's account, `Balanced` says where each
  accepted request is (queued, running, reported in the inbox, counted, lost at
  the end), `Rising` that the request ids rise from what is reported over what
  runs to what is queued, so that a completion never settles another request.
* **TelemetryDatabaseProofs**. `StoreRunsQueue` shows that every step is one of
  the queue's or a stutter of it, which brings in the queue's invariant and
  its theorems. `StoreInv` adds what the tables hold: committed are the first
  `insertedCount[b]` rows of each batch, uncommitted the rows of the running
  chunk beyond them, or what a task that threw left open. Neither half is
  inductive alone: a commit makes the second into the first, and `INSERT OR
  REPLACE` keeps the newest status only because batches and rows come in order.
* **MonitoringSessionProofs**. `StoppedShowsNothing` alone is not inductive: the
  collect button could resume a paused collection after a stop if the service
  were still shown connected. `IInv` adds that a stopped source is shown
  disconnected (`StoppedDisconnected`; only Disconnected passes the adapter
  then) and that the two records keep their fields.
  What is shown while the source runs depends on signals that are still queued
  from earlier sessions. `Session` takes the worker's invariant from
  `TcpConnectionProofs`, orders what is posted to it, and accounts for the queue
  by a history (`Explainable`): there is a sequence of states the worker went
  through, one before and after each queued signal, that ends in its present
  state and begins with what the GUI has seen. `StateSettles` is its case of an
  empty queue, the other two properties read it at the head of the queue.
* **UserAccountsProofs**. Between its check and its last statement an operation
  relies on what it read. `Justified` says that this still holds: another
  administrator remains if this one is to be demoted or disabled, an account
  that is to be disabled has no session left under its spelling, and one that
  was disabled before has none that was opened for it. It holds because one
  process runs at a time (`OneProcess`) and its operations do not overlap.
  `FoundEnabled` says that who is being signed in stays enabled until the session
  is inserted, `SessionsNameAccounts` that revoking by spelling reaches the
  sessions opened for an account. `Kept` carries what a step did to the accounts
  that were enabled before it, the action property `SwitchOffLeavesNoSession`.
* **DatabaseStartupProofs**. `Knows` says for each phase of `initialize()` what
  the instance has found and may rely on because it holds the lock;
  `Progress` ties what is left of a migration to what its transaction already
  holds. The action properties `MigrationInOnePiece` and `BackedUp` are cases
  of the step they speak of.
* **DeviceLinkProofs**. The three properties are about what a recursion over the
  stream computes. An induction theorem that takes a predicate cannot be used,
  but a least counterexample can (`NatStrong`, over a set of lengths), so
  `Drain` and `BytesOf` are recursive functions, shown to satisfy their own
  equations first. `TurnStep` says what one turn of the loop in `appendData`
  takes, skips or waits for, at any place of a stream whose whole frames lie at
  known places (`Layout`); `Drained` what the loop makes of the rest, from which
  `Decoded` follows for a connection from its beginning. `LinkOK` holds of each
  connection: the units written make a `Layout`, the frames' numbers rise and
  are below `m_sequence`, what is on the way is the rest of the stream, and what
  has arrived is `Decoded`. The frames still in the buffer are needed in it: the
  next bytes complete what an earlier piece began. Nothing is assumed of what
  frames contain, so it holds with a magic inside a payload or a checksum too; a
  write of damaged bytes is not longer than the maximum.

Only model-checked:

* Liveness: `KeepsTrying`, `DeadPeerNoticed`, `AttemptsEnd`, `AcceptedRuns`,
  `ShutdownReturns`, `PendingSettles` (outside the prover's reach).
* `BackoffInRange`: the provers know nothing of a power of two.

Proved, and therefore not run through TLC as well: `CandidateOnlyWhileNormal`,
`AcknowledgementKept`, `ClearedIsFinal`, `ConnectionTimed`, `LossCountedOnce`
and the type invariants of the worker, `MonitoringSession`, `UserAccounts` and
`DatabaseStartup`.

## 7. Not modelled

See `PROJECT.json`, "components". Left out of what is modelled: passwords and
the audit trail; logs and the window's own reads and writes of telemetry
(single statements of `DatabaseManager`); the mapping of payloads, whose
outcome `MonitoringSession` takes as a valid sample, a heartbeat or a refusal;
filters of queries; and two processes that manage accounts at the same time, for
which the code has no protection to check: the lock is for start-up only.
Configuration, core value types, utilities, widgets, password hashing, the
simulation source and the vendored library have no behaviour in the sense of
section 1, or are outside of the program.
