-------------------------- MODULE MonitoringSession --------------------------
(***************************************************************************)
(* A monitoring session over TCP: the monitoring service and the adapter   *)
(* of the TCP source, both on the GUI thread, and the connection worker on *)
(* the network thread.  The GUI posts slots to the worker, the worker's    *)
(* signals are queued to the GUI; between the two ends of each queue       *)
(* anything may happen.  A call on the GUI thread runs through the         *)
(* controller, service and adapter at once, direct signals included.       *)
(*                                                                         *)
(* The service also feeds the alarm engine and the telemetry repository;   *)
(* neither calls back into what is modelled here.                          *)
(***************************************************************************)
EXTENDS Integers, Sequences, FiniteSets

CONSTANTS
  Devices,      (* the devices that may send frames                        *)
  NoDevice,     (* marks a signal that is about no device                  *)
  AttemptCap,   (* bound: the reconnect attempts counted (the code's 20)   *)
  MaxClicks,    (* bound: what the user does                               *)
  MaxSignals    (* bound: signals queued when the worker takes a step      *)

ASSUME NoDeviceAssumption == NoDevice \notin Devices

ASSUME BoundsAssumption ==
  AttemptCap \in Nat /\ MaxClicks \in Nat /\ MaxSignals \in Nat

VARIABLES
  w, alive, commands,   (* the worker: see TcpConnectionWorker             *)
  posted,     (* slots posted to the network thread                        *)
  signals,    (* signals queued to the GUI thread                          *)
  devices,    (* discovered: m_deviceIds of the adapter, m_devices of the
                 service, filled in one call                               *)
  adapter,    (* m_running, m_collectionEnabled, m_connectionState and the
                 devices m_collecting lets through                         *)
  service,    (* m_connectionState, m_collectionState, the devices shown
                 online and collecting, m_offlineCheckTimer                *)
  clicks      (* what the user did so far                                  *)

link == <<w, alive, commands>>
gui == <<devices, adapter, service>>
vars == <<link, posted, signals, gui, clicks>>

(* The factory posts setReconnectEnabled, every click one slot at most.    *)
Link == INSTANCE TcpConnectionWorker
          WITH Delays <- {}, Timeouts <- {}, MaxCommands <- MaxClicks + 1

ConnectionState == Link!TcpConnectionState \cup {"Stopping"}
CollectionState == {"Stopped", "Running", "Paused", "Faulted"}

(* A frame by what it decodes to: a valid sample, a heartbeat of a device  *)
(* that collects, is idle or is offline, or a payload that is refused.     *)
Heartbeats == {"collecting", "idle", "offline"}
FrameKinds == Heartbeats \cup {"telemetry", "malformed"}

Signals == [type : Link!TcpConnectionState \cup {"error"}, device : {NoDevice}]
           \cup [type : FrameKinds, device : Devices]

Adapter == [running : BOOLEAN, collectionEnabled : BOOLEAN,
            connection : ConnectionState, collecting : SUBSET Devices]

Service == [connection : ConnectionState, collection : CollectionState,
            online : SUBSET Devices, collecting : SUBSET Devices,
            offlineCheck : BOOLEAN]

Slots == {"connectToHost", "disconnectFromHost", "enableReconnect", "disableReconnect"}

Init ==
  /\ Link!Init
  /\ posted \in {<<"enableReconnect">>, <<"disableReconnect">>}
  /\ signals = <<>>
  /\ devices = {}
  /\ adapter = [running |-> FALSE, collectionEnabled |-> TRUE,
                connection |-> "Disconnected", collecting |-> {}]
  /\ service = [connection |-> "Disconnected", collection |-> "Stopped",
                online |-> {}, collecting |-> {}, offlineCheck |-> FALSE]
  /\ clicks = 0

-----------------------------------------------------------------------------
(* The network thread.  Each of its steps queues the signals it emits.     *)

StateSignal(state) == [type |-> state, device |-> NoDevice]
ErrorSignal == [type |-> "error", device |-> NoDevice]

(* setState emits a state that differs from the last one. *)
setState == IF w'.state = w.state THEN <<>> ELSE <<StateSignal(w'.state)>>

Emit(emitted) ==
  /\ Len(signals) < MaxSignals
  /\ signals' = signals \o emitted
  /\ UNCHANGED <<gui, clicks>>

(* Dropping the old socket first reports Disconnected.                     *)
connectToHost ==
  /\ Link!connectToHost
  /\ Emit(IF w.socket # "Unconnected" /\ w.state # "Disconnected"
          THEN <<StateSignal("Disconnected"), StateSignal("Connecting")>>
          ELSE setState)

runSlot ==
  /\ posted # <<>>
  /\ posted' = Tail(posted)
  /\ \/ Head(posted) = "connectToHost" /\ connectToHost
     \/ Head(posted) = "disconnectFromHost" /\ Link!disconnectFromHost /\ Emit(setState)
     \/ Head(posted) = "enableReconnect" /\ Link!setReconnectEnabled(TRUE) /\ Emit(setState)
     \/ Head(posted) = "disableReconnect" /\ Link!setReconnectEnabled(FALSE) /\ Emit(setState)

(* A close that waited for the connection loses it again at once. *)
connectSucceeds ==
  /\ Link!connectSucceeds
  /\ Emit(IF w.pendingClose
          THEN <<StateSignal("Connected"), StateSignal(w'.state)>>
          ELSE <<StateSignal("Connected")>>)

(* QTcpSocket announces the error and its new state in either order.       *)
connectFails ==
  /\ Link!connectFails
  /\ \/ Emit(<<ErrorSignal>> \o setState)
     \/ Emit(setState \o <<ErrorSignal>>)

peerCloses == Link!peerCloses /\ Emit(<<ErrorSignal>> \o setState)

(* Mutant: an attempt that timed out is not reported as an error. *)
handleConnectTimeout_Silent == Link!handleConnectTimeout /\ Emit(setState)

handleConnectTimeout ==
  /\ Link!handleConnectTimeout
  /\ Emit(IF w.socket \in Link!Attempting THEN <<ErrorSignal>> \o setState ELSE <<>>)

handleReadTimeout ==
  /\ Link!handleReadTimeout
  /\ Emit(IF w.socket = "Connected" THEN <<ErrorSignal>> \o setState ELSE <<>>)

(* The bytes complete no frame, a frame, or one the decoder refuses.       *)
handleReadyRead ==
  /\ Link!handleReadyRead
  /\ \/ Emit(<<>>)
     \/ \E d \in Devices, kind \in FrameKinds : Emit(<<[type |-> kind, device |-> d]>>)
     \/ Emit(<<ErrorSignal>>)

Network ==
  /\ \/ connectSucceeds
     \/ connectFails
     \/ peerCloses
     \/ handleReadyRead
     \/ handleConnectTimeout
     \/ handleReadTimeout
     \/ Link!handleReconnectTimer /\ Emit(setState)
     \/ Link!hostFound /\ Emit(<<>>)
  /\ UNCHANGED posted

-----------------------------------------------------------------------------
(* The service, as operators on its record *)

(* Mutant: a lost connection leaves the devices online. *)
handleSourceConnectionState_KeepsOnline(x, state) == [x EXCEPT !.connection = state]

handleSourceConnectionState(x, state) ==
  [x EXCEPT !.connection = state,
            !.online = IF state \in {"Disconnected", "Reconnecting", "Stopping"}
                       THEN {} ELSE @]

handleSourceError(x) == [x EXCEPT !.collection = "Faulted"]

registerDevice(x, d) ==
  [x EXCEPT !.online = @ \cup {d}, !.collecting = @ \cup {d}]

(* A sample proves its device online, and collecting if anything is.       *)
processTelemetry(x, d) ==
  [x EXCEPT !.online = @ \cup {d},
            !.collecting = IF x.collection = "Running" THEN @ \cup {d} ELSE @]

processHeartbeat(x, d, kind) ==
  [x EXCEPT !.online = IF kind = "offline" THEN @ \ {d} ELSE @ \cup {d},
            !.collecting = IF kind = "collecting" THEN @ \cup {d} ELSE @ \ {d}]

-----------------------------------------------------------------------------
(* The adapter receives the worker's signals *)

(* The service hears of a state that differs from the adapter's last one.  *)
setConnectionState(state) ==
  /\ adapter' = [adapter EXCEPT !.connection = state]
  /\ service' = IF adapter.connection = state THEN service
                ELSE handleSourceConnectionState(service, state)
  /\ UNCHANGED devices

(* Mutant: a state reported after stop() is passed on. *)
handleTcpStateChanged_Stopped(state) == setConnectionState(state)

handleTcpStateChanged(state) ==
  IF adapter.running \/ state = "Disconnected"
  THEN setConnectionState(state)
  ELSE UNCHANGED gui

(* What an accepted frame means to a service x. *)
accepted(x, d, kind) ==
  CASE kind = "telemetry" -> processTelemetry(x, d)
    [] kind \in Heartbeats -> processHeartbeat(x, d, kind)
    [] kind = "malformed" -> handleSourceError(x)

(* An unknown device is discovered by its first frame, which the service   *)
(* then processes as any other.                                            *)
handleFrame(d, kind) ==
  IF ~adapter.running \/ ~adapter.collectionEnabled THEN UNCHANGED gui
  ELSE IF d \notin devices
  THEN /\ devices' = devices \cup {d}
       /\ adapter' = [adapter EXCEPT !.collecting = @ \cup {d}]
       /\ service' = accepted(registerDevice(service, d), d, kind)
  ELSE /\ service' = IF d \in adapter.collecting THEN accepted(service, d, kind)
                     ELSE service
       /\ UNCHANGED <<devices, adapter>>

(* Errors are passed on whether or not the source is running. *)
deliverSignal ==
  /\ signals # <<>>
  /\ signals' = Tail(signals)
  /\ LET signal == Head(signals)
     IN  \/ /\ signal.type \in Link!TcpConnectionState
            /\ handleTcpStateChanged(signal.type)
         \/ /\ signal.type = "error"
            /\ service' = handleSourceError(service)
            /\ UNCHANGED <<devices, adapter>>
         \/ /\ signal.type \in FrameKinds
            /\ handleFrame(signal.device, signal.type)
  /\ UNCHANGED <<link, posted, clicks>>

-----------------------------------------------------------------------------
(* The user *)

Click ==
  /\ clicks < MaxClicks
  /\ clicks' = clicks + 1
  /\ UNCHANGED <<link, signals, devices>>

(* start() reports Connected before the worker has tried anything, and on  *)
(* a source that runs already without asking it.                           *)
start ==
  /\ service' = [service EXCEPT !.connection = "Connected", !.collection = "Running",
                                !.collecting = devices, !.offlineCheck = TRUE]
  /\ IF adapter.running THEN UNCHANGED <<adapter, posted>>
     ELSE /\ adapter' = [adapter EXCEPT !.running = TRUE, !.connection = "Connecting"]
          /\ posted' = Append(posted, "connectToHost")

(* Mutant: the devices keep the collecting state they were shown with. *)
stop_KeepsCollecting ==
  /\ service' = [service EXCEPT !.connection = "Disconnected", !.collection = "Stopped",
                                !.online = {}, !.offlineCheck = FALSE]
  /\ IF adapter.running
     THEN /\ adapter' = [adapter EXCEPT !.running = FALSE, !.connection = "Disconnected"]
          /\ posted' = Append(posted, "disconnectFromHost")
     ELSE UNCHANGED <<adapter, posted>>

stop ==
  /\ service' = [service EXCEPT !.connection = "Disconnected", !.collection = "Stopped",
                                !.online = {}, !.collecting = {},
                                !.offlineCheck = FALSE]
  /\ IF adapter.running
     THEN /\ adapter' = [adapter EXCEPT !.running = FALSE, !.connection = "Disconnected"]
          /\ posted' = Append(posted, "disconnectFromHost")
     ELSE UNCHANGED <<adapter, posted>>

onConnectClicked ==
  /\ Click
  /\ IF service.connection \in {"Connected", "Connecting", "Reconnecting"}
     THEN stop ELSE start

pauseCollection ==
  /\ service.collection = "Running"
  /\ adapter' = [adapter EXCEPT !.collectionEnabled = FALSE]
  /\ service' = [service EXCEPT !.collection = "Paused", !.collecting = {}]

resumeCollection ==
  /\ service.collection = "Paused"
  /\ adapter' = [adapter EXCEPT !.collectionEnabled = TRUE]
  /\ service' = [service EXCEPT !.collection = "Running", !.collecting = devices]

onStartClicked ==
  /\ Click
  /\ service.connection = "Connected"
  /\ pauseCollection \/ resumeCollection
  /\ UNCHANGED posted

(* The menu opens on a connected device and stays open, modal, whatever    *)
(* the network reports meanwhile.                                          *)
setDeviceCollection(d, enabled) ==
  LET switched(set) == IF enabled THEN set \cup {d} ELSE set \ {d}
  IN  /\ Click
      /\ adapter.running
      /\ d \in devices
      /\ adapter' = [adapter EXCEPT !.collecting = switched(@)]
      /\ service' = [service EXCEPT !.collecting = switched(@)]
      /\ UNCHANGED posted

User ==
  \/ onConnectClicked
  \/ onStartClicked
  \/ \E d \in Devices, enabled \in BOOLEAN : setDeviceCollection(d, enabled)

Next == runSlot \/ Network \/ deliverSignal \/ User

Spec == Init /\ [][Next]_vars

-----------------------------------------------------------------------------
(* Properties *)

(* Members and queued calls have the types of the classes, and only        *)
(* registered devices have a state in any table (member declarations of    *)
(* MonitoringService and TcpDeviceDataSourceAdapter).                      *)
TypeOK ==
  /\ Link!TypeOK
  /\ posted \in Seq(Slots)
  /\ signals \in Seq(Signals)
  /\ devices \in SUBSET Devices
  /\ adapter \in Adapter
  /\ service \in Service
  /\ adapter.collecting \cup service.online \cup service.collecting \subseteq devices
  /\ clicks \in 0..MaxClicks

(* Every posted slot has run and every signal has arrived. *)
Quiet == posted = <<>> /\ signals = <<>>

(* Whatever stale signals of an earlier session were delivered after a     *)
(* stop and a new start, in the end the adapter shows the worker's state   *)
(* while it runs and Disconnected otherwise, and the service follows it    *)
(* or shows the Connected that start() presumed (handleTcpStateChanged).   *)
StateSettles ==
  Quiet => /\ adapter.connection = IF adapter.running THEN w.state ELSE "Disconnected"
           /\ service.connection
                \in {adapter.connection} \cup IF adapter.running THEN {"Connected"} ELSE {}

(* When the connection is lost for all the service knows, it does not go   *)
(* on collecting: every loss brought an error that faulted the collection  *)
(* (handleSourceError; architecture.md:564).                               *)
LossStopsCollection ==
  (Quiet /\ service.connection \in {"Disconnected", "Reconnecting"})
    => service.collection \in {"Stopped", "Faulted"}

(* No device is shown online without a connection, although frames and     *)
(* state changes of earlier sessions arrive late (handleFrame,             *)
(* handleSourceConnectionState, stop).                                     *)
OnlineOnlyConnected ==
  service.online # {} => service.connection = "Connected"

(* After a stop nothing is shown as collecting and the offline check is    *)
(* off, whatever is still queued (stop, handleFrame; TODOLIST.md:151).     *)
StoppedShowsNothing ==
  ~adapter.running => service.collecting = {} /\ ~service.offlineCheck

(* When the service shows collection running, the source lets frames       *)
(* through (mainwindow.cpp:1622 tells the user that collection has         *)
(* started).                                                               *)
RunningCollects ==
  service.collection = "Running" => adapter.collectionEnabled
=============================================================================
