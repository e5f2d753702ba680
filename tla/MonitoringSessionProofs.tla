----------------------- MODULE MonitoringSessionProofs -----------------------
(***************************************************************************)
(* Proofs about MonitoringSession, for any devices, any number of clicks   *)
(* and any bound on the queue.                                             *)
(*                                                                         *)
(* First what the GUI shows after a stop, which needs nothing of the       *)
(* worker: none of its steps reaches the GUI.  Then what it shows while    *)
(* the source runs, which does: the worker's invariant is taken from       *)
(* TcpConnectionProofs, its steps are followed into the queue of signals,  *)
(* and the signals of earlier sessions that are still in it are accounted  *)
(* for by the states the worker went through when it queued them.          *)
(***************************************************************************)
EXTENDS MonitoringSession, SequenceTheorems, TLAPS

-----------------------------------------------------------------------------
(* After a stop *)

(* The two records keep their fields, so that an update of one of them     *)
(* leaves the others alone.                                                *)
Shape ==
  /\ DOMAIN adapter = {"running", "collectionEnabled", "connection", "collecting"}
  /\ DOMAIN service = {"connection", "collection", "online", "collecting", "offlineCheck"}

(* A stopped source is shown disconnected, so that the collect button,     *)
(* which would show collection again, is off.                              *)
StoppedDisconnected == ~adapter.running => service.connection = "Disconnected"

IInv == Shape /\ StoppedDisconnected /\ StoppedShowsNothing

(* A step that leaves the GUI alone. *)
LEMMA GuiUnchanged ==
  ASSUME IInv, UNCHANGED gui
  PROVE  IInv'
  BY DEF IInv, Shape, StoppedDisconnected, StoppedShowsNothing, gui

(* The GUI is left alone by every step of the network thread. *)
LEMMA NetworkStep ==
  ASSUME runSlot \/ Network
  PROVE  UNCHANGED gui
<1>1. ASSUME NEW emitted, Emit(emitted) PROVE UNCHANGED gui
  BY <1>1 DEF Emit
<1>2. CASE runSlot
  BY <1>1, <1>2 DEF runSlot, connectToHost
<1>3. CASE Network
  BY <1>1, <1>3 DEF Network, connectSucceeds, connectFails, peerCloses,
     handleReadyRead, handleConnectTimeout, handleReadTimeout
<1> QED BY <1>2, <1>3

(* An accepted frame keeps the fields of the service. *)
LEMMA AcceptedFields ==
  ASSUME NEW x, NEW d, NEW kind \in FrameKinds
  PROVE  DOMAIN accepted(x, d, kind) = DOMAIN x
<1>1. CASE kind = "telemetry"
  BY <1>1 DEF accepted, processTelemetry, Heartbeats
<1>2. CASE kind \in Heartbeats
  BY <1>2 DEF accepted, processHeartbeat, Heartbeats
<1>3. CASE kind = "malformed"
  BY <1>3 DEF accepted, handleSourceError, Heartbeats
<1> QED BY <1>1, <1>2, <1>3 DEF FrameKinds

(* A late signal does not bring the shown collection back. *)
LEMMA deliverSignal_Step ==
  ASSUME IInv, deliverSignal
  PROVE  IInv'
<1>1. ASSUME NEW state, handleTcpStateChanged(state) PROVE IInv'
  <2>1. CASE UNCHANGED gui
    BY <2>1, GuiUnchanged
  <2>2. CASE setConnectionState(state) /\ (adapter.running \/ state = "Disconnected")
    BY <2>2 DEF IInv, Shape, StoppedDisconnected, StoppedShowsNothing, setConnectionState,
       handleSourceConnectionState, handleTcpStateChanged
  <2> QED BY <1>1, <2>1, <2>2 DEF handleTcpStateChanged
<1>2. ASSUME service' = handleSourceError(service), UNCHANGED <<devices, adapter>>
      PROVE  IInv'
  BY <1>2 DEF IInv, Shape, StoppedDisconnected, StoppedShowsNothing, handleSourceError
<1>3. ASSUME NEW d, NEW kind \in FrameKinds, handleFrame(d, kind) PROVE IInv'
  <2>1. CASE ~adapter.running \/ ~adapter.collectionEnabled
    BY <1>3, <2>1, GuiUnchanged DEF handleFrame
  <2>2. CASE adapter.running /\ adapter.collectionEnabled
    <3>1. adapter'.running /\ DOMAIN adapter' = DOMAIN adapter
      BY <1>3, <2>2 DEF handleFrame, IInv, Shape
    <3>2. DOMAIN registerDevice(service, d) = DOMAIN service
      BY DEF registerDevice
    <3>3. service' \in {service, accepted(service, d, kind),
                        accepted(registerDevice(service, d), d, kind)}
      BY <1>3, <2>2 DEF handleFrame
    <3>4. DOMAIN service' = DOMAIN service
      BY <3>2, <3>3, AcceptedFields
    <3> QED BY <3>1, <3>4 DEF IInv, Shape, StoppedDisconnected, StoppedShowsNothing
  <2> QED BY <2>1, <2>2
<1> QED BY <1>1, <1>2, <1>3 DEF deliverSignal

(* Only a start, which makes the source run, shows collection. *)
LEMMA User_Step ==
  ASSUME IInv, User
  PROVE  IInv'
<1>1. CASE onConnectClicked
  <2>1. CASE start
    BY <2>1 DEF IInv, Shape, StoppedDisconnected, StoppedShowsNothing, start
  <2>2. CASE stop
    BY <2>2 DEF IInv, Shape, StoppedDisconnected, StoppedShowsNothing, stop
  <2> QED BY <1>1, <2>1, <2>2 DEF onConnectClicked
<1>2. CASE onStartClicked
  BY <1>2 DEF IInv, Shape, StoppedDisconnected, StoppedShowsNothing, onStartClicked, pauseCollection,
     resumeCollection
<1>3. ASSUME NEW d \in Devices, NEW enabled \in BOOLEAN, setDeviceCollection(d, enabled)
      PROVE  IInv'
  BY <1>3 DEF IInv, Shape, StoppedDisconnected, StoppedShowsNothing, setDeviceCollection
<1> QED BY <1>1, <1>2, <1>3 DEF User

(* The inductive invariant: the fields of the GUI's records and what they  *)
(* show after a stop.                                                      *)
THEOREM Invariance == Spec => []IInv
<1>1. Init => IInv
  BY DEF Init, IInv, Shape, StoppedDisconnected, StoppedShowsNothing
<1>2. IInv /\ [Next]_vars => IInv'
  <2> SUFFICES ASSUME IInv, [Next]_vars PROVE IInv'
    OBVIOUS
  <2>1. CASE runSlot \/ Network
    BY <2>1, NetworkStep, GuiUnchanged
  <2>2. CASE UNCHANGED vars
    BY <2>2, GuiUnchanged DEF vars
  <2> QED BY <2>1, <2>2, deliverSignal_Step, User_Step DEF Next
<1> QED BY <1>1, <1>2, PTL DEF Spec

(* After a stop no device is shown as collecting and the offline check is  *)
(* off, whatever is still queued (MonitoringService::stop).                *)
THEOREM StoppedAlwaysShowsNothing == Spec => []StoppedShowsNothing
<1>1. IInv => StoppedShowsNothing
  BY DEF IInv
<1> QED BY <1>1, Invariance, PTL

-----------------------------------------------------------------------------
(* The worker in the session is the worker of TcpConnectionProofs.  Its    *)
(* operators are given twice, by the instance in MonitoringSession and by  *)
(* the one here, and mean the same.                                        *)
Worker == INSTANCE TcpConnectionProofs
          WITH Delays <- {}, Timeouts <- {}, MaxCommands <- MaxClicks + 1

LEMMA Bounds == Worker!BoundsAssumption /\ Worker!SettingsAssumption
BY BoundsAssumption DEF Worker!BoundsAssumption, Worker!SettingsAssumption

LEMMA SameInit == Link!Init <=> Worker!Init
BY DEF Link!Init, Worker!Init

LEMMA Same ==
  ASSUME NEW x
  PROVE  /\ Link!mayReconnect(x) <=> Worker!mayReconnect(x)
         /\ Link!scheduleReconnect(x) = Worker!scheduleReconnect(x)
         /\ Link!handleSocketStateChanged(x) = Worker!handleSocketStateChanged(x)
         /\ Link!handleDisconnected(x) = Worker!handleDisconnected(x)
         /\ Link!becomeUnconnected(x) = Worker!becomeUnconnected(x)
         /\ Link!abort(x) = Worker!abort(x)
         /\ Link!close(x) = Worker!close(x)
         /\ Link!handleConnected(x) = Worker!handleConnected(x)
         /\ Link!startConnection(x) = Worker!startConnection(x)
<1>1. ASSUME NEW y PROVE Link!mayReconnect(y) <=> Worker!mayReconnect(y)
  BY DEF Link!mayReconnect, Worker!mayReconnect
<1>2. ASSUME NEW y PROVE Link!scheduleReconnect(y) = Worker!scheduleReconnect(y)
  BY DEF Link!scheduleReconnect, Worker!scheduleReconnect, Link!smaller, Worker!smaller, Link!mayReconnect, Worker!mayReconnect
<1>3. ASSUME NEW y PROVE Link!handleSocketStateChanged(y) = Worker!handleSocketStateChanged(y)
  BY <1>2 DEF Link!handleSocketStateChanged, Worker!handleSocketStateChanged
<1>4. ASSUME NEW y PROVE Link!handleDisconnected(y) = Worker!handleDisconnected(y)
  BY <1>2 DEF Link!handleDisconnected, Worker!handleDisconnected
<1>5. ASSUME NEW y PROVE Link!becomeUnconnected(y) = Worker!becomeUnconnected(y)
  BY <1>3, <1>4 DEF Link!becomeUnconnected, Worker!becomeUnconnected
<1>6. ASSUME NEW y PROVE Link!abort(y) = Worker!abort(y)
  BY <1>5 DEF Link!abort, Worker!abort
<1>7. ASSUME NEW y PROVE Link!close(y) = Worker!close(y)
  BY <1>5 DEF Link!close, Worker!close, Link!Attempting, Worker!Attempting
<1>8. ASSUME NEW y PROVE Link!handleConnected(y) = Worker!handleConnected(y)
  BY DEF Link!handleConnected, Worker!handleConnected
<1>9. ASSUME NEW y PROVE Link!startConnection(y) = Worker!startConnection(y)
  BY <1>6 DEF Link!startConnection, Worker!startConnection
<1> QED BY <1>1, <1>2, <1>3, <1>4, <1>5, <1>6, <1>7, <1>8, <1>9

LEMMA SameSlots ==
  /\ Link!connectToHost <=> Worker!connectToHost
  /\ Link!disconnectFromHost <=> Worker!disconnectFromHost
  /\ \A enabled \in BOOLEAN :
       Link!setReconnectEnabled(enabled) <=> Worker!setReconnectEnabled(enabled)
<1>1. Link!connectToHost <=> Worker!connectToHost
  BY Same DEF Link!connectToHost, Worker!connectToHost, Link!Command, Worker!Command
<1>2. Link!disconnectFromHost <=> Worker!disconnectFromHost
  BY Same DEF Link!disconnectFromHost, Worker!disconnectFromHost, Link!Command, Worker!Command
<1>3. ASSUME NEW enabled \in BOOLEAN
      PROVE  Link!setReconnectEnabled(enabled) <=> Worker!setReconnectEnabled(enabled)
  BY Same DEF Link!setReconnectEnabled, Worker!setReconnectEnabled, Link!Command, Worker!Command
<1> QED BY <1>1, <1>2, <1>3

LEMMA SameNetwork ==
  /\ Link!connectSucceeds <=> Worker!connectSucceeds
  /\ Link!connectFails <=> Worker!connectFails
  /\ Link!peerCloses <=> Worker!peerCloses
  /\ Link!handleReadyRead <=> Worker!handleReadyRead
  /\ Link!hostFound <=> Worker!hostFound
<1>1. Link!connectSucceeds <=> Worker!connectSucceeds
  BY Same DEF Link!connectSucceeds, Worker!connectSucceeds
<1>2. Link!connectFails <=> Worker!connectFails
  BY Same DEF Link!connectFails, Worker!connectFails, Link!Attempting, Worker!Attempting
<1>3. Link!peerCloses <=> Worker!peerCloses
  BY Same DEF Link!peerCloses, Worker!peerCloses
<1>4. Link!handleReadyRead <=> Worker!handleReadyRead
  BY Same DEF Link!handleReadyRead, Worker!handleReadyRead
<1>5. Link!hostFound <=> Worker!hostFound
  BY Same DEF Link!hostFound, Worker!hostFound
<1> QED BY <1>1, <1>2, <1>3, <1>4, <1>5

LEMMA SameTimers ==
  /\ Link!handleConnectTimeout <=> Worker!handleConnectTimeout
  /\ Link!handleReadTimeout <=> Worker!handleReadTimeout
  /\ Link!handleReconnectTimer <=> Worker!handleReconnectTimer
<1>1. Link!handleConnectTimeout <=> Worker!handleConnectTimeout
  BY Same DEF Link!handleConnectTimeout, Worker!handleConnectTimeout, Link!Attempting, Worker!Attempting
<1>2. Link!handleReadTimeout <=> Worker!handleReadTimeout
  BY Same DEF Link!handleReadTimeout, Worker!handleReadTimeout
<1>3. Link!handleReconnectTimer <=> Worker!handleReconnectTimer
  BY Same DEF Link!handleReconnectTimer, Worker!handleReconnectTimer
<1> QED BY <1>1, <1>2, <1>3

-----------------------------------------------------------------------------
(* What a loss, a close and an attempt keep of the worker *)

(* What the user last asked for is what the worker is set to. *)
Hist(x) ==
  /\ x.wanted => ~x.userDisconnected
  /\ x.pendingClose => ~x.wanted

(* What a loss leaves as it is. *)
Kept(x, y) ==
  /\ y.wanted = x.wanted /\ y.hasHost = x.hasHost
  /\ y.userDisconnected = x.userDisconnected
  /\ y.pendingClose => x.pendingClose

LEMMA ScheduleKeeps ==
  ASSUME NEW x \in Worker!Worker
  PROVE  Kept(x, Worker!scheduleReconnect(x))
<1>1. CASE Worker!mayReconnect(x) /\ ~x.reconnectTimer
  <2>1. PICK n : n = Worker!smaller(AttemptCap, x.reconnectAttempt + 1)
    OBVIOUS
  <2>2. PICK y : y = [x EXCEPT !.reconnectAttempt = n, !.state = "Reconnecting", !.reconnectTimer = TRUE]
    OBVIOUS
  <2>3. Worker!scheduleReconnect(x) = y
    BY <1>1, <2>1, <2>2 DEF Worker!scheduleReconnect
  <2> QED BY <2>2, <2>3 DEF Kept, Worker!Worker
<1>2. CASE Worker!mayReconnect(x) /\ x.reconnectTimer
  BY <1>2 DEF Worker!scheduleReconnect, Kept
<1>3. CASE ~Worker!mayReconnect(x)
  <2>1. PICK y : y = [x EXCEPT !.state = "Disconnected"]
    OBVIOUS
  <2>2. Worker!scheduleReconnect(x) \in {x, y}
    BY <1>3, <2>1 DEF Worker!scheduleReconnect
  <2>3. Kept(x, x) /\ Kept(x, y)
    BY <2>1 DEF Kept, Worker!Worker
  <2> QED BY <2>2, <2>3
<1> QED BY <1>1, <1>2, <1>3

LEMMA LossKeeps ==
  ASSUME NEW x \in Worker!Worker, Worker!Clean(x), ~x.reconnectTimer
  PROVE  /\ Kept(x, Worker!becomeUnconnected(x))
         /\ Worker!WInv(Worker!becomeUnconnected(x))
         /\ Worker!becomeUnconnected(x).socket = "Unconnected"
<1>1. PICK lost : lost = [x EXCEPT !.socket = "Unconnected", !.pendingClose = FALSE, !.unsent = FALSE]
  OBVIOUS
<1>2. lost \in Worker!Worker /\ lost.socket = "Unconnected" /\ ~lost.reconnectTimer
      /\ Worker!Clean(lost) /\ Kept(x, lost)
  BY <1>1 DEF Worker!Worker, Worker!SocketStates, Worker!Clean, Kept
<1>3. PICK gone : gone = Worker!scheduleReconnect(lost)
  OBVIOUS
<1>4. Worker!handleSocketStateChanged(lost) = gone
  BY <1>2, <1>3 DEF Worker!handleSocketStateChanged
<1>5. gone \in Worker!Worker /\ Kept(lost, gone)
  BY <1>2, <1>3, Bounds, ScheduleKeeps, Worker!ScheduleOnce DEF Worker!WInv
<1>6. Kept(x, gone)
  BY <1>2, <1>5 DEF Kept
<1>7. Kept(x, Worker!becomeUnconnected(x))
  <2>1. CASE x.socket \in {"Connected", "Closing"}
    <3>1. PICK stopped : stopped = [gone EXCEPT !.connectTimer = "off", !.readTimer = FALSE]
      OBVIOUS
    <3>2. Worker!becomeUnconnected(x) = Worker!scheduleReconnect(stopped)
      BY <1>1, <1>4, <2>1, <3>1 DEF Worker!becomeUnconnected, Worker!handleDisconnected
    <3>3. stopped \in Worker!Worker /\ Kept(gone, stopped)
      BY <1>5, <3>1 DEF Worker!Worker, Kept
    <3>4. Kept(stopped, Worker!scheduleReconnect(stopped))
      BY <3>3, ScheduleKeeps
    <3> QED BY <1>6, <3>2, <3>3, <3>4 DEF Kept
  <2>2. CASE x.socket \notin {"Connected", "Closing"}
    <3>1. Worker!becomeUnconnected(x) = gone
      BY <1>1, <1>4, <2>2 DEF Worker!becomeUnconnected
    <3> QED BY <1>6, <3>1
  <2> QED BY <2>1, <2>2
<1>8. Worker!WInv(Worker!becomeUnconnected(x)) /\ Worker!becomeUnconnected(x).socket = "Unconnected"
  BY Bounds, Worker!LossHandled
<1> QED BY <1>7, <1>8

(* An open socket that is closed. *)
LEMMA CloseKeeps ==
  ASSUME NEW x, Worker!WInv(x), x.socket \in {"Connected", "Closing"}
  PROVE  /\ Kept(x, Worker!close(x)) /\ Worker!WInv(Worker!close(x))
         /\ Worker!close(x).socket \in {"Unconnected", "Closing"}
<1>1. x \in Worker!Worker /\ Worker!Clean(x) /\ ~x.reconnectTimer
  BY DEF Worker!WInv, Worker!Armed, Worker!mayReconnect
<1>2. Worker!WInv(Worker!close(x))
  BY Bounds, Worker!OpenSocketClosed
<1>3. CASE x.unsent
  <2>1. PICK y : y = [x EXCEPT !.socket = "Closing"]
    OBVIOUS
  <2>2. Worker!close(x) = y
    BY <1>3, <2>1 DEF Worker!close, Worker!Attempting
  <2>3. Kept(x, y) /\ y.socket = "Closing"
    BY <1>1, <2>1 DEF Kept, Worker!Worker
  <2> QED BY <1>2, <2>2, <2>3
<1>4. CASE ~x.unsent
  <2>1. Worker!close(x) = Worker!becomeUnconnected(x)
    BY <1>4 DEF Worker!close, Worker!Attempting
  <2> QED BY <1>1, <1>2, <2>1, LossKeeps
<1> QED BY <1>3, <1>4

(* A new attempt. *)
LEMMA StartEffect ==
  ASSUME NEW x \in Worker!Worker, Worker!Clean(x), ~x.reconnectTimer
  PROVE  LET z == Worker!startConnection(x)
         IN  /\ Worker!WInv(z)
             /\ z.state = "Connecting" /\ ~z.userDisconnected /\ ~z.pendingClose
             /\ z.wanted = x.wanted /\ z.hasHost = x.hasHost
<1>1. PICK dropped : dropped = [x EXCEPT !.userDisconnected = TRUE]
  OBVIOUS
<1>2. /\ dropped \in Worker!Worker /\ Worker!Clean(dropped) /\ ~dropped.reconnectTimer
      /\ dropped.wanted = x.wanted /\ dropped.hasHost = x.hasHost
      /\ dropped.socket = x.socket
  BY <1>1 DEF Worker!Worker, Worker!Clean
<1>3. PICK y : y = IF x.socket = "Unconnected" THEN x ELSE Worker!abort(dropped)
  OBVIOUS
<1>4. y \in Worker!Worker /\ y.wanted = x.wanted /\ y.hasHost = x.hasHost
  <2>1. CASE x.socket = "Unconnected"
    BY <1>3, <2>1
  <2>2. CASE x.socket # "Unconnected"
    <3>1. y = Worker!becomeUnconnected(dropped)
      BY <1>2, <1>3, <2>2 DEF Worker!abort
    <3> QED BY <1>2, <3>1, LossKeeps DEF Kept, Worker!WInv
  <2> QED BY <2>1, <2>2
<1>5. PICK timer : timer = IF y.connectTimeout > 0 THEN "current"
                           ELSE IF y.connectTimer = "off" THEN "off" ELSE "stale"
  OBVIOUS
<1>6. PICK z : z = [y EXCEPT !.userDisconnected = FALSE, !.state = "Connecting",
                             !.decoder = "empty", !.connectTimer = timer,
                             !.socket = "HostLookup", !.pendingClose = FALSE, !.silent = FALSE]
  OBVIOUS
<1>7. Worker!startConnection(x) = z
  BY <1>1, <1>3, <1>5, <1>6 DEF Worker!startConnection
<1>8. z.state = "Connecting" /\ ~z.userDisconnected /\ ~z.pendingClose
      /\ z.wanted = y.wanted /\ z.hasHost = y.hasHost
  BY <1>4, <1>6 DEF Worker!Worker
<1>9. Worker!WInv(z)
  BY <1>7, Bounds, Worker!AttemptStarted
<1> QED BY <1>4, <1>7, <1>8, <1>9

-----------------------------------------------------------------------------
(* What the steps of the worker do to it *)

WorkerOK == Worker!IInv /\ Hist(w)

LEMMA ConnectEffect ==
  ASSUME WorkerOK, Link!connectToHost
  PROVE  /\ WorkerOK' /\ w'.state = "Connecting" /\ w'.wanted
         /\ w.state \in {"Connecting", "Connected"} => w.socket # "Unconnected"
<1>1. w \in Worker!Worker /\ Worker!Clean(w) /\ Worker!connectToHost /\ Worker!WInv(w)
  BY SameSlots DEF WorkerOK, Worker!IInv, Worker!WInv
<1>0. PICK none \in 0..AttemptCap : none = 0
  BY BoundsAssumption
<1>2. PICK x : x = [w EXCEPT !.hasHost = TRUE, !.reconnectTimer = FALSE,
                             !.reconnectAttempt = none, !.wanted = TRUE]
  OBVIOUS
<1>3. /\ x \in Worker!Worker /\ Worker!Clean(x) /\ ~x.reconnectTimer /\ x.wanted
  BY <1>1, <1>2 DEF Worker!Worker, Worker!Clean
<1>4. w' = Worker!startConnection(x)
  BY <1>1, <1>2, <1>0 DEF Worker!connectToHost
<1>5. w'.state = "Connecting" /\ w'.wanted /\ Hist(w')
  BY <1>3, <1>4, StartEffect DEF Hist
<1>6. Worker!IInv'
  BY <1>1, Bounds, Worker!NextIInv DEF WorkerOK, Worker!Next, Worker!Slots
<1>7. w.state \in {"Connecting", "Connected"} => w.socket # "Unconnected"
  BY <1>1 DEF Worker!WInv, Worker!Honest, Worker!Attempting
<1> QED BY <1>5, <1>6, <1>7 DEF WorkerOK

LEMMA DisconnectEffect ==
  ASSUME WorkerOK, Link!disconnectFromHost
  PROVE  WorkerOK' /\ w'.state = "Disconnected" /\ w'.hasHost = w.hasHost
<1>1. w \in Worker!Worker /\ Worker!Clean(w) /\ Worker!disconnectFromHost
  BY SameSlots DEF WorkerOK, Worker!IInv, Worker!WInv
<1>2. PICK x : x = [w EXCEPT !.userDisconnected = TRUE, !.reconnectTimer = FALSE,
                             !.connectTimer = "off", !.readTimer = FALSE,
                             !.decoder = "empty", !.wanted = FALSE]
  OBVIOUS
<1>3. /\ x \in Worker!Worker /\ Worker!Clean(x) /\ ~x.reconnectTimer /\ ~x.wanted
      /\ x.userDisconnected /\ x.connectTimer = "off" /\ x.hasHost = w.hasHost
  BY <1>1, <1>2 DEF Worker!Worker, Worker!Clean
<1>4. PICK y : y = Worker!close(x)
  OBVIOUS
<1>5. y \in Worker!Worker /\ ~y.wanted /\ y.hasHost = w.hasHost
  <2>1. y \in Worker!Worker
    BY <1>3, <1>4, Bounds, Worker!UserClose
  <2>2. CASE x.socket = "Unconnected"
    BY <1>3, <1>4, <2>2 DEF Worker!close
  <2>3. CASE x.socket \in Worker!Attempting
    <3>1. PICK c : c = [x EXCEPT !.pendingClose = TRUE]
      OBVIOUS
    <3>2. y = c
      BY <1>4, <2>3, <3>1 DEF Worker!close, Worker!Attempting
    <3> QED BY <1>3, <2>1, <3>1, <3>2 DEF Worker!Worker
  <2>4. CASE x.socket \in {"Connected", "Closing"} /\ x.unsent
    <3>1. PICK c : c = [x EXCEPT !.socket = "Closing"]
      OBVIOUS
    <3>2. y = c
      BY <1>4, <2>4, <3>1 DEF Worker!close, Worker!Attempting
    <3> QED BY <1>3, <2>1, <3>1, <3>2 DEF Worker!Worker
  <2>5. CASE x.socket \in {"Connected", "Closing"} /\ ~x.unsent
    <3>1. y = Worker!becomeUnconnected(x)
      BY <1>4, <2>5 DEF Worker!close, Worker!Attempting
    <3> QED BY <1>3, <2>1, <3>1, LossKeeps DEF Kept
  <2> QED BY <1>3, <2>2, <2>3, <2>4, <2>5 DEF Worker!Worker, Worker!SocketStates, Worker!Attempting
<1>6. PICK z : z = [y EXCEPT !.state = "Disconnected"]
  OBVIOUS
<1>7. w' = z
  BY <1>1, <1>2, <1>4, <1>6 DEF Worker!disconnectFromHost
<1>8. z.state = "Disconnected" /\ ~z.wanted /\ z.hasHost = w.hasHost
  BY <1>5, <1>6 DEF Worker!Worker
<1>9. Worker!IInv'
  BY <1>1, Bounds, Worker!NextIInv DEF WorkerOK, Worker!Next, Worker!Slots
<1> QED BY <1>7, <1>8, <1>9 DEF WorkerOK, Hist

(* The setting comes before the first attempt. *)
LEMMA SettingEffect ==
  ASSUME WorkerOK, NEW enabled \in BOOLEAN, Link!setReconnectEnabled(enabled), ~w.hasHost
  PROVE  /\ WorkerOK' /\ w'.state = w.state
         /\ w'.hasHost = w.hasHost /\ w'.wanted = w.wanted
<1>1. w \in Worker!Worker /\ Worker!WInv(w) /\ Worker!setReconnectEnabled(enabled)
  BY SameSlots DEF WorkerOK, Worker!IInv, Worker!WInv
<1>2. w.state # "Reconnecting"
  BY <1>1 DEF Worker!WInv, Worker!Armed, Worker!mayReconnect
<1>3. PICK x : x = [w EXCEPT !.reconnectEnabled = enabled]
  OBVIOUS
<1>4. x \in Worker!Worker /\ ~x.hasHost /\ x.state = w.state /\ x.hasHost = w.hasHost
      /\ x.wanted = w.wanted /\ x.userDisconnected = w.userDisconnected
      /\ x.pendingClose = w.pendingClose
  BY <1>1, <1>3 DEF Worker!Worker
<1>5. /\ w'.state = w.state /\ w'.hasHost = w.hasHost /\ w'.wanted = w.wanted
      /\ w'.userDisconnected = w.userDisconnected /\ w'.pendingClose = w.pendingClose
  <2>1. CASE enabled
    <3>1. w' = x
      BY <1>1, <1>3, <1>4, <2>1 DEF Worker!setReconnectEnabled
    <3> QED BY <1>4, <3>1
  <2>2. CASE ~enabled
    <3>1. PICK state : state = IF x.state = "Reconnecting" THEN "Disconnected" ELSE x.state
      OBVIOUS
    <3>2. PICK y : y = [x EXCEPT !.reconnectTimer = FALSE, !.state = state]
      OBVIOUS
    <3>3. w' = y
      BY <1>1, <1>3, <2>2, <3>1, <3>2 DEF Worker!setReconnectEnabled
    <3>4. state = w.state
      BY <1>2, <1>4, <3>1
    <3> QED BY <1>4, <3>2, <3>3, <3>4 DEF Worker!Worker
  <2> QED BY <2>1, <2>2
<1>6. Worker!IInv'
  BY <1>1, Bounds, Worker!NextIInv DEF WorkerOK, Worker!Next, Worker!Slots
<1> QED BY <1>5, <1>6 DEF WorkerOK, Hist

LEMMA NetworkKeeps ==
  ASSUME WorkerOK,
         Worker!connectSucceeds \/ Worker!connectFails \/ Worker!peerCloses
           \/ Worker!handleReadyRead \/ Worker!hostFound \/ Worker!Timers
  PROVE  Worker!IInv'
BY Bounds, Worker!NextIInv DEF WorkerOK, Worker!Next, Worker!Network

(* A connection that is made; a close that waited for it ends it.           *)
LEMMA SuccessEffect ==
  ASSUME WorkerOK, Link!connectSucceeds
  PROVE  /\ WorkerOK' /\ w'.wanted = w.wanted /\ w'.hasHost = w.hasHost
         /\ ~w.pendingClose => w'.state = "Connected"
         /\ w.pendingClose => w'.state # "Connecting"
<1>1. w \in Worker!Worker /\ Worker!Clean(w) /\ Worker!connectSucceeds
  BY SameNetwork DEF WorkerOK, Worker!IInv, Worker!WInv
<1>2. PICK open : open = [w EXCEPT !.socket = "Connected", !.pendingClose = FALSE]
  OBVIOUS
<1>3. open \in Worker!Worker /\ Worker!Clean(open) /\ open.socket = "Connected"
      /\ open.wanted = w.wanted /\ open.hasHost = w.hasHost /\ ~open.pendingClose
  BY <1>1, <1>2 DEF Worker!Worker, Worker!SocketStates, Worker!Clean
<1>4. PICK timer : timer = (open.readTimer \/ open.readTimeout > 0)
  OBVIOUS
<1>5. PICK x : x = [open EXCEPT !.userDisconnected = FALSE, !.connectTimer = "off",
                                !.reconnectTimer = FALSE, !.reconnectAttempt = 0,
                                !.readTimer = timer, !.state = "Connected"]
  OBVIOUS
<1>6. x = Worker!handleConnected(open)
  BY <1>4, <1>5 DEF Worker!handleConnected
<1>7. Worker!WInv(x) /\ x.socket = "Connected"
  BY <1>3, <1>6, Bounds, Worker!ConnectionMade
<1>8. x.state = "Connected" /\ x.wanted = w.wanted /\ x.hasHost = w.hasHost
      /\ ~x.pendingClose /\ ~x.userDisconnected
  BY <1>3, <1>5 DEF Worker!Worker
<1>9. Worker!IInv'
  BY <1>1, NetworkKeeps
<1>10. CASE ~w.pendingClose
  <2>1. w' = x
    BY <1>1, <1>2, <1>6, <1>10 DEF Worker!connectSucceeds
  <2> QED BY <1>8, <1>9, <1>10, <2>1 DEF WorkerOK, Hist
<1>11. CASE w.pendingClose
  <2>1. w' = Worker!close(x)
    BY <1>1, <1>2, <1>6, <1>11 DEF Worker!connectSucceeds
  <2>2. Kept(x, w') /\ Worker!WInv(w') /\ w'.socket \in {"Unconnected", "Closing"}
    BY <1>7, <2>1, CloseKeeps
  <2>3. w'.state # "Connecting"
    BY <2>2 DEF Worker!WInv, Worker!Honest, Worker!Attempting
  <2> QED BY <1>8, <1>9, <1>11, <2>2, <2>3 DEF WorkerOK, Hist, Kept
<1> QED BY <1>10, <1>11

(* What ends an attempt or a connection: afterwards there is neither.       *)
Lost ==
  /\ w'.wanted = w.wanted /\ w'.hasHost = w.hasHost
  /\ w'.state # w.state => w'.state \in {"Disconnected", "Reconnecting"}
  /\ w.wanted => w.state \in {"Connecting", "Connected"}

LEMMA LossEffect ==
  ASSUME WorkerOK, NEW x \in Worker!Worker, Kept(w, x), Worker!WInv(w'), Kept(x, w'),
         w.socket \in {"HostLookup", "Connecting", "Connected"},
         w'.socket \in {"Unconnected", "Closing"},
         w'.socket = "Closing" => w.socket = "Connected"
  PROVE  Lost /\ Hist(w')
<1>1. Worker!WInv(w) /\ Hist(w) /\ w \in Worker!Worker /\ w' \in Worker!Worker
  BY DEF WorkerOK, Worker!IInv, Worker!WInv
<1>2. w.wanted => w.state \in {"Connecting", "Connected"}
  BY <1>1 DEF Worker!WInv, Worker!Honest, Worker!Attempting, Hist
<1>3. w'.state # "Connecting"
  BY DEF Worker!WInv, Worker!Honest, Worker!Attempting
<1>4. w'.state = "Connected" => w.state = "Connected"
  BY <1>1 DEF Worker!WInv, Worker!Honest
<1>5. w'.state # w.state => w'.state \in {"Disconnected", "Reconnecting"}
  BY <1>1, <1>3, <1>4 DEF Worker!Worker, Worker!TcpConnectionState
<1> QED BY <1>1, <1>2, <1>5 DEF Lost, Hist, Kept

LEMMA FailureEffect ==
  ASSUME WorkerOK, Link!connectFails \/ Link!peerCloses
  PROVE  WorkerOK' /\ Lost
<1>1. w \in Worker!Worker /\ Worker!Clean(w) /\ Worker!WInv(w)
      /\ (Worker!connectFails \/ Worker!peerCloses)
  BY SameNetwork DEF WorkerOK, Worker!IInv, Worker!WInv
<1>2. Worker!IInv'
  BY <1>1, NetworkKeeps
<1>3. Kept(w, w) /\ Worker!WInv(w')
  BY <1>2 DEF Kept, Worker!IInv
<1>4. CASE Worker!connectFails
  <2>1. w' = Worker!becomeUnconnected(w) /\ ~w.reconnectTimer
        /\ w.socket \in {"HostLookup", "Connecting"}
    BY <1>1, <1>4 DEF Worker!connectFails, Worker!Attempting, Worker!WInv, Worker!Armed,
       Worker!mayReconnect
  <2>2. Kept(w, w') /\ w'.socket = "Unconnected"
    BY <1>1, <2>1, LossKeeps
  <2> QED BY <1>1, <1>2, <1>3, <2>1, <2>2, LossEffect DEF WorkerOK
<1>5. CASE Worker!peerCloses
  <2>1. w' = Worker!close(w) /\ w.socket = "Connected"
    BY <1>5 DEF Worker!peerCloses
  <2>2. Kept(w, w') /\ w'.socket \in {"Unconnected", "Closing"}
    BY <1>1, <2>1, CloseKeeps
  <2> QED BY <1>1, <1>2, <1>3, <2>1, <2>2, LossEffect DEF WorkerOK
<1> QED BY <1>1, <1>4, <1>5

(* A timeout gives up what it was for, if that is still there.             *)
LEMMA AbortEffect ==
  ASSUME WorkerOK, NEW x \in Worker!Worker, Worker!Clean(x), Kept(w, x), x.socket = w.socket,
         ~x.reconnectTimer, w.socket \in {"HostLookup", "Connecting", "Connected"},
         w' = Worker!scheduleReconnect(Worker!abort(x)), Worker!IInv'
  PROVE  WorkerOK' /\ Lost
<1>1. PICK y : y = Worker!becomeUnconnected(x)
  OBVIOUS
<1>2. Worker!abort(x) = y
  BY <1>1 DEF Worker!abort
<1>3. Kept(x, y) /\ Worker!WInv(y) /\ y.socket = "Unconnected"
  BY <1>1, LossKeeps
<1>4. w' = y
  BY <1>2, <1>3, Bounds, Worker!ScheduledAlready
<1>5. Kept(x, w') /\ Worker!WInv(w') /\ w'.socket \in {"Unconnected", "Closing"}
      /\ w'.socket # "Closing"
  BY <1>3, <1>4
<1> QED BY <1>5, LossEffect DEF WorkerOK

LEMMA ConnectTimeoutEffect ==
  ASSUME WorkerOK, Link!handleConnectTimeout
  PROVE  /\ WorkerOK' /\ w'.wanted = w.wanted /\ w'.hasHost = w.hasHost
         /\ IF w.socket \in Link!Attempting THEN Lost ELSE w'.state = w.state
<1>1. w \in Worker!Worker /\ Worker!Clean(w) /\ Worker!WInv(w) /\ Worker!handleConnectTimeout
      /\ Hist(w)
  BY SameTimers DEF WorkerOK, Worker!IInv, Worker!WInv
<1>2. Worker!IInv'
  BY <1>1, NetworkKeeps DEF Worker!Timers
<1>3. PICK x : x = [w EXCEPT !.connectTimer = "off"]
  OBVIOUS
<1>4. /\ x \in Worker!Worker /\ Worker!Clean(x) /\ Kept(w, x) /\ x.socket = w.socket
      /\ x.state = w.state /\ x.reconnectTimer = w.reconnectTimer
  BY <1>1, <1>3 DEF Worker!Worker, Worker!Clean, Kept
<1>5. CASE w.socket \in Link!Attempting
  <2>1. w.socket \in {"HostLookup", "Connecting"} /\ ~x.reconnectTimer
    BY <1>1, <1>4, <1>5 DEF Link!Attempting, Worker!WInv, Worker!Armed, Worker!mayReconnect
  <2>2. w' = Worker!scheduleReconnect(Worker!abort(x))
    BY <1>1, <1>3, <1>4, <2>1 DEF Worker!handleConnectTimeout, Worker!Attempting
  <2>3. WorkerOK' /\ Lost
    BY <1>2, <1>4, <2>1, <2>2, AbortEffect
  <2> QED BY <1>5, <2>3 DEF Lost
<1>6. CASE w.socket \notin Link!Attempting
  <2>1. w' = x
    BY <1>1, <1>3, <1>4, <1>6 DEF Worker!handleConnectTimeout, Worker!Attempting, Link!Attempting
  <2> QED BY <1>1, <1>2, <1>4, <1>6, <2>1 DEF WorkerOK, Hist, Kept
<1> QED BY <1>5, <1>6

LEMMA ReadTimeoutEffect ==
  ASSUME WorkerOK, Link!handleReadTimeout
  PROVE  /\ WorkerOK' /\ w'.wanted = w.wanted /\ w'.hasHost = w.hasHost
         /\ IF w.socket = "Connected" THEN Lost ELSE w'.state = w.state
<1>1. w \in Worker!Worker /\ Worker!Clean(w) /\ Worker!WInv(w) /\ Worker!handleReadTimeout
      /\ Hist(w)
  BY SameTimers DEF WorkerOK, Worker!IInv, Worker!WInv
<1>2. Worker!IInv'
  BY <1>1, NetworkKeeps DEF Worker!Timers
<1>3. PICK x : x = [w EXCEPT !.readTimer = FALSE]
  OBVIOUS
<1>4. /\ x \in Worker!Worker /\ Worker!Clean(x) /\ Kept(w, x) /\ x.socket = w.socket
      /\ x.state = w.state /\ x.reconnectTimer = w.reconnectTimer
  BY <1>1, <1>3 DEF Worker!Worker, Worker!Clean, Kept
<1>5. CASE w.socket = "Connected"
  <2>1. ~x.reconnectTimer
    BY <1>1, <1>4, <1>5 DEF Worker!WInv, Worker!Armed, Worker!mayReconnect
  <2>2. w' = Worker!scheduleReconnect(Worker!abort(x))
    BY <1>1, <1>3, <1>4, <1>5 DEF Worker!handleReadTimeout
  <2>3. WorkerOK' /\ Lost
    BY <1>2, <1>4, <1>5, <2>1, <2>2, AbortEffect
  <2> QED BY <1>5, <2>3 DEF Lost
<1>6. CASE w.socket # "Connected"
  <2>1. w' = x
    BY <1>1, <1>3, <1>4, <1>6 DEF Worker!handleReadTimeout
  <2> QED BY <1>1, <1>2, <1>4, <1>6, <2>1 DEF WorkerOK, Hist, Kept
<1> QED BY <1>5, <1>6

(* A reconnection.                                                         *)
LEMMA ReconnectEffect ==
  ASSUME WorkerOK, Link!handleReconnectTimer
  PROVE  /\ WorkerOK' /\ w'.wanted = w.wanted /\ w'.hasHost = w.hasHost
         /\ w.state = "Reconnecting" /\ w'.state = "Connecting"
<1>1. w \in Worker!Worker /\ Worker!Clean(w) /\ Worker!WInv(w) /\ Worker!handleReconnectTimer
      /\ Hist(w)
  BY SameTimers DEF WorkerOK, Worker!IInv, Worker!WInv
<1>2. Worker!IInv'
  BY <1>1, NetworkKeeps DEF Worker!Timers
<1>3. PICK x : x = [w EXCEPT !.reconnectTimer = FALSE]
  OBVIOUS
<1>4. /\ x \in Worker!Worker /\ Worker!Clean(x) /\ Kept(w, x) /\ x.socket = w.socket
      /\ ~x.reconnectTimer
  BY <1>1, <1>3 DEF Worker!Worker, Worker!Clean, Kept
<1>5. w.reconnectTimer /\ Worker!mayReconnect(w) /\ w.state = "Reconnecting"
  BY <1>1 DEF Worker!handleReconnectTimer, Worker!WInv, Worker!Armed
<1>6. w' = Worker!startConnection(x)
  <2>1. ~x.userDisconnected /\ x.hasHost /\ x.socket = "Unconnected"
    BY <1>4, <1>5 DEF Kept, Worker!mayReconnect
  <2> QED BY <1>1, <1>3, <2>1 DEF Worker!handleReconnectTimer
<1>7. /\ w'.state = "Connecting" /\ ~w'.userDisconnected /\ ~w'.pendingClose
      /\ w'.wanted = x.wanted /\ w'.hasHost = x.hasHost
  BY <1>4, <1>6, StartEffect
<1> QED BY <1>2, <1>4, <1>5, <1>7 DEF WorkerOK, Hist, Kept

(* Bytes that arrive, a host that is found. *)
LEMMA QuietEffect ==
  ASSUME WorkerOK, Link!handleReadyRead \/ Link!hostFound
  PROVE  /\ WorkerOK' /\ w'.wanted = w.wanted /\ w'.hasHost = w.hasHost
         /\ w'.state = w.state
         /\ Link!handleReadyRead => w.state = "Connected"
<1>1. w \in Worker!Worker /\ Worker!Clean(w) /\ Worker!WInv(w)
      /\ (Worker!handleReadyRead \/ Worker!hostFound) /\ Hist(w)
  BY SameNetwork DEF WorkerOK, Worker!IInv, Worker!WInv
<1>2. Worker!IInv'
  BY <1>1, NetworkKeeps
<1>3. CASE Worker!handleReadyRead
  <2>1. PICK timer, rest : w' = [w EXCEPT !.readTimer = timer, !.decoder = rest]
    BY <1>3 DEF Worker!handleReadyRead
  <2>2. /\ w'.wanted = w.wanted /\ w'.hasHost = w.hasHost /\ w'.state = w.state
        /\ w'.userDisconnected = w.userDisconnected /\ w'.pendingClose = w.pendingClose
    BY <1>1, <2>1 DEF Worker!Worker
  <2>3. w.state = "Connected"
    BY <1>1, <1>3 DEF Worker!handleReadyRead, Worker!WInv, Worker!Honest
  <2> QED BY <1>1, <1>2, <2>2, <2>3 DEF WorkerOK, Hist
<1>4. CASE Worker!hostFound
  <2>1. w' = [w EXCEPT !.socket = "Connecting"]
    BY <1>4 DEF Worker!hostFound
  <2>2. /\ w'.wanted = w.wanted /\ w'.hasHost = w.hasHost /\ w'.state = w.state
        /\ w'.userDisconnected = w.userDisconnected /\ w'.pendingClose = w.pendingClose
    BY <1>1, <2>1 DEF Worker!Worker
  <2>3. Link!handleReadyRead => w.state = "Connected"
    BY <1>1, SameNetwork DEF Worker!handleReadyRead, Worker!WInv, Worker!Honest
  <2> QED BY <1>1, <1>2, <2>2, <2>3 DEF WorkerOK, Hist
<1> QED BY <1>1, <1>3, <1>4

-----------------------------------------------------------------------------
(* What the steps of the worker queue *)

IsState(s) == s.type \in Link!TcpConnectionState

LEMMA SignalTypes ==
  /\ \A state \in Link!TcpConnectionState :
       /\ StateSignal(state) \in Signals /\ StateSignal(state).type = state
       /\ IsState(StateSignal(state))
  /\ ErrorSignal \in Signals /\ ErrorSignal.type = "error" /\ ~IsState(ErrorSignal)
  /\ \A d \in Devices, kind \in FrameKinds :
       LET frame == [type |-> kind, device |-> d]
       IN  frame \in Signals /\ frame.type = kind /\ ~IsState(frame)
BY DEF StateSignal, ErrorSignal, Signals, IsState, Link!TcpConnectionState, FrameKinds, Heartbeats

(* The queue r is q with e behind it. *)
Grown(q, e, r) ==
  /\ q \in Seq(Signals) /\ e \in Signals /\ r \in Seq(Signals)
  /\ Len(r) = Len(q) + 1 /\ r[Len(q) + 1] = e
  /\ \A i \in 1..Len(q) : r[i] = q[i]

LEMMA LastGrown ==
  ASSUME NEW q, NEW e, NEW r, Grown(q, e, r)
  PROVE  r \in Seq(Signals) /\ Len(r) > 0 /\ r[Len(r)] = e
BY DEF Grown

LEMMA OneMoreSignal ==
  ASSUME NEW q \in Seq(Signals), NEW e \in Signals
  PROVE  Grown(q, e, q \o <<e>>)
<1>1. <<e>> \in Seq(Signals) /\ Len(<<e>>) = 1 /\ <<e>>[1] = e
  OBVIOUS
<1>2. q \o <<e>> \in Seq(Signals) /\ Len(q \o <<e>>) = Len(q) + 1
  BY <1>1
<1>3. \A i \in 1..Len(q) : (q \o <<e>>)[i] = q[i]
  BY <1>1
<1>4. (q \o <<e>>)[Len(q) + 1] = e
  BY <1>1
<1> QED BY <1>2, <1>3, <1>4 DEF Grown

LEMMA Regroup ==
  ASSUME NEW S, NEW q \in Seq(S), NEW a \in Seq(S), NEW b \in Seq(S)
  PROVE  (q \o a) \o b = q \o (a \o b)
BY ConcatAssociative

LEMMA PairOf ==
  ASSUME NEW S, NEW e \in S, NEW f \in S
  PROVE  <<e>> \o <<f>> = <<e, f>>
<1>1. <<e>> \in Seq(S) /\ <<f>> \in Seq(S) /\ <<e, f>> \in Seq(S)
  OBVIOUS
<1>2. \A i \in 1..2 : (<<e>> \o <<f>>)[i] = <<e, f>>[i]
  BY <1>1
<1>3. Len(<<e>> \o <<f>>) = 2 /\ <<e>> \o <<f>> \in Seq(S)
  BY <1>1
<1> QED BY <1>1, <1>2, <1>3, SeqEqual

LEMMA TwoMoreSignals ==
  ASSUME NEW q \in Seq(Signals), NEW e \in Signals, NEW f \in Signals
  PROVE  \E m : Grown(q, e, m) /\ Grown(m, f, q \o <<e, f>>)
<1>1. PICK m : m = q \o <<e>>
  OBVIOUS
<1>2. Grown(q, e, m)
  BY <1>1, OneMoreSignal
<1>3. Grown(m, f, m \o <<f>>)
  BY <1>2, OneMoreSignal DEF Grown
<1>4. m \o <<f>> = q \o <<e, f>>
  <2>1. PICK a, b : a = <<e>> /\ b = <<f>>
    OBVIOUS
  <2>2. a \in Seq(Signals) /\ b \in Seq(Signals)
    BY <2>1
  <2>3. (q \o a) \o b = q \o (a \o b)
    BY <2>2, Regroup
  <2>4. a \o b = <<e, f>>
    BY <2>1, PairOf, Zenon
  <2> QED BY <1>1, <2>1, <2>3, <2>4, Zenon
<1> QED BY <1>2, <1>3, <1>4

Lasting == {"Connecting", "Connected"}
Losing == {"Disconnected", "Reconnecting"}

(* What a step of the worker may put into the queue: nothing, a signal     *)
(* about no change, the new state, a state it passed through and the new   *)
(* one, or a loss and its error.  When the user wants a connection, only a *)
(* loss with its error takes it away.                                      *)
Says(wanted) ==
  \/ signals' = signals /\ w'.state = w.state
  \/ \E e \in Signals :
       /\ Grown(signals, e, signals')
       /\ ~IsState(e) /\ w'.state = w.state
       /\ e.type \in FrameKinds => w.state = "Connected"
  \/ \E e \in Signals :
       /\ Grown(signals, e, signals')
       /\ IsState(e) /\ e.type = w'.state
       /\ w'.state = "Connecting" => w.state # "Connected"
       /\ wanted => w'.state \in Lasting
  \/ \E e, f \in Signals, m \in Seq(Signals) :
       /\ Grown(signals, e, m) /\ Grown(m, f, signals')
       /\ IsState(e) /\ IsState(f) /\ f.type = w'.state
       /\ e.type # "Connecting"
       /\ w'.state = "Connecting" => e.type # "Connected"
       /\ wanted => w'.state \in Lasting
  \/ \E e, f \in Signals, m \in Seq(Signals) :
       /\ Grown(signals, e, m) /\ Grown(m, f, signals')
       /\ \/ IsState(e) /\ e.type = w'.state /\ f.type = "error"
          \/ IsState(f) /\ f.type = w'.state /\ e.type = "error"
       /\ w'.state \in Losing
       /\ wanted => w.state \in Lasting

QueueOK == signals \in Seq(Signals) /\ w.state \in Link!TcpConnectionState

LEMMA SaysNothing ==
  ASSUME QueueOK, NEW wanted, Emit(<< >>), w'.state = w.state
  PROVE  Says(wanted)
<1>1. signals' = signals
  <2>1. signals' = signals \o << >>
    BY DEF Emit
  <2> QED BY <2>1, ConcatEmptySeq DEF QueueOK
<1> QED BY <1>1 DEF Says

LEMMA SaysError ==
  ASSUME QueueOK, NEW wanted, Emit(<<ErrorSignal>>), w'.state = w.state
  PROVE  Says(wanted)
<1>1. Grown(signals, ErrorSignal, signals')
  BY SignalTypes, OneMoreSignal DEF Emit, QueueOK
<1>2. ErrorSignal \in Signals /\ ~IsState(ErrorSignal) /\ ErrorSignal.type \notin FrameKinds
  BY SignalTypes DEF FrameKinds, Heartbeats
<1> QED BY <1>1, <1>2 DEF Says

LEMMA SaysState ==
  ASSUME QueueOK, NEW wanted, w'.state \in Link!TcpConnectionState,
         Emit(setState),
         w'.state = "Connecting" => w.state # "Connected",
         wanted /\ w'.state # w.state => w'.state \in Lasting
  PROVE  Says(wanted)
<1>1. CASE w'.state = w.state
  <2>1. setState = << >>
    BY <1>1 DEF setState
  <2> QED BY <1>1, <2>1, SaysNothing
<1>2. CASE w'.state # w.state
  <2>1. PICK e : e = StateSignal(w'.state)
    OBVIOUS
  <2>2. e \in Signals /\ IsState(e) /\ e.type = w'.state
    BY <2>1, SignalTypes
  <2>3. setState = <<e>>
    BY <1>2, <2>1 DEF setState
  <2>4. Grown(signals, e, signals')
    BY <2>2, <2>3, OneMoreSignal DEF Emit, QueueOK
  <2> QED BY <1>2, <2>2, <2>4 DEF Says
<1> QED BY <1>1, <1>2

LEMMA SaysTwo ==
  ASSUME QueueOK, NEW wanted, NEW before \in Link!TcpConnectionState,
         w'.state \in Link!TcpConnectionState,
         Emit(<<StateSignal(before), StateSignal(w'.state)>>),
         before # "Connecting", w'.state = "Connecting" => before # "Connected",
         wanted => w'.state \in Lasting
  PROVE  Says(wanted)
<1>1. PICK e, f : e = StateSignal(before) /\ f = StateSignal(w'.state)
  OBVIOUS
<1>2. /\ e \in Signals /\ IsState(e) /\ e.type = before
      /\ f \in Signals /\ IsState(f) /\ f.type = w'.state
  BY <1>1, SignalTypes
<1>3. signals' = signals \o <<e, f>>
  BY <1>1 DEF Emit
<1>4. PICK m : Grown(signals, e, m) /\ Grown(m, f, signals')
  BY <1>2, <1>3, TwoMoreSignals DEF QueueOK
<1>5. m \in Seq(Signals)
  BY <1>4 DEF Grown
<1> QED BY <1>2, <1>4, <1>5 DEF Says

LEMMA SaysLoss ==
  ASSUME QueueOK, Lost,
         Emit(<<ErrorSignal>> \o setState) \/ Emit(setState \o <<ErrorSignal>>)
  PROVE  Says(w.wanted)
<1>1. CASE w'.state = w.state
  <2>1. setState = << >>
    BY <1>1 DEF setState
  <2>2. <<ErrorSignal>> \o << >> = <<ErrorSignal>> /\ << >> \o <<ErrorSignal>> = <<ErrorSignal>>
    BY SignalTypes, ConcatEmptySeq
  <2>3. Emit(<<ErrorSignal>>)
    BY <2>1, <2>2
  <2> QED BY <1>1, <2>3, SaysError
<1>2. CASE w'.state # w.state
  <2>1. w'.state \in Losing /\ w'.state \in Link!TcpConnectionState
        /\ (w.wanted => w.state \in Lasting)
    BY <1>2 DEF Lost, Losing, Lasting, Link!TcpConnectionState
  <2>2. PICK e, f : e = ErrorSignal /\ f = StateSignal(w'.state)
    OBVIOUS
  <2>3. /\ e \in Signals /\ e.type = "error"
        /\ f \in Signals /\ IsState(f) /\ f.type = w'.state
    BY <2>1, <2>2, SignalTypes
  <2>4. setState = <<f>>
    BY <1>2, <2>2 DEF setState
  <2>5. <<e>> \o <<f>> = <<e, f>> /\ <<f>> \o <<e>> = <<f, e>>
    BY <2>3, PairOf
  <2>6. signals' = signals \o <<e, f>> \/ signals' = signals \o <<f, e>>
    BY <2>2, <2>4, <2>5 DEF Emit
  <2>7. CASE signals' = signals \o <<e, f>>
    <3>1. PICK m : Grown(signals, e, m) /\ Grown(m, f, signals')
      BY <2>3, <2>7, TwoMoreSignals DEF QueueOK
    <3>2. m \in Seq(Signals)
      BY <3>1 DEF Grown
    <3> QED BY <2>1, <2>3, <3>1, <3>2 DEF Says
  <2>8. CASE signals' = signals \o <<f, e>>
    <3>1. PICK m : Grown(signals, f, m) /\ Grown(m, e, signals')
      BY <2>3, <2>8, TwoMoreSignals DEF QueueOK
    <3>2. m \in Seq(Signals)
      BY <3>1 DEF Grown
    <3> QED BY <2>1, <2>3, <3>1, <3>2 DEF Says
  <2> QED BY <2>6, <2>7, <2>8
<1> QED BY <1>1, <1>2

LEMMA StateTyped ==
  ASSUME NEW x, Worker!WInv(x)
  PROVE  x.state \in Link!TcpConnectionState
BY DEF Worker!WInv, Worker!Worker, Worker!TcpConnectionState, Link!TcpConnectionState

LEMMA NetworkSays ==
  ASSUME WorkerOK, signals \in Seq(Signals), Network
  PROVE  /\ WorkerOK' /\ w'.wanted = w.wanted /\ w'.hasHost = w.hasHost
         /\ Says(w.wanted) /\ UNCHANGED <<gui, clicks, posted>>
<1>1. QueueOK /\ UNCHANGED posted
  BY StateTyped DEF WorkerOK, QueueOK, Network, Worker!IInv
<1>2. ASSUME NEW emitted, Emit(emitted) PROVE UNCHANGED <<gui, clicks>>
  BY <1>2 DEF Emit
<1>3. ASSUME WorkerOK' PROVE w'.state \in Link!TcpConnectionState
  <2>1. Worker!WInv(w')
    BY <1>3 DEF WorkerOK, Worker!IInv
  <2> QED BY <2>1, StateTyped
<1>4. CASE connectSucceeds
  <2>1. /\ WorkerOK' /\ w'.wanted = w.wanted /\ w'.hasHost = w.hasHost
        /\ ~w.pendingClose => w'.state = "Connected"
        /\ w.pendingClose => w'.state # "Connecting" /\ ~w.wanted
    BY <1>4, SuccessEffect DEF connectSucceeds, WorkerOK, Hist
  <2>2. w'.state \in Link!TcpConnectionState /\ "Connected" \in Link!TcpConnectionState
    BY <1>3, <2>1 DEF Link!TcpConnectionState
  <2>3. CASE w.pendingClose
    <3>1. Emit(<<StateSignal("Connected"), StateSignal(w'.state)>>)
      BY <1>4, <2>3 DEF connectSucceeds
    <3>2. Says(w.wanted)
      BY <1>1, <2>1, <2>2, <2>3, <3>1, SaysTwo
    <3> QED BY <1>1, <1>2, <2>1, <3>1, <3>2
  <2>4. CASE ~w.pendingClose
    <3>1. Emit(<<StateSignal("Connected")>>)
      BY <1>4, <2>4 DEF connectSucceeds
    <3>2. PICK e : e = StateSignal("Connected")
      OBVIOUS
    <3>3. e \in Signals /\ IsState(e) /\ e.type = "Connected"
      BY <2>2, <3>2, SignalTypes
    <3>4. Grown(signals, e, signals')
      BY <3>1, <3>2, <3>3, OneMoreSignal DEF Emit
    <3>5. Says(w.wanted)
      BY <2>1, <2>4, <3>3, <3>4 DEF Says, Lasting
    <3> QED BY <1>1, <1>2, <2>1, <3>1, <3>5
  <2> QED BY <2>3, <2>4
<1>5. CASE connectFails \/ peerCloses
  <2>1. WorkerOK' /\ Lost
    BY <1>5, FailureEffect DEF connectFails, peerCloses
  <2>2. Emit(<<ErrorSignal>> \o setState) \/ Emit(setState \o <<ErrorSignal>>)
    BY <1>5 DEF connectFails, peerCloses
  <2>3. Says(w.wanted)
    BY <1>1, <2>1, <2>2, SaysLoss
  <2> QED BY <1>1, <1>2, <2>1, <2>2, <2>3 DEF Lost
<1>6. CASE handleReadyRead
  <2>1. /\ WorkerOK' /\ w'.wanted = w.wanted /\ w'.hasHost = w.hasHost
        /\ w'.state = w.state /\ w.state = "Connected"
    BY <1>6, QuietEffect DEF handleReadyRead
  <2>2. CASE Emit(<< >>)
    BY <1>1, <1>2, <2>1, <2>2, SaysNothing
  <2>3. ASSUME NEW d \in Devices, NEW kind \in FrameKinds, Emit(<<[type |-> kind, device |-> d]>>)
        PROVE  Says(w.wanted) /\ UNCHANGED <<gui, clicks>>
    <3>1. PICK e : e = [type |-> kind, device |-> d]
      OBVIOUS
    <3>2. e \in Signals /\ ~IsState(e)
      BY <3>1, SignalTypes
    <3>3. Grown(signals, e, signals')
      BY <2>3, <3>1, <3>2, OneMoreSignal DEF Emit
    <3>4. Says(w.wanted)
      BY <2>1, <3>2, <3>3 DEF Says
    <3> QED BY <1>2, <2>3, <3>4
  <2>4. CASE Emit(<<ErrorSignal>>)
    BY <1>1, <1>2, <2>1, <2>4, SaysError
  <2> QED BY <1>1, <1>6, <2>1, <2>2, <2>3, <2>4 DEF handleReadyRead
<1>7. CASE handleConnectTimeout
  <2>1. /\ WorkerOK' /\ w'.wanted = w.wanted /\ w'.hasHost = w.hasHost
        /\ IF w.socket \in Link!Attempting THEN Lost ELSE w'.state = w.state
    BY <1>7, ConnectTimeoutEffect DEF handleConnectTimeout
  <2>2. CASE w.socket \in Link!Attempting
    <3>1. Emit(<<ErrorSignal>> \o setState)
      BY <1>7, <2>2 DEF handleConnectTimeout
    <3> QED BY <1>1, <1>2, <2>1, <2>2, <3>1, SaysLoss
  <2>3. CASE w.socket \notin Link!Attempting
    <3>1. Emit(<< >>)
      BY <1>7, <2>3 DEF handleConnectTimeout
    <3> QED BY <1>1, <1>2, <2>1, <2>3, <3>1, SaysNothing
  <2> QED BY <2>2, <2>3
<1>8. CASE handleReadTimeout
  <2>1. /\ WorkerOK' /\ w'.wanted = w.wanted /\ w'.hasHost = w.hasHost
        /\ IF w.socket = "Connected" THEN Lost ELSE w'.state = w.state
    BY <1>8, ReadTimeoutEffect DEF handleReadTimeout
  <2>2. CASE w.socket = "Connected"
    <3>1. Emit(<<ErrorSignal>> \o setState)
      BY <1>8, <2>2 DEF handleReadTimeout
    <3> QED BY <1>1, <1>2, <2>1, <2>2, <3>1, SaysLoss
  <2>3. CASE w.socket # "Connected"
    <3>1. Emit(<< >>)
      BY <1>8, <2>3 DEF handleReadTimeout
    <3> QED BY <1>1, <1>2, <2>1, <2>3, <3>1, SaysNothing
  <2> QED BY <2>2, <2>3
<1>9. CASE Link!handleReconnectTimer /\ Emit(setState)
  <2>1. /\ WorkerOK' /\ w'.wanted = w.wanted /\ w'.hasHost = w.hasHost
        /\ w.state = "Reconnecting" /\ w'.state = "Connecting"
    BY <1>9, ReconnectEffect
  <2>2. w'.state \in Link!TcpConnectionState
    BY <1>3, <2>1
  <2>3. Says(w.wanted)
    BY <1>1, <1>9, <2>1, <2>2, SaysState DEF Lasting
  <2> QED BY <1>1, <1>2, <1>9, <2>1, <2>3
<1>10. CASE Link!hostFound /\ Emit(<< >>)
  <2>1. /\ WorkerOK' /\ w'.wanted = w.wanted /\ w'.hasHost = w.hasHost /\ w'.state = w.state
    BY <1>10, QuietEffect
  <2> QED BY <1>1, <1>2, <1>10, <2>1, SaysNothing
<1> QED BY <1>4, <1>5, <1>6, <1>7, <1>8, <1>9, <1>10 DEF Network

(* The slot that connects always reports it last. *)
LEMMA SlotSays ==
  ASSUME WorkerOK, signals \in Seq(Signals), connectToHost
  PROVE  /\ WorkerOK' /\ w'.state = "Connecting" /\ w'.wanted
         /\ Says(TRUE) /\ UNCHANGED <<gui, clicks>>
         /\ signals' \in Seq(Signals) /\ Len(signals') > 0
         /\ signals'[Len(signals')].type = "Connecting"
<1>1. QueueOK
  BY StateTyped DEF WorkerOK, QueueOK, Worker!IInv
<1>2. /\ WorkerOK' /\ w'.state = "Connecting" /\ w'.wanted
      /\ w.state \in Lasting => w.socket # "Unconnected"
  BY ConnectEffect DEF connectToHost, Lasting
<1>3. PICK e, f : e = StateSignal("Disconnected") /\ f = StateSignal("Connecting")
  OBVIOUS
<1>4. /\ "Connecting" \in Link!TcpConnectionState /\ "Disconnected" \in Link!TcpConnectionState
      /\ e \in Signals /\ f \in Signals /\ f.type = "Connecting"
  BY <1>3, SignalTypes DEF Link!TcpConnectionState
<1>5. CASE w.socket # "Unconnected" /\ w.state # "Disconnected"
  <2>1. Emit(<<StateSignal("Disconnected"), StateSignal("Connecting")>>)
    BY <1>5 DEF connectToHost
  <2>2. Says(TRUE)
    BY <1>1, <1>2, <1>4, <2>1, SaysTwo DEF Lasting
  <2>3. PICK m : Grown(m, f, signals')
    BY <1>1, <1>3, <1>4, <2>1, TwoMoreSignals DEF Emit, QueueOK
  <2>4. UNCHANGED <<gui, clicks>>
    BY <2>1 DEF Emit
  <2>5. /\ signals' \in Seq(Signals) /\ Len(signals') > 0
        /\ signals'[Len(signals')] = f
    BY <2>3, LastGrown
  <2> QED BY <1>2, <1>4, <2>2, <2>4, <2>5
<1>6. CASE ~(w.socket # "Unconnected" /\ w.state # "Disconnected")
  <2>1. Emit(setState)
    BY <1>6 DEF connectToHost
  <2>2. w.state \notin Lasting
    BY <1>2, <1>6 DEF Lasting
  <2>3. Says(TRUE)
    BY <1>1, <1>2, <1>4, <2>1, <2>2, SaysState DEF Lasting
  <2>4. setState = <<f>>
    BY <1>2, <1>3, <2>2 DEF setState, Lasting
  <2>5. Grown(signals, f, signals') /\ UNCHANGED <<gui, clicks>>
    BY <1>4, <2>1, <2>4, OneMoreSignal DEF Emit
  <2>6. /\ signals' \in Seq(Signals) /\ Len(signals') > 0
        /\ signals'[Len(signals')] = f
    BY <2>5, LastGrown
  <2> QED BY <1>2, <1>4, <2>3, <2>5, <2>6
<1> QED BY <1>5, <1>6

-----------------------------------------------------------------------------
(* The invariant of a session *)

(* Slots that are posted.  The setting comes first, before any attempt; a   *)
(* running source has its last connect slot behind its last disconnect      *)
(* slot, and once that has run the user wants a connection.                 *)
PostedOK ==
  /\ posted \in Seq(Slots)
  /\ \A i \in 1..Len(posted) :
       posted[i] \in {"enableReconnect", "disableReconnect"} => i = 1 /\ ~w.hasHost
  /\ adapter.running =>
       /\ \A i \in 1..Len(posted) :
            posted[i] = "disconnectFromHost" =>
              \E j \in 1..Len(posted) : j > i /\ posted[j] = "connectToHost"
       /\ (\A i \in 1..Len(posted) : posted[i] # "connectToHost") => w.wanted

Typed ==
  /\ signals \in Seq(Signals)
  /\ devices \in SUBSET Devices
  /\ adapter \in Adapter
  /\ service \in Service
  /\ adapter.collecting \cup service.online \cup service.collecting \subseteq devices
  /\ clicks \in 0..MaxClicks

(* The service shows the adapter's state, or the one start() presumed.     *)
Follows ==
  /\ adapter.connection \in Link!TcpConnectionState
  /\ service.connection \in {adapter.connection} \cup
                            IF adapter.running THEN {"Connected"} ELSE {}
  /\ ~adapter.running => /\ adapter.connection = "Disconnected"
                         /\ service.collection \in {"Stopped", "Faulted"}

(* h[i] is the state the worker had reported when the i-th signal of q had *)
(* been queued, h[0] the one before all of them, s the one it has now.     *)
History(h, q, s) ==
  /\ h \in [0..Len(q) -> Link!TcpConnectionState]
  /\ h[Len(q)] = s
  /\ \A i \in 1..Len(q) :
       /\ h[i] = IF IsState(q[i]) THEN q[i].type ELSE h[i - 1]
       /\ q[i].type = "Connecting" => h[i - 1] # "Connected"
       /\ q[i].type \in FrameKinds => h[i - 1] = "Connected"

(* What the GUI may show while the last state it heard of was v.           *)
Shown(v, a, x) ==
  /\ a.running /\ v = "Connected"
       => a.connection \in Lasting /\ x.connection = "Connected"
  /\ ~(a.running /\ v = "Connected") => x.online = {}
  /\ a.running /\ a.connection = "Connected" => x.connection = "Connected"

Explainable == \E h : History(h, signals, w.state) /\ Shown(h[0], adapter, service)

(* The states the adapter shows now and will be told of: view(0) is its    *)
(* own, view(i) what the i-th signal is.                                   *)
View(q, c) == [i \in 0..Len(q) |-> IF i = 0 THEN c ELSE q[i].type]

Reports(view, i) == view[i] \in Link!TcpConnectionState
Final(view, i) == \A j \in DOMAIN view : j > i => ~Reports(view, j)

(* The last state reported is the worker's.                                *)
Settles(view, s) ==
  \A i \in DOMAIN view : Reports(view, i) /\ Final(view, i) => view[i] = s

(* A Disconnected that is not the last word on a connection since lost is  *)
(* followed by another state and then by the error of the loss.            *)
Explained(view, s) ==
  s \in Losing =>
    \A i \in DOMAIN view :
      view[i] = "Disconnected" /\ ~Final(view, i) =>
        \E j, k \in DOMAIN view : i < j /\ j < k /\ Reports(view, j) /\ view[k] = "error"

(* A collection that goes on will yet be faulted, or there is a connection *)
(* or an attempt, or the user has presumed one since it was lost.          *)
Collects(view, s, x) ==
  x.collection \in {"Running", "Paused"} =>
    \/ \E i \in DOMAIN view : view[i] = "error"
    \/ s \in Lasting
    \/ Final(view, 0) /\ x.connection = "Connected"

Good(view, s, x) == Settles(view, s) /\ Explained(view, s) /\ Collects(view, s, x)

(* The worker is about the present session. *)
Current == adapter.running /\ \A i \in 1..Len(posted) : posted[i] # "connectToHost"

Tracked == Current => Good(View(signals, adapter.connection), w.state, service)

Session == WorkerOK /\ PostedOK /\ Typed /\ Follows /\ Explainable /\ Tracked

-----------------------------------------------------------------------------
(* Histories and views of a queue that grows, or whose head is taken *)

LEMMA HistoryGrows ==
  ASSUME NEW q, NEW e, NEW r, NEW h, NEW s, NEW t \in Link!TcpConnectionState,
         Grown(q, e, r), History(h, q, s),
         IF IsState(e) THEN e.type = t ELSE t = s,
         e.type = "Connecting" => s # "Connected",
         e.type \in FrameKinds => s = "Connected"
  PROVE  \E g : History(g, r, t) /\ g[0] = h[0]
<1>1. PICK g : g = [i \in 0..Len(r) |-> IF i = Len(r) THEN t ELSE h[i]]
  OBVIOUS
<1>2. Len(q) \in Nat /\ Len(r) = Len(q) + 1
  BY DEF Grown
<1>3. h \in [0..Len(q) -> Link!TcpConnectionState] /\ h[Len(q)] = s
  BY DEF History
<1>4. /\ g \in [0..Len(r) -> Link!TcpConnectionState] /\ g[Len(r)] = t
      /\ \A i \in 0..Len(q) : g[i] = h[i]
  BY <1>1, <1>2, <1>3
<1>5. ASSUME NEW i \in 1..Len(r)
      PROVE  /\ g[i] = IF IsState(r[i]) THEN r[i].type ELSE g[i - 1]
             /\ r[i].type = "Connecting" => g[i - 1] # "Connected"
             /\ r[i].type \in FrameKinds => g[i - 1] = "Connected"
  <2>1. CASE i \in 1..Len(q)
    <3>1. r[i] = q[i] /\ g[i] = h[i] /\ g[i - 1] = h[i - 1]
      BY <1>2, <1>4, <2>1 DEF Grown
    <3> QED BY <2>1, <3>1 DEF History
  <2>2. CASE i = Len(r)
    <3>1. r[i] = e /\ g[i] = t /\ g[i - 1] = s
      BY <1>2, <1>3, <1>4, <2>2 DEF Grown
    <3> QED BY <3>1
  <2> QED BY <1>2, <2>1, <2>2
<1>6. History(g, r, t)
  BY <1>4, <1>5 DEF History
<1> QED BY <1>2, <1>4, <1>6

LEMMA HistoryShifts ==
  ASSUME NEW q \in Seq(Signals), q # << >>, NEW h, NEW s, History(h, q, s)
  PROVE  \E g : History(g, Tail(q), s) /\ g[0] = h[1]
<1>1. PICK r : r = Tail(q)
  OBVIOUS
<1>2. /\ Len(q) \in Nat /\ Len(r) = Len(q) - 1 /\ Len(r) \in Nat
      /\ \A i \in 1..Len(r) : r[i] = q[i + 1]
  BY <1>1
<1>3. PICK g : g = [i \in 0..Len(r) |-> h[i + 1]]
  OBVIOUS
<1>4. h \in [0..Len(q) -> Link!TcpConnectionState] /\ h[Len(q)] = s
  BY DEF History
<1>5. /\ g \in [0..Len(r) -> Link!TcpConnectionState] /\ g[Len(r)] = s
      /\ \A i \in 0..Len(r) : g[i] = h[i + 1]
  BY <1>2, <1>3, <1>4
<1>6. ASSUME NEW i \in 1..Len(r)
      PROVE  /\ g[i] = IF IsState(r[i]) THEN r[i].type ELSE g[i - 1]
             /\ r[i].type = "Connecting" => g[i - 1] # "Connected"
             /\ r[i].type \in FrameKinds => g[i - 1] = "Connected"
  <2>1. i + 1 \in 1..Len(q) /\ (i + 1) - 1 = i /\ (i - 1) + 1 = i
    BY <1>2
  <2>2. r[i] = q[i + 1] /\ g[i] = h[i + 1] /\ g[i - 1] = h[i]
    BY <1>2, <1>5, <2>1
  <2>3. /\ h[i + 1] = IF IsState(q[i + 1]) THEN q[i + 1].type ELSE h[i]
        /\ q[i + 1].type = "Connecting" => h[i] # "Connected"
        /\ q[i + 1].type \in FrameKinds => h[i] = "Connected"
    BY <2>1 DEF History
  <2> QED BY <2>2, <2>3
<1>7. History(g, r, s)
  BY <1>5, <1>6 DEF History
<1> QED BY <1>1, <1>2, <1>5, <1>7

LEMMA ViewOf ==
  ASSUME NEW q \in Seq(Signals), NEW c
  PROVE  /\ Len(q) \in Nat /\ DOMAIN View(q, c) = 0..Len(q)
         /\ View(q, c)[0] = c
         /\ \A i \in 1..Len(q) : View(q, c)[i] = q[i].type
BY DEF View

LEMMA ViewGrows ==
  ASSUME NEW q, NEW e, NEW r, NEW c, Grown(q, e, r)
  PROVE  /\ Len(q) \in Nat /\ Len(r) = Len(q) + 1
         /\ DOMAIN View(q, c) = 0..Len(q) /\ DOMAIN View(r, c) = 0..Len(r)
         /\ View(r, c)[Len(r)] = e.type
         /\ \A i \in 0..Len(q) : View(r, c)[i] = View(q, c)[i]
<1>1. /\ Len(q) \in Nat /\ Len(r) = Len(q) + 1 /\ r[Len(r)] = e
      /\ \A i \in 1..Len(q) : r[i] = q[i]
  BY DEF Grown
<1> QED BY <1>1 DEF View

(* A signal about no state changes nothing that matters. *)
LEMMA GoodOther ==
  ASSUME NEW q, NEW e, NEW r, NEW c, NEW s, NEW x, Grown(q, e, r), ~IsState(e),
         Good(View(q, c), s, x)
  PROVE  Good(View(r, c), s, x)
<1>1. PICK v, u : v = View(q, c) /\ u = View(r, c)
  OBVIOUS
<1>2. PICK n : n = Len(q)
  OBVIOUS
<1>3. /\ n \in Nat /\ DOMAIN v = 0..n /\ DOMAIN u = 0..(n + 1)
      /\ \A i \in 0..n : u[i] = v[i]
      /\ u[n + 1] \notin Link!TcpConnectionState
  BY <1>1, <1>2, ViewGrows DEF IsState
<1>4. Good(v, s, x)
  BY <1>1
<1>5. \A i \in 0..n : (Reports(u, i) <=> Reports(v, i)) /\ (Final(u, i) <=> Final(v, i))
  BY <1>3 DEF Reports, Final
<1>6. ~Reports(u, n + 1) /\ u[n + 1] # "Disconnected"
  BY <1>3 DEF Reports, Link!TcpConnectionState
<1>7. \A i \in 0..(n + 1) : i \in 0..n \/ i = n + 1
  BY <1>3
<1>8. Settles(u, s)
  BY <1>3, <1>4, <1>5, <1>6, <1>7 DEF Good, Settles
<1>9. Explained(u, s)
  <2> SUFFICES ASSUME s \in Losing, NEW i \in DOMAIN u, u[i] = "Disconnected", ~Final(u, i)
               PROVE  \E j, k \in DOMAIN u : i < j /\ j < k /\ Reports(u, j) /\ u[k] = "error"
    BY DEF Explained
  <2>1. i \in 0..n /\ v[i] = "Disconnected" /\ ~Final(v, i)
    BY <1>3, <1>5, <1>6, <1>7
  <2>2. PICK j \in 0..n, k \in 0..n : i < j /\ j < k /\ Reports(v, j) /\ v[k] = "error"
    BY <1>3, <1>4, <2>1 DEF Good, Explained
  <2>3. j \in DOMAIN u /\ k \in DOMAIN u /\ Reports(u, j) /\ u[k] = "error"
    BY <1>3, <1>5, <2>2
  <2> QED BY <2>2, <2>3
<1>10. Collects(u, s, x)
  <2>1. (\E i \in DOMAIN v : v[i] = "error") => (\E i \in DOMAIN u : u[i] = "error")
    BY <1>3
  <2>2. Final(v, 0) <=> Final(u, 0)
    BY <1>3, <1>5
  <2> QED BY <1>4, <2>1, <2>2 DEF Good, Collects
<1> QED BY <1>1, <1>8, <1>9, <1>10 DEF Good

(* An attempt or a connection is the last word. *)
LEMMA GoodLast ==
  ASSUME NEW r \in Seq(Signals), NEW c, NEW s, NEW x, Len(r) > 0,
         r[Len(r)].type = s, s \in Lasting
  PROVE  Good(View(r, c), s, x)
<1>1. PICK u, n : u = View(r, c) /\ n = Len(r)
  OBVIOUS
<1>2. n \in Nat /\ DOMAIN u = 0..n /\ u[n] = s
  BY <1>1 DEF View
<1>3. s \in Link!TcpConnectionState /\ s \notin Losing
  BY DEF Lasting, Losing, Link!TcpConnectionState
<1>4. Settles(u, s)
  <2> SUFFICES ASSUME NEW i \in DOMAIN u, Reports(u, i), Final(u, i) PROVE u[i] = s
    BY DEF Settles
  <2>1. Reports(u, n)
    BY <1>2, <1>3 DEF Reports
  <2>2. ~(n > i)
    BY <1>2, <2>1 DEF Final
  <2> QED BY <1>2, <2>2
<1> QED BY <1>1, <1>3, <1>4 DEF Good, Explained, Collects

LEMMA GoodAttempt ==
  ASSUME NEW q, NEW e, NEW r, NEW c, NEW x, Grown(q, e, r), e.type \in Lasting
  PROVE  Good(View(r, c), e.type, x)
<1>1. r \in Seq(Signals) /\ Len(r) > 0 /\ r[Len(r)].type = e.type
  BY LastGrown
<1> QED BY <1>1, GoodLast

(* A loss comes with its error. *)
LEMMA GoodLoss ==
  ASSUME NEW q, NEW e, NEW m, NEW f, NEW r, NEW c, NEW s, NEW x, NEW t \in Losing,
         Grown(q, e, m), Grown(m, f, r), s \in Lasting, c \in Link!TcpConnectionState,
         Good(View(q, c), s, x),
         \/ e.type = t /\ f.type = "error"
         \/ f.type = t /\ e.type = "error"
  PROVE  Good(View(r, c), t, x)
<1>1. PICK v, u, n : v = View(q, c) /\ u = View(r, c) /\ n = Len(q)
  OBVIOUS
<1>2. /\ n \in Nat /\ DOMAIN v = 0..n /\ DOMAIN u = 0..(n + 2)
      /\ \A i \in 0..n : u[i] = v[i]
      /\ u[n + 1] = e.type /\ u[n + 2] = f.type
  <2>1. /\ n \in Nat /\ Len(m) = n + 1 /\ DOMAIN v = 0..n
        /\ View(m, c)[n + 1] = e.type
        /\ \A i \in 0..n : View(m, c)[i] = v[i]
    BY <1>1, ViewGrows
  <2>2. /\ Len(r) = Len(m) + 1 /\ DOMAIN u = 0..Len(r) /\ u[Len(r)] = f.type
        /\ \A i \in 0..Len(m) : u[i] = View(m, c)[i]
    BY <1>1, ViewGrows
  <2> QED BY <2>1, <2>2
<1>3. t \in Link!TcpConnectionState /\ "error" \notin Link!TcpConnectionState
  BY DEF Losing, Link!TcpConnectionState
<1>4. PICK at \in {n + 1, n + 2} : u[at] = t /\ \E k \in {n + 1, n + 2} : u[k] = "error" /\ k # at
  BY <1>2
<1>5. Reports(u, at) /\ Final(u, at)
  BY <1>2, <1>3, <1>4 DEF Reports, Final
<1>6. Settles(u, t)
  <2> SUFFICES ASSUME NEW i \in DOMAIN u, Reports(u, i), Final(u, i) PROVE u[i] = t
    BY DEF Settles
  <2>1. ~(at > i) /\ ~(i > at)
    BY <1>2, <1>4, <1>5 DEF Final
  <2>2. i = at
    BY <1>2, <1>4, <2>1
  <2> QED BY <1>4, <2>2
<1>7. \E i \in DOMAIN u : u[i] = "error"
  BY <1>2, <1>4
<1>8. Explained(u, t)
  <2> SUFFICES ASSUME NEW i \in DOMAIN u, u[i] = "Disconnected", ~Final(u, i)
               PROVE  \E j, k \in DOMAIN u : i < j /\ j < k /\ Reports(u, j) /\ u[k] = "error"
    BY DEF Explained
  <2>1. i \in 0..n
    <3>1. i # at
      BY <1>5
    <3>2. PICK k \in {n + 1, n + 2} : u[k] = "error" /\ k # at
      BY <1>4
    <3>3. i # k
      BY <3>2
    <3> QED BY <1>2, <1>4, <3>1, <3>2, <3>3
  <2>2. CASE u[n + 1] = t /\ u[n + 2] = "error"
    <3>1. n + 1 \in DOMAIN u /\ n + 2 \in DOMAIN u /\ i < n + 1 /\ n + 1 < n + 2
          /\ Reports(u, n + 1)
      BY <1>2, <1>3, <2>1, <2>2 DEF Reports
    <3> QED BY <2>2, <3>1
  <2>3. CASE u[n + 2] = t /\ u[n + 1] = "error"
    <3>1. v[i] = "Disconnected" /\ Reports(v, i)
      BY <1>2, <2>1 DEF Reports, Link!TcpConnectionState
    <3>2. ~Final(v, i)
      BY <1>1, <1>2, <2>1, <3>1 DEF Good, Settles, Lasting
    <3>3. PICK j \in 0..n : j > i /\ Reports(v, j)
      BY <1>2, <3>2 DEF Final
    <3>4. j \in DOMAIN u /\ n + 1 \in DOMAIN u /\ i < j /\ j < n + 1 /\ Reports(u, j)
      BY <1>2, <2>1, <3>3 DEF Reports
    <3> QED BY <2>3, <3>4
  <2> QED BY <1>2, <2>2, <2>3
<1> QED BY <1>1, <1>6, <1>7, <1>8 DEF Good, Collects

-----------------------------------------------------------------------------
(* A step of the worker, seen from the GUI *)

LEMMA SaysExplainable ==
  ASSUME NEW wanted, Says(wanted), UNCHANGED gui, QueueOK,
         w'.state \in Link!TcpConnectionState, Explainable
  PROVE  Explainable'
<1>1. PICK h : History(h, signals, w.state) /\ Shown(h[0], adapter, service)
  BY DEF Explainable
<1>2. SUFFICES \E g : History(g, signals', w'.state) /\ g[0] = h[0]
  BY <1>1 DEF Explainable, gui
<1>3. CASE signals' = signals /\ w'.state = w.state
  BY <1>1, <1>3
<1>4. ASSUME NEW e \in Signals, Grown(signals, e, signals'),
             IF IsState(e) THEN e.type = w'.state ELSE w'.state = w.state,
             e.type = "Connecting" => w.state # "Connected",
             e.type \in FrameKinds => w.state = "Connected"
      PROVE  \E g : History(g, signals', w'.state) /\ g[0] = h[0]
  BY <1>1, <1>4, HistoryGrows
<1>5. ASSUME NEW e \in Signals, NEW f \in Signals, NEW m \in Seq(Signals),
             NEW s \in Link!TcpConnectionState,
             Grown(signals, e, m), Grown(m, f, signals'),
             IF IsState(e) THEN e.type = s ELSE s = w.state,
             e.type = "Connecting" => w.state # "Connected",
             e.type \notin FrameKinds,
             IF IsState(f) THEN f.type = w'.state ELSE w'.state = s,
             f.type = "Connecting" => s # "Connected",
             f.type \notin FrameKinds
      PROVE  \E g : History(g, signals', w'.state) /\ g[0] = h[0]
  <2>1. PICK g : History(g, m, s) /\ g[0] = h[0]
    BY <1>1, <1>5, HistoryGrows
  <2>2. PICK k : History(k, signals', w'.state) /\ k[0] = g[0]
    BY <1>5, <2>1, HistoryGrows
  <2> QED BY <2>1, <2>2
<1>6. ASSUME NEW e, IsState(e) PROVE e.type \notin FrameKinds /\ e.type # "error"
  BY <1>6 DEF IsState, FrameKinds, Heartbeats, Link!TcpConnectionState
<1>7. ASSUME NEW e, ~IsState(e) PROVE e.type # "Connecting"
  BY <1>7 DEF IsState, Link!TcpConnectionState
<1>8. ASSUME NEW e, e.type = "error"
      PROVE  ~IsState(e) /\ e.type \notin FrameKinds /\ e.type # "Connecting"
  BY <1>8 DEF IsState, FrameKinds, Heartbeats, Link!TcpConnectionState
<1>9. CASE \E e \in Signals :
             /\ Grown(signals, e, signals')
             /\ ~IsState(e) /\ w'.state = w.state
             /\ e.type \in FrameKinds => w.state = "Connected"
  BY <1>4, <1>7, <1>9
<1>10. CASE \E e \in Signals :
              /\ Grown(signals, e, signals')
              /\ IsState(e) /\ e.type = w'.state
              /\ w'.state = "Connecting" => w.state # "Connected"
              /\ wanted => w'.state \in Lasting
  BY <1>4, <1>6, <1>10
<1>11. CASE \E e, f \in Signals, m \in Seq(Signals) :
              /\ Grown(signals, e, m) /\ Grown(m, f, signals')
              /\ IsState(e) /\ IsState(f) /\ f.type = w'.state
              /\ e.type # "Connecting"
              /\ w'.state = "Connecting" => e.type # "Connected"
              /\ wanted => w'.state \in Lasting
  <2>1. PICK e \in Signals, f \in Signals, m \in Seq(Signals) :
              /\ Grown(signals, e, m) /\ Grown(m, f, signals')
              /\ IsState(e) /\ IsState(f) /\ f.type = w'.state
              /\ e.type # "Connecting"
              /\ w'.state = "Connecting" => e.type # "Connected"
    BY <1>11
  <2>2. e.type \in Link!TcpConnectionState
    BY <2>1 DEF IsState
  <2> QED BY <1>5, <1>6, <2>1, <2>2
<1>12. CASE \E e, f \in Signals, m \in Seq(Signals) :
              /\ Grown(signals, e, m) /\ Grown(m, f, signals')
              /\ \/ IsState(e) /\ e.type = w'.state /\ f.type = "error"
                 \/ IsState(f) /\ f.type = w'.state /\ e.type = "error"
              /\ w'.state \in Losing
              /\ wanted => w.state \in Lasting
  <2>1. PICK e \in Signals, f \in Signals, m \in Seq(Signals) :
              /\ Grown(signals, e, m) /\ Grown(m, f, signals')
              /\ \/ IsState(e) /\ e.type = w'.state /\ f.type = "error"
                 \/ IsState(f) /\ f.type = w'.state /\ e.type = "error"
              /\ w'.state \in Losing
    BY <1>12
  <2>2. w'.state # "Connecting" /\ w.state \in Link!TcpConnectionState
    BY <2>1 DEF Losing, QueueOK
  <2>3. CASE IsState(e) /\ e.type = w'.state /\ f.type = "error"
    BY <1>5, <1>6, <1>8, <2>1, <2>2, <2>3
  <2>4. CASE IsState(f) /\ f.type = w'.state /\ e.type = "error"
    BY <1>5, <1>6, <1>8, <2>1, <2>2, <2>4
  <2> QED BY <2>1, <2>3, <2>4
<1> QED BY <1>3, <1>9, <1>10, <1>11, <1>12 DEF Says

LEMMA SaysGood ==
  ASSUME Says(TRUE), NEW c \in Link!TcpConnectionState, NEW x,
         Good(View(signals, c), w.state, x)
  PROVE  Good(View(signals', c), w'.state, x)
<1>1. CASE signals' = signals /\ w'.state = w.state
  BY <1>1
<1>2. CASE \E e \in Signals :
             /\ Grown(signals, e, signals')
             /\ ~IsState(e) /\ w'.state = w.state
             /\ e.type \in FrameKinds => w.state = "Connected"
  BY <1>2, GoodOther
<1>3. CASE \E e \in Signals :
             /\ Grown(signals, e, signals')
             /\ IsState(e) /\ e.type = w'.state
             /\ w'.state = "Connecting" => w.state # "Connected"
             /\ TRUE => w'.state \in Lasting
  <2>1. PICK e \in Signals : Grown(signals, e, signals') /\ e.type = w'.state /\ e.type \in Lasting
    BY <1>3
  <2> QED BY <2>1, GoodAttempt
<1>4. CASE \E e, f \in Signals, m \in Seq(Signals) :
             /\ Grown(signals, e, m) /\ Grown(m, f, signals')
             /\ IsState(e) /\ IsState(f) /\ f.type = w'.state
             /\ e.type # "Connecting"
             /\ w'.state = "Connecting" => e.type # "Connected"
             /\ TRUE => w'.state \in Lasting
  <2>1. PICK f \in Signals, m \in Seq(Signals) :
               Grown(m, f, signals') /\ f.type = w'.state /\ f.type \in Lasting
    BY <1>4
  <2> QED BY <2>1, GoodAttempt
<1>5. CASE \E e, f \in Signals, m \in Seq(Signals) :
             /\ Grown(signals, e, m) /\ Grown(m, f, signals')
             /\ \/ IsState(e) /\ e.type = w'.state /\ f.type = "error"
                \/ IsState(f) /\ f.type = w'.state /\ e.type = "error"
             /\ w'.state \in Losing
             /\ TRUE => w.state \in Lasting
  <2>1. PICK e \in Signals, f \in Signals, m \in Seq(Signals) :
             /\ Grown(signals, e, m) /\ Grown(m, f, signals')
             /\ \/ e.type = w'.state /\ f.type = "error"
                \/ f.type = w'.state /\ e.type = "error"
             /\ w'.state \in Losing
             /\ w.state \in Lasting
    BY <1>5
  <2> QED BY <2>1, GoodLoss
<1> QED BY <1>1, <1>2, <1>3, <1>4, <1>5 DEF Says

LEMMA DisconnectSays ==
  ASSUME WorkerOK, QueueOK, Link!disconnectFromHost, Emit(setState)
  PROVE  /\ WorkerOK' /\ w'.hasHost = w.hasHost
         /\ Says(FALSE) /\ UNCHANGED <<gui, clicks>>
<1>1. WorkerOK' /\ w'.state = "Disconnected" /\ w'.hasHost = w.hasHost
  BY DisconnectEffect
<1>2. w'.state \in Link!TcpConnectionState /\ w'.state # "Connecting"
  BY <1>1 DEF Link!TcpConnectionState
<1>3. Says(FALSE)
  BY <1>2, SaysState
<1> QED BY <1>1, <1>3 DEF Emit

LEMMA SettingSays ==
  ASSUME WorkerOK, QueueOK, NEW enabled \in BOOLEAN, Link!setReconnectEnabled(enabled),
         Emit(setState), ~w.hasHost
  PROVE  /\ WorkerOK' /\ w'.hasHost = w.hasHost /\ w'.wanted = w.wanted
         /\ Says(TRUE) /\ UNCHANGED <<gui, clicks>>
<1>1. WorkerOK' /\ w'.state = w.state /\ w'.hasHost = w.hasHost /\ w'.wanted = w.wanted
  BY SettingEffect
<1>2. w'.state \in Link!TcpConnectionState
  BY <1>1 DEF QueueOK
<1>3. w'.state = "Connecting" => w.state # "Connected"
  BY <1>1
<1>4. Says(TRUE)
  BY <1>1, <1>2, <1>3, SaysState
<1> QED BY <1>1, <1>4 DEF Emit

LEMMA QueueTyped ==
  ASSUME Session
  PROVE  QueueOK
<1>1. Worker!WInv(w)
  BY DEF Session, WorkerOK, Worker!IInv
<1>2. w.state \in Link!TcpConnectionState
  BY <1>1, StateTyped
<1> QED BY <1>2 DEF QueueOK, Session, Typed

(* What the worker does to the queue leaves the GUI as right as it was.    *)
LEMMA EmitStep ==
  ASSUME Session, NEW wanted, Says(wanted), WorkerOK', UNCHANGED <<gui, clicks>>
  PROVE  Typed' /\ Follows' /\ Explainable'
<1>1. QueueOK
  BY QueueTyped
<1>2. Worker!WInv(w')
  BY DEF WorkerOK, Worker!IInv
<1>3. w'.state \in Link!TcpConnectionState
  BY <1>2, StateTyped
<1>4. Explainable'
  BY <1>1, <1>3, SaysExplainable DEF Session
<1>5. signals' \in Seq(Signals)
  BY <1>1 DEF Says, Grown, QueueOK
<1>6. Typed'
  BY <1>5 DEF Session, Typed, gui
<1>7. Follows'
  BY DEF Session, Follows, gui
<1> QED BY <1>4, <1>6, <1>7

LEMMA CurrentWanted ==
  ASSUME Session, Current
  PROVE  w.wanted
BY DEF Session, PostedOK, Current

(* A current session stays tracked when the worker keeps what is wanted.   *)
LEMMA EmitTracked ==
  ASSUME Session, Says(TRUE), UNCHANGED <<gui, clicks>>, Current
  PROVE  Tracked'
<1>1. adapter.connection \in Link!TcpConnectionState
      /\ Good(View(signals, adapter.connection), w.state, service)
  BY DEF Session, Tracked, Follows
<1>2. Good(View(signals', adapter.connection), w'.state, service)
  BY <1>1, SaysGood
<1>3. adapter' = adapter /\ service' = service
  BY DEF gui
<1>4. Good(View(signals', adapter'.connection), w'.state, service')
  BY <1>2, <1>3
<1> QED BY <1>4 DEF Tracked

LEMMA Network_Step ==
  ASSUME Session, Network
  PROVE  Session'
<1>1. /\ WorkerOK' /\ w'.wanted = w.wanted /\ w'.hasHost = w.hasHost
      /\ Says(w.wanted) /\ UNCHANGED <<gui, clicks>> /\ posted' = posted
  BY NetworkSays DEF Session, Typed
<1>2. Typed' /\ Follows' /\ Explainable'
  BY <1>1, EmitStep
<1>3. PostedOK'
  BY <1>1 DEF Session, PostedOK, gui
<1>4. Tracked'
  <2>1. CASE Current
    <3>1. Says(TRUE)
      BY <1>1, <2>1, CurrentWanted DEF Says
    <3> QED BY <1>1, <2>1, <3>1, EmitTracked
  <2>2. CASE ~Current
    <3>1. ~Current'
      BY <1>1, <2>2 DEF Current, gui
    <3> QED BY <3>1 DEF Tracked
  <2> QED BY <2>1, <2>2
<1> QED BY <1>1, <1>2, <1>3, <1>4 DEF Session

(* A slot that was posted runs. *)
LEMMA PostedTail ==
  ASSUME PostedOK, posted # << >>, posted' = Tail(posted)
  PROVE  /\ Len(posted) \in Nat /\ Len(posted) > 0 /\ Len(posted') = Len(posted) - 1
         /\ posted' \in Seq(Slots) /\ posted[1] = Head(posted)
         /\ \A i \in 1..Len(posted') : posted'[i] = posted[i + 1] /\ i + 1 \in 1..Len(posted)
         /\ \A j \in 1..Len(posted) : j > 1 => j - 1 \in 1..Len(posted') /\ posted'[j - 1] = posted[j]
<1>1. PICK q, r : q = posted /\ r = posted'
  OBVIOUS
<1>2. q \in Seq(Slots) /\ q # << >> /\ r = Tail(q)
  BY <1>1 DEF PostedOK
<1>3. /\ Len(q) \in Nat /\ Len(q) > 0 /\ Len(r) = Len(q) - 1
      /\ r \in Seq(Slots) /\ q[1] = Head(q)
      /\ \A i \in 1..Len(r) : r[i] = q[i + 1]
  BY <1>2
<1>4. \A i \in 1..Len(r) : i + 1 \in 1..Len(q)
  BY <1>3
<1>5. \A j \in 1..Len(q) : j > 1 => j - 1 \in 1..Len(r) /\ (j - 1) + 1 = j
  BY <1>3
<1>6. \A j \in 1..Len(q) : j > 1 => r[j - 1] = q[j]
  BY <1>3, <1>5
<1> QED BY <1>1, <1>3, <1>4, <1>5, <1>6

LEMMA PostedStep ==
  ASSUME Session, posted # << >>, posted' = Tail(posted), adapter' = adapter,
         \/ Head(posted) = "connectToHost" /\ w'.wanted
         \/ Head(posted) = "disconnectFromHost" /\ w'.hasHost = w.hasHost
         \/ Head(posted) \notin {"connectToHost", "disconnectFromHost"}
            /\ w'.hasHost = w.hasHost /\ w'.wanted = w.wanted
  PROVE  PostedOK'
<1>1. PostedOK
  BY DEF Session
<1>2. PICK n, m : /\ n = Len(posted) /\ m = n - 1 /\ n > 0 /\ m = Len(posted') /\ n \in Nat /\ m \in Nat
  BY <1>1, PostedTail
<1>3. /\ posted' \in Seq(Slots) /\ posted[1] = Head(posted)
      /\ \A i \in 1..m : posted'[i] = posted[i + 1] /\ i + 1 \in 1..n
      /\ \A j \in 1..n : j > 1 => j - 1 \in 1..m /\ posted'[j - 1] = posted[j]
  BY <1>1, <1>2, PostedTail
<1>4. \A i \in 1..m : posted'[i] \notin {"enableReconnect", "disableReconnect"}
  <2> SUFFICES ASSUME NEW i \in 1..m
               PROVE  posted'[i] \notin {"enableReconnect", "disableReconnect"}
    OBVIOUS
  <2>1. posted'[i] = posted[i + 1] /\ i + 1 \in 1..n /\ i + 1 # 1
    BY <1>2, <1>3
  <2> QED BY <1>1, <1>2, <2>1 DEF PostedOK
<1>5. ASSUME adapter.running, NEW i \in 1..m, posted'[i] = "disconnectFromHost"
      PROVE  \E j \in 1..m : j > i /\ posted'[j] = "connectToHost"
  <2>1. posted[i + 1] = "disconnectFromHost" /\ i + 1 \in 1..n
    BY <1>3, <1>5
  <2>2. PICK j \in 1..n : j > i + 1 /\ posted[j] = "connectToHost"
    BY <1>1, <1>2, <1>5, <2>1 DEF PostedOK
  <2>3. j - 1 \in 1..m /\ posted'[j - 1] = "connectToHost" /\ j - 1 > i
    BY <1>2, <1>3, <2>2
  <2> QED BY <2>3
<1>6. ASSUME adapter.running, \A i \in 1..m : posted'[i] # "connectToHost"
      PROVE  w'.wanted
  <2>1. \A j \in 1..n : j > 1 => posted[j] # "connectToHost"
    BY <1>3, <1>6
  <2>2. 1 \in 1..n
    BY <1>2
  <2>3. CASE Head(posted) = "connectToHost"
    BY <2>3
  <2>4. CASE Head(posted) = "disconnectFromHost"
    <3>1. PICK j \in 1..n : j > 1 /\ posted[j] = "connectToHost"
      BY <1>1, <1>2, <1>3, <1>6, <2>2, <2>4 DEF PostedOK
    <3> QED BY <2>1, <3>1
  <2>5. CASE Head(posted) \notin {"connectToHost", "disconnectFromHost"}
    <3>1. \A j \in 1..n : posted[j] # "connectToHost"
      <4> SUFFICES ASSUME NEW j \in 1..n PROVE posted[j] # "connectToHost"
        OBVIOUS
      <4>1. j = 1 \/ j > 1
        BY <1>2
      <4> QED BY <1>3, <2>1, <2>5, <4>1
    <3>2. w.wanted
      BY <1>1, <1>2, <1>6, <3>1 DEF PostedOK
    <3> QED BY <2>5, <3>2
  <2> QED BY <2>3, <2>4, <2>5
<1> QED BY <1>2, <1>3, <1>4, <1>5, <1>6 DEF PostedOK

(* The session is the worker's present one as long as the worker has its   *)
(* last connect slot behind it.                                            *)
LEMMA CurrentBefore ==
  ASSUME Session, posted # << >>, posted' = Tail(posted), adapter' = adapter, Current',
         Head(posted) # "connectToHost"
  PROVE  Current /\ Head(posted) # "disconnectFromHost"
<1>1. PostedOK
  BY DEF Session
<1>2. PICK n, m : /\ n = Len(posted) /\ m = n - 1 /\ n > 0 /\ m = Len(posted') /\ n \in Nat /\ m \in Nat
  BY <1>1, PostedTail
<1>3. /\ posted[1] = Head(posted)
      /\ \A j \in 1..n : j > 1 => j - 1 \in 1..m /\ posted'[j - 1] = posted[j]
  BY <1>1, <1>2, PostedTail
<1>4. adapter.running /\ \A i \in 1..m : posted'[i] # "connectToHost"
  BY <1>2 DEF Current
<1>5. \A j \in 1..n : j > 1 => posted[j] # "connectToHost"
  BY <1>3, <1>4
<1>6. \A j \in 1..n : posted[j] # "connectToHost"
  <2> SUFFICES ASSUME NEW j \in 1..n PROVE posted[j] # "connectToHost"
    OBVIOUS
  <2>1. j = 1 \/ j > 1
    BY <1>2
  <2> QED BY <1>3, <1>5, <2>1
<1>7. 1 \in 1..n
  BY <1>2
<1>8. posted[1] # "disconnectFromHost"
  BY <1>1, <1>2, <1>4, <1>6, <1>7 DEF PostedOK
<1> QED BY <1>2, <1>3, <1>4, <1>6, <1>8 DEF Current

LEMMA runSlot_Step ==
  ASSUME Session, runSlot
  PROVE  Session'
<1>1. posted # << >> /\ posted' = Tail(posted) /\ WorkerOK /\ signals \in Seq(Signals) /\ QueueOK
  BY QueueTyped DEF runSlot, Session, Typed
<1>2. CASE Head(posted) = "connectToHost" /\ connectToHost
  <2>1. /\ WorkerOK' /\ w'.state = "Connecting" /\ w'.wanted
        /\ Says(TRUE) /\ UNCHANGED <<gui, clicks>>
        /\ signals' \in Seq(Signals) /\ Len(signals') > 0
        /\ signals'[Len(signals')].type = "Connecting"
    BY <1>1, <1>2, SlotSays
  <2>2. Typed' /\ Follows' /\ Explainable'
    BY <2>1, EmitStep
  <2>3. PostedOK'
    BY <1>1, <1>2, <2>1, PostedStep DEF gui
  <2>4. Good(View(signals', adapter'.connection), w'.state, service')
    BY <2>1, GoodLast DEF Lasting
  <2> QED BY <2>1, <2>2, <2>3, <2>4 DEF Session, Tracked
<1>3. CASE Head(posted) = "disconnectFromHost" /\ Link!disconnectFromHost /\ Emit(setState)
  <2>1. /\ WorkerOK' /\ w'.hasHost = w.hasHost
        /\ Says(FALSE) /\ UNCHANGED <<gui, clicks>>
    BY <1>1, <1>3, DisconnectSays
  <2>2. Typed' /\ Follows' /\ Explainable'
    BY <2>1, EmitStep
  <2>3. PostedOK'
    BY <1>1, <1>3, <2>1, PostedStep DEF gui
  <2>4. ~Current'
    BY <1>1, <1>3, <2>1, CurrentBefore DEF gui
  <2> QED BY <2>1, <2>2, <2>3, <2>4 DEF Session, Tracked
<1>4. ASSUME NEW enabled \in BOOLEAN, Head(posted) \in {"enableReconnect", "disableReconnect"},
             Link!setReconnectEnabled(enabled), Emit(setState)
      PROVE  Session'
  <2>1. ~w.hasHost
    <3>1. Len(posted) \in Nat /\ Len(posted) > 0 /\ posted[1] = Head(posted)
      BY <1>1, PostedTail DEF Session
    <3> QED BY <1>4, <3>1 DEF Session, PostedOK
  <2>2. /\ WorkerOK' /\ w'.hasHost = w.hasHost /\ w'.wanted = w.wanted
        /\ Says(TRUE) /\ UNCHANGED <<gui, clicks>>
    BY <1>1, <1>4, <2>1, SettingSays
  <2>3. Typed' /\ Follows' /\ Explainable'
    BY <2>2, EmitStep
  <2>4. Head(posted) \notin {"connectToHost", "disconnectFromHost"} /\ adapter' = adapter
    BY <1>4, <2>2 DEF gui
  <2>5. PostedOK'
    BY <1>1, <2>2, <2>4, PostedStep
  <2>6. Tracked'
    <3>1. CASE Current'
      <4>1. Current
        BY <1>1, <2>4, <3>1, CurrentBefore
      <4> QED BY <2>2, <4>1, EmitTracked
    <3> QED BY <3>1 DEF Tracked
  <2> QED BY <2>2, <2>3, <2>5, <2>6 DEF Session
<1> QED BY <1>2, <1>3, <1>4 DEF runSlot

-----------------------------------------------------------------------------
(* What the calls on the GUI thread make of the two records *)

LEMMA Reconnected ==
  ASSUME NEW x \in Service, NEW state \in Link!TcpConnectionState
  PROVE  LET y == handleSourceConnectionState(x, state)
         IN  /\ y \in Service /\ y.connection = state /\ y.collection = x.collection
             /\ y.collecting = x.collecting
             /\ y.online = IF state \in Losing THEN {} ELSE x.online
<1>1. PICK online \in SUBSET Devices : online = IF state \in Losing THEN {} ELSE x.online
  BY DEF Service
<1>2. PICK y : y = [x EXCEPT !.connection = state, !.online = online]
  OBVIOUS
<1>3. state \in {"Disconnected", "Reconnecting", "Stopping"} <=> state \in Losing
  BY DEF Losing, Link!TcpConnectionState
<1>4. y = handleSourceConnectionState(x, state)
  BY <1>1, <1>2, <1>3 DEF handleSourceConnectionState
<1>5. /\ y \in Service /\ y.connection = state /\ y.collection = x.collection
      /\ y.collecting = x.collecting /\ y.online = online
  BY <1>2 DEF Service, ConnectionState
<1> QED BY <1>1, <1>4, <1>5

LEMMA Faulted ==
  ASSUME NEW x \in Service
  PROVE  LET y == handleSourceError(x)
         IN  /\ y \in Service /\ y.collection = "Faulted" /\ y.connection = x.connection
             /\ y.online = x.online /\ y.collecting = x.collecting
<1>1. PICK y : y = [x EXCEPT !.collection = "Faulted"]
  OBVIOUS
<1>2. y = handleSourceError(x)
  BY <1>1 DEF handleSourceError
<1>3. /\ y \in Service /\ y.collection = "Faulted" /\ y.connection = x.connection
      /\ y.online = x.online /\ y.collecting = x.collecting
  BY <1>1 DEF Service, CollectionState
<1> QED BY <1>2, <1>3

(* The service x heard something of device d and turned into y.            *)
Heard(x, d, y) ==
  /\ y \in Service /\ y.connection = x.connection
  /\ y.collection \in {x.collection, "Faulted"}
  /\ y.online \subseteq x.online \cup {d} /\ y.collecting \subseteq x.collecting \cup {d}

(* The two sets of devices of the service x have changed by d at most.     *)
Switched(x, d, online, collecting, y) ==
  /\ y = [x EXCEPT !.online = online, !.collecting = collecting]
  /\ online \subseteq x.online \cup {d} /\ collecting \subseteq x.collecting \cup {d}

LEMMA DevicesSwitched ==
  ASSUME NEW x \in Service, NEW d \in Devices, NEW online, NEW collecting, NEW y,
         Switched(x, d, online, collecting, y)
  PROVE  Heard(x, d, y)
<1>1. y = [x EXCEPT !.online = online, !.collecting = collecting]
  BY DEF Switched
<1>2. online \in SUBSET Devices /\ collecting \in SUBSET Devices
  BY DEF Service, Switched
<1>3. /\ y \in Service /\ y.connection = x.connection /\ y.collection = x.collection
      /\ y.online = online /\ y.collecting = collecting
  BY <1>1, <1>2 DEF Service
<1> QED BY <1>3 DEF Heard, Switched

LEMMA Registered ==
  ASSUME NEW x \in Service, NEW d \in Devices
  PROVE  Heard(x, d, registerDevice(x, d))
<1>1. PICK online, collecting : online = x.online \cup {d} /\ collecting = x.collecting \cup {d}
  OBVIOUS
<1>2. registerDevice(x, d) = [x EXCEPT !.online = online, !.collecting = collecting]
  BY <1>1 DEF registerDevice
<1>3. Switched(x, d, online, collecting, registerDevice(x, d))
  BY <1>1, <1>2 DEF Switched
<1> QED BY <1>3, DevicesSwitched

LEMMA Accepted ==
  ASSUME NEW x \in Service, NEW d \in Devices, NEW kind \in FrameKinds
  PROVE  Heard(x, d, accepted(x, d, kind))
<1>1. CASE kind = "telemetry"
  <2>1. PICK online, collecting :
          /\ online = x.online \cup {d}
          /\ collecting = IF x.collection = "Running" THEN x.collecting \cup {d}
                          ELSE x.collecting
    OBVIOUS
  <2>2. accepted(x, d, kind) = [x EXCEPT !.online = online, !.collecting = collecting]
    BY <1>1, <2>1 DEF accepted, processTelemetry, Heartbeats
  <2>3. Switched(x, d, online, collecting, accepted(x, d, kind))
    BY <2>1, <2>2 DEF Switched
  <2> QED BY <2>3, DevicesSwitched
<1>2. CASE kind \in Heartbeats
  <2>1. PICK online, collecting :
          /\ online = IF kind = "offline" THEN x.online \ {d} ELSE x.online \cup {d}
          /\ collecting = IF kind = "collecting" THEN x.collecting \cup {d}
                          ELSE x.collecting \ {d}
    OBVIOUS
  <2>2. accepted(x, d, kind) = [x EXCEPT !.online = online, !.collecting = collecting]
    BY <1>2, <2>1 DEF accepted, processHeartbeat, Heartbeats
  <2>3. Switched(x, d, online, collecting, accepted(x, d, kind))
    BY <2>1, <2>2 DEF Switched
  <2> QED BY <2>3, DevicesSwitched
<1>3. CASE kind = "malformed"
  <2>1. accepted(x, d, kind) = handleSourceError(x)
    BY <1>3 DEF accepted, Heartbeats
  <2> QED BY <2>1, Faulted DEF Heard
<1> QED BY <1>1, <1>2, <1>3 DEF FrameKinds

-----------------------------------------------------------------------------
(* A signal reaches the GUI *)

(* The queue r is q without its head. *)
LEMMA SignalsTail ==
  ASSUME NEW q \in Seq(Signals), q # << >>
  PROVE  /\ Len(q) \in Nat /\ Len(q) > 0 /\ Len(Tail(q)) = Len(q) - 1
         /\ Tail(q) \in Seq(Signals) /\ q[1] = Head(q) /\ q[1] \in Signals
         /\ \A i \in 1..Len(Tail(q)) : Tail(q)[i] = q[i + 1]
OBVIOUS

LEMMA GoodHeadState ==
  ASSUME NEW q \in Seq(Signals), q # << >>, NEW c, NEW s, NEW x, NEW y, c # "error",
         IsState(Head(q)), Good(View(q, c), s, x), y.collection = x.collection
  PROVE  Good(View(Tail(q), Head(q).type), s, y)
<1>1. PICK v, u, n : v = View(q, c) /\ u = View(Tail(q), Head(q).type) /\ n = Len(Tail(q))
  OBVIOUS
<1>2. /\ n \in Nat /\ Len(q) = n + 1
      /\ \A i \in 1..n : Tail(q)[i] = q[i + 1]
      /\ q[1] = Head(q) /\ Tail(q) \in Seq(Signals)
  BY <1>1, SignalsTail
<1>3. /\ DOMAIN v = 0..(n + 1) /\ DOMAIN u = 0..n
      /\ \A i \in 0..n : u[i] = v[i + 1]
  BY <1>1, <1>2 DEF View
<1>4. \A i \in 0..n : (Reports(u, i) <=> Reports(v, i + 1)) /\ i + 1 \in DOMAIN v
  BY <1>2, <1>3 DEF Reports
<1>5. \A j \in 0..(n + 1) : j > 0 => j - 1 \in 0..n /\ (j - 1) + 1 = j
  BY <1>2
<1>6. \A i \in 0..n : Final(u, i) <=> Final(v, i + 1)
  <2> SUFFICES ASSUME NEW i \in 0..n PROVE Final(u, i) <=> Final(v, i + 1)
    OBVIOUS
  <2>1. ASSUME Final(v, i + 1), NEW j \in 0..n, j > i PROVE ~Reports(u, j)
    BY <1>2, <1>4, <2>1 DEF Final
  <2>2. ASSUME Final(u, i), NEW j \in 0..(n + 1), j > i + 1 PROVE ~Reports(v, j)
    <3>1. j - 1 \in 0..n /\ (j - 1) + 1 = j /\ j - 1 > i
      BY <1>2, <2>2
    <3>2. ~Reports(u, j - 1)
      BY <1>3, <2>2, <3>1 DEF Final
    <3> QED BY <1>4, <3>1, <3>2
  <2> QED BY <1>3, <2>1, <2>2 DEF Final
<1>7. Settles(u, s)
  <2> SUFFICES ASSUME NEW i \in 0..n, Reports(u, i), Final(u, i) PROVE u[i] = s
    BY <1>3 DEF Settles
  <2>1. Reports(v, i + 1) /\ Final(v, i + 1) /\ i + 1 \in DOMAIN v
    BY <1>4, <1>6
  <2> QED BY <1>1, <1>3, <2>1 DEF Good, Settles
<1>8. ASSUME s \in Losing, NEW i \in 0..n, u[i] = "Disconnected", ~Final(u, i)
      PROVE  \E j, k \in DOMAIN u : i < j /\ j < k /\ Reports(u, j) /\ u[k] = "error"
  <2>1. v[i + 1] = "Disconnected" /\ ~Final(v, i + 1) /\ i + 1 \in DOMAIN v
    BY <1>3, <1>4, <1>6, <1>8
  <2>2. PICK j \in 0..(n + 1), k \in 0..(n + 1) :
          i + 1 < j /\ j < k /\ Reports(v, j) /\ v[k] = "error"
    BY <1>1, <1>3, <1>8, <2>1 DEF Good, Explained
  <2>3. /\ j - 1 \in 0..n /\ k - 1 \in 0..n /\ i < j - 1 /\ j - 1 < k - 1
        /\ (j - 1) + 1 = j /\ (k - 1) + 1 = k
    BY <1>2, <2>2
  <2>4. Reports(u, j - 1) /\ u[k - 1] = "error"
    BY <1>3, <1>4, <2>2, <2>3
  <2> QED BY <1>3, <2>3, <2>4
<1>9. Explained(u, s)
  BY <1>3, <1>8 DEF Explained
<1>10. v[1] = Head(q).type /\ Reports(v, 1) /\ 1 \in DOMAIN v
  BY <1>1, <1>2, <1>3 DEF View, Reports, IsState
<1>11. ~Final(v, 0)
  BY <1>10 DEF Final
<1>12. ASSUME NEW i \in 0..(n + 1), v[i] = "error", s \notin Lasting
       PROVE  \E k \in DOMAIN u : u[k] = "error"
  <2>1. CASE i > 0
    BY <1>3, <1>5, <1>12, <2>1
  <2>2. CASE i = 0
    <3>1. v[0] = c
      BY <1>1, SignalsTail DEF View
    <3> QED BY <1>12, <2>2, <3>1
  <2> QED BY <1>2, <2>1, <2>2
<1>13. Collects(u, s, y)
  BY <1>1, <1>3, <1>11, <1>12 DEF Good, Collects
<1> QED BY <1>1, <1>7, <1>9, <1>13 DEF Good

LEMMA GoodHeadOther ==
  ASSUME NEW q \in Seq(Signals), q # << >>, NEW c, NEW s, NEW x, NEW y, c # "error",
         ~IsState(Head(q)), Good(View(q, c), s, x),
         y.collection \in {x.collection, "Faulted"}, y.connection = x.connection,
         Head(q).type = "error" => y.collection = "Faulted"
  PROVE  Good(View(Tail(q), c), s, y)
<1>1. PICK v, u, n : v = View(q, c) /\ u = View(Tail(q), c) /\ n = Len(Tail(q))
  OBVIOUS
<1>2. /\ n \in Nat /\ Len(q) = n + 1
      /\ \A i \in 1..n : Tail(q)[i] = q[i + 1]
      /\ q[1] = Head(q) /\ Tail(q) \in Seq(Signals)
  BY <1>1, SignalsTail
<1>3. /\ DOMAIN v = 0..(n + 1) /\ DOMAIN u = 0..n /\ u[0] = c /\ v[0] = c
      /\ v[1] = Head(q).type
      /\ \A i \in 1..n : u[i] = v[i + 1]
  BY <1>1, <1>2 DEF View
<1>4. ~Reports(v, 1)
  BY <1>3 DEF Reports, IsState
<1>5. \A i \in 1..n : (Reports(u, i) <=> Reports(v, i + 1)) /\ i + 1 \in DOMAIN v
  BY <1>2, <1>3 DEF Reports
<1>6. Reports(u, 0) <=> Reports(v, 0)
  BY <1>3 DEF Reports
<1>7. \A j \in 0..(n + 1) : j > 1 => j - 1 \in 1..n /\ (j - 1) + 1 = j
  BY <1>2
<1>8. \A i \in 1..n : Final(u, i) <=> Final(v, i + 1)
  <2> SUFFICES ASSUME NEW i \in 1..n PROVE Final(u, i) <=> Final(v, i + 1)
    OBVIOUS
  <2>1. ASSUME Final(v, i + 1), NEW j \in 0..n, j > i PROVE ~Reports(u, j)
    BY <1>2, <1>5, <2>1 DEF Final
  <2>2. ASSUME Final(u, i), NEW j \in 0..(n + 1), j > i + 1 PROVE ~Reports(v, j)
    <3>1. j - 1 \in 1..n /\ (j - 1) + 1 = j /\ j - 1 > i
      BY <1>2, <2>2
    <3>2. ~Reports(u, j - 1)
      BY <1>3, <2>2, <3>1 DEF Final
    <3> QED BY <1>5, <3>1, <3>2
  <2> QED BY <1>3, <2>1, <2>2 DEF Final
<1>9. Final(u, 0) <=> Final(v, 0)
  <2>1. ASSUME Final(v, 0), NEW j \in 0..n, j > 0 PROVE ~Reports(u, j)
    BY <1>2, <1>5, <2>1 DEF Final
  <2>2. ASSUME Final(u, 0), NEW j \in 0..(n + 1), j > 0 PROVE ~Reports(v, j)
    <3>1. CASE j > 1
      <4>1. j - 1 \in 1..n /\ (j - 1) + 1 = j /\ j - 1 > 0
        BY <1>2, <3>1
      <4>2. ~Reports(u, j - 1)
        BY <1>3, <2>2, <4>1 DEF Final
      <4> QED BY <1>5, <4>1, <4>2
    <3>2. CASE j = 1
      BY <1>4, <3>2
    <3> QED BY <1>2, <2>2, <3>1, <3>2
  <2> QED BY <1>3, <2>1, <2>2 DEF Final
<1>10. ASSUME NEW i \in 0..n, Reports(u, i), Final(u, i) PROVE u[i] = s
  <2>1. CASE i = 0
    <3>1. Reports(v, 0) /\ Final(v, 0) /\ 0 \in DOMAIN v
      BY <1>2, <1>3, <1>6, <1>9, <1>10, <2>1
    <3> QED BY <1>1, <1>3, <2>1, <3>1 DEF Good, Settles
  <2>2. CASE i \in 1..n
    <3>1. Reports(v, i + 1) /\ Final(v, i + 1) /\ i + 1 \in DOMAIN v
      BY <1>5, <1>8, <1>10, <2>2
    <3> QED BY <1>1, <1>3, <2>2, <3>1 DEF Good, Settles
  <2> QED BY <1>2, <2>1, <2>2
<1>11. ASSUME NEW i \in 0..(n + 1), ~Final(v, i), v[i] = "Disconnected", s \in Losing
       PROVE  \E j \in 1..n, k \in 1..n :
                i < j + 1 /\ j < k /\ Reports(u, j) /\ u[k] = "error"
  <2>1. PICK j \in 0..(n + 1), k \in 0..(n + 1) :
          i < j /\ j < k /\ Reports(v, j) /\ v[k] = "error"
    BY <1>1, <1>3, <1>11 DEF Good, Explained
  <2>2. j > 1 /\ k > 1
    BY <1>2, <1>4, <2>1
  <2>3. j - 1 \in 1..n /\ k - 1 \in 1..n /\ (j - 1) + 1 = j /\ (k - 1) + 1 = k
    BY <1>7, <2>2
  <2>4. i < (j - 1) + 1 /\ j - 1 < k - 1 /\ Reports(u, j - 1) /\ u[k - 1] = "error"
    BY <1>3, <1>5, <2>1, <2>3
  <2> QED BY <2>3, <2>4
<1>12. ASSUME s \in Losing, NEW i \in 0..n, u[i] = "Disconnected", ~Final(u, i)
       PROVE  \E j, k \in DOMAIN u : i < j /\ j < k /\ Reports(u, j) /\ u[k] = "error"
  <2>1. CASE i = 0
    <3>1. ~Final(v, 0) /\ v[0] = "Disconnected" /\ 0 \in 0..(n + 1)
      BY <1>2, <1>3, <1>9, <1>12, <2>1
    <3>2. PICK j \in 1..n, k \in 1..n : 0 < j + 1 /\ j < k /\ Reports(u, j) /\ u[k] = "error"
      BY <1>11, <1>12, <3>1
    <3>3. j \in DOMAIN u /\ k \in DOMAIN u /\ i < j
      BY <1>2, <1>3, <2>1, <3>2
    <3> QED BY <3>2, <3>3
  <2>2. CASE i \in 1..n
    <3>1. ~Final(v, i + 1) /\ v[i + 1] = "Disconnected" /\ i + 1 \in 0..(n + 1)
      BY <1>2, <1>3, <1>8, <1>12, <2>2
    <3>2. PICK j \in 1..n, k \in 1..n :
            i + 1 < j + 1 /\ j < k /\ Reports(u, j) /\ u[k] = "error"
      BY <1>11, <1>12, <3>1
    <3>3. j \in DOMAIN u /\ k \in DOMAIN u /\ i < j
      BY <1>2, <1>3, <2>2, <3>2
    <3> QED BY <3>2, <3>3
  <2> QED BY <1>2, <2>1, <2>2
<1>13. ASSUME NEW i \in 0..(n + 1), v[i] = "error", y.collection # "Faulted"
       PROVE  \E k \in DOMAIN u : u[k] = "error"
  <2>1. i > 1
    BY <1>2, <1>3, <1>13
  <2>2. i - 1 \in 1..n /\ (i - 1) + 1 = i
    BY <1>7, <2>1
  <2> QED BY <1>2, <1>3, <1>13, <2>2
<1>14. Settles(u, s) /\ Explained(u, s)
  BY <1>3, <1>10, <1>12 DEF Settles, Explained
<1>15. Collects(u, s, y)
  <2> SUFFICES ASSUME y.collection \in {"Running", "Paused"}, s \notin Lasting
               PROVE  \/ \E i \in DOMAIN u : u[i] = "error"
                      \/ Final(u, 0) /\ y.connection = "Connected"
    BY DEF Collects
  <2>1. y.collection # "Faulted" /\ x.collection \in {"Running", "Paused"}
    OBVIOUS
  <2>2. \/ \E i \in DOMAIN v : v[i] = "error"
        \/ Final(v, 0) /\ x.connection = "Connected"
    BY <1>1, <2>1 DEF Good, Collects
  <2> QED BY <1>3, <1>9, <1>13, <2>1, <2>2
<1> QED BY <1>1, <1>14, <1>15 DEF Good

(* The adapter takes over a state the worker reported. *)
LEMMA StateDelivered ==
  ASSUME Session, NEW state \in Link!TcpConnectionState, handleTcpStateChanged(state)
  PROVE  /\ devices' = devices /\ adapter' \in Adapter /\ service' \in Service
         /\ adapter'.running = adapter.running /\ adapter'.collecting = adapter.collecting
         /\ service'.collecting = service.collecting /\ service'.online \subseteq service.online
         /\ service'.collection = service.collection
         /\ adapter.running =>
              /\ adapter'.connection = state
              /\ service'.connection = IF adapter.connection = state THEN service.connection
                                       ELSE state
              /\ adapter.connection # state /\ state \in Losing => service'.online = {}
         /\ ~adapter.running =>
              adapter'.connection = adapter.connection /\ service' = service
<1>1. adapter \in Adapter /\ service \in Service
  BY DEF Session, Typed
<1>2. CASE UNCHANGED gui /\ ~adapter.running
  BY <1>1, <1>2 DEF gui
<1>3. CASE setConnectionState(state) /\ (adapter.running \/ state = "Disconnected")
  <2>1. PICK a : a = [adapter EXCEPT !.connection = state]
    OBVIOUS
  <2>2. a \in Adapter /\ a.running = adapter.running /\ a.collecting = adapter.collecting
        /\ a.connection = state
    BY <1>1, <2>1 DEF Adapter, ConnectionState
  <2>3. adapter' = a /\ devices' = devices
    BY <1>3, <2>1 DEF setConnectionState
  <2>4. PICK y : y = handleSourceConnectionState(service, state)
    OBVIOUS
  <2>5. /\ y \in Service /\ y.connection = state /\ y.collection = service.collection
        /\ y.collecting = service.collecting
        /\ y.online = IF state \in Losing THEN {} ELSE service.online
    BY <1>1, <2>4, Reconnected
  <2>6. service' = IF adapter.connection = state THEN service ELSE y
    BY <1>3, <2>4 DEF setConnectionState
  <2>7. ~adapter.running => adapter.connection = state
    BY <1>3 DEF Session, Follows
  <2> QED BY <1>1, <2>2, <2>3, <2>5, <2>6, <2>7
<1> QED BY <1>2, <1>3 DEF handleTcpStateChanged

(* It makes nothing of a signal about no state but an error, or of one     *)
(* device it lets through.                                                 *)
Passed(x, y) ==
  /\ y \in Service /\ y.connection = x.connection
  /\ y.collection \in {x.collection, "Faulted"}

LEMMA FrameDelivered ==
  ASSUME Session, NEW d \in Devices, NEW kind \in FrameKinds, handleFrame(d, kind)
  PROVE  /\ adapter' \in Adapter /\ devices' \in SUBSET Devices /\ Passed(service, service')
         /\ adapter'.running = adapter.running /\ adapter'.connection = adapter.connection
         /\ ~adapter.running => service'.online = service.online
         /\ ~adapter.running => service'.collection = service.collection
         /\ adapter'.collecting \cup service'.online \cup service'.collecting \subseteq devices'
<1>1. /\ adapter \in Adapter /\ service \in Service /\ devices \in SUBSET Devices
      /\ adapter.collecting \cup service.online \cup service.collecting \subseteq devices
  BY DEF Session, Typed
<1>2. CASE UNCHANGED gui
  BY <1>1, <1>2 DEF gui, Passed
<1>3. CASE d \notin devices /\ adapter.running /\ adapter.collectionEnabled
  <2>1. PICK set \in SUBSET Devices : set = adapter.collecting \cup {d}
    BY <1>1
  <2>2. PICK a : a = [adapter EXCEPT !.collecting = set]
    OBVIOUS
  <2>3. a \in Adapter /\ a.running = adapter.running /\ a.connection = adapter.connection
        /\ a.collecting = set
    BY <1>1, <2>2 DEF Adapter
  <2>4. adapter' = a /\ devices' = devices \cup {d}
    BY <1>3, <2>1, <2>2 DEF handleFrame
  <2>5. PICK x : x = registerDevice(service, d)
    OBVIOUS
  <2>6. Heard(service, d, x)
    BY <1>1, <2>5, Registered
  <2>7. x \in Service /\ service' = accepted(x, d, kind)
    BY <1>3, <2>5, <2>6 DEF handleFrame, Heard
  <2>8. Heard(x, d, service')
    BY <2>7, Accepted
  <2>9. Passed(service, service')
    BY <2>6, <2>8 DEF Heard, Passed
  <2>10. service'.online \subseteq devices \cup {d} /\ service'.collecting \subseteq devices \cup {d}
    BY <1>1, <2>6, <2>8 DEF Heard
  <2> QED BY <1>1, <1>3, <2>1, <2>3, <2>4, <2>9, <2>10
<1>4. CASE d \in devices /\ adapter.running /\ adapter.collectionEnabled
  <2>1. /\ devices' = devices /\ adapter' = adapter
        /\ service' \in {service, accepted(service, d, kind)}
    BY <1>4 DEF handleFrame
  <2>2. Heard(service, d, service')
    BY <1>1, <2>1, Accepted DEF Heard
  <2>3. Passed(service, service')
    BY <2>2 DEF Heard, Passed
  <2>4. service'.online \subseteq devices /\ service'.collecting \subseteq devices
    BY <1>1, <1>4, <2>2 DEF Heard
  <2> QED BY <1>1, <1>4, <2>1, <2>3, <2>4
<1> QED BY <1>2, <1>3, <1>4 DEF handleFrame

LEMMA Delivered ==
  ASSUME Session, signals # << >>
  PROVE  /\ signals \in Seq(Signals) /\ Tail(signals) \in Seq(Signals)
         /\ Head(signals) \in Signals
         /\ \E h, g : /\ History(h, signals, w.state) /\ Shown(h[0], adapter, service)
                      /\ History(g, Tail(signals), w.state)
                      /\ g[0] = IF IsState(Head(signals)) THEN Head(signals).type ELSE h[0]
                      /\ Head(signals).type = "Connecting" => h[0] # "Connected"
                      /\ Head(signals).type \in FrameKinds => h[0] = "Connected"
<1>1. signals \in Seq(Signals)
  BY DEF Session, Typed
<1>2. /\ Len(signals) \in Nat /\ Len(signals) > 0 /\ Tail(signals) \in Seq(Signals)
      /\ signals[1] = Head(signals) /\ signals[1] \in Signals
  BY <1>1, SignalsTail
<1>3. PICK h : History(h, signals, w.state) /\ Shown(h[0], adapter, service)
  BY DEF Session, Explainable
<1>4. PICK g : History(g, Tail(signals), w.state) /\ g[0] = h[1]
  BY <1>1, <1>3, HistoryShifts
<1>5. 1 \in 1..Len(signals) /\ 1 - 1 = 0
  BY <1>2
<1>6. /\ h[1] = IF IsState(signals[1]) THEN signals[1].type ELSE h[0]
      /\ signals[1].type = "Connecting" => h[0] # "Connected"
      /\ signals[1].type \in FrameKinds => h[0] = "Connected"
  BY <1>3, <1>5 DEF History
<1> QED BY <1>1, <1>2, <1>3, <1>4, <1>6

LEMMA deliverState_Step ==
  ASSUME Session, signals # << >>, signals' = Tail(signals), IsState(Head(signals)),
         handleTcpStateChanged(Head(signals).type), UNCHANGED <<link, posted, clicks>>
  PROVE  Session'
<1>1. PICK state \in Link!TcpConnectionState : state = Head(signals).type
  BY DEF IsState
<1>2. /\ devices' = devices /\ adapter' \in Adapter /\ service' \in Service
      /\ adapter'.running = adapter.running /\ adapter'.collecting = adapter.collecting
      /\ service'.collecting = service.collecting /\ service'.online \subseteq service.online
      /\ service'.collection = service.collection
      /\ adapter.running =>
           /\ adapter'.connection = state
           /\ service'.connection = IF adapter.connection = state THEN service.connection
                                    ELSE state
           /\ adapter.connection # state /\ state \in Losing => service'.online = {}
      /\ ~adapter.running =>
           adapter'.connection = adapter.connection /\ service' = service
  BY <1>1, StateDelivered
<1>3. PICK h, g : /\ History(h, signals, w.state) /\ Shown(h[0], adapter, service)
                  /\ History(g, signals', w.state) /\ g[0] = state
                  /\ state = "Connecting" => h[0] # "Connected"
  BY <1>1, Delivered
<1>4. signals' \in Seq(Signals) /\ signals \in Seq(Signals)
  BY Delivered
<1>5. WorkerOK' /\ w' = w
  BY DEF Session, WorkerOK, Worker!IInv, link
<1>6. PostedOK'
  BY <1>2, <1>5 DEF Session, PostedOK
<1>7. Typed'
  BY <1>2, <1>4 DEF Session, Typed
<1>8. Follows'
  BY <1>2 DEF Session, Follows
<1>9. Shown(g[0], adapter', service')
  <2>1. CASE adapter.running
    <3>1. state = "Connected" => adapter'.connection = "Connected" /\ service'.connection = "Connected"
      BY <1>2, <1>3, <2>1 DEF Shown
    <3>2. state # "Connected" => service'.online = {}
      <4>1. CASE state = "Connecting"
        BY <1>2, <1>3, <4>1 DEF Shown
      <4>2. CASE state \in Losing /\ adapter.connection # state
        BY <1>2, <2>1, <4>2
      <4>3. CASE state \in Losing /\ adapter.connection = state
        BY <1>2, <1>3, <2>1, <4>3 DEF Shown, Losing, Lasting
      <4> QED BY <4>1, <4>2, <4>3 DEF Losing, Link!TcpConnectionState
    <3> QED BY <1>2, <1>3, <2>1, <3>1, <3>2 DEF Shown, Lasting
  <2>2. CASE ~adapter.running
    BY <1>2, <1>3, <2>2 DEF Shown
  <2> QED BY <2>1, <2>2
<1>10. Explainable'
  BY <1>3, <1>5, <1>9 DEF Explainable
<1>11. Tracked'
  <2> SUFFICES ASSUME Current' PROVE Good(View(signals', adapter'.connection), w'.state, service')
    BY DEF Tracked
  <2>1. Current /\ adapter.running
    BY <1>2 DEF Current
  <2>2. Good(View(signals, adapter.connection), w.state, service) /\ adapter.connection # "error"
    BY <2>1 DEF Session, Tracked, Follows, Link!TcpConnectionState
  <2>3. Good(View(Tail(signals), Head(signals).type), w.state, service')
    BY <1>2, <1>4, <2>2, GoodHeadState
  <2> QED BY <1>1, <1>2, <1>5, <2>1, <2>3
<1> QED BY <1>5, <1>6, <1>7, <1>8, <1>10, <1>11 DEF Session

LEMMA deliverOther_Step ==
  ASSUME Session, signals # << >>, signals' = Tail(signals), ~IsState(Head(signals)),
         UNCHANGED <<link, posted, clicks>>,
         adapter' \in Adapter, devices' \in SUBSET Devices, Passed(service, service'),
         adapter'.running = adapter.running, adapter'.connection = adapter.connection,
         adapter'.collecting \cup service'.online \cup service'.collecting \subseteq devices',
         (Head(signals).type \in FrameKinds /\ adapter.running) \/ service'.online = service.online,
         Head(signals).type = "error" => service'.collection = "Faulted"
  PROVE  Session'
<1>1. PICK h, g : /\ History(h, signals, w.state) /\ Shown(h[0], adapter, service)
                  /\ History(g, signals', w.state) /\ g[0] = h[0]
                  /\ Head(signals).type \in FrameKinds => h[0] = "Connected"
  BY Delivered
<1>2. signals' \in Seq(Signals) /\ signals \in Seq(Signals)
  BY Delivered
<1>3. WorkerOK' /\ w' = w
  BY DEF Session, WorkerOK, Worker!IInv, link
<1>4. PostedOK'
  BY <1>3 DEF Session, PostedOK
<1>5. Typed'
  BY <1>2 DEF Session, Typed, Passed
<1>6. Follows'
  BY DEF Session, Follows, Passed
<1>7. Shown(g[0], adapter', service')
  BY <1>1 DEF Shown, Passed
<1>8. Explainable'
  BY <1>1, <1>3, <1>7 DEF Explainable
<1>9. Tracked'
  <2> SUFFICES ASSUME Current' PROVE Good(View(signals', adapter'.connection), w'.state, service')
    BY DEF Tracked
  <2>1. Current
    BY DEF Current
  <2>2. Good(View(signals, adapter.connection), w.state, service) /\ adapter.connection # "error"
    BY <2>1 DEF Session, Tracked, Follows, Link!TcpConnectionState
  <2>3. Good(View(Tail(signals), adapter.connection), w.state, service')
    BY <1>2, <2>2, GoodHeadOther DEF Passed
  <2> QED BY <1>3, <2>3
<1> QED BY <1>3, <1>4, <1>5, <1>6, <1>8, <1>9 DEF Session

LEMMA deliverSignal_Session ==
  ASSUME Session, deliverSignal
  PROVE  Session'
<1>1. /\ signals # << >> /\ signals' = Tail(signals) /\ UNCHANGED <<link, posted, clicks>>
      /\ Head(signals) \in Signals
  BY Delivered DEF deliverSignal
<1>2. CASE IsState(Head(signals)) /\ handleTcpStateChanged(Head(signals).type)
  BY <1>1, <1>2, deliverState_Step
<1>3. CASE /\ Head(signals).type = "error"
           /\ service' = handleSourceError(service)
           /\ UNCHANGED <<devices, adapter>>
  <2>1. /\ adapter \in Adapter /\ service \in Service /\ devices \in SUBSET Devices
        /\ adapter.collecting \cup service.online \cup service.collecting \subseteq devices
    BY DEF Session, Typed
  <2>2. /\ service' \in Service /\ service'.collection = "Faulted"
        /\ service'.connection = service.connection
        /\ service'.online = service.online /\ service'.collecting = service.collecting
    BY <1>3, <2>1, Faulted
  <2>3. ~IsState(Head(signals)) /\ Passed(service, service')
    BY <1>3, <2>2 DEF IsState, Link!TcpConnectionState, Passed
  <2> QED BY <1>1, <1>3, <2>1, <2>2, <2>3, deliverOther_Step
<1>4. CASE Head(signals).type \in FrameKinds /\ handleFrame(Head(signals).device, Head(signals).type)
  <2>1. PICK d \in Devices, kind \in FrameKinds :
          d = Head(signals).device /\ kind = Head(signals).type
    BY <1>1, <1>4 DEF Signals, FrameKinds, Heartbeats, Link!TcpConnectionState
  <2>2. /\ adapter' \in Adapter /\ devices' \in SUBSET Devices /\ Passed(service, service')
        /\ adapter'.running = adapter.running /\ adapter'.connection = adapter.connection
        /\ ~adapter.running => service'.online = service.online
        /\ adapter'.collecting \cup service'.online \cup service'.collecting \subseteq devices'
    BY <1>4, <2>1, FrameDelivered
  <2>3. ~IsState(Head(signals)) /\ Head(signals).type # "error"
    BY <1>4 DEF IsState, Link!TcpConnectionState, FrameKinds, Heartbeats
  <2> QED BY <1>1, <1>4, <2>2, <2>3, deliverOther_Step
<1> QED BY <1>2, <1>3, <1>4 DEF deliverSignal, IsState

-----------------------------------------------------------------------------
(* A click *)

LEMMA OneMorePosted ==
  ASSUME NEW q \in Seq(Slots), NEW e \in Slots
  PROVE  LET r == Append(q, e)
         IN  /\ r \in Seq(Slots) /\ Len(q) \in Nat /\ Len(r) = Len(q) + 1
             /\ r[Len(q) + 1] = e /\ \A i \in 1..Len(q) : r[i] = q[i]
OBVIOUS

LEMMA PostedMore ==
  ASSUME Session, NEW slot \in {"connectToHost", "disconnectFromHost"},
         posted' = Append(posted, slot), w' = w,
         slot = "connectToHost" \/ ~adapter'.running
  PROVE  PostedOK' /\ ~Current'
<1>1. PostedOK /\ slot \in Slots
  BY DEF Session, Slots
<1>2. PICK n : n = Len(posted)
  OBVIOUS
<1>3. /\ posted' \in Seq(Slots) /\ n \in Nat /\ Len(posted') = n + 1
      /\ posted'[n + 1] = slot /\ \A i \in 1..n : posted'[i] = posted[i]
  BY <1>1, <1>2, OneMorePosted DEF PostedOK
<1>4. \A i \in 1..(n + 1) : i \in 1..n \/ i = n + 1
  BY <1>3
<1>5. \A i \in 1..(n + 1) :
        posted'[i] \in {"enableReconnect", "disableReconnect"} => i = 1 /\ ~w'.hasHost
  BY <1>1, <1>2, <1>3, <1>4 DEF PostedOK
<1>6. n + 1 \in 1..(n + 1)
  BY <1>3
<1>7. CASE slot = "connectToHost"
  <2>1. \A i \in 1..(n + 1) : posted'[i] = "disconnectFromHost" =>
          n + 1 > i /\ posted'[n + 1] = "connectToHost"
    BY <1>3, <1>4, <1>7
  <2> QED BY <1>3, <1>5, <1>6, <1>7, <2>1 DEF PostedOK, Current
<1>8. CASE ~adapter'.running
  BY <1>3, <1>5, <1>8 DEF PostedOK, Current
<1> QED BY <1>7, <1>8

LEMMA start_Step ==
  ASSUME Session, Click, start,
         service.connection \notin {"Connected", "Connecting", "Reconnecting"}
  PROVE  Session'
<1>1. /\ adapter \in Adapter /\ service \in Service /\ devices \in SUBSET Devices
      /\ signals \in Seq(Signals)
      /\ adapter.collecting \cup service.online \cup service.collecting \subseteq devices
      /\ clicks \in 0..MaxClicks
  BY DEF Session, Typed
<1>2. /\ WorkerOK' /\ w' = w /\ signals' = signals /\ devices' = devices
      /\ clicks' \in 0..MaxClicks
  BY <1>1, BoundsAssumption DEF Session, WorkerOK, Worker!IInv, link, Click
<1>3. PICK x : x = [service EXCEPT !.connection = "Connected", !.collection = "Running",
                                   !.collecting = devices, !.offlineCheck = TRUE]
  OBVIOUS
<1>4. /\ x \in Service /\ x.connection = "Connected" /\ x.collection = "Running"
      /\ x.online = service.online /\ x.collecting = devices
  BY <1>1, <1>3 DEF Service, ConnectionState, CollectionState, Link!TcpConnectionState
<1>5. service' = x
  BY <1>3 DEF start
<1>6. adapter.connection = "Disconnected"
  BY DEF Session, Follows, Link!TcpConnectionState
<1>7. PICK h : History(h, signals, w.state) /\ Shown(h[0], adapter, service)
  BY DEF Session, Explainable
<1>8. service.online = {}
  BY <1>6, <1>7 DEF Shown, Lasting
<1>9. CASE adapter.running
  <2>1. adapter' = adapter /\ posted' = posted
    BY <1>9 DEF start
  <2>2. Typed'
    BY <1>1, <1>2, <1>4, <1>5, <2>1 DEF Typed
  <2>3. Follows' /\ PostedOK'
    BY <1>2, <1>4, <1>5, <1>9, <2>1 DEF Session, Follows, PostedOK
  <2>4. Explainable'
    <3>1. Shown(h[0], adapter', service')
      BY <1>4, <1>5, <1>6, <1>7, <1>8, <2>1 DEF Shown, Lasting
    <3> QED BY <1>2, <1>7, <3>1 DEF Explainable
  <2>5. ASSUME Current' PROVE Good(View(signals', adapter'.connection), w'.state, service')
    <3>1. PICK v : v = View(signals, adapter.connection)
      OBVIOUS
    <3>2. Current
      BY <2>1, <2>5 DEF Current
    <3>3. Good(v, w.state, service)
      BY <3>1, <3>2 DEF Session, Tracked
    <3>4. /\ 0 \in DOMAIN v /\ v[0] = "Disconnected"
      BY <1>1, <1>6, <3>1, ViewOf
    <3>5. w.state \in Lasting \cup Losing
      <4>1. Worker!WInv(w)
        BY DEF Session, WorkerOK, Worker!IInv
      <4> QED BY <4>1, StateTyped DEF Lasting, Losing, Link!TcpConnectionState
    <3>6. Collects(v, w.state, x)
      BY <1>4, <3>3, <3>4, <3>5 DEF Good, Explained, Collects
    <3>7. Good(v, w.state, x)
      BY <3>3, <3>6 DEF Good
    <3> QED BY <1>2, <1>5, <2>1, <3>1, <3>7
  <2> QED BY <1>2, <2>2, <2>3, <2>4, <2>5 DEF Session, Tracked
<1>10. CASE ~adapter.running
  <2>1. PICK a : a = [adapter EXCEPT !.running = TRUE, !.connection = "Connecting"]
    OBVIOUS
  <2>2. a \in Adapter /\ a.running /\ a.connection = "Connecting"
        /\ a.collecting = adapter.collecting
    BY <1>1, <2>1 DEF Adapter, ConnectionState, Link!TcpConnectionState
  <2>3. adapter' = a /\ posted' = Append(posted, "connectToHost")
    BY <1>10, <2>1 DEF start
  <2>4. Typed'
    BY <1>1, <1>2, <1>4, <1>5, <2>2, <2>3 DEF Typed
  <2>5. Follows'
    BY <1>4, <1>5, <2>2, <2>3 DEF Follows, Link!TcpConnectionState
  <2>6. PostedOK' /\ ~Current'
    BY <1>2, <2>3, PostedMore
  <2>7. Explainable'
    <3>1. Shown(h[0], adapter', service')
      BY <1>4, <1>5, <1>8, <2>2, <2>3 DEF Shown, Lasting
    <3> QED BY <1>2, <1>7, <3>1 DEF Explainable
  <2> QED BY <1>2, <2>4, <2>5, <2>6, <2>7 DEF Session, Tracked
<1> QED BY <1>9, <1>10

LEMMA stop_Session ==
  ASSUME Session, Click, stop
  PROVE  Session'
<1>1. /\ adapter \in Adapter /\ service \in Service /\ devices \in SUBSET Devices
      /\ signals \in Seq(Signals)
      /\ adapter.collecting \cup service.online \cup service.collecting \subseteq devices
      /\ clicks \in 0..MaxClicks
  BY DEF Session, Typed
<1>2. /\ WorkerOK' /\ w' = w /\ signals' = signals /\ devices' = devices
      /\ clicks' \in 0..MaxClicks
  BY <1>1, BoundsAssumption DEF Session, WorkerOK, Worker!IInv, link, Click
<1>3. PICK none \in SUBSET Devices : none = {}
  OBVIOUS
<1>4. PICK x : x = [service EXCEPT !.connection = "Disconnected", !.collection = "Stopped",
                                   !.online = none, !.collecting = none,
                                   !.offlineCheck = FALSE]
  OBVIOUS
<1>5. /\ x \in Service /\ x.connection = "Disconnected" /\ x.collection = "Stopped"
      /\ x.online = none /\ x.collecting = none
  BY <1>1, <1>4 DEF Service, ConnectionState, CollectionState, Link!TcpConnectionState
<1>6. service' = x
  BY <1>3, <1>4 DEF stop
<1>7. PICK a : a = [adapter EXCEPT !.running = FALSE, !.connection = "Disconnected"]
  OBVIOUS
<1>8. a \in Adapter /\ ~a.running /\ a.connection = "Disconnected"
      /\ a.collecting = adapter.collecting
  BY <1>1, <1>7 DEF Adapter, ConnectionState, Link!TcpConnectionState
<1>9. /\ adapter' \in Adapter /\ ~adapter'.running /\ adapter'.connection = "Disconnected"
      /\ adapter'.collecting = adapter.collecting
  BY <1>1, <1>7, <1>8 DEF stop, Session, Follows
<1>10. Typed'
  BY <1>1, <1>2, <1>3, <1>5, <1>6, <1>9 DEF Typed
<1>11. Follows'
  BY <1>5, <1>6, <1>9 DEF Follows, Link!TcpConnectionState
<1>12. PostedOK' /\ ~Current'
  <2>1. CASE adapter.running
    <3>1. posted' = Append(posted, "disconnectFromHost")
      BY <2>1 DEF stop
    <3> QED BY <1>2, <1>9, <3>1, PostedMore
  <2>2. CASE ~adapter.running
    <3>1. posted' = posted
      BY <2>2 DEF stop
    <3> QED BY <1>2, <1>9, <3>1 DEF Session, PostedOK, Current
  <2> QED BY <2>1, <2>2
<1>13. Explainable'
  <2>1. PICK h : History(h, signals, w.state) /\ Shown(h[0], adapter, service)
    BY DEF Session, Explainable
  <2>2. Shown(h[0], adapter', service')
    BY <1>3, <1>5, <1>6, <1>9 DEF Shown
  <2> QED BY <1>2, <2>1, <2>2 DEF Explainable
<1> QED BY <1>2, <1>10, <1>11, <1>12, <1>13 DEF Session, Tracked

(* Clicks that change what is collected, of a running source. *)
LEMMA CollectingStep ==
  ASSUME Session, Click, adapter.running, posted' = posted,
         adapter' \in Adapter, service' \in Service,
         adapter'.running, adapter'.connection = adapter.connection,
         service'.connection = service.connection, service'.online = service.online,
         adapter'.collecting \cup service'.collecting \subseteq devices,
         service'.collection \in {"Running", "Paused"} => service.collection \in {"Running", "Paused"}
  PROVE  Session'
<1>1. /\ WorkerOK' /\ w' = w /\ signals' = signals /\ devices' = devices
      /\ clicks' \in 0..MaxClicks
  BY BoundsAssumption DEF Session, Typed, WorkerOK, Worker!IInv, link, Click
<1>2. Typed'
  BY <1>1 DEF Session, Typed
<1>3. Follows' /\ PostedOK'
  BY <1>1 DEF Session, Follows, PostedOK
<1>4. Explainable'
  <2>1. PICK h : History(h, signals, w.state) /\ Shown(h[0], adapter, service)
    BY DEF Session, Explainable
  <2>2. Shown(h[0], adapter', service')
    BY <2>1 DEF Shown
  <2> QED BY <1>1, <2>1, <2>2 DEF Explainable
<1>5. ASSUME Current' PROVE Good(View(signals', adapter'.connection), w'.state, service')
  <2>1. Good(View(signals, adapter.connection), w.state, service)
    BY <1>5 DEF Session, Tracked, Current
  <2>2. Good(View(signals, adapter.connection), w.state, service')
    BY <2>1 DEF Good, Collects
  <2> QED BY <1>1, <2>2
<1> QED BY <1>1, <1>2, <1>3, <1>4, <1>5 DEF Session, Tracked

LEMMA User_Session ==
  ASSUME Session, User
  PROVE  Session'
<1>1. /\ adapter \in Adapter /\ service \in Service /\ devices \in SUBSET Devices
      /\ adapter.collecting \cup service.online \cup service.collecting \subseteq devices
  BY DEF Session, Typed
<1>2. CASE onConnectClicked
  BY <1>2, start_Step, stop_Session DEF onConnectClicked
<1>3. CASE onStartClicked
  <2>1. Click /\ posted' = posted
    BY <1>3 DEF onStartClicked
  <2>2. adapter.running
    BY <1>3 DEF onStartClicked, Session, Follows
  <2>3. PICK none \in SUBSET Devices : none = {}
    OBVIOUS
  <2>4. CASE pauseCollection
    <3>1. PICK a, x : /\ a = [adapter EXCEPT !.collectionEnabled = FALSE]
                      /\ x = [service EXCEPT !.collection = "Paused", !.collecting = none]
      OBVIOUS
    <3>2. a \in Adapter /\ a.running = adapter.running /\ a.connection = adapter.connection
          /\ a.collecting = adapter.collecting
      BY <1>1, <3>1 DEF Adapter
    <3>3. x \in Service /\ x.connection = service.connection /\ x.online = service.online
          /\ x.collecting = none
      BY <1>1, <3>1 DEF Service, CollectionState
    <3>4. adapter' = a /\ service' = x /\ service.collection = "Running"
      BY <2>3, <2>4, <3>1 DEF pauseCollection
    <3> QED BY <1>1, <2>1, <2>2, <2>3, <3>2, <3>3, <3>4, CollectingStep
  <2>5. CASE resumeCollection
    <3>1. PICK a, x : /\ a = [adapter EXCEPT !.collectionEnabled = TRUE]
                      /\ x = [service EXCEPT !.collection = "Running", !.collecting = devices]
      OBVIOUS
    <3>2. a \in Adapter /\ a.running = adapter.running /\ a.connection = adapter.connection
          /\ a.collecting = adapter.collecting
      BY <1>1, <3>1 DEF Adapter
    <3>3. x \in Service /\ x.connection = service.connection /\ x.online = service.online
          /\ x.collecting = devices
      BY <1>1, <3>1 DEF Service, CollectionState
    <3>4. adapter' = a /\ service' = x /\ service.collection = "Paused"
      BY <2>5, <3>1 DEF resumeCollection
    <3> QED BY <1>1, <2>1, <2>2, <3>2, <3>3, <3>4, CollectingStep
  <2> QED BY <1>3, <2>4, <2>5 DEF onStartClicked
<1>4. ASSUME NEW d \in Devices, NEW enabled \in BOOLEAN, setDeviceCollection(d, enabled)
      PROVE  Session'
  <2>1. PICK through \in SUBSET devices, shown \in SUBSET devices :
          /\ through = IF enabled THEN adapter.collecting \cup {d} ELSE adapter.collecting \ {d}
          /\ shown = IF enabled THEN service.collecting \cup {d} ELSE service.collecting \ {d}
    BY <1>1, <1>4 DEF setDeviceCollection
  <2>2. PICK a, x : /\ a = [adapter EXCEPT !.collecting = through]
                    /\ x = [service EXCEPT !.collecting = shown]
    OBVIOUS
  <2>3. a \in Adapter /\ a.running = adapter.running /\ a.connection = adapter.connection
        /\ a.collecting = through
    BY <1>1, <2>1, <2>2 DEF Adapter
  <2>4. x \in Service /\ x.connection = service.connection /\ x.online = service.online
        /\ x.collecting = shown /\ x.collection = service.collection
    BY <1>1, <2>1, <2>2 DEF Service
  <2>5. adapter' = a /\ service' = x /\ Click /\ adapter.running /\ posted' = posted
    BY <1>4, <2>1, <2>2 DEF setDeviceCollection
  <2> QED BY <2>1, <2>3, <2>4, <2>5, CollectingStep
<1> QED BY <1>2, <1>3, <1>4 DEF User

-----------------------------------------------------------------------------

(* At the start *)
LEMMA Session_Init ==
  ASSUME Init
  PROVE  Session
<1>1. Link!Init /\ Worker!Init
  BY SameInit DEF Init
<1>2. Worker!IInv
  BY <1>1, Bounds, Worker!InitIInv
<1>3. ~w.hasHost /\ w.state = "Disconnected" /\ Hist(w)
  BY <1>1 DEF Link!Init, Hist
<1>4. posted \in Seq(Slots) /\ Len(posted) = 1 /\ signals = << >>
  <2>1. PICK slot \in Slots : posted = <<slot>>
    BY DEF Init, Slots
  <2> QED BY <2>1 DEF Init
<1>5. adapter \in Adapter /\ ~adapter.running /\ adapter.connection = "Disconnected"
      /\ adapter.collecting = {}
  BY DEF Init, Adapter, ConnectionState, Link!TcpConnectionState
<1>6. /\ service \in Service /\ service.connection = "Disconnected"
      /\ service.collection = "Stopped" /\ service.online = {} /\ service.collecting = {}
  BY DEF Init, Service, ConnectionState, CollectionState, Link!TcpConnectionState
<1>7. PostedOK
  BY <1>3, <1>4, <1>5 DEF PostedOK
<1>8. Typed
  BY <1>4, <1>5, <1>6, BoundsAssumption DEF Init, Typed
<1>9. Follows
  BY <1>5, <1>6 DEF Follows, Link!TcpConnectionState
<1>10. Explainable
  <2>1. PICK h : h = [i \in 0..0 |-> w.state]
    OBVIOUS
  <2>2. Len(signals) = 0
    BY <1>4
  <2>3. History(h, signals, w.state)
    BY <1>3, <2>1, <2>2 DEF History, Link!TcpConnectionState
  <2>4. Shown(h[0], adapter, service)
    BY <1>5, <1>6 DEF Shown
  <2> QED BY <2>3, <2>4 DEF Explainable
<1> QED BY <1>2, <1>3, <1>5, <1>7, <1>8, <1>9, <1>10 DEF Session, WorkerOK, Tracked, Current

LEMMA Session_Stutter ==
  ASSUME Session, UNCHANGED vars
  PROVE  Session'
<1>1. WorkerOK'
  BY DEF Session, WorkerOK, Worker!IInv, vars, link
<1>2. PostedOK' /\ Typed' /\ Follows'
  BY DEF Session, PostedOK, Typed, Follows, vars, gui, link
<1>3. Explainable'
  BY DEF Session, Explainable, vars, gui, link
<1>4. Tracked'
  BY DEF Session, Tracked, Current, vars, gui, link
<1> QED BY <1>1, <1>2, <1>3, <1>4 DEF Session

(* The inductive invariant of a session: the worker's own, what may be     *)
(* posted and queued, what the GUI shows of it, and where that will lead.  *)
THEOREM SessionInvariance == Spec => []Session
<1>1. Session /\ [Next]_vars => Session'
  BY runSlot_Step, Network_Step, deliverSignal_Session, User_Session, Session_Stutter DEF Next
<1> QED BY <1>1, Session_Init, PTL DEF Spec

(* With nothing under way, the adapter shows what the worker is in. *)
LEMMA QuietTracked ==
  ASSUME Session, Quiet, adapter.running
  PROVE  LET v == View(signals, adapter.connection)
         IN  /\ DOMAIN v = {0} /\ v[0] = adapter.connection
             /\ Good(v, w.state, service) /\ adapter.connection = w.state
<1>1. PICK v : v = View(signals, adapter.connection)
  OBVIOUS
<1>2. Len(posted) = 0 /\ Len(signals) = 0
  BY DEF Quiet
<1>3. Current
  BY <1>2 DEF Current
<1>4. Good(v, w.state, service)
  BY <1>1, <1>3 DEF Session, Tracked
<1>5. DOMAIN v = {0} /\ v[0] = adapter.connection
  BY <1>1, <1>2 DEF View
<1>6. Reports(v, 0) /\ Final(v, 0)
  BY <1>5 DEF Session, Follows, Reports, Final
<1>7. adapter.connection = w.state
  BY <1>4, <1>5, <1>6 DEF Good, Settles
<1> QED BY <1>1, <1>4, <1>5, <1>7

(* When every posted slot has run and every signal has arrived, the        *)
(* adapter shows the worker's state while it runs, Disconnected otherwise, *)
(* and the service follows it, however sessions overlapped                 *)
(* (handleTcpStateChanged).                                                *)
THEOREM StateAlwaysSettles == Spec => []StateSettles
<1>1. Session => StateSettles
  BY QuietTracked DEF StateSettles, Session, Follows
<1> QED BY <1>1, SessionInvariance, PTL

(* When every slot and signal has arrived and the service shows the        *)
(* connection lost, collection is stopped or faulted (handleSourceError).  *)
THEOREM LossAlwaysStopsCollection == Spec => []LossStopsCollection
<1>1. ASSUME Session PROVE LossStopsCollection
  <2> SUFFICES ASSUME Quiet, service.connection \in {"Disconnected", "Reconnecting"},
                      service.collection \notin {"Stopped", "Faulted"}
               PROVE  FALSE
    BY DEF LossStopsCollection
  <2>1. adapter.running
    BY <1>1 DEF Session, Follows
  <2>2. service.connection = adapter.connection /\ service.collection \in {"Running", "Paused"}
    BY <1>1, <2>1 DEF Session, Follows, Typed, Service, CollectionState
  <2>3. PICK v : /\ DOMAIN v = {0} /\ v[0] = adapter.connection
                 /\ Good(v, w.state, service) /\ adapter.connection = w.state
    BY <1>1, <2>1, QuietTracked
  <2> QED BY <2>2, <2>3 DEF Good, Collects, Lasting
<1> QED BY <1>1, SessionInvariance, PTL

(* A device is shown online only under a service shown connected, although *)
(* frames of earlier sessions arrive late (handleFrame,                    *)
(* handleSourceConnectionState).                                           *)
THEOREM OnlineAlwaysConnected == Spec => []OnlineOnlyConnected
<1>1. ASSUME Session PROVE OnlineOnlyConnected
  <2>1. PICK h : Shown(h[0], adapter, service)
    BY <1>1 DEF Session, Explainable
  <2> QED BY <2>1 DEF Shown, OnlineOnlyConnected
<1> QED BY <1>1, SessionInvariance, PTL

(* Members and queued calls keep their types, and only registered devices  *)
(* have a state (members of the worker, adapter and service).              *)
THEOREM TypeCorrect == Spec => []TypeOK
<1>1. ASSUME Session PROVE TypeOK
  <2>1. Link!TypeOK
    BY <1>1 DEF Session, WorkerOK, Worker!IInv, Worker!WInv, Link!TypeOK, Link!Worker,
       Worker!Worker, Link!SocketStates, Worker!SocketStates, Link!TcpConnectionState,
       Worker!TcpConnectionState
  <2> QED BY <1>1, <2>1 DEF Session, PostedOK, Typed, TypeOK
<1> QED BY <1>1, SessionInvariance, PTL
=============================================================================
