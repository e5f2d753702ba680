------------------------- MODULE TcpConnectionWorker -------------------------
(***************************************************************************)
(* The worker that owns the socket on the network thread: connecting,      *)
(* timeouts, automatic reconnection with backoff, and the decoder fed from *)
(* the socket.  A public slot, a socket signal and a timer are one action  *)
(* each.  QTcpSocket and QTimer are modelled as the worker sees them:      *)
(* abort() and a finished close emit stateChanged and, after a connection, *)
(* disconnected before they return; disconnectFromHost() on a socket that  *)
(* is still connecting takes effect once it has connected.                 *)
(***************************************************************************)
EXTENDS Integers

CONSTANTS
  Delays,       (* values passed to the two reconnect delay setters        *)
  Timeouts,     (* values passed to the two timeout setters                *)
  AttemptCap,   (* bound: the reconnect attempts counted (the code's 20)   *)
  MaxCommands   (* bound: calls of public slots                            *)

ASSUME BoundsAssumption ==
  AttemptCap \in Nat /\ MaxCommands \in Nat

ASSUME SettingsAssumption ==
  Delays \subseteq Int /\ Timeouts \subseteq Int

VARIABLES
  w,         (* the worker: its members, socket, timers and decoder        *)
  alive,     (* the thread runs: shutdown() has not been called            *)
  commands   (* calls of public slots so far                               *)

vars == <<w, alive, commands>>

SocketStates == {"Unconnected", "HostLookup", "Connecting", "Connected", "Closing"}
Attempting == {"HostLookup", "Connecting"}
TcpConnectionState == {"Disconnected", "Connecting", "Connected", "Reconnecting"}

(* connectTimer and decoder tell whether what they hold (a running timer,  *)
(* an incomplete frame) dates from the current connection attempt or from  *)
(* an earlier one.  wanted is history: what the user last asked for.       *)
Worker == [socket : SocketStates,
           pendingClose : BOOLEAN,      (* close once connected            *)
           unsent : BOOLEAN,            (* written bytes not yet sent      *)
           silent : BOOLEAN,            (* the peer will never speak again *)
           state : TcpConnectionState,
           hasHost : BOOLEAN,
           reconnectEnabled : BOOLEAN,
           userDisconnected : BOOLEAN,
           reconnectAttempt : 0..AttemptCap,
           reconnectDelay : Nat,
           reconnectMaxDelay : Nat,
           connectTimeout : Nat,
           readTimeout : Nat,
           reconnectTimer : BOOLEAN,
           connectTimer : {"off", "current", "stale"},
           readTimer : BOOLEAN,
           decoder : {"empty", "current", "stale"},
           wanted : BOOLEAN]

Init ==
  /\ w = [socket |-> "Unconnected", pendingClose |-> FALSE, unsent |-> FALSE,
          silent |-> FALSE, state |-> "Disconnected", hasHost |-> FALSE,
          reconnectEnabled |-> TRUE, userDisconnected |-> TRUE,
          reconnectAttempt |-> 0, reconnectDelay |-> 1000,
          reconnectMaxDelay |-> 30000, connectTimeout |-> 5000,
          readTimeout |-> 15000, reconnectTimer |-> FALSE,
          connectTimer |-> "off", readTimer |-> FALSE, decoder |-> "empty",
          wanted |-> FALSE]
  /\ alive = TRUE
  /\ commands = 0

-----------------------------------------------------------------------------
(* Reconnection *)

larger(a, b) == IF a >= b THEN a ELSE b
smaller(a, b) == IF a <= b THEN a ELSE b

mayReconnect(x) ==
  /\ x.reconnectEnabled
  /\ ~x.userDisconnected
  /\ x.hasHost
  /\ x.socket = "Unconnected"

(* The delay announced and armed when the counter stood at attempt. *)
backoffDelay(x, attempt) ==
  smaller(x.reconnectMaxDelay, x.reconnectDelay * 2 ^ attempt)

(* Every socket event may end here, several of them for one loss. *)
scheduleReconnect(x) ==
  IF mayReconnect(x)
  THEN IF x.reconnectTimer THEN x
       ELSE [x EXCEPT !.reconnectAttempt = smaller(AttemptCap, @ + 1),
                      !.state = "Reconnecting", !.reconnectTimer = TRUE]
  ELSE IF x.socket = "Unconnected" THEN [x EXCEPT !.state = "Disconnected"]
  ELSE x

-----------------------------------------------------------------------------
(* Socket signals.  A loss is announced by stateChanged, then, if there was *)
(* a connection, by disconnected.                                          *)

handleDisconnected(x) ==
  scheduleReconnect([x EXCEPT !.connectTimer = "off", !.readTimer = FALSE])

(* Mutant: only disconnected() counts as a loss. *)
handleSocketStateChanged_Ignored(x) == x

handleSocketStateChanged(x) ==
  IF x.socket = "Unconnected" THEN scheduleReconnect(x) ELSE x

becomeUnconnected(x) ==
  LET gone == handleSocketStateChanged([x EXCEPT
                !.socket = "Unconnected", !.pendingClose = FALSE, !.unsent = FALSE])
  IN  IF x.socket \in {"Connected", "Closing"} THEN handleDisconnected(gone) ELSE gone

abort(x) == IF x.socket = "Unconnected" THEN x ELSE becomeUnconnected(x)

(* An orderly close first sends what was written. *)
close(x) ==
  IF x.socket = "Unconnected" THEN x
  ELSE IF x.socket \in Attempting THEN [x EXCEPT !.pendingClose = TRUE]
  ELSE IF x.unsent THEN [x EXCEPT !.socket = "Closing"]
  ELSE becomeUnconnected(x)

handleConnected(x) ==
  [x EXCEPT !.userDisconnected = FALSE, !.connectTimer = "off",
            !.reconnectTimer = FALSE, !.reconnectAttempt = 0,
            !.readTimer = @ \/ x.readTimeout > 0,
            !.state = "Connected"]

-----------------------------------------------------------------------------
(* Mutants: the decoder is not cleared; a running connect timer is kept. *)
startConnection_KeepsDecoder(x) ==
  LET y == IF x.socket = "Unconnected" THEN x
           ELSE abort([x EXCEPT !.userDisconnected = TRUE])
  IN  [y EXCEPT !.userDisconnected = FALSE, !.state = "Connecting",
                !.decoder = IF @ = "empty" THEN "empty" ELSE "stale",
                !.connectTimer = IF y.connectTimeout > 0 THEN "current"
                                 ELSE IF @ = "off" THEN "off" ELSE "stale",
                !.socket = "HostLookup", !.pendingClose = FALSE, !.silent = FALSE]

startConnection_KeepsTimer(x) ==
  LET y == IF x.socket = "Unconnected" THEN x
           ELSE abort([x EXCEPT !.userDisconnected = TRUE])
  IN  [y EXCEPT !.userDisconnected = FALSE, !.state = "Connecting",
                !.decoder = "empty",
                !.connectTimer = IF @ # "off" THEN "stale"
                                 ELSE IF y.connectTimeout > 0 THEN "current" ELSE @,
                !.socket = "HostLookup", !.pendingClose = FALSE, !.silent = FALSE]

(* An old socket is dropped as if by the user, so that it does not         *)
(* schedule a reconnection of its own.                                     *)
startConnection(x) ==
  LET y == IF x.socket = "Unconnected" THEN x
           ELSE abort([x EXCEPT !.userDisconnected = TRUE])
  IN  [y EXCEPT !.userDisconnected = FALSE, !.state = "Connecting",
                !.decoder = "empty",
                !.connectTimer = IF y.connectTimeout > 0 THEN "current"
                                 ELSE IF @ = "off" THEN "off" ELSE "stale",
                !.socket = "HostLookup", !.pendingClose = FALSE, !.silent = FALSE]

-----------------------------------------------------------------------------
(* Public slots *)

Command ==
  /\ alive
  /\ commands < MaxCommands
  /\ commands' = commands + 1

connectToHost ==
  /\ Command
  /\ w' = startConnection([w EXCEPT !.hasHost = TRUE, !.reconnectTimer = FALSE,
                                    !.reconnectAttempt = 0, !.wanted = TRUE])
  /\ UNCHANGED alive

(* Mutant: the pending reconnection survives a manual disconnect. *)
disconnectFromHost_KeepsTimer ==
  /\ Command
  /\ w' = [close([w EXCEPT !.userDisconnected = TRUE,
                           !.connectTimer = "off", !.readTimer = FALSE,
                           !.decoder = "empty", !.wanted = FALSE])
             EXCEPT !.state = "Disconnected"]
  /\ UNCHANGED alive

disconnectFromHost ==
  /\ Command
  /\ w' = [close([w EXCEPT !.userDisconnected = TRUE, !.reconnectTimer = FALSE,
                           !.connectTimer = "off", !.readTimer = FALSE,
                           !.decoder = "empty", !.wanted = FALSE])
             EXCEPT !.state = "Disconnected"]
  /\ UNCHANGED alive

reconnectNow ==
  /\ Command
  /\ w.socket \notin {"Connected", "Connecting"}
  /\ w.hasHost
  /\ w' = startConnection([w EXCEPT !.reconnectTimer = FALSE,
                                    !.reconnectAttempt = 0, !.wanted = TRUE])
  /\ UNCHANGED alive

shutdown ==
  /\ Command
  /\ w' = [abort([w EXCEPT !.reconnectEnabled = FALSE, !.userDisconnected = TRUE,
                           !.reconnectTimer = FALSE, !.connectTimer = "off",
                           !.readTimer = FALSE, !.wanted = FALSE])
             EXCEPT !.state = "Disconnected"]
  /\ alive' = FALSE

(* What is not sent at once stays in the socket's buffer. *)
sendFrame ==
  /\ Command
  /\ w.socket = "Connected"
  /\ \E buffered \in BOOLEAN : w' = [w EXCEPT !.unsent = @ \/ buffered]
  /\ UNCHANGED alive

setReconnectEnabled(enabled) ==
  LET x == [w EXCEPT !.reconnectEnabled = enabled]
  IN  /\ Command
      /\ w' = IF ~enabled
              THEN [x EXCEPT !.reconnectTimer = FALSE,
                             !.state = IF @ = "Reconnecting" THEN "Disconnected" ELSE @]
              ELSE IF x.socket = "Unconnected" /\ ~x.userDisconnected /\ x.hasHost
              THEN scheduleReconnect(x)
              ELSE x
      /\ UNCHANGED alive

(* Mutant: a longer delay does not raise the maximum. *)
setReconnectDelayMs_OnlyDelay(delay) ==
  /\ Command
  /\ w' = [w EXCEPT !.reconnectDelay = larger(50, delay)]
  /\ UNCHANGED alive

setReconnectDelayMs(delay) ==
  /\ Command
  /\ w' = [w EXCEPT !.reconnectDelay = larger(50, delay),
                    !.reconnectMaxDelay = larger(@, larger(50, delay))]
  /\ UNCHANGED alive

setReconnectMaxDelayMs(delay) ==
  /\ Command
  /\ w' = [w EXCEPT !.reconnectMaxDelay = larger(w.reconnectDelay, delay)]
  /\ UNCHANGED alive

setConnectTimeoutMs(timeout) ==
  /\ Command
  /\ w' = [w EXCEPT !.connectTimeout = larger(0, timeout),
                    !.connectTimer = IF timeout <= 0 THEN "off"
                                     ELSE IF w.socket \in Attempting THEN "current"
                                     ELSE @]
  /\ UNCHANGED alive

setReadTimeoutMs(timeout) ==
  /\ Command
  /\ w' = [w EXCEPT !.readTimeout = larger(0, timeout),
                    !.readTimer = timeout > 0 /\ (@ \/ w.socket = "Connected")]
  /\ UNCHANGED alive

-----------------------------------------------------------------------------
(* Timers *)

(* Mutant: a host lookup that hangs is not given up. *)
handleConnectTimeout_NotInLookup ==
  /\ alive
  /\ w.connectTimer # "off"
  /\ LET x == [w EXCEPT !.connectTimer = "off"]
     IN  w' = IF x.socket = "Connecting" THEN scheduleReconnect(abort(x)) ELSE x
  /\ UNCHANGED <<alive, commands>>

(* An attempt that has used up its time is given up. *)
handleConnectTimeout ==
  /\ alive
  /\ w.connectTimer # "off"
  /\ LET x == [w EXCEPT !.connectTimer = "off"]
     IN  w' = IF x.socket \in Attempting THEN scheduleReconnect(abort(x)) ELSE x
  /\ UNCHANGED <<alive, commands>>

(* Mutant: the timeout reports the silent peer but keeps the connection. *)
handleReadTimeout_KeepsSocket ==
  /\ alive
  /\ w.readTimer
  /\ w' = [w EXCEPT !.readTimer = FALSE]
  /\ UNCHANGED <<alive, commands>>

handleReadTimeout ==
  /\ alive
  /\ w.readTimer
  /\ LET x == [w EXCEPT !.readTimer = FALSE]
     IN  w' = IF x.socket = "Connected" THEN scheduleReconnect(abort(x)) ELSE x
  /\ UNCHANGED <<alive, commands>>

(* Mutant: gives up after the second attempt. *)
handleReconnectTimer_GivesUp ==
  /\ alive
  /\ w.reconnectTimer
  /\ LET x == [w EXCEPT !.reconnectTimer = FALSE]
     IN  w' = IF mayReconnect(x) /\ x.reconnectAttempt <= 2
              THEN startConnection(x) ELSE x
  /\ UNCHANGED <<alive, commands>>

handleReconnectTimer ==
  /\ alive
  /\ w.reconnectTimer
  /\ LET x == [w EXCEPT !.reconnectTimer = FALSE]
     IN  w' = IF ~x.userDisconnected /\ x.hasHost /\ x.socket = "Unconnected"
              THEN startConnection(x) ELSE x
  /\ UNCHANGED <<alive, commands>>

-----------------------------------------------------------------------------
(* Network *)

hostFound ==
  /\ alive
  /\ w.socket = "HostLookup"
  /\ w' = [w EXCEPT !.socket = "Connecting"]
  /\ UNCHANGED <<alive, commands>>

connectSucceeds ==
  /\ alive
  /\ w.socket = "Connecting"
  /\ LET x == handleConnected([w EXCEPT !.socket = "Connected", !.pendingClose = FALSE])
     IN  w' = IF w.pendingClose THEN close(x) ELSE x
  /\ UNCHANGED <<alive, commands>>

(* Refused, unreachable or unknown host. *)
connectFails ==
  /\ alive
  /\ w.socket \in Attempting
  /\ w' = becomeUnconnected(w)
  /\ UNCHANGED <<alive, commands>>

(* The bytes may end inside a frame. *)
handleReadyRead ==
  /\ alive
  /\ w.socket = "Connected"
  /\ ~w.silent
  /\ \E rest \in {"empty", "current"} :
       w' = [w EXCEPT !.readTimer = @ \/ w.readTimeout > 0,
                      !.decoder = IF @ = "stale" THEN "stale" ELSE rest]
  /\ UNCHANGED <<alive, commands>>

peerCloses ==
  /\ alive
  /\ w.socket = "Connected"
  /\ ~w.silent
  /\ w' = close(w)
  /\ UNCHANGED <<alive, commands>>

(* The peer vanishes without closing: a dead host, a cut cable. *)
peerDies ==
  /\ alive
  /\ w.socket \in {"Connected", "Closing"}
  /\ w' = [w EXCEPT !.silent = TRUE]
  /\ UNCHANGED <<alive, commands>>

bytesSent ==
  /\ alive
  /\ w.unsent
  /\ ~w.silent
  /\ w' = IF w.socket = "Closing" THEN becomeUnconnected(w)
          ELSE [w EXCEPT !.unsent = FALSE]
  /\ UNCHANGED <<alive, commands>>

Timers == handleConnectTimeout \/ handleReadTimeout \/ handleReconnectTimer

Network ==
  \/ hostFound \/ connectSucceeds \/ connectFails
  \/ handleReadyRead \/ peerCloses \/ peerDies \/ bytesSent

Slots ==
  \/ connectToHost
  \/ disconnectFromHost
  \/ reconnectNow
  \/ shutdown
  \/ sendFrame
  \/ \E enabled \in BOOLEAN : setReconnectEnabled(enabled)
  \/ \E delay \in Delays : setReconnectDelayMs(delay) \/ setReconnectMaxDelayMs(delay)
  \/ \E timeout \in Timeouts : setConnectTimeoutMs(timeout) \/ setReadTimeoutMs(timeout)

Next == Slots \/ Timers \/ Network

Spec == Init /\ [][Next]_vars

(* A running timer fires unless something stops or restarts it: a new      *)
(* attempt the connect timer, arriving data the read timer.  Of the        *)
(* network nothing is assumed.                                             *)
Fairness ==
  /\ WF_vars(w.socket \in Attempting /\ handleConnectTimeout)
  /\ WF_vars(handleReconnectTimer)
  /\ WF_vars(w.silent /\ handleReadTimeout)

FairSpec == Spec /\ Fairness

-----------------------------------------------------------------------------
(* Properties *)

(* Members, socket and timers hold values of their types (class members of *)
(* TcpConnectionWorker).                                                   *)
TypeOK ==
  /\ w \in Worker
  /\ alive \in BOOLEAN
  /\ commands \in 0..MaxCommands

(* No reconnection is lost and none is left over: the timer runs exactly   *)
(* while the worker has lost a connection it should restore, whichever     *)
(* slot, signal or timeout brought it there, and exactly then it reports   *)
(* Reconnecting (scheduleReconnect, setReconnectEnabled, disconnectFromHost *)
(* and handleReconnectTimer together).                                     *)
ReconnectArmed ==
  /\ w.reconnectTimer <=> mayReconnect(w)
  /\ w.reconnectTimer <=> w.state = "Reconnecting"

(* The reported state is the socket's: an attempt or a connection is       *)
(* reported as such unless the user asked to end it, and nothing else is   *)
(* reported as one (a Closing socket is still sending).                    *)
StateHonest ==
  /\ w.state = "Connecting" <=> (w.socket \in Attempting /\ ~w.userDisconnected)
  /\ w.state = "Connected" => w.socket \in {"Connected", "Closing"}
  /\ w.socket = "Connected" => w.state = "Connected"
  /\ w.userDisconnected => w.state = "Disconnected"

(* A new attempt always gets the whole connect timeout: no timer of an     *)
(* earlier attempt runs while one is being made, and a timeout that is     *)
(* configured is armed (startConnection after a refused attempt, whose     *)
(* timer nobody stops).                                                    *)
AttemptTimed ==
  w.socket \in Attempting
    => /\ w.connectTimer # "stale"
       /\ (w.connectTimeout > 0 /\ ~w.userDisconnected) => w.connectTimer = "current"

(* A connection is never without its read timeout, so a dead peer cannot   *)
(* go unnoticed (handleConnected, handleReadyRead, setReadTimeoutMs).      *)
ConnectionTimed ==
  (w.socket = "Connected" /\ w.readTimeout > 0) => w.readTimer

(* Bytes of two connections are never decoded as one frame: a connection   *)
(* never finds an earlier one's incomplete frame in the decoder            *)
(* (startConnection, handleReadyRead).                                     *)
DecoderOfOneConnection ==
  w.socket = "Connected" => w.decoder # "stale"

(* A loss counts as one attempt although stateChanged, disconnected and    *)
(* the timeout handlers all call scheduleReconnect for it; otherwise the   *)
(* backoff would grow too fast.                                            *)
LossCountedOnce ==
  [][w'.reconnectAttempt <= w.reconnectAttempt + 1]_vars

(* The delay a reconnection is armed with lies between the configured one  *)
(* and the configured maximum, however the two setters were called before. *)
BackoffInRange ==
  [][(w'.reconnectTimer /\ ~w.reconnectTimer)
       => LET delay == backoffDelay(w', w.reconnectAttempt)
          IN  50 <= w'.reconnectDelay
              /\ w'.reconnectDelay <= delay /\ delay <= w'.reconnectMaxDelay]_vars

(* A lost connection that should be restored is tried again, however often *)
(* it is lost or refused (handleReconnectTimer).                           *)
KeepsTrying ==
  mayReconnect(w) ~> ~mayReconnect(w)

(* A connection to a peer that died without closing is given up when a     *)
(* read timeout is set, although the network says nothing                  *)
(* (handleReadTimeout).                                                    *)
DeadPeerNoticed ==
  (w.socket = "Connected" /\ w.silent /\ w.readTimeout > 0)
    ~> (w.socket # "Connected" \/ w.readTimeout = 0)

(* An attempt whose peer neither accepts nor refuses ends by itself when a *)
(* connect timeout is set (handleConnectTimeout).                          *)
AttemptsEnd ==
  (w.socket \in Attempting /\ ~w.userDisconnected /\ w.connectTimeout > 0)
    ~> (w.socket \notin Attempting \/ w.userDisconnected \/ w.connectTimeout = 0)

(* After the user disconnects, the worker does not connect again on its    *)
(* own until the user asks for it: what manualDisconnectSuppressesReconnect *)
(* in TcpDeviceDataSourceTest asserts.                                     *)
ManualDisconnectSuppressesReconnect ==
  ~w.wanted => w.state # "Reconnecting"
=============================================================================
