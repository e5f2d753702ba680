------------------------- MODULE TcpConnectionProofs -------------------------
(***************************************************************************)
(* Proofs about TcpConnectionWorker.  Every slot, signal and timer is a    *)
(* composition of a few operators on the worker's record                   *)
(* (scheduleReconnect, becomeUnconnected, startConnection, close,          *)
(* handleConnected).  The lemmas say what each of them needs and           *)
(* establishes; the step lemmas combine them.                              *)
(***************************************************************************)
EXTENDS TcpConnectionWorker, TLAPS

(* The worker between two calls.  The properties of a record the runs      *)
(* check, and two facts they rest on: no incomplete frame of an earlier    *)
(* attempt is kept, and no connect timer runs while the timeout is off.    *)
Armed(x) ==
  /\ x.reconnectTimer <=> mayReconnect(x)
  /\ x.reconnectTimer <=> x.state = "Reconnecting"

Honest(x) ==
  /\ x.state = "Connecting" <=> (x.socket \in Attempting /\ ~x.userDisconnected)
  /\ x.state = "Connected" => x.socket \in {"Connected", "Closing"}
  /\ x.socket = "Connected" => x.state = "Connected"
  /\ x.userDisconnected => x.state = "Disconnected"

Timed(x) ==
  /\ x.socket \in Attempting
       => /\ x.connectTimer # "stale"
          /\ (x.connectTimeout > 0 /\ ~x.userDisconnected) => x.connectTimer = "current"
  /\ (x.socket = "Connected" /\ x.readTimeout > 0) => x.readTimer

Clean(x) ==
  /\ x.decoder # "stale"
  /\ x.connectTimeout = 0 => x.connectTimer = "off"

WInv(x) == x \in Worker /\ Armed(x) /\ Honest(x) /\ Timed(x) /\ Clean(x)

(* At most one more attempt is counted. *)
OneMore(x, y) == y.reconnectAttempt <= x.reconnectAttempt + 1

IInv == WInv(w) /\ alive \in BOOLEAN /\ commands \in 0..MaxCommands

-----------------------------------------------------------------------------
(* Types of the records built below. *)
LEMMA NoAttempt == 0 \in 0..AttemptCap
  BY BoundsAssumption DEF BoundsAssumption

LEMMA AttemptTyped ==
  ASSUME NEW y \in Worker, NEW timer \in {"off", "current", "stale"}
  PROVE  [y EXCEPT !.userDisconnected = FALSE, !.state = "Connecting",
                   !.decoder = "empty", !.connectTimer = timer,
                   !.socket = "HostLookup", !.pendingClose = FALSE,
                   !.silent = FALSE] \in Worker
  BY DEF Worker, SocketStates, TcpConnectionState

LEMMA ConnectionTyped ==
  ASSUME NEW y \in Worker, NEW timer \in BOOLEAN, NEW n \in 0..AttemptCap
  PROVE  [y EXCEPT !.userDisconnected = FALSE, !.connectTimer = "off",
                   !.reconnectTimer = FALSE, !.reconnectAttempt = n,
                   !.readTimer = timer, !.state = "Connected"] \in Worker
  BY DEF Worker, TcpConnectionState

-----------------------------------------------------------------------------
(* scheduleReconnect on an unconnected socket leaves a consistent worker,  *)
(* and does not count again what a running timer already stands for.       *)
LEMMA ScheduleOnce ==
  ASSUME NEW x \in Worker, Clean(x), x.socket = "Unconnected",
         x.reconnectTimer => mayReconnect(x) /\ x.state = "Reconnecting"
  PROVE  LET y == scheduleReconnect(x)
         IN  /\ WInv(y)
             /\ y.socket = "Unconnected"
             /\ OneMore(x, y)
             /\ x.reconnectTimer => y.reconnectAttempt = x.reconnectAttempt
             /\ x.userDisconnected => y.reconnectAttempt = x.reconnectAttempt
                                      /\ ~y.reconnectTimer
             /\ y.userDisconnected = x.userDisconnected
             /\ y.reconnectTimer => mayReconnect(y) /\ y.state = "Reconnecting"
             /\ y.connectTimeout = x.connectTimeout
  <1> USE BoundsAssumption
  <1> DEFINE y == scheduleReconnect(x)
  <1>1. CASE mayReconnect(x) /\ x.reconnectTimer
    BY <1>1 DEF scheduleReconnect, mayReconnect, WInv, Armed, Honest, Timed,
                Clean, OneMore, Worker, Attempting
  <1>2. CASE mayReconnect(x) /\ ~x.reconnectTimer
    <2>1. y = [x EXCEPT !.reconnectAttempt = smaller(AttemptCap, @ + 1),
                        !.state = "Reconnecting", !.reconnectTimer = TRUE]
      BY <1>2 DEF scheduleReconnect
    <2>2. smaller(AttemptCap, x.reconnectAttempt + 1) \in 0..AttemptCap
          /\ smaller(AttemptCap, x.reconnectAttempt + 1) <= x.reconnectAttempt + 1
      BY DEF smaller, Worker
    <2>3. y \in Worker
      BY <2>1, <2>2 DEF Worker, TcpConnectionState
    <2> QED
      BY <1>2, <2>1, <2>2, <2>3 DEF mayReconnect, WInv, Armed, Honest, Timed,
           Clean, OneMore, Worker, Attempting
  <1>3. CASE ~mayReconnect(x)
    <2>1. y = [x EXCEPT !.state = "Disconnected"]
      BY <1>3 DEF scheduleReconnect
    <2>2. y \in Worker
      BY <2>1 DEF Worker, TcpConnectionState
    <2> QED
      BY <1>3, <2>1, <2>2 DEF mayReconnect, WInv, Armed, Honest, Timed,
           Clean, OneMore, Worker, Attempting
  <1> QED BY <1>1, <1>2, <1>3

(* A second call for the same loss changes nothing. *)
LEMMA ScheduledAlready ==
  ASSUME NEW x, WInv(x), x.socket = "Unconnected"
  PROVE  scheduleReconnect(x) = x
  <1>1. CASE mayReconnect(x)
    BY <1>1 DEF scheduleReconnect, WInv, Armed
  <1>2. CASE ~mayReconnect(x)
    <2>1. x.state = "Disconnected"
      BY <1>2 DEF WInv, Armed, Honest, Worker, TcpConnectionState, Attempting
    <2>2. scheduleReconnect(x) = [x EXCEPT !.state = "Disconnected"]
      BY <1>2 DEF scheduleReconnect
    <2> QED BY <2>1, <2>2 DEF WInv, Worker
  <1> QED BY <1>1, <1>2

(* A socket that has become unconnected: both signals together schedule    *)
(* one reconnection, or none after a disconnect by the user.               *)
LEMMA LossHandled ==
  ASSUME NEW x \in Worker, Clean(x), ~x.reconnectTimer
  PROVE  LET y == becomeUnconnected(x)
         IN  /\ WInv(y)
             /\ y.socket = "Unconnected"
             /\ OneMore(x, y)
             /\ x.userDisconnected => y.reconnectAttempt = x.reconnectAttempt
                                      /\ ~y.reconnectTimer
             /\ y.userDisconnected = x.userDisconnected
             /\ y.reconnectTimer => mayReconnect(y) /\ y.state = "Reconnecting"
             /\ y.connectTimeout = x.connectTimeout
  <1> DEFINE lost == [x EXCEPT !.socket = "Unconnected", !.pendingClose = FALSE,
                               !.unsent = FALSE]
             gone == scheduleReconnect(lost)
             stopped == [gone EXCEPT !.connectTimer = "off", !.readTimer = FALSE]
             y == becomeUnconnected(x)
  <1>1. lost \in Worker /\ lost.socket = "Unconnected" /\ ~lost.reconnectTimer
        /\ Clean(lost) /\ lost.reconnectAttempt = x.reconnectAttempt
        /\ lost.userDisconnected = x.userDisconnected
        /\ lost.connectTimeout = x.connectTimeout
    BY DEF Worker, SocketStates, Clean
  <1>2. handleSocketStateChanged(lost) = gone
    BY <1>1 DEF handleSocketStateChanged
  <1>3. /\ WInv(gone) /\ gone.socket = "Unconnected" /\ OneMore(lost, gone)
        /\ lost.userDisconnected => gone.reconnectAttempt = lost.reconnectAttempt
                                    /\ ~gone.reconnectTimer
        /\ gone.userDisconnected = lost.userDisconnected
        /\ gone.reconnectTimer => mayReconnect(gone) /\ gone.state = "Reconnecting"
        /\ gone.connectTimeout = lost.connectTimeout
    BY <1>1, ScheduleOnce
  <1>4. CASE x.socket \notin {"Connected", "Closing"}
    <2>1. y = gone
      BY <1>2, <1>4 DEF becomeUnconnected
    <2> QED BY <1>1, <1>3, <2>1 DEF OneMore
  <1>5. CASE x.socket \in {"Connected", "Closing"}
    <2>1. y = scheduleReconnect(stopped)
      BY <1>2, <1>5 DEF becomeUnconnected, handleDisconnected
    <2>2. gone \in Worker
      BY <1>3 DEF WInv
    <2>3. /\ stopped \in Worker /\ Clean(stopped) /\ stopped.socket = "Unconnected"
          /\ stopped.reconnectTimer = gone.reconnectTimer
          /\ stopped.reconnectAttempt = gone.reconnectAttempt
          /\ stopped.userDisconnected = gone.userDisconnected
          /\ stopped.connectTimeout = gone.connectTimeout
          /\ stopped.state = gone.state
          /\ mayReconnect(stopped) = mayReconnect(gone)
      BY <1>3, <2>2 DEF Worker, Clean, WInv, mayReconnect
    <2>4. stopped.reconnectTimer => mayReconnect(stopped) /\ stopped.state = "Reconnecting"
      BY <1>3, <2>3
    <2>5. /\ WInv(y) /\ y.socket = "Unconnected" /\ OneMore(stopped, y)
          /\ stopped.reconnectTimer => y.reconnectAttempt = stopped.reconnectAttempt
          /\ stopped.userDisconnected => y.reconnectAttempt = stopped.reconnectAttempt
                                         /\ ~y.reconnectTimer
          /\ y.userDisconnected = stopped.userDisconnected
          /\ y.reconnectTimer => mayReconnect(y) /\ y.state = "Reconnecting"
          /\ y.connectTimeout = stopped.connectTimeout
      BY <2>1, <2>3, <2>4, ScheduleOnce
    <2>6. OneMore(x, y)
      <3>1. CASE gone.reconnectTimer
        BY <1>1, <1>3, <2>3, <2>5, <3>1 DEF OneMore
      <3>2. CASE ~gone.reconnectTimer
        <4>1. gone.reconnectAttempt = x.reconnectAttempt
          BY <1>1, <3>2 DEF scheduleReconnect, Worker
        <4> QED BY <2>3, <2>5, <4>1 DEF OneMore
      <3> QED BY <3>1, <3>2
    <2> QED BY <1>1, <1>3, <2>3, <2>5, <2>6
  <1> QED BY <1>4, <1>5

(* abort() of a consistent worker, or of one the user is disconnecting.    *)
LEMMA AbortHandled ==
  ASSUME NEW x \in Worker, Clean(x), ~x.reconnectTimer, x.socket # "Unconnected"
  PROVE  LET y == abort(x)
         IN  /\ WInv(y) /\ y.socket = "Unconnected" /\ OneMore(x, y)
             /\ x.userDisconnected => y.reconnectAttempt = x.reconnectAttempt
                                      /\ ~y.reconnectTimer
             /\ y.userDisconnected = x.userDisconnected
             /\ y.reconnectTimer => mayReconnect(y) /\ y.state = "Reconnecting"
             /\ y.connectTimeout = x.connectTimeout
  BY LossHandled DEF abort

(* A new attempt starts from a consistent worker whatever the old socket   *)
(* was doing, and the old socket's loss is not counted.                    *)
LEMMA AttemptStarted ==
  ASSUME NEW x \in Worker, Clean(x), ~x.reconnectTimer
  PROVE  WInv(startConnection(x))
         /\ startConnection(x).reconnectAttempt = x.reconnectAttempt
  <1> DEFINE dropped == [x EXCEPT !.userDisconnected = TRUE]
             y == IF x.socket = "Unconnected" THEN x ELSE abort(dropped)
             z == startConnection(x)
  <1>1. /\ y \in Worker /\ Clean(y) /\ ~y.reconnectTimer
        /\ y.reconnectAttempt = x.reconnectAttempt
    <2>1. CASE x.socket = "Unconnected"
      BY <2>1
    <2>2. CASE x.socket # "Unconnected"
      <3>1. /\ dropped \in Worker /\ Clean(dropped) /\ ~dropped.reconnectTimer
            /\ dropped.socket # "Unconnected" /\ dropped.userDisconnected
            /\ dropped.reconnectAttempt = x.reconnectAttempt
        BY <2>2 DEF Worker, Clean
      <3>2. /\ WInv(abort(dropped)) /\ ~abort(dropped).reconnectTimer
            /\ abort(dropped).reconnectAttempt = dropped.reconnectAttempt
        BY <3>1, AbortHandled
      <3> QED BY <2>2, <3>1, <3>2 DEF WInv
    <2> QED BY <2>1, <2>2
  <1> HIDE DEF y
  <1>2. z = [y EXCEPT !.userDisconnected = FALSE, !.state = "Connecting",
                !.decoder = "empty",
                !.connectTimer = IF y.connectTimeout > 0 THEN "current"
                                 ELSE IF @ = "off" THEN "off" ELSE "stale",
                !.socket = "HostLookup", !.pendingClose = FALSE, !.silent = FALSE]
    BY DEF startConnection, y
  <1>3. y.connectTimeout = 0 => y.connectTimer = "off"
    BY <1>1 DEF Clean
  <1>4. z \in Worker
    <2> DEFINE timer == IF y.connectTimeout > 0 THEN "current"
                        ELSE IF y.connectTimer = "off" THEN "off" ELSE "stale"
    <2>1. timer \in {"off", "current", "stale"}
      OBVIOUS
    <2>2. z = [y EXCEPT !.userDisconnected = FALSE, !.state = "Connecting",
                !.decoder = "empty", !.connectTimer = timer,
                !.socket = "HostLookup", !.pendingClose = FALSE, !.silent = FALSE]
      BY <1>2
    <2> HIDE DEF timer
    <2>3. y \in Worker
      BY <1>1
    <2>4. [y EXCEPT !.userDisconnected = FALSE, !.state = "Connecting",
             !.decoder = "empty", !.connectTimer = timer, !.socket = "HostLookup",
             !.pendingClose = FALSE, !.silent = FALSE] \in Worker
      BY <2>1, <2>3, AttemptTyped
    <2> QED BY <2>2, <2>4
  <1>5. /\ z.socket = "HostLookup" /\ z.state = "Connecting" /\ ~z.reconnectTimer
        /\ z.userDisconnected = FALSE /\ z.decoder = "empty"
        /\ z.connectTimeout = y.connectTimeout
        /\ z.reconnectAttempt = y.reconnectAttempt
        /\ z.connectTimer = IF y.connectTimeout > 0 THEN "current"
                            ELSE IF y.connectTimer = "off" THEN "off" ELSE "stale"
    BY <1>1, <1>2 DEF Worker
  <1>6. y.connectTimeout \in Nat
    BY <1>1 DEF Worker
  <1> HIDE DEF z
  <1>7. WInv(z)
    BY <1>3, <1>4, <1>5, <1>6 DEF WInv, Armed, Honest, Timed, Clean, mayReconnect,
         Attempting
  <1> QED BY <1>1, <1>5, <1>7 DEF z

(* A successful connection: every timer as it should be.                   *)
LEMMA ConnectionMade ==
  ASSUME NEW x \in Worker, Clean(x), x.socket = "Connected"
  PROVE  LET y == handleConnected(x)
         IN  WInv(y) /\ ~y.reconnectTimer /\ y.socket = "Connected" /\ OneMore(x, y)
             /\ y.reconnectAttempt = 0
  <1> DEFINE y == handleConnected(x)
  <1>1. y \in Worker
    <2> DEFINE timer == x.readTimer \/ x.readTimeout > 0
    <2>1. timer \in BOOLEAN
      OBVIOUS
    <2>2. y = [x EXCEPT !.userDisconnected = FALSE, !.connectTimer = "off",
                        !.reconnectTimer = FALSE, !.reconnectAttempt = 0,
                        !.readTimer = timer, !.state = "Connected"]
      BY DEF handleConnected
    <2> HIDE DEF timer
    <2>3. [x EXCEPT !.userDisconnected = FALSE, !.connectTimer = "off",
             !.reconnectTimer = FALSE, !.reconnectAttempt = 0,
             !.readTimer = timer, !.state = "Connected"] \in Worker
      BY <2>1, NoAttempt, ConnectionTyped
    <2> QED BY <2>2, <2>3
  <1>2. /\ y.socket = "Connected" /\ y.state = "Connected" /\ ~y.reconnectTimer
        /\ ~y.userDisconnected /\ y.connectTimer = "off" /\ y.decoder = x.decoder
        /\ y.reconnectAttempt = 0
        /\ y.readTimeout = x.readTimeout
        /\ y.readTimer <=> (x.readTimer \/ x.readTimeout > 0)
    BY DEF handleConnected, Worker
  <1>3. x.reconnectAttempt \in Nat /\ x.decoder # "stale"
    BY DEF Worker, Clean
  <1> HIDE DEF y
  <1> QED BY <1>1, <1>2, <1>3 DEF WInv, Armed, Honest, Timed, Clean,
               mayReconnect, Attempting, OneMore, y

(* An orderly close of an open socket; a Closing socket is reported as     *)
(* what it was, or as disconnected when the user asked for the close.      *)
LEMMA OpenSocketClosed ==
  ASSUME NEW x, WInv(x), x.socket \in {"Connected", "Closing"}
  PROVE  WInv(close(x)) /\ OneMore(x, close(x))
  <1> DEFINE y == close(x)
  <1>1. x \in Worker /\ Clean(x) /\ ~x.reconnectTimer
    BY DEF WInv, Armed, mayReconnect
  <1>2. CASE x.unsent
    <2>1. y = [x EXCEPT !.socket = "Closing"]
      BY <1>2 DEF close, Attempting
    <2>2. y \in Worker
      BY <1>1, <2>1 DEF Worker, SocketStates
    <2> QED BY <1>1, <2>1, <2>2 DEF WInv, Armed, Honest, Timed, Clean,
                 mayReconnect, Attempting, OneMore, Worker
  <1>3. CASE ~x.unsent
    <2>1. y = becomeUnconnected(x)
      BY <1>3 DEF close, Attempting
    <2> QED BY <1>1, <2>1, LossHandled
  <1> QED BY <1>2, <1>3

(* A close the user asked for: never a reconnection, in whatever state the *)
(* socket was.                                                             *)
LEMMA UserClose ==
  ASSUME NEW x \in Worker, Clean(x), ~x.reconnectTimer, x.userDisconnected,
         x.connectTimer = "off"
  PROVE  LET y == close(x)
         IN  /\ y \in Worker /\ Clean(y) /\ ~y.reconnectTimer /\ y.userDisconnected
             /\ y.reconnectAttempt = x.reconnectAttempt /\ y.socket # "Connected"
             /\ y.socket \in Attempting => y.connectTimer # "stale"
  <1> DEFINE y == close(x)
  <1>1. CASE x.socket = "Unconnected"
    BY <1>1 DEF close, Attempting
  <1>2. CASE x.socket \in Attempting
    <2>1. y = [x EXCEPT !.pendingClose = TRUE]
      BY <1>2 DEF close, Attempting
    <2> QED BY <1>2, <2>1 DEF Worker, Clean, Attempting
  <1>3. CASE x.socket \in {"Connected", "Closing"} /\ x.unsent
    <2>1. y = [x EXCEPT !.socket = "Closing"]
      BY <1>3 DEF close, Attempting
    <2> QED BY <2>1 DEF Worker, Clean, Attempting, SocketStates
  <1>4. CASE x.socket \in {"Connected", "Closing"} /\ ~x.unsent
    <2>1. y = becomeUnconnected(x)
      BY <1>4 DEF close, Attempting
    <2> QED BY <2>1, LossHandled DEF WInv, Attempting
  <1> QED BY <1>1, <1>2, <1>3, <1>4 DEF Worker, SocketStates, Attempting

-----------------------------------------------------------------------------
(* The slots that connect and disconnect. *)
LEMMA ConnectStep ==
  ASSUME WInv(w), connectToHost \/ reconnectNow \/ disconnectFromHost \/ shutdown
  PROVE  WInv(w') /\ OneMore(w, w')
  <1> USE DEF Command
  <1>1. w \in Worker /\ Clean(w)
    BY DEF WInv
  <1>2. CASE connectToHost
    <2> DEFINE x == [w EXCEPT !.hasHost = TRUE, !.reconnectTimer = FALSE,
                              !.reconnectAttempt = 0, !.wanted = TRUE]
    <2>1. x \in Worker
      BY <1>1, NoAttempt DEF Worker
    <2>2. Clean(x) /\ ~x.reconnectTimer /\ x.reconnectAttempt = 0
      BY <1>1 DEF Worker, Clean
    <2>3. w' = startConnection(x)
      BY <1>2 DEF connectToHost
    <2>4. WInv(w') /\ w'.reconnectAttempt = 0
      BY <2>1, <2>2, <2>3, AttemptStarted
    <2> QED BY <1>1, <2>4 DEF OneMore, Worker
  <1>3. CASE reconnectNow
    <2> DEFINE x == [w EXCEPT !.reconnectTimer = FALSE,
                              !.reconnectAttempt = 0, !.wanted = TRUE]
    <2>1. x \in Worker
      BY <1>1, NoAttempt DEF Worker
    <2>2. Clean(x) /\ ~x.reconnectTimer /\ x.reconnectAttempt = 0
      BY <1>1 DEF Worker, Clean
    <2>3. w' = startConnection(x)
      BY <1>3 DEF reconnectNow
    <2>4. WInv(w') /\ w'.reconnectAttempt = 0
      BY <2>1, <2>2, <2>3, AttemptStarted
    <2> QED BY <1>1, <2>4 DEF OneMore, Worker
  <1>4. CASE disconnectFromHost
    <2> DEFINE x == [w EXCEPT !.userDisconnected = TRUE, !.reconnectTimer = FALSE,
                           !.connectTimer = "off", !.readTimer = FALSE,
                           !.decoder = "empty", !.wanted = FALSE]
               y == close(x)
               z == [y EXCEPT !.state = "Disconnected"]
    <2>1. x \in Worker
      BY <1>1 DEF Worker
    <2>2. /\ Clean(x) /\ ~x.reconnectTimer /\ x.userDisconnected
          /\ x.reconnectAttempt = w.reconnectAttempt /\ x.socket = w.socket
          /\ x.connectTimer = "off"
      BY <1>1 DEF Worker, Clean
    <2>3. /\ y \in Worker /\ Clean(y) /\ ~y.reconnectTimer /\ y.userDisconnected
          /\ y.reconnectAttempt = w.reconnectAttempt /\ y.socket # "Connected"
          /\ y.socket \in Attempting => y.connectTimer # "stale"
      BY <2>1, <2>2, UserClose
    <2> HIDE DEF y
    <2>4. w' = z
      BY <1>4 DEF disconnectFromHost, y
    <2>5. /\ z \in Worker
          /\ z.state = "Disconnected" /\ z.socket = y.socket
          /\ z.reconnectTimer = y.reconnectTimer
          /\ z.userDisconnected = y.userDisconnected
          /\ z.connectTimer = y.connectTimer /\ z.decoder = y.decoder
          /\ z.connectTimeout = y.connectTimeout
          /\ z.reconnectAttempt = y.reconnectAttempt
      BY <2>3 DEF Worker, TcpConnectionState
    <2> HIDE DEF z
    <2>6. WInv(z)
      BY <2>3, <2>5 DEF WInv, Armed, Honest, Timed, Clean, mayReconnect
    <2> QED BY <1>1, <2>3, <2>4, <2>5, <2>6 DEF OneMore, Worker
  <1>5. CASE shutdown
    <2> DEFINE x == [w EXCEPT !.reconnectEnabled = FALSE, !.userDisconnected = TRUE,
                           !.reconnectTimer = FALSE, !.connectTimer = "off",
                           !.readTimer = FALSE, !.wanted = FALSE]
               y == abort(x)
               z == [y EXCEPT !.state = "Disconnected"]
    <2>1. x \in Worker
      BY <1>1 DEF Worker
    <2>2. /\ Clean(x) /\ ~x.reconnectTimer /\ x.userDisconnected
          /\ x.reconnectAttempt = w.reconnectAttempt
      BY <1>1 DEF Worker, Clean
    <2>3. /\ y \in Worker /\ Clean(y) /\ ~y.reconnectTimer /\ y.userDisconnected
          /\ y.reconnectAttempt = w.reconnectAttempt /\ y.socket = "Unconnected"
      <3>1. CASE x.socket = "Unconnected"
        BY <2>1, <2>2, <3>1 DEF abort
      <3>2. CASE x.socket # "Unconnected"
        BY <2>1, <2>2, <3>2, AbortHandled DEF WInv
      <3> QED BY <3>1, <3>2
    <2> HIDE DEF y
    <2>4. w' = z
      BY <1>5 DEF shutdown, y
    <2>5. /\ z \in Worker
          /\ z.state = "Disconnected" /\ z.socket = y.socket
          /\ z.reconnectTimer = y.reconnectTimer
          /\ z.userDisconnected = y.userDisconnected
          /\ z.connectTimer = y.connectTimer /\ z.decoder = y.decoder
          /\ z.connectTimeout = y.connectTimeout
          /\ z.reconnectAttempt = y.reconnectAttempt
      BY <2>3 DEF Worker, TcpConnectionState
    <2> HIDE DEF z
    <2>6. WInv(z)
      BY <2>3, <2>5 DEF WInv, Armed, Honest, Timed, Clean, mayReconnect, Attempting
    <2> QED BY <1>1, <2>3, <2>4, <2>5, <2>6 DEF OneMore, Worker
  <1> QED BY <1>2, <1>3, <1>4, <1>5

(* The settings and sendFrame. *)
LEMMA SettingStep ==
  ASSUME WInv(w),
         \/ sendFrame
         \/ \E enabled \in BOOLEAN : setReconnectEnabled(enabled)
         \/ \E delay \in Delays :
              setReconnectDelayMs(delay) \/ setReconnectMaxDelayMs(delay)
         \/ \E timeout \in Timeouts :
              setConnectTimeoutMs(timeout) \/ setReadTimeoutMs(timeout)
  PROVE  WInv(w') /\ OneMore(w, w')
  <1>1. w \in Worker /\ Clean(w)
    BY DEF WInv
  <1>2. CASE sendFrame
    <2>1. PICK buffered \in BOOLEAN : w' = [w EXCEPT !.unsent = w.unsent \/ buffered]
      BY <1>2 DEF sendFrame
    <2>2. PICK unsent \in BOOLEAN : w' = [w EXCEPT !.unsent = unsent]
      BY <2>1
    <2> QED BY <1>1, <2>2 DEF WInv, Armed, Honest, Timed, Clean, OneMore,
                 mayReconnect, Worker
  <1>3. ASSUME NEW enabled \in BOOLEAN, setReconnectEnabled(enabled)
        PROVE  WInv(w') /\ OneMore(w, w')
    <2> DEFINE x == [w EXCEPT !.reconnectEnabled = enabled]
    <2>1. /\ x \in Worker /\ Clean(x) /\ x.reconnectAttempt = w.reconnectAttempt
          /\ x.socket = w.socket /\ x.state = w.state
          /\ x.userDisconnected = w.userDisconnected /\ x.hasHost = w.hasHost
          /\ x.reconnectTimer = w.reconnectTimer /\ x.reconnectEnabled = enabled
      BY <1>1 DEF Worker, Clean
    <2>2. CASE ~enabled
      <3> DEFINE state == IF x.state = "Reconnecting" THEN "Disconnected" ELSE x.state
      <3>1. state \in TcpConnectionState
        BY <2>1 DEF Worker, TcpConnectionState
      <3>2. w' = [x EXCEPT !.reconnectTimer = FALSE, !.state = state]
        BY <1>3, <2>2 DEF setReconnectEnabled
      <3>3. state # "Reconnecting" /\ (w.state # "Reconnecting" => state = w.state)
            /\ (w.state = "Reconnecting" => state = "Disconnected")
        BY <2>1
      <3> HIDE DEF state
      <3>4. w' \in Worker
        BY <2>1, <3>1, <3>2 DEF Worker
      <3> QED BY <1>1, <2>2, <3>2, <3>3, <3>4 DEF WInv, Armed, Honest, Timed,
                   Clean, OneMore, mayReconnect, Worker
    <2>3. CASE enabled /\ x.socket = "Unconnected" /\ ~x.userDisconnected /\ x.hasHost
      <3>1. w' = scheduleReconnect(x)
        BY <1>3, <2>3 DEF setReconnectEnabled
      <3>2. x.reconnectTimer => mayReconnect(x) /\ x.state = "Reconnecting"
        BY <2>1, <2>3 DEF WInv, Armed, mayReconnect
      <3>3. WInv(w') /\ OneMore(x, w')
        BY <2>1, <2>3, <3>1, <3>2, ScheduleOnce
      <3> QED BY <2>1, <3>3 DEF OneMore
    <2>4. CASE enabled /\ ~(x.socket = "Unconnected" /\ ~x.userDisconnected /\ x.hasHost)
      <3>1. w' = x
        BY <1>3, <2>4 DEF setReconnectEnabled
      <3> QED BY <1>1, <2>1, <2>4, <3>1 DEF WInv, Armed, Honest, Timed, Clean,
                   OneMore, mayReconnect, Worker
    <2> QED BY <2>2, <2>3, <2>4
  <1>4. ASSUME NEW delay \in Delays, setReconnectDelayMs(delay)
        PROVE  WInv(w') /\ OneMore(w, w')
    <2> DEFINE least == larger(50, delay)
               most == larger(w.reconnectMaxDelay, larger(50, delay))
    <2>1. delay \in Int
      BY SettingsAssumption DEF SettingsAssumption
    <2>2. least \in Nat /\ most \in Nat
      BY <1>1, <2>1 DEF larger, Worker
    <2>3. w' = [w EXCEPT !.reconnectDelay = least, !.reconnectMaxDelay = most]
      BY <1>4 DEF setReconnectDelayMs
    <2> HIDE DEF least, most
    <2>4. w' \in Worker
      BY <1>1, <2>2, <2>3 DEF Worker
    <2> QED BY <1>1, <2>3, <2>4 DEF WInv, Armed, Honest, Timed, Clean, OneMore,
                 mayReconnect, Worker
  <1>5. ASSUME NEW delay \in Delays, setReconnectMaxDelayMs(delay)
        PROVE  WInv(w') /\ OneMore(w, w')
    <2>1. PICK most \in Nat : w' = [w EXCEPT !.reconnectMaxDelay = most]
      BY <1>1, <1>5, SettingsAssumption
         DEF setReconnectMaxDelayMs, larger, Worker, SettingsAssumption
    <2> QED BY <1>1, <2>1 DEF WInv, Armed, Honest, Timed, Clean, OneMore,
                 mayReconnect, Worker
  <1>6. ASSUME NEW timeout \in Timeouts, setConnectTimeoutMs(timeout)
        PROVE  WInv(w') /\ OneMore(w, w')
    <2> DEFINE timer == IF timeout <= 0 THEN "off"
                        ELSE IF w.socket \in Attempting THEN "current"
                        ELSE w.connectTimer
               bounded == larger(0, timeout)
    <2>1. timeout \in Int
      BY SettingsAssumption DEF SettingsAssumption
    <2>2. /\ timer \in {"off", "current", "stale"} /\ bounded \in Nat
          /\ bounded = 0 => timer = "off"
          /\ (w.socket \in Attempting /\ bounded > 0) => timer = "current"
          /\ timeout <= 0 => bounded = 0
      BY <1>1, <2>1 DEF larger, Worker
    <2>3. w' = [w EXCEPT !.connectTimeout = bounded, !.connectTimer = timer]
      BY <1>6 DEF setConnectTimeoutMs
    <2> HIDE DEF timer, bounded
    <2>4. w' \in Worker
      BY <1>1, <2>2, <2>3 DEF Worker
    <2> QED BY <1>1, <2>2, <2>3, <2>4 DEF WInv, Armed, Honest, Timed, Clean, OneMore,
                 mayReconnect, Worker
  <1>7. ASSUME NEW timeout \in Timeouts, setReadTimeoutMs(timeout)
        PROVE  WInv(w') /\ OneMore(w, w')
    <2> DEFINE timer == timeout > 0 /\ (w.readTimer \/ w.socket = "Connected")
               bounded == larger(0, timeout)
    <2>1. timeout \in Int
      BY SettingsAssumption DEF SettingsAssumption
    <2>2. /\ timer \in BOOLEAN /\ bounded \in Nat
          /\ (w.socket = "Connected" /\ bounded > 0) => timer
      BY <2>1 DEF larger
    <2>3. w' = [w EXCEPT !.readTimeout = bounded, !.readTimer = timer]
      BY <1>7 DEF setReadTimeoutMs
    <2> HIDE DEF timer, bounded
    <2>4. w' \in Worker
      BY <1>1, <2>2, <2>3 DEF Worker
    <2> QED BY <1>1, <2>2, <2>3, <2>4 DEF WInv, Armed, Honest, Timed, Clean, OneMore,
                 mayReconnect, Worker
  <1> QED BY <1>2, <1>3, <1>4, <1>5, <1>6, <1>7

(* The timers; each has fired, so it no longer runs. *)
LEMMA TimerStep ==
  ASSUME WInv(w), Timers
  PROVE  WInv(w') /\ OneMore(w, w')
  <1>1. w \in Worker /\ Clean(w)
    BY DEF WInv
  <1>2. w.socket # "Unconnected" => ~w.reconnectTimer
    BY DEF WInv, Armed, mayReconnect
  <1>3. CASE handleConnectTimeout
    <2> DEFINE x == [w EXCEPT !.connectTimer = "off"]
    <2>1. /\ x \in Worker /\ Clean(x) /\ x.reconnectTimer = w.reconnectTimer
          /\ x.reconnectAttempt = w.reconnectAttempt /\ x.socket = w.socket
      BY <1>1 DEF Worker, Clean
    <2>2. CASE x.socket \in Attempting
      <3>1. x.socket # "Unconnected" /\ ~x.reconnectTimer
        BY <1>2, <2>1, <2>2 DEF Attempting
      <3> DEFINE y == abort(x)
      <3>2. /\ WInv(y) /\ y.socket = "Unconnected" /\ OneMore(x, y)
            /\ y.reconnectTimer => mayReconnect(y) /\ y.state = "Reconnecting"
        BY <2>1, <3>1, AbortHandled
      <3>3. w' = scheduleReconnect(y)
        BY <1>3, <2>2 DEF handleConnectTimeout
      <3>4. scheduleReconnect(y) = y
        BY <3>2, ScheduledAlready
      <3> QED BY <2>1, <3>2, <3>3, <3>4 DEF OneMore
    <2>3. CASE x.socket \notin Attempting
      <3>1. w' = x
        BY <1>3, <2>3 DEF handleConnectTimeout
      <3> QED BY <1>1, <2>1, <2>3, <3>1 DEF WInv, Armed, Honest, Timed, Clean,
                   OneMore, mayReconnect, Worker
    <2> QED BY <2>2, <2>3
  <1>4. CASE handleReadTimeout
    <2> DEFINE x == [w EXCEPT !.readTimer = FALSE]
    <2>1. /\ x \in Worker /\ Clean(x) /\ x.reconnectTimer = w.reconnectTimer
          /\ x.reconnectAttempt = w.reconnectAttempt /\ x.socket = w.socket
      BY <1>1 DEF Worker, Clean
    <2>2. CASE x.socket = "Connected"
      <3> DEFINE y == abort(x)
      <3>1. /\ WInv(y) /\ y.socket = "Unconnected" /\ OneMore(x, y)
            /\ y.reconnectTimer => mayReconnect(y) /\ y.state = "Reconnecting"
        BY <1>2, <2>1, <2>2, AbortHandled
      <3>2. w' = scheduleReconnect(y)
        BY <1>4, <2>2 DEF handleReadTimeout
      <3>3. scheduleReconnect(y) = y
        BY <3>1, ScheduledAlready
      <3> QED BY <2>1, <3>1, <3>2, <3>3 DEF OneMore
    <2>3. CASE x.socket # "Connected"
      <3>1. w' = x
        BY <1>4, <2>3 DEF handleReadTimeout
      <3> QED BY <1>1, <2>1, <2>3, <3>1 DEF WInv, Armed, Honest, Timed, Clean,
                   OneMore, mayReconnect, Worker
    <2> QED BY <2>2, <2>3
  <1>5. CASE handleReconnectTimer
    <2> DEFINE x == [w EXCEPT !.reconnectTimer = FALSE]
    <2>1. /\ x \in Worker /\ Clean(x) /\ ~x.reconnectTimer
          /\ x.reconnectAttempt = w.reconnectAttempt /\ x.socket = w.socket
          /\ x.userDisconnected = w.userDisconnected /\ x.hasHost = w.hasHost
      BY <1>1 DEF Worker, Clean
    <2>2. mayReconnect(w)
      BY <1>5 DEF WInv, Armed, handleReconnectTimer
    <2>3. w' = startConnection(x)
      BY <1>5, <2>1, <2>2 DEF handleReconnectTimer, mayReconnect
    <2>4. WInv(w') /\ w'.reconnectAttempt = x.reconnectAttempt
      BY <2>1, <2>3, AttemptStarted
    <2> QED BY <1>1, <2>1, <2>4 DEF OneMore, Worker
  <1> QED BY <1>3, <1>4, <1>5 DEF Timers

(* The network. *)
LEMMA NetworkStep ==
  ASSUME WInv(w), Network
  PROVE  WInv(w') /\ OneMore(w, w')
  <1>1. w \in Worker /\ Clean(w)
    BY DEF WInv
  <1>2. w.socket # "Unconnected" => ~w.reconnectTimer
    BY DEF WInv, Armed, mayReconnect
  <1>3. CASE hostFound
    <2>1. w' = [w EXCEPT !.socket = "Connecting"] /\ w.socket = "HostLookup"
      BY <1>3 DEF hostFound
    <2>2. w' \in Worker
      BY <1>1, <2>1 DEF Worker, SocketStates
    <2> QED BY <1>1, <2>1, <2>2 DEF WInv, Armed, Honest, Timed, Clean, OneMore,
                 mayReconnect, Worker, Attempting
  <1>4. CASE connectSucceeds
    <2> DEFINE open == [w EXCEPT !.socket = "Connected", !.pendingClose = FALSE]
               x == handleConnected(open)
    <2>1. /\ open \in Worker /\ Clean(open) /\ open.socket = "Connected"
      BY <1>1 DEF Worker, Clean, SocketStates
    <2>2. WInv(x) /\ x.socket = "Connected" /\ x.reconnectAttempt = 0
      BY <2>1, ConnectionMade
    <2> HIDE DEF x
    <2>3. OneMore(w, x)
      BY <1>1, <2>2 DEF OneMore, Worker
    <2>4. CASE w.pendingClose
      <3>1. w' = close(x)
        BY <1>4, <2>4 DEF connectSucceeds, x
      <3>2. WInv(close(x)) /\ OneMore(x, close(x))
        BY <2>2, OpenSocketClosed
      <3>3. close(x).reconnectAttempt \in Nat
        BY <3>2 DEF WInv, Worker
      <3> QED BY <1>1, <2>2, <3>1, <3>2, <3>3 DEF OneMore, Worker
    <2>5. CASE ~w.pendingClose
      <3>1. w' = x
        BY <1>4, <2>5 DEF connectSucceeds, x
      <3> QED BY <2>2, <2>3, <3>1
    <2> QED BY <2>4, <2>5
  <1>5. CASE connectFails
    <2>1. w' = becomeUnconnected(w) /\ ~w.reconnectTimer
      BY <1>2, <1>5 DEF connectFails, Attempting
    <2> QED BY <1>1, <2>1, LossHandled
  <1>6. CASE handleReadyRead
    <2>1. PICK rest \in {"empty", "current"} :
            w' = [w EXCEPT !.readTimer = w.readTimer \/ w.readTimeout > 0,
                           !.decoder = IF w.decoder = "stale" THEN "stale" ELSE rest]
      BY <1>6 DEF handleReadyRead
    <2> DEFINE timer == w.readTimer \/ w.readTimeout > 0
    <2>2. timer \in BOOLEAN /\ (w.readTimeout > 0 => timer)
      OBVIOUS
    <2>3. w' = [w EXCEPT !.readTimer = timer, !.decoder = rest]
      BY <1>1, <2>1 DEF Clean
    <2> HIDE DEF timer
    <2>4. w' \in Worker
      BY <1>1, <2>2, <2>3 DEF Worker
    <2> QED BY <1>1, <2>2, <2>3, <2>4 DEF WInv, Armed, Honest, Timed, Clean, OneMore,
                 mayReconnect, Worker
  <1>7. CASE peerCloses
    <2>1. w' = close(w) /\ w.socket = "Connected"
      BY <1>7 DEF peerCloses
    <2> QED BY <2>1, OpenSocketClosed
  <1>8. CASE peerDies
    <2>1. w' = [w EXCEPT !.silent = TRUE]
      BY <1>8 DEF peerDies
    <2>2. w' \in Worker
      BY <1>1, <2>1 DEF Worker
    <2> QED BY <1>1, <2>1, <2>2 DEF WInv, Armed, Honest, Timed, Clean, OneMore,
                 mayReconnect, Worker
  <1>9. CASE bytesSent
    <2>1. CASE w.socket = "Closing"
      <3>1. w' = becomeUnconnected(w) /\ ~w.reconnectTimer
        BY <1>2, <1>9, <2>1 DEF bytesSent
      <3> QED BY <1>1, <3>1, LossHandled
    <2>2. CASE w.socket # "Closing"
      <3>1. w' = [w EXCEPT !.unsent = FALSE]
        BY <1>9, <2>2 DEF bytesSent
      <3>2. w' \in Worker
        BY <1>1, <3>1 DEF Worker
      <3> QED BY <1>1, <3>1, <3>2 DEF WInv, Armed, Honest, Timed, Clean, OneMore,
                   mayReconnect, Worker
    <2> QED BY <2>1, <2>2
  <1> QED BY <1>3, <1>4, <1>5, <1>6, <1>7, <1>8, <1>9 DEF Network

-----------------------------------------------------------------------------
LEMMA InitIInv == Init => IInv
  <1> SUFFICES ASSUME Init PROVE IInv
    OBVIOUS
  <1>1. w \in Worker
    BY NoAttempt DEF Init, Worker, SocketStates, TcpConnectionState
  <1>2. WInv(w)
    BY <1>1 DEF Init, WInv, Armed, Honest, Timed, Clean, mayReconnect, Attempting
  <1>3. alive \in BOOLEAN /\ commands \in 0..MaxCommands
    BY BoundsAssumption DEF Init, BoundsAssumption
  <1> QED BY <1>2, <1>3 DEF IInv

LEMMA SlotsCounted ==
  ASSUME IInv, Slots
  PROVE  alive' \in BOOLEAN /\ commands' \in 0..MaxCommands
  <1>1. Command /\ (alive' = alive \/ alive' = FALSE)
    BY DEF Slots, connectToHost, disconnectFromHost, reconnectNow, shutdown,
           sendFrame, setReconnectEnabled, setReconnectDelayMs,
           setReconnectMaxDelayMs, setConnectTimeoutMs, setReadTimeoutMs
  <1>2. alive' \in BOOLEAN
    BY <1>1 DEF IInv
  <1>3. commands' \in 0..MaxCommands
    BY <1>1, BoundsAssumption DEF IInv, Command, BoundsAssumption
  <1> QED BY <1>2, <1>3

LEMMA NextIInv ==
  ASSUME IInv, [Next]_vars
  PROVE  IInv' /\ OneMore(w, w')
  <1>1. WInv(w) /\ w \in Worker
    BY DEF IInv, WInv
  <1>2. CASE Slots
    <2>1. WInv(w') /\ OneMore(w, w')
      BY <1>1, <1>2, ConnectStep, SettingStep DEF Slots
    <2> QED BY <1>2, <2>1, SlotsCounted DEF IInv
  <1>3. CASE Timers
    <2>1. WInv(w') /\ OneMore(w, w')
      BY <1>1, <1>3, TimerStep
    <2>2. UNCHANGED <<alive, commands>>
      BY <1>3 DEF Timers, handleConnectTimeout, handleReadTimeout,
           handleReconnectTimer
    <2> QED BY <2>1, <2>2 DEF IInv
  <1>4. CASE Network
    <2>1. WInv(w') /\ OneMore(w, w')
      BY <1>1, <1>4, NetworkStep
    <2>2. UNCHANGED <<alive, commands>>
      BY <1>4 DEF Network, hostFound, connectSucceeds, connectFails,
           handleReadyRead, peerCloses, peerDies, bytesSent
    <2> QED BY <2>1, <2>2 DEF IInv
  <1>5. CASE UNCHANGED vars
    <2>1. w' = w /\ alive' = alive /\ commands' = commands
      BY <1>5 DEF vars
    <2>2. OneMore(w, w')
      BY <1>1, <2>1 DEF OneMore, Worker
    <2> QED BY <2>1, <2>2 DEF IInv
  <1> QED BY <1>2, <1>3, <1>4, <1>5 DEF Next

-----------------------------------------------------------------------------
(* Between any two calls the worker is consistent: the inductive invariant *)
(* the theorems below follow from.                                         *)
THEOREM Invariance == Spec => []IInv
  <1>1. Init => IInv
    BY InitIInv
  <1>2. IInv /\ [Next]_vars => IInv'
    BY NextIInv
  <1> QED BY <1>1, <1>2, PTL DEF Spec

(* The members, the socket and the timers always hold values of their      *)
(* types.                                                                  *)
THEOREM TypeCorrect == Spec => []TypeOK
  <1>1. IInv => TypeOK
    BY DEF IInv, WInv, TypeOK
  <1> QED BY <1>1, Invariance, PTL

(* For any settings and any number of calls, a lost connection that should *)
(* be restored always has its reconnection armed, and no reconnection is   *)
(* armed otherwise (scheduleReconnect and all its callers).                *)
THEOREM ReconnectAlwaysArmed == Spec => []ReconnectArmed
  <1>1. IInv => ReconnectArmed
    BY DEF IInv, WInv, Armed, ReconnectArmed
  <1> QED BY <1>1, Invariance, PTL

(* The reported state is always the socket's (setState in every handler).  *)
THEOREM StateAlwaysHonest == Spec => []StateHonest
  <1>1. IInv => StateHonest
    BY DEF IInv, WInv, Honest, StateHonest
  <1> QED BY <1>1, Invariance, PTL

(* Every attempt has the whole connect timeout and every connection its    *)
(* read timeout (startConnection, handleConnected, the timeout setters).   *)
THEOREM AlwaysTimed == Spec => [](AttemptTimed /\ ConnectionTimed)
  <1>1. IInv => AttemptTimed /\ ConnectionTimed
    BY DEF IInv, WInv, Timed, AttemptTimed, ConnectionTimed
  <1> QED BY <1>1, Invariance, PTL

(* No connection finds an earlier one's bytes in the decoder               *)
(* (startConnection).                                                      *)
THEOREM DecoderNeverMixes == Spec => []DecoderOfOneConnection
  <1>1. IInv => DecoderOfOneConnection
    BY DEF IInv, WInv, Clean, DecoderOfOneConnection
  <1> QED BY <1>1, Invariance, PTL

(* Whatever handlers a loss runs through, it counts as one attempt         *)
(* (scheduleReconnect).                                                    *)
THEOREM LossAlwaysCountedOnce == Spec => LossCountedOnce
  <1>1. IInv /\ [Next]_vars => [w'.reconnectAttempt <= w.reconnectAttempt + 1]_vars
    BY NextIInv DEF OneMore
  <1> QED BY <1>1, Invariance, PTL DEF Spec, LossCountedOnce
=============================================================================
