------------------------------- MODULE DeviceLink -------------------------------
(***************************************************************************)
(* The device simulator's server, a TCP stream that arrives in pieces of   *)
(* any size, and the decoder at the other end of it.  Besides the          *)
(* simulator, whose frames are whole, the peer may be a device that writes *)
(* damaged ones.  The client's connection handling is that of              *)
(* TcpConnectionWorker: here a connection begins with an empty decoder and *)
(* ends with finish().                                                     *)
(***************************************************************************)
EXTENDS FrameDecoder, FiniteSets

CONSTANTS
    Clients,        \* connections of monitors
    DeviceCount,
    Scenarios,      \* those a device may be switched to
    Damages,        \* byte values that a damaged device may write
    MaxSequence,    \* bound on m_sequence
    MaxUnits        \* bound on what is written to one connection

Devices == 1..DeviceCount

\* The most that a connection can hold, as damaged units are no longer than a frame.
MaxBytes == MaxUnits * kMaxFrameSize

\* The device id and the payloads scaled to a byte of telemetry.
HeartbeatSize == kMinFrameSize
TelemetrySize == kMinFrameSize + 1

ASSUME LinkAssumption ==
    /\ kMaxFrameSize >= TelemetrySize
    /\ DeviceCount \in Nat \ {0} /\ MaxSequence \in Nat /\ MaxUnits \in Nat
    /\ Contents \in [0..MaxSequence -> [1..kMaxFrameSize -> Nat]]
    /\ "Normal" \in Scenarios
    /\ Scenarios \subseteq {"Normal", "HighTemperature", "HighPressure", "Offline",
                            "BadCrc", "ActiveDisconnect"}
    /\ \A values \in Damages : values \in Seq(Nat) /\ Len(values) <= kMaxFrameSize

VARIABLES
    listening,   \* m_server and, with it, m_timer
    wireFormat,
    running, scenario,  \* of each device
    m_sequence,
    m_clients,
    link         \* of each client

vars == <<listening, wireFormat, running, scenario, m_sequence, m_clients, link>>

\* One write to a socket: a whole frame, or anything else.
Unit == [frame: BOOLEAN, bytes: Seq(Byte)]

\* `written' is what the server wrote, `taken' the bytes of it that have arrived.
Link == [state: {"none", "pending", "open", "closing", "closed"},
         written: Seq(Unit),
         channel: Seq(Byte), taken: Nat,
         buffer: Seq(Byte), frames: Seq(Nat)]

NoLink == [state |-> "none", written |-> << >>, channel |-> << >>, taken |-> 0,
           buffer |-> << >>, frames |-> << >>]

TypeOK ==
    /\ listening \in BOOLEAN
    /\ wireFormat \in {"ProtocolV1", "JsonLines"}
    /\ running \in [Devices -> BOOLEAN]
    /\ scenario \in [Devices -> Scenarios]
    /\ m_sequence \in 0..MaxSequence
    /\ m_clients \subseteq Clients
    /\ link \in [Clients -> Link]

-----------------------------------------------------------------------------
(* What a tick of the timer writes *)

Frame(bytes) == [frame |-> TRUE, bytes |-> bytes]
Damaged(bytes) == [frame |-> FALSE, bytes |-> bytes]

\* A device that asks for a disconnect writes nothing in this tick.
Writers == {d \in Devices : ~(running[d] /\ scenario[d] = "ActiveDisconnect")}

\* One device's part of sendTelemetry(), when the next frame has number n.
UnitOf(d, n) ==
    IF wireFormat = "JsonLines" THEN Damaged(Raw(<<0>>))
    ELSE IF ~running[d] THEN Frame(Encode(HeartbeatSize, n))
    ELSE IF scenario[d] = "BadCrc" THEN Damaged(WithBadCrc(Encode(TelemetrySize, n)))
    ELSE Frame(Encode(TelemetrySize, n))

\* The devices write one after the other.
Units ==
    [k \in 1..Cardinality(Writers) |->
        UnitOf(CHOOSE d \in Writers : Cardinality({e \in Writers : e < d}) = k - 1,
               m_sequence + k - 1)]

\* The stream that the units make.
BytesOf[units \in Seq(Unit)] ==
    IF units = << >> THEN << >>
    ELSE BytesOf[SubSeq(units, 1, Len(units) - 1)] \o units[Len(units)].bytes

\* QTcpSocket::write() on a connected socket.
Write(l, units) == [l EXCEPT !.written = @ \o units, !.channel = @ \o BytesOf[units]]

Writable(c) == c \in m_clients /\ link[c].state = "open"

-----------------------------------------------------------------------------
(* DeviceSimulatorServer *)

\* Sockets that stop() deletes may not get rid of all their bytes; connections
\* that were not accepted yet go with the listening socket.
Dropped(c, length) ==
    IF c \in m_clients /\ link[c].state \in {"open", "closing"}
    THEN [link[c] EXCEPT !.state = "closed", !.channel = SubSeq(@, 1, length)]
    ELSE IF link[c].state = "pending" THEN NoLink
    ELSE link[c]

Stop ==
    /\ listening
    /\ listening' = FALSE
    /\ m_clients' = {}
    /\ \E length \in [Clients -> 0..MaxBytes] :
        /\ \A c \in Clients : length[c] <= Len(link[c].channel)
        /\ link' = [c \in Clients |-> Dropped(c, length[c])]
    /\ UNCHANGED <<wireFormat, running, scenario, m_sequence>>

\* The window starts a server that is stopped.
Start ==
    /\ ~listening
    /\ listening' = TRUE
    /\ UNCHANGED <<wireFormat, running, scenario, m_sequence, m_clients, link>>

SetScenario(d, s) ==
    /\ running[d]
    /\ scenario' = [scenario EXCEPT ![d] = s]
    /\ UNCHANGED <<listening, wireFormat, running, m_sequence, m_clients, link>>

\* A device that is started again begins with the normal scenario.
SetDeviceRunning(d, run) ==
    /\ running[d] # run
    /\ running' = [running EXCEPT ![d] = run]
    /\ scenario' = IF run THEN [scenario EXCEPT ![d] = "Normal"] ELSE scenario
    /\ UNCHANGED <<listening, wireFormat, m_sequence, m_clients, link>>

\* The window offers the choice while the server is stopped.
SetWireFormat(format) ==
    /\ ~listening /\ wireFormat # format
    /\ wireFormat' = format
    /\ UNCHANGED <<listening, running, scenario, m_sequence, m_clients, link>>

HandleNewConnection ==
    LET pending == {c \in Clients : link[c].state = "pending"}
    IN  /\ listening /\ pending # {}
        /\ m_clients' = m_clients \cup pending
        /\ link' = [c \in Clients |-> IF c \in pending
                                      THEN [link[c] EXCEPT !.state = "open"]
                                      ELSE link[c]]
        /\ UNCHANGED <<listening, wireFormat, running, scenario, m_sequence>>

\* The socket has sent what it had, or its peer is gone.
HandleClientDisconnected(c) ==
    /\ c \in m_clients /\ link[c].state \in {"closing", "none"}
    /\ m_clients' = m_clients \ {c}
    /\ link' = IF link[c].state = "closing" THEN [link EXCEPT ![c].state = "closed"]
               ELSE link
    /\ UNCHANGED <<listening, wireFormat, running, scenario, m_sequence>>

\* disconnectAllClients(), when a device of this tick asks for it.
Disconnects == \E d \in Devices : running[d] /\ scenario[d] = "ActiveDisconnect"

SendTelemetry ==
    LET After(c) == [Write(link[c], Units) EXCEPT
                        !.state = IF Disconnects THEN "closing" ELSE @]
    IN  /\ listening
        /\ m_sequence + DeviceCount <= MaxSequence
        /\ \A c \in m_clients : Len(link[c].written) + DeviceCount <= MaxUnits
        /\ link' = [c \in Clients |-> IF Writable(c) THEN After(c) ELSE link[c]]
        /\ m_sequence' = IF wireFormat = "ProtocolV1" THEN m_sequence + Len(Units)
                         ELSE m_sequence
        /\ UNCHANGED <<listening, wireFormat, running, scenario, m_clients>>

-----------------------------------------------------------------------------
(* The network, a damaged device, and the monitor's end *)

Connect(c) ==
    /\ listening /\ link[c].state = "none" /\ c \notin m_clients
    /\ link' = [link EXCEPT ![c] = [NoLink EXCEPT !.state = "pending"]]
    /\ UNCHANGED <<listening, wireFormat, running, scenario, m_sequence, m_clients>>

WriteDamaged(c, values) ==
    /\ Writable(c) /\ Len(link[c].written) < MaxUnits
    /\ link' = [link EXCEPT ![c] = Write(@, <<Damaged(Raw(values))>>)]
    /\ UNCHANGED <<listening, wireFormat, running, scenario, m_sequence, m_clients>>

\* readyRead: whatever has arrived is appended and decoded.
ReadyRead(c, n) ==
    LET l == link[c]
        drained == Drain[l.buffer \o SubSeq(l.channel, 1, n)]
    IN  /\ n <= Len(l.channel)
        /\ link' = [link EXCEPT ![c] =
                      [l EXCEPT !.channel = SubSeq(@, n + 1, Len(@)), !.taken = @ + n,
                                !.buffer = drained.rest,
                                !.frames = @ \o drained.frames]]
        /\ UNCHANGED <<listening, wireFormat, running, scenario, m_sequence, m_clients>>

\* The stream has ended: finish() reports and discards what is left.
Finish(c) ==
    /\ link[c].state = "closed" /\ link[c].channel = << >>
    /\ link' = [link EXCEPT ![c] = NoLink]
    /\ UNCHANGED <<listening, wireFormat, running, scenario, m_sequence, m_clients>>

\* The monitor closes its side; the server learns of it later.
Disconnect(c) ==
    /\ link[c].state # "none"
    /\ link' = [link EXCEPT ![c] = NoLink]
    /\ UNCHANGED <<listening, wireFormat, running, scenario, m_sequence, m_clients>>

-----------------------------------------------------------------------------

Init ==
    /\ listening = FALSE
    /\ wireFormat = "ProtocolV1"
    /\ running = [d \in Devices |-> TRUE]
    /\ scenario = [d \in Devices |-> "Normal"]
    /\ m_sequence = 0
    /\ m_clients = {}
    /\ link = [c \in Clients |-> NoLink]

Server ==
    \/ Start \/ Stop \/ HandleNewConnection \/ SendTelemetry
    \/ \E c \in Clients : HandleClientDisconnected(c)
    \/ \E d \in Devices : \/ \E s \in Scenarios : SetScenario(d, s)
                          \/ \E run \in BOOLEAN : SetDeviceRunning(d, run)
    \/ \E format \in {"ProtocolV1", "JsonLines"} : SetWireFormat(format)

Next ==
    \/ Server
    \/ \E c \in Clients :
        \/ Connect(c) \/ Finish(c) \/ Disconnect(c)
        \/ \E n \in 1..MaxBytes : ReadyRead(c, n)
        \/ \E values \in Damages : WriteDamaged(c, values)

Spec == Init /\ [][Next]_vars

-----------------------------------------------------------------------------
(* Properties *)

\* The frames a monitor gets are frames the server wrote whole to this
\* connection, each once and in their order, however the stream was cut and
\* whatever was damaged between them.
FramesInOrder ==
    \A c \in Clients : LET l == link[c] IN
        /\ \A i, j \in DOMAIN l.frames : i < j => l.frames[i] < l.frames[j]
        /\ \A i \in DOMAIN l.frames : \E k \in DOMAIN l.written :
              l.written[k].frame /\ l.written[k].bytes[1].of = l.frames[i]

\* Where the k-th thing written to a connection starts in its stream, and ends.
StartOf(units, k) == Len(BytesOf[SubSeq(units, 1, k - 1)])
EndOf(units, k) == Len(BytesOf[SubSeq(units, 1, k)])

\* A header at place x with which no whole frame begins: until its announced
\* size has passed, the decoder may take what follows for the rest of it.
Announces(units, x, place) ==
    LET stream == BytesOf[units]
    IN  /\ HasMagic(stream, x) /\ stream[x + 3].value \in kMinFrameSize..kMaxFrameSize
        /\ \A j \in DOMAIN units : units[j].frame => StartOf(units, j) # x
        /\ x < place /\ place < x + stream[x + 3].value

\* Every whole frame that has arrived was decoded, unless it began inside the
\* size that such a header had announced: no damage reaches further than that.
NoFrameLost ==
    \A c \in Clients : LET l == link[c] IN
        \A k \in DOMAIN l.written :
            l.written[k].frame /\ EndOf(l.written, k) <= l.taken
            => \/ \E i \in DOMAIN l.frames : l.frames[i] = l.written[k].bytes[1].of
               \/ \E x \in 0..(l.taken - kHeaderSize) :
                     Announces(l.written, x, StartOf(l.written, k))

\* Between two arrivals the buffer holds less than one frame, and never a whole
\* one: a frame is not kept back until more data comes.
NothingWaits ==
    \A c \in Clients : LET buffer == link[c].buffer IN
        /\ Len(buffer) < kMaxFrameSize
        /\ \A k \in 0..Len(buffer) : ~CompleteFrameAt(buffer, k)

=============================================================================
