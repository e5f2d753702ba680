\* The user disconnects while the socket is still connecting.
CONSTANTS
  Delays <- ReconnectDelays
  Timeouts <- OffAndOn
  AttemptCap = 2
  MaxCommands = 3
SPECIFICATION Spec
INVARIANTS ManualDisconnectSuppressesReconnect
CHECK_DEADLOCK FALSE
