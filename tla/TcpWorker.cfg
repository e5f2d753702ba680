\* Any six calls of public slots, interleaved with every behaviour of the
\* network and the timers.
CONSTANTS
  Delays <- ReconnectDelays
  Timeouts <- OffAndOn
  AttemptCap = 10
  MaxCommands = 6
SPECIFICATION FairSpec
INVARIANTS ReconnectArmed StateHonest AttemptTimed DecoderOfOneConnection
PROPERTIES BackoffInRange KeepsTrying DeadPeerNoticed AttemptsEnd
CHECK_DEADLOCK FALSE
