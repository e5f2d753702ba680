\* Any six clicks, in sessions whose queued slots and signals overlap; with
\* and without automatic reconnection.
CONSTANTS
  Devices = {d1}
  NoDevice = NoDevice
  AttemptCap = 0
  MaxClicks = 6
  MaxSignals = 3
SPECIFICATION Spec
INVARIANTS StateSettles LossStopsCollection OnlineOnlyConnected StoppedShowsNothing
CHECK_DEADLOCK FALSE
