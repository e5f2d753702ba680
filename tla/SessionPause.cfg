\* Start, pause, stop, start: collection is shown running, frames are dropped.
CONSTANTS
  Devices = {d1}
  NoDevice = NoDevice
  AttemptCap = 0
  MaxClicks = 4
  MaxSignals = 2
SPECIFICATION Spec
INVARIANT RunningCollects
CHECK_DEADLOCK FALSE
