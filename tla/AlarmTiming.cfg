\* Synchronised device clocks: what the alarm timing promises.  The local clock
\* may stand still between two calls.
CONSTANTS
  d1 = d1
  d2 = d2
  None = None
  Devices = {d1, d2}
  RuleIds = {r1}
  RuleConfigs <- OfflineConfigs
  Samples <- NoSamples
  Operators = {op}
  MaxTime = 3
  MaxEvents = 2
  MaxSkew = 0
  SavesMayFail = TRUE
SPECIFICATION Spec
PROPERTIES DurationFilter OfflineJustified
CHECK_DEADLOCK FALSE
