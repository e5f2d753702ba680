\* As AlarmTiming, but asking for exact agreement: an alarm clears and the next
\* occurrence is raised at the same instant.
CONSTANTS
  d1 = d1
  d2 = d2
  None = None
  Devices = {d1, d2}
  RuleIds = {r1}
  RuleConfigs <- OfflineConfigs
  Samples <- NoSamples
  Operators = {op}
  MaxTime = 4
  MaxEvents = 2
  MaxSkew = 0
  SavesMayFail = TRUE
SPECIFICATION Spec
INVARIANTS RestoredEngineAgrees
CHECK_DEADLOCK FALSE
