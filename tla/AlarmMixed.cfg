\* One device whose clock may be one unit off, one rule id, every kind of
\* rule: hysteresis, activation delay, timeouts, rule changes, lost saves,
\* restarts.  The local clock may stand still between calls.
CONSTANTS
  d1 = d1
  d2 = d2
  None = None
  Devices = {d1}
  RuleIds = {r1}
  RuleConfigs <- MixedConfigs
  Samples <- Temperatures
  Operators = {op}
  MaxTime = 1
  MaxEvents = 2
  MaxSkew = 1
  SavesMayFail = TRUE
SPECIFICATION Spec
INVARIANTS TypeOK TablesAgree AcknowledgementDurable RestoredWithinSkew
PROPERTIES LifecycleSpec
CHECK_DEADLOCK FALSE
