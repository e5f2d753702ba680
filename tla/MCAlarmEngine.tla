---------------------------- MODULE MCAlarmEngine ----------------------------
(***************************************************************************)
(* Small instances of AlarmEngine.  Readings 1, 2 and 3 lie below, at and  *)
(* above the threshold 2; with hysteresis 1 a high rule's alarm recovers   *)
(* at 1 only, and 2 lies between its two thresholds.                       *)
(***************************************************************************)
EXTENDS AlarmEngine

CONSTANTS d1, d2

thresholdRule(type, delay, hyst) ==
  [type |-> type, measurement |-> "Temperature", threshold |-> 2,
   hysteresis |-> hyst, activationDelay |-> delay, offlineTimeout |-> 0,
   devices |-> {d1}, enabled |-> TRUE]

offlineRule(delay, timeout) ==
  [type |-> "Offline", activationDelay |-> delay, offlineTimeout |-> timeout,
   devices |-> {d1}, enabled |-> TRUE]

(* An immediate high rule with hysteresis, a delayed low rule without, an  *)
(* offline rule, and two invalid rules: a negative hysteresis and a        *)
(* missing timeout.                                                        *)
MixedConfigs == {thresholdRule("HighThreshold", 0, 1),
                 thresholdRule("LowThreshold", 1, 0),
                 offlineRule(0, 2),
                 thresholdRule("HighThreshold", 0, -1), offlineRule(0, 0)}

(* Immediate and delayed offline rules for d1, whose timeout d2's          *)
(* heartbeats check as well, and one without a timeout, which is invalid.  *)
OfflineConfigs == {offlineRule(0, 2), offlineRule(1, 1), offlineRule(0, 0)}

Temperatures == {[Temperature |-> v] : v \in 1..3}
NoSamples == {}
=============================================================================
