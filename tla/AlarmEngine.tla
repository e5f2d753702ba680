----------------------------- MODULE AlarmEngine -----------------------------
(***************************************************************************)
(* The alarm engine: threshold and offline rules with hysteresis and an    *)
(* activation delay, per-key alarm events, their persistence and their     *)
(* recovery.  Every public method of the class is one action.              *)
(*                                                                         *)
(* A call reads the local clock, which may also stand still between calls; *)
(* a heartbeat carries the sending device's own timestamp.  A uuid is      *)
(* modelled by the serial number of the event within its key.              *)
(***************************************************************************)
EXTENDS Integers

CONSTANTS
  Devices,       (* device ids                                             *)
  RuleIds,       (* rule ids                                               *)
  RuleConfigs,   (* the rule contents a caller may pass, valid or not      *)
  Samples,       (* readings: functions from measurements to values        *)
  Operators,     (* operator names                                         *)
  None,          (* absence of a rule, an event, a time or a name          *)
  MaxTime,       (* bound: last instant of the local clock                 *)
  MaxEvents,     (* bound: alarm events of one key                         *)
  MaxSkew,       (* how far a device's clock may be from the local one     *)
  SavesMayFail   (* may the repository refuse a save?                      *)

Time == (-MaxSkew)..(MaxTime + MaxSkew)
EventIds == 1..MaxEvents
Keys == Devices \X RuleIds
OpenStates == {"Active", "Acknowledged"}

Event == [eventId : EventIds,
          state : OpenStates \cup {"Cleared"},
          updatedAt : Time,
          acknowledgedBy : Operators \cup {None}]

RuleTypes == {"HighThreshold", "LowThreshold", "Offline"}

ASSUME BoundsAssumption ==
  /\ MaxTime \in Nat
  /\ MaxEvents \in Nat
  /\ MaxSkew \in Nat
  /\ SavesMayFail \in BOOLEAN

ASSUME RulesAssumption ==
  \A c \in RuleConfigs :
    /\ c.type \in RuleTypes
    /\ c.enabled \in BOOLEAN
    /\ c.activationDelay \in Int
    /\ c.offlineTimeout \in Int

ASSUME NoneAssumption ==
  /\ None \notin Event
  /\ None \notin Time
  /\ None \notin RuleConfigs
  /\ None \notin Operators

VARIABLES
  rules,          (* m_rules: the configuration of each rule id, or None   *)
  alarm,          (* per key: m_activeEvents, m_lastEvents, m_candidates,
                     the repository's events and three history fields      *)
  lastHeartbeat,  (* m_lastHeartbeat: last device timestamp, or None       *)
  deviceOnline,   (* m_deviceOnline: what the last heartbeat said          *)
  clock,          (* local time of the last call                           *)
  lastCall        (* history only: the kind of the last call               *)

vars == <<rules, alarm, lastHeartbeat, deviceOnline, clock, lastCall>>

Calls == {"evaluate", "acknowledge", "recover"}

(* raised counts the events created, unsaved tells that a save of this     *)
(* key's events was lost, and since is the local time at which the current *)
(* unbroken run of evaluations that met the condition began.               *)
AlarmSlot == [active : Event \cup {None},
              last : Event \cup {None},
              candidate : Time \cup {None},
              stored : [EventIds -> Event \cup {None}],
              raised : 0..MaxEvents,
              unsaved : BOOLEAN,
              since : Time \cup {None}]

EmptySlot == [active |-> None, last |-> None, candidate |-> None,
              stored |-> [n \in EventIds |-> None],
              raised |-> 0, unsaved |-> FALSE, since |-> None]

Init ==
  /\ rules = [r \in RuleIds |-> None]
  /\ alarm = [k \in Keys |-> EmptySlot]
  /\ lastHeartbeat = [d \in Devices |-> None]
  /\ deviceOnline = [d \in Devices |-> FALSE]
  /\ clock = 0
  /\ lastCall = "recover"

-----------------------------------------------------------------------------
(* Rules *)

isValid(c) ==
  /\ c.activationDelay >= 0
  /\ c.offlineTimeout >= 0
  /\ c.type = "Offline" => c.offlineTimeout > 0
  /\ c.type # "Offline" => c.hysteresis >= 0

matchesDevice(c, d) == d \in c.devices

conditionMet(c, value) ==
  \/ c.type = "HighThreshold" /\ value > c.threshold
  \/ c.type = "LowThreshold" /\ value < c.threshold

recoveryMet(c, value) ==
  \/ c.type = "HighThreshold" /\ value <= c.threshold - c.hysteresis
  \/ c.type = "LowThreshold" /\ value >= c.threshold + c.hysteresis
  \/ c.type = "Offline"

isAlarmTransitionAllowed(from, to) ==
  \/ from = "Normal" /\ to = "Active"
  \/ from = "Active" /\ to \in {"Acknowledged", "Cleared"}
  \/ from = "Acknowledged" /\ to = "Cleared"
  \/ from = "Cleared" /\ to = "Normal"

-----------------------------------------------------------------------------
(* One key.  saved tells whether the repository accepts a save made during *)
(* this call; a refused save is reported and otherwise ignored.            *)

(* Replaces the event with the same id or appends it; the events of a key  *)
(* are first saved in the order of their serial numbers.                   *)
saveEvent(stored, event) == [stored EXCEPT ![event.eventId] = event]

persistEvent(s, event, saved) ==
  IF saved THEN [s EXCEPT !.stored = saveEvent(@, event)]
           ELSE [s EXCEPT !.unsaved = TRUE]

raiseAlarm(s, at, saved) ==
  LET event == [eventId |-> s.raised + 1, state |-> "Active",
                updatedAt |-> at, acknowledgedBy |-> None]
  IN  [persistEvent(s, event, saved) EXCEPT
         !.active = event, !.last = event, !.raised = s.raised + 1]

(* Mutants: a cleared event gets the wrong state, keeps its old last       *)
(* entry, or is not saved.                                                 *)
clearAlarm_StateNormal(s, at, saved) ==
  [s EXCEPT !.active = None, !.candidate = None,
            !.last = [s.active EXCEPT !.state = "Normal", !.updatedAt = at]]

clearAlarm_KeepsLast(s, at, saved) ==
  LET cleared == [s.active EXCEPT !.state = "Cleared", !.updatedAt = at]
  IN  [persistEvent(s, cleared, saved) EXCEPT !.active = None, !.candidate = None]

clearAlarm_NotSaved(s, at, saved) ==
  LET cleared == [s.active EXCEPT !.state = "Cleared", !.updatedAt = at]
  IN  [s EXCEPT !.active = None, !.last = cleared, !.candidate = None]

clearAlarm(s, at, saved) ==
  LET cleared == [s.active EXCEPT !.state = "Cleared", !.updatedAt = at]
  IN  IF isAlarmTransitionAllowed(s.active.state, "Cleared")
      THEN [persistEvent(s, cleared, saved) EXCEPT
              !.active = None, !.last = cleared, !.candidate = None]
      ELSE s

(* Mutant: an acknowledged alarm whose condition is met again is shown as  *)
(* a new, unacknowledged one.                                              *)
evaluateOpen_Reopens(s, c, condition, recovery, at, saved) ==
  LET event == [s.active EXCEPT !.updatedAt = at,
                                !.state = IF condition THEN "Active" ELSE @]
      touched == [s EXCEPT !.active = event, !.last = event]
  IN  IF condition THEN [touched EXCEPT !.candidate = None]
      ELSE IF recovery \/ c.type = "Offline" THEN clearAlarm(touched, at, saved)
      ELSE touched

(* An open alarm is touched, and cleared on recovery; between the two      *)
(* thresholds it stays open.                                               *)
evaluateOpen(s, c, condition, recovery, at, saved) ==
  LET event == [s.active EXCEPT !.updatedAt = at]
      touched == [s EXCEPT !.active = event, !.last = event]
  IN  IF condition THEN [touched EXCEPT !.candidate = None]
      ELSE IF recovery \/ c.type = "Offline" THEN clearAlarm(touched, at, saved)
      ELSE touched

(* A key without an alarm: the condition must hold from the candidate time *)
(* on for the activation delay; a clock that ran backwards restarts it.    *)
evaluateNormal(s, c, condition, at, saved) ==
  LET noCandidate == [s EXCEPT !.candidate = None]
      restart == s.candidate = None \/ s.candidate > at
  IN  IF ~condition THEN noCandidate
      ELSE IF c.activationDelay <= 0 THEN raiseAlarm(noCandidate, at, saved)
      ELSE IF restart THEN [s EXCEPT !.candidate = at]
      ELSE IF at - s.candidate >= c.activationDelay
           THEN raiseAlarm(noCandidate, at, saved)
      ELSE s

evaluateRuleState(s, c, condition, recovery, at, saved) ==
  IF s.active # None
  THEN evaluateOpen(s, c, condition, recovery, at, saved)
  ELSE evaluateNormal(s, c, condition, at, saved)

(* History only: the run of met conditions, in local time. *)
noteRun(s, condition, now) ==
  [s EXCEPT !.since = IF ~condition THEN None
                      ELSE IF s.since = None THEN now ELSE s.since]

(* The event restore() takes for a key: the greatest updatedAt, and among  *)
(* equal ones the first in the repository's order.                         *)
latestStored(s) ==
  LET ids == {n \in EventIds : s.stored[n] # None}
      latest == {n \in ids : \A m \in ids :
                   /\ s.stored[m].updatedAt <= s.stored[n].updatedAt
                   /\ m < n => s.stored[m].updatedAt < s.stored[n].updatedAt}
  IN  IF latest = {} THEN None ELSE s.stored[CHOOSE n \in latest : TRUE]

restored(s) ==
  LET event == latestStored(s)
      open == event # None /\ event.state \in OpenStates
  IN  [s EXCEPT !.active = IF open THEN event ELSE None,
                !.last = event, !.candidate = None, !.since = None]

-----------------------------------------------------------------------------
(* Calls *)

CallTimes == clock..MaxTime

(* The keys whose save the repository accepts in one call. *)
SaveOutcomes(touched) == IF SavesMayFail THEN SUBSET touched ELSE {touched}

DeviceTimes(now) == (now - MaxSkew)..(now + MaxSkew)

(* Bound: no call creates more than MaxEvents events for a key.            *)
mayRaise(s) == s.active # None \/ s.raised < MaxEvents

(* Mutant: a new rule set keeps the pending activations. *)
setRules_KeepsCandidates(new) ==
  /\ rules' = [r \in RuleIds |->
                 IF new[r] # None /\ isValid(new[r]) THEN new[r] ELSE None]
  /\ alarm' = [k \in Keys |-> [alarm[k] EXCEPT !.since = None]]
  /\ lastCall' = "evaluate"
  /\ UNCHANGED <<lastHeartbeat, deviceOnline, clock>>

setRules(new) ==
  /\ rules' = [r \in RuleIds |->
                 IF new[r] # None /\ isValid(new[r]) THEN new[r] ELSE None]
  /\ alarm' = [k \in Keys |->
                 [alarm[k] EXCEPT !.candidate = None, !.since = None]]
  /\ lastCall' = "evaluate"
  /\ UNCHANGED <<lastHeartbeat, deviceOnline, clock>>

addRule(r, c) ==
  /\ isValid(c)
  /\ rules' = [rules EXCEPT ![r] = c]
  /\ lastCall' = "evaluate"
  /\ UNCHANGED <<alarm, lastHeartbeat, deviceOnline, clock>>

clearRules ==
  /\ rules' = [r \in RuleIds |-> None]
  /\ alarm' = [k \in Keys |->
                 [alarm[k] EXCEPT !.candidate = None, !.since = None]]
  /\ lastCall' = "evaluate"
  /\ UNCHANGED <<lastHeartbeat, deviceOnline, clock>>

(* restore(), also reached through setRepository(); when the repository    *)
(* cannot be read nothing changes.                                         *)
restore ==
  /\ alarm' = [k \in Keys |-> restored(alarm[k])]
  /\ lastCall' = "recover"
  /\ UNCHANGED <<rules, lastHeartbeat, deviceOnline, clock>>

(* A new engine is built on the same repository, as after a restart of the *)
(* process; the repository may be unreadable at that moment.               *)
Restart ==
  /\ \E readable \in BOOLEAN :
       alarm' = [k \in Keys |->
                   IF readable THEN restored(alarm[k])
                   ELSE [alarm[k] EXCEPT !.active = None, !.last = None,
                                         !.candidate = None, !.since = None]]
  /\ rules' = [r \in RuleIds |-> None]
  /\ lastHeartbeat' = [d \in Devices |-> None]
  /\ deviceOnline' = [d \in Devices |-> FALSE]
  /\ lastCall' = "recover"
  /\ UNCHANGED clock

(* A sample holds only the readings of good quality. *)
appliesTo(k, d, sample) ==
  LET c == rules[k[2]]
  IN  /\ k[1] = d
      /\ c # None /\ c.enabled /\ c.type # "Offline" /\ matchesDevice(c, d)
      /\ c.measurement \in DOMAIN sample

processTelemetry(d, sample) ==
  \E at \in CallTimes, saved \in SaveOutcomes({k \in Keys : appliesTo(k, d, sample)}) :
    LET next(k) ==
          LET c == rules[k[2]]
              v == sample[c.measurement]
          IN  evaluateRuleState(noteRun(alarm[k], conditionMet(c, v), at), c,
                                conditionMet(c, v), recoveryMet(c, v), at,
                                k \in saved)
    IN  /\ \A k \in Keys : appliesTo(k, d, sample) => mayRaise(alarm[k])
        /\ alarm' = [k \in Keys |->
                       IF appliesTo(k, d, sample) THEN next(k) ELSE alarm[k]]
        /\ clock' = at
        /\ lastCall' = "evaluate"
        /\ UNCHANGED <<rules, lastHeartbeat, deviceOnline>>

offlineRuleOf(k) ==
  LET c == rules[k[2]]
  IN  c # None /\ c.enabled /\ c.type = "Offline" /\ matchesDevice(c, k[1])

(* Mutant: the timeout fires one unit early. *)
isOffline_OneEarly(c, d, heartbeat, online, checkAt) ==
  \/ ~online[d]
  \/ heartbeat[d] <= checkAt /\ checkAt - heartbeat[d] + 1 >= c.offlineTimeout

isOffline(c, d, heartbeat, online, checkAt) ==
  \/ ~online[d]
  \/ heartbeat[d] <= checkAt /\ checkAt - heartbeat[d] >= c.offlineTimeout

(* What updateOfflineStates(checkAt) does to one key, for given heartbeat  *)
(* tables; now is the local time, used by the history field only.          *)
checkOffline(s, k, heartbeat, online, checkAt, now, saved) ==
  IF offlineRuleOf(k) /\ heartbeat[k[1]] # None
  THEN LET c == rules[k[2]]
           offline == isOffline(c, k[1], heartbeat, online, checkAt)
       IN  evaluateRuleState(noteRun(s, offline, now), c, offline, ~offline,
                             checkAt, saved)
  ELSE s

updateOfflineStates ==
  \E at \in CallTimes, saved \in SaveOutcomes({k \in Keys : offlineRuleOf(k)}) :
    /\ \A k \in Keys : offlineRuleOf(k) => mayRaise(alarm[k])
    /\ alarm' = [k \in Keys |-> checkOffline(alarm[k], k, lastHeartbeat,
                                  deviceOnline, at, at, k \in saved)]
    /\ clock' = at
    /\ lastCall' = "evaluate"
    /\ UNCHANGED <<rules, lastHeartbeat, deviceOnline>>

(* The device's own keys are evaluated with what it reports, then every    *)
(* device is checked for a timeout against this device's timestamp.        *)
processHeartbeat(d, isOnline) ==
  \E now \in CallTimes, saved \in SaveOutcomes({k \in Keys : offlineRuleOf(k)}) :
    \E at \in DeviceTimes(now) :
      LET heartbeat == [lastHeartbeat EXCEPT ![d] = at]
          online == [deviceOnline EXCEPT ![d] = isOnline]
          own(k) == IF k[1] = d /\ offlineRuleOf(k)
                    THEN evaluateRuleState(noteRun(alarm[k], ~isOnline, now),
                           rules[k[2]], ~isOnline, isOnline, at, k \in saved)
                    ELSE alarm[k]
      IN  /\ \A k \in Keys : offlineRuleOf(k) => mayRaise(alarm[k])
          /\ lastHeartbeat' = heartbeat
          /\ deviceOnline' = online
          /\ alarm' = [k \in Keys |-> checkOffline(own(k), k, heartbeat,
                                        online, at, now, k \in saved)]
          /\ clock' = now
          /\ lastCall' = "evaluate"
          /\ UNCHANGED rules

(* Mutant: the engine acknowledges although the save was refused. *)
acknowledge_IgnoresSave(k, operator) ==
  LET s == alarm[k]
  IN  /\ s.active # None
      /\ s.active.state = "Active"
      /\ \E at \in CallTimes, saved \in BOOLEAN :
           LET event == [s.active EXCEPT !.state = "Acknowledged",
                           !.updatedAt = at, !.acknowledgedBy = operator]
           IN  /\ alarm' = [alarm EXCEPT ![k] =
                     [persistEvent(s, event, saved) EXCEPT
                        !.active = event, !.last = event]]
               /\ clock' = at
      /\ lastCall' = "acknowledge"
      /\ UNCHANGED <<rules, lastHeartbeat, deviceOnline>>

(* Only an unacknowledged open alarm; saved first, so a refused save       *)
(* leaves the engine as it was.                                            *)
acknowledge(k, operator) ==
  LET s == alarm[k]
  IN  /\ s.active # None
      /\ s.active.state = "Active"
      /\ \E at \in CallTimes :
           LET event == [s.active EXCEPT !.state = "Acknowledged",
                           !.updatedAt = at, !.acknowledgedBy = operator]
           IN  /\ alarm' = [alarm EXCEPT ![k] =
                     [s EXCEPT !.active = event, !.last = event,
                               !.stored = saveEvent(@, event)]]
               /\ clock' = at
      /\ lastCall' = "acknowledge"
      /\ UNCHANGED <<rules, lastHeartbeat, deviceOnline>>

Next ==
  \/ \E new \in [RuleIds -> RuleConfigs \cup {None}] : setRules(new)
  \/ \E r \in RuleIds, c \in RuleConfigs : addRule(r, c)
  \/ clearRules
  \/ restore
  \/ Restart
  \/ \E d \in Devices, sample \in Samples : processTelemetry(d, sample)
  \/ \E d \in Devices, isOnline \in BOOLEAN : processHeartbeat(d, isOnline)
  \/ updateOfflineStates
  \/ \E k \in Keys, operator \in Operators : acknowledge(k, operator)

Spec == Init /\ [][Next]_vars

-----------------------------------------------------------------------------
(* Properties *)

(* Every table holds values of its type: events with a serial number, times *)
(* inside the bounds (members of the AlarmEngine class).                    *)
TypeOK ==
  /\ rules \in [RuleIds -> RuleConfigs \cup {None}]
  /\ alarm \in [Keys -> AlarmSlot]
  /\ lastHeartbeat \in [Devices -> Time \cup {None}]
  /\ deviceOnline \in [Devices -> BOOLEAN]
  /\ clock \in 0..MaxTime
  /\ lastCall \in Calls

(* The two event tables never disagree: the last event of a key is open    *)
(* exactly when the key has an active event, and it is that event          *)
(* (evaluateRuleState, raiseAlarm, clearAlarm, acknowledge and restore all *)
(* update both).                                                           *)
TablesAgree ==
  \A k \in Keys :
    LET s == alarm[k]
    IN  IF s.active # None
        THEN s.last = s.active /\ s.active.state \in OpenStates
        ELSE s.last # None => s.last.state = "Cleared"

(* A pending activation exists only for a key without an alarm, so an open *)
(* alarm can never be raised a second time by a leftover candidate.        *)
CandidateOnlyWhileNormal ==
  \A k \in Keys : alarm[k].candidate # None => alarm[k].active = None

(* An acknowledgement the operator saw succeed survives any crash: the     *)
(* repository holds the same event as acknowledged by the same operator,   *)
(* even if the save at activation was lost (acknowledge() saves first).    *)
AcknowledgementDurable ==
  \A k \in Keys :
    LET s == alarm[k]
    IN  (s.active # None /\ s.active.state = "Acknowledged")
          => LET e == s.stored[s.active.eventId]
             IN  /\ e # None /\ e.state = "Acknowledged"
                 /\ e.acknowledgedBy = s.active.acknowledgedBy

(* The repository never forgets who acknowledged an event, whatever is     *)
(* saved, cleared or restored later.                                       *)
AcknowledgementKept ==
  [][\A k \in Keys, n \in EventIds :
       (alarm[k].stored[n] # None /\ alarm[k].stored[n].acknowledgedBy # None)
         => /\ alarm'[k].stored[n] # None
            /\ alarm'[k].stored[n].acknowledgedBy
                 = alarm[k].stored[n].acknowledgedBy]_vars

(* A cleared occurrence is over for good: the repository never turns a     *)
(* cleared event back into an open one.                                    *)
ClearedIsFinal ==
  [][\A k \in Keys, n \in EventIds :
       (alarm[k].stored[n] # None /\ alarm[k].stored[n].state = "Cleared")
         => alarm'[k].stored[n].state = "Cleared"]_vars

(* An engine restored from the repository at this instant would show the   *)
(* same event in the same state as the running one, for every key whose    *)
(* saves all succeeded.  What lastStateAndRestore in AlarmEngineTest       *)
(* asserts of restored engines.                                            *)
RestoredEngineAgrees ==
  \A k \in Keys :
    LET s == alarm[k]
        e == latestStored(s)
    IN  (~s.unsaved /\ s.last # None)
          => /\ e # None
             /\ e.eventId = s.last.eventId
             /\ e.state = s.last.state
             /\ e.acknowledgedBy = s.last.acknowledgedBy

(* What the code does keep of that, whatever the clocks say: for every key *)
(* whose saves all succeeded the repository has the event the engine shows *)
(* in the state it shows, and restore() takes that event or one stamped    *)
(* later by no more than two device clocks can differ -- with exact clocks *)
(* only an event saved at the very same instant.                           *)
RestoredWithinSkew ==
  \A k \in Keys :
    LET s == alarm[k]
        e == latestStored(s)
        own == s.stored[s.last.eventId]
    IN  (~s.unsaved /\ s.last # None)
          => /\ own # None
             /\ own.state = s.last.state
             /\ own.acknowledgedBy = s.last.acknowledgedBy
             /\ e # None
             /\ e # own => e.updatedAt - own.updatedAt \in 0..(2 * MaxSkew)

(* The duration filter: an alarm is raised only when its condition has     *)
(* been met at every evaluation since a local instant at least             *)
(* activationDelay ago, counting from the last setRules or restore.        *)
DurationFilter ==
  [][\A k \in Keys :
       alarm'[k].raised > alarm[k].raised
         => /\ alarm'[k].since # None
            /\ clock' - alarm'[k].since >= rules[k[2]].activationDelay]_vars

(* No device is declared offline while it reports online and its last      *)
(* heartbeat is younger, in local time, than the rule's timeout, whichever *)
(* device's heartbeat or timer tick caused the check.                      *)
OfflineJustified ==
  [][\A k \in Keys :
       (offlineRuleOf(k) /\ alarm'[k].raised > alarm[k].raised)
         => \/ ~deviceOnline'[k[1]]
            \/ clock' - lastHeartbeat'[k[1]] >= rules[k[2]].offlineTimeout]_vars

(* The engine implements the operator's view of an alarm's life: which     *)
(* occurrence a key shows and in which state, and what storage records of  *)
(* every occurrence (restore() and a new engine recover, acknowledge()     *)
(* acknowledges, every other call evaluates).                              *)
Lifecycle == INSTANCE AlarmLifecycle WITH
  Numbers <- EventIds,
  state <- [k \in Keys |-> IF alarm[k].active = None THEN "Normal"
                           ELSE alarm[k].active.state],
  current <- [k \in Keys |-> IF alarm[k].active = None THEN 0
                             ELSE alarm[k].active.eventId],
  occurrences <- [k \in Keys |-> alarm[k].raised],
  recorded <- [k \in Keys |-> [n \in EventIds |->
                 IF alarm[k].stored[n] = None THEN "None"
                 ELSE alarm[k].stored[n].state]]

LifecycleSpec == Lifecycle!Spec
=============================================================================
