-------------------------- MODULE AlarmEngineProofs --------------------------
(***************************************************************************)
(* Type correctness and the storage-related safety of the alarm engine,    *)
(* for any devices, rules, bounds, clock skew and save failures; that the  *)
(* engine implements AlarmLifecycle; and what it promises about time and   *)
(* about restored engines, as far as the clocks allow.                     *)
(***************************************************************************)
EXTENDS AlarmEngine, WellFoundedInduction, TLAPS

(* An event that is merely active has not been acknowledged by anybody. *)
FreshUnacknowledged(e) == e.state = "Active" => e.acknowledgedBy = None

(* What holds of one key's slot between calls.  The repository files an    *)
(* event under its own serial number, which has been used; an open event   *)
(* is the last one, is stored open if it is stored at all, and agrees with *)
(* its stored copy about an acknowledgement.                               *)
SlotInv(s) ==
  /\ \A n \in EventIds :
       s.stored[n] # None => /\ s.stored[n].eventId = n
                             /\ n <= s.raised
                             /\ FreshUnacknowledged(s.stored[n])
  /\ s.active = None => (s.last # None => s.last.state = "Cleared")
  /\ s.active # None =>
       /\ s.last = s.active
       /\ s.candidate = None
       /\ s.active.state \in OpenStates
       /\ s.active.eventId <= s.raised
       /\ FreshUnacknowledged(s.active)
       /\ s.active.state = "Acknowledged"
            => /\ s.stored[s.active.eventId] # None
               /\ s.stored[s.active.eventId].state = "Acknowledged"
       /\ s.stored[s.active.eventId] # None
            => /\ s.stored[s.active.eventId].state \in OpenStates
               /\ s.stored[s.active.eventId].acknowledgedBy
                    \in {None, s.active.acknowledgedBy}
               /\ s.active.state = "Acknowledged"
                    => s.stored[s.active.eventId].acknowledgedBy
                         = s.active.acknowledgedBy

SlotOK(s) == s \in AlarmSlot /\ SlotInv(s)

(* What a call may do to the stored events of one key. *)
StoredStep(s, t) ==
  \A n \in EventIds :
    s.stored[n] # None
      => /\ t.stored[n] # None
         /\ s.stored[n].acknowledgedBy # None
              => t.stored[n].acknowledgedBy = s.stored[n].acknowledgedBy
         /\ s.stored[n].state = "Cleared" => t.stored[n].state = "Cleared"

RulesValid ==
  \A r \in RuleIds : rules[r] # None => isValid(rules[r])

IInv ==
  /\ TypeOK
  /\ RulesValid
  /\ \A k \in Keys : SlotInv(alarm[k])

-----------------------------------------------------------------------------
(* Operators on one slot *)

(* Saving an event, or failing to, changes nothing but the stored events   *)
(* and the mark of a lost save.                                            *)
LEMMA PersistSlot ==
  ASSUME NEW s \in AlarmSlot, NEW e \in Event, NEW saved \in BOOLEAN
  PROVE  LET p == persistEvent(s, e, saved)
         IN  /\ p \in AlarmSlot
             /\ p.active = s.active /\ p.last = s.last
             /\ p.candidate = s.candidate /\ p.raised = s.raised
             /\ p.since = s.since
             /\ p.stored \in {s.stored, [s.stored EXCEPT ![e.eventId] = e]}
<1>1. [s.stored EXCEPT ![e.eventId] = e] \in [EventIds -> Event \cup {None}]
  BY DEF AlarmSlot
<1>2. CASE saved
  BY <1>1, <1>2 DEF persistEvent, saveEvent, AlarmSlot
<1>3. CASE ~saved
  BY <1>3 DEF persistEvent, AlarmSlot
<1> QED BY <1>2, <1>3

(* A fresh event becomes the active one. *)
LEMMA RaiseSlot ==
  ASSUME NEW s, SlotOK(s), s.active = None, s.raised < MaxEvents,
         NEW at \in Time, NEW saved \in BOOLEAN
  PROVE  LET t == raiseAlarm([s EXCEPT !.candidate = None], at, saved)
         IN  SlotOK(t) /\ StoredStep(s, t) /\ t.active # None
<1> DEFINE q == [s EXCEPT !.candidate = None]
           event == [eventId |-> q.raised + 1, state |-> "Active",
                     updatedAt |-> at, acknowledgedBy |-> None]
           p == persistEvent(q, event, saved)
           t == raiseAlarm(q, at, saved)
<1>1. s \in AlarmSlot /\ SlotInv(s)
  BY DEF SlotOK
<1>2. q \in AlarmSlot /\ q.stored = s.stored /\ q.raised = s.raised
      /\ q.candidate = None
  BY <1>1 DEF AlarmSlot
<1>3. event \in Event /\ event # None /\ event.eventId = s.raised + 1
      /\ event.eventId \in EventIds
  BY <1>1, <1>2, BoundsAssumption, NoneAssumption
  DEF AlarmSlot, Event, EventIds, OpenStates
<1>4. s.stored[event.eventId] = None
  BY <1>1, <1>3, BoundsAssumption DEF SlotInv, AlarmSlot, EventIds
<1>5. /\ p \in AlarmSlot /\ p.candidate = None
      /\ p.stored \in {s.stored, [s.stored EXCEPT ![event.eventId] = event]}
  <2> HIDE DEF q, event, p
  <2>1. p \in AlarmSlot /\ p.candidate = q.candidate
        /\ p.stored \in {q.stored, [q.stored EXCEPT ![event.eventId] = event]}
    BY <1>2, <1>3, PersistSlot DEF p
  <2> QED BY <2>1, <1>2
<1>6. t = [p EXCEPT !.active = event, !.last = event, !.raised = q.raised + 1]
  BY DEF raiseAlarm
<1>7. /\ t \in AlarmSlot /\ t.active = event /\ t.last = event
      /\ t.candidate = None /\ t.raised = s.raised + 1 /\ t.stored = p.stored
  <2> s.raised + 1 \in 0..MaxEvents
    BY <1>1, BoundsAssumption DEF AlarmSlot
  <2> HIDE DEF q, event, p, t
  <2> QED BY <1>2, <1>3, <1>5, <1>6 DEF AlarmSlot
<1>8. s.stored \in [EventIds -> Event \cup {None}] /\ s.raised \in 0..MaxEvents
  BY <1>1 DEF AlarmSlot
<1>9. event.state = "Active" /\ event.acknowledgedBy = None
  OBVIOUS
<1> HIDE DEF p, t, q, event
<1>10. SlotInv(t)
  <2>1. \A n \in EventIds : s.stored[n] # None =>
          s.stored[n].eventId = n /\ n <= s.raised /\ FreshUnacknowledged(s.stored[n])
    BY <1>1 DEF SlotInv
  <2>2. t.stored[event.eventId] \in {None, event}
    BY <1>3, <1>4, <1>5, <1>7, <1>8
  <2>3. ASSUME NEW n \in EventIds, t.stored[n] # None
        PROVE  t.stored[n].eventId = n /\ n <= t.raised /\ FreshUnacknowledged(t.stored[n])
    <3>1. CASE n = event.eventId
      BY <2>2, <2>3, <3>1, <1>3, <1>7, <1>8, <1>9, BoundsAssumption
      DEF FreshUnacknowledged, EventIds
    <3>2. CASE n # event.eventId
      <4>1. t.stored[n] = s.stored[n]
        BY <3>2, <1>3, <1>5, <1>7, <1>8
      <4> QED BY <4>1, <2>1, <2>3, <1>7, <1>8, BoundsAssumption DEF EventIds
    <3> QED BY <3>1, <3>2
  <2>4. event.eventId <= t.raised /\ FreshUnacknowledged(event)
    BY <1>3, <1>7, <1>8, <1>9, BoundsAssumption DEF FreshUnacknowledged
  <2> QED BY <2>2, <2>3, <2>4, <1>3, <1>7, <1>9 DEF SlotInv, OpenStates
<1>11. StoredStep(s, t)
  BY <1>3, <1>4, <1>5, <1>7, <1>8 DEF StoredStep
<1> QED BY <1>3, <1>7, <1>10, <1>11 DEF SlotOK, t, q

(* Touching the open event of a key leaves everything else as it was. *)
LEMMA TouchSlot ==
  ASSUME NEW s, SlotOK(s), s.active # None, NEW at \in Time
  PROVE  LET e == [s.active EXCEPT !.updatedAt = at]
             t == [s EXCEPT !.active = e, !.last = e]
         IN  /\ SlotOK(t) /\ t.active # None /\ t.stored = s.stored
             /\ t.raised = s.raised
             /\ SlotOK([t EXCEPT !.candidate = None])
             /\ [t EXCEPT !.candidate = None].active # None
             /\ [t EXCEPT !.candidate = None].stored = s.stored
<1> DEFINE e == [s.active EXCEPT !.updatedAt = at]
           t == [s EXCEPT !.active = e, !.last = e]
<1>1. s \in AlarmSlot /\ SlotInv(s) /\ s.active \in Event
  BY DEF SlotOK, AlarmSlot
<1>2. /\ e \in Event /\ e # None
      /\ e.eventId = s.active.eventId /\ e.state = s.active.state
      /\ e.acknowledgedBy = s.active.acknowledgedBy
  BY <1>1, NoneAssumption DEF Event
<1> HIDE DEF e
<1>3. /\ t \in AlarmSlot /\ t.active = e /\ t.last = e
      /\ t.candidate = s.candidate /\ t.stored = s.stored /\ t.raised = s.raised
  BY <1>1, <1>2 DEF AlarmSlot
<1> HIDE DEF t
<1>4. SlotInv(t) /\ t.candidate = None
  BY <1>1, <1>2, <1>3 DEF SlotInv, FreshUnacknowledged
<1>5. [t EXCEPT !.candidate = None] = t
  BY <1>3, <1>4 DEF AlarmSlot
<1> QED BY <1>2, <1>3, <1>4, <1>5 DEF SlotOK, t, e

(* Clearing ends the event; the repository may miss it, but never gains a  *)
(* wrong entry.                                                            *)
LEMMA ClearSlot ==
  ASSUME NEW s, SlotOK(s), s.active # None, NEW at \in Time,
         NEW saved \in BOOLEAN
  PROVE  LET t == clearAlarm(s, at, saved)
         IN  SlotOK(t) /\ StoredStep(s, t)
<1> DEFINE cleared == [s.active EXCEPT !.state = "Cleared", !.updatedAt = at]
           p == persistEvent(s, cleared, saved)
           t == clearAlarm(s, at, saved)
<1>1. s \in AlarmSlot /\ SlotInv(s) /\ s.active \in Event
  BY DEF SlotOK, AlarmSlot
<1>2. /\ cleared \in Event /\ cleared # None
      /\ cleared.eventId = s.active.eventId /\ cleared.state = "Cleared"
      /\ cleared.acknowledgedBy = s.active.acknowledgedBy
      /\ s.active.eventId \in EventIds
  BY <1>1, NoneAssumption DEF Event
<1>3. /\ p \in AlarmSlot
      /\ p.stored \in {s.stored, [s.stored EXCEPT ![s.active.eventId] = cleared]}
      /\ p.raised = s.raised
  <2> HIDE DEF cleared, p
  <2> QED BY <1>1, <1>2, PersistSlot DEF p
<1>4. t = [p EXCEPT !.active = None, !.last = cleared, !.candidate = None]
  BY <1>1 DEF clearAlarm, isAlarmTransitionAllowed, SlotInv, OpenStates
<1> HIDE DEF cleared, p, t
<1>5. /\ t \in AlarmSlot /\ t.active = None /\ t.last = cleared
      /\ t.stored = p.stored /\ t.raised = s.raised
  BY <1>2, <1>3, <1>4 DEF AlarmSlot
<1>6. s.stored \in [EventIds -> Event \cup {None}]
  BY <1>1 DEF AlarmSlot
<1>7. SlotInv(t)
  BY <1>1, <1>2, <1>3, <1>5, <1>6 DEF SlotInv, FreshUnacknowledged
<1>8. StoredStep(s, t)
  <2> SUFFICES ASSUME NEW n \in EventIds, s.stored[n] # None
               PROVE  /\ t.stored[n] # None
                      /\ s.stored[n].acknowledgedBy # None
                           => t.stored[n].acknowledgedBy
                                = s.stored[n].acknowledgedBy
                      /\ s.stored[n].state = "Cleared"
                           => t.stored[n].state = "Cleared"
    BY DEF StoredStep
  <2>1. CASE n = s.active.eventId
    BY <2>1, <1>1, <1>2, <1>3, <1>5, <1>6 DEF SlotInv
  <2>2. CASE n # s.active.eventId
    BY <2>2, <1>2, <1>3, <1>5, <1>6
  <2> QED BY <2>1, <2>2
<1> QED BY <1>5, <1>7, <1>8 DEF SlotOK, t

LEMMA StoredStepSame ==
  ASSUME NEW s, NEW t, t.stored = s.stored
  PROVE  StoredStep(s, t)
BY DEF StoredStep

(* Dropping or setting the candidate of a key without an alarm. *)
LEMMA CandidateSlot ==
  ASSUME NEW s, SlotOK(s), s.active = None, NEW x \in Time \cup {None}
  PROVE  LET t == [s EXCEPT !.candidate = x]
         IN  /\ SlotOK(t) /\ t.active = None
             /\ t.stored = s.stored /\ t.raised = s.raised
<1> DEFINE t == [s EXCEPT !.candidate = x]
<1>1. s \in AlarmSlot /\ SlotInv(s)
  BY DEF SlotOK
<1>2. /\ t \in AlarmSlot /\ t.active = None /\ t.last = s.last
      /\ t.stored = s.stored /\ t.raised = s.raised
  BY <1>1 DEF AlarmSlot
<1> HIDE DEF t
<1>3. SlotInv(t)
  BY <1>1, <1>2 DEF SlotInv
<1> QED BY <1>2, <1>3 DEF SlotOK, t

(* One evaluation of one rule for one key.  After it, a met condition      *)
(* still leaves room for what a second evaluation of the same call does.   *)
LEMMA EvaluateSlot ==
  ASSUME NEW s, SlotOK(s), NEW c \in RuleConfigs,
         NEW condition \in BOOLEAN, NEW recovery \in BOOLEAN, NEW at \in Time,
         NEW saved \in BOOLEAN, condition => mayRaise(s)
  PROVE  LET t == evaluateRuleState(s, c, condition, recovery, at, saved)
         IN  /\ SlotOK(t) /\ StoredStep(s, t)
             /\ condition => mayRaise(t)
<1> DEFINE t == evaluateRuleState(s, c, condition, recovery, at, saved)
<1> SUFFICES SlotOK(t) /\ StoredStep(s, t) /\ (condition => mayRaise(t))
  OBVIOUS
<1> HIDE DEF t
<1>1. CASE s.active # None
  <2> DEFINE e == [s.active EXCEPT !.updatedAt = at]
             q == [s EXCEPT !.active = e, !.last = e]
  <2>1. /\ SlotOK(q) /\ q.active # None /\ q.stored = s.stored
        /\ SlotOK([q EXCEPT !.candidate = None])
        /\ [q EXCEPT !.candidate = None].active # None
        /\ [q EXCEPT !.candidate = None].stored = s.stored
    BY <1>1, TouchSlot
  <2>2. t = IF condition THEN [q EXCEPT !.candidate = None]
            ELSE IF recovery \/ c.type = "Offline" THEN clearAlarm(q, at, saved)
            ELSE q
    BY <1>1 DEF t, evaluateRuleState, evaluateOpen
  <2> HIDE DEF q
  <2>3. CASE condition
    BY <2>1, <2>2, <2>3, StoredStepSame DEF mayRaise
  <2>4. CASE ~condition /\ (recovery \/ c.type = "Offline")
    <3>1. t = clearAlarm(q, at, saved)
      BY <2>2, <2>4
    <3>2. SlotOK(t) /\ StoredStep(q, t)
      BY <3>1, <2>1, ClearSlot
    <3>3. StoredStep(s, t)
      BY <3>2, <2>1 DEF StoredStep
    <3> QED BY <2>4, <3>2, <3>3
  <2>5. CASE ~condition /\ ~(recovery \/ c.type = "Offline")
    BY <2>1, <2>2, <2>5, StoredStepSame
  <2> QED BY <2>3, <2>4, <2>5
<1>2. CASE s.active = None
  <2> DEFINE q == [s EXCEPT !.candidate = None]
             w == [s EXCEPT !.candidate = at]
             u == raiseAlarm(q, at, saved)
  <2>1. SlotOK(q) /\ q.stored = s.stored
    BY <1>2, CandidateSlot
  <2>2. /\ SlotOK(w) /\ w.stored = s.stored
        /\ w.active = None /\ w.raised = s.raised
    BY <1>2, CandidateSlot
  <2>3. condition => SlotOK(u) /\ StoredStep(s, u) /\ u.active # None
    BY <1>2, RaiseSlot DEF mayRaise
  <2>4. /\ ~condition => t = q
        /\ condition => t \in {u, w, s}
    BY <1>2 DEF t, evaluateRuleState, evaluateNormal
  <2> HIDE DEF q, w, u
  <2>5. CASE ~condition
    BY <2>1, <2>4, <2>5, StoredStepSame
  <2>6. CASE condition
    <3>1. CASE t = u
      BY <2>3, <2>6, <3>1 DEF mayRaise
    <3>2. CASE t = w
      <4>1. StoredStep(s, w)
        BY <2>2, StoredStepSame
      <4> QED BY <1>2, <2>2, <2>6, <3>2, <4>1 DEF mayRaise
    <3>3. CASE t = s
      <4>1. StoredStep(s, s)
        BY StoredStepSame
      <4> QED BY <2>6, <3>3, <4>1
    <3> QED BY <2>4, <2>6, <3>1, <3>2, <3>3
  <2> QED BY <2>5, <2>6
<1> QED BY <1>1, <1>2

(* The history of met conditions is beside the point here. *)
LEMMA NoteSlot ==
  ASSUME NEW s, SlotOK(s), NEW condition, NEW now \in Time
  PROVE  LET t == noteRun(s, condition, now)
         IN  SlotOK(t) /\ t.stored = s.stored /\ (mayRaise(s) => mayRaise(t))
<1> DEFINE x == IF ~condition THEN None
                ELSE IF s.since = None THEN now ELSE s.since
           t == noteRun(s, condition, now)
<1>1. s \in AlarmSlot /\ SlotInv(s)
  BY DEF SlotOK
<1>2. x \in Time \cup {None} /\ t = [s EXCEPT !.since = x]
  BY <1>1 DEF noteRun, AlarmSlot
<1> HIDE DEF x, t
<1>3. /\ t \in AlarmSlot /\ t.active = s.active /\ t.last = s.last
      /\ t.stored = s.stored /\ t.raised = s.raised
      /\ t.candidate = s.candidate
  BY <1>1, <1>2 DEF AlarmSlot
<1>4. SlotInv(t)
  BY <1>1, <1>3 DEF SlotInv
<1> QED BY <1>3, <1>4 DEF SlotOK, mayRaise, t

(* New rules, and a restart on an unreadable repository. *)
LEMMA ResetSlot ==
  ASSUME NEW s, SlotOK(s)
  PROVE  LET t == [s EXCEPT !.candidate = None, !.since = None]
             u == [s EXCEPT !.active = None, !.last = None,
                            !.candidate = None, !.since = None]
         IN  SlotOK(t) /\ t.stored = s.stored /\ SlotOK(u) /\ u.stored = s.stored
<1> DEFINE t == [s EXCEPT !.candidate = None, !.since = None]
           u == [s EXCEPT !.active = None, !.last = None,
                          !.candidate = None, !.since = None]
<1>1. s \in AlarmSlot /\ SlotInv(s)
  BY DEF SlotOK
<1>2. /\ t \in AlarmSlot /\ t.active = s.active /\ t.last = s.last
      /\ t.stored = s.stored /\ t.raised = s.raised /\ t.candidate = None
  BY <1>1 DEF AlarmSlot
<1>3. /\ u \in AlarmSlot /\ u.active = None /\ u.last = None
      /\ u.stored = s.stored /\ u.raised = s.raised /\ u.candidate = None
  BY <1>1 DEF AlarmSlot
<1> HIDE DEF t, u
<1>4. SlotInv(t)
  BY <1>1, <1>2 DEF SlotInv
<1>5. SlotInv(u)
  BY <1>1, <1>3 DEF SlotInv
<1> QED BY <1>2, <1>3, <1>4, <1>5 DEF SlotOK, t, u

(* Restoring takes the last event from the repository, as it is there. *)
LEMMA RestoreSlot ==
  ASSUME NEW s, SlotOK(s)
  PROVE  SlotOK(restored(s)) /\ restored(s).stored = s.stored
<1> DEFINE event == latestStored(s)
           open == event # None /\ event.state \in OpenStates
           x == IF open THEN event ELSE None
           t == restored(s)
<1>1. s \in AlarmSlot /\ SlotInv(s)
      /\ s.stored \in [EventIds -> Event \cup {None}]
  BY DEF SlotOK, AlarmSlot
<1>2. event = None \/ \E n \in EventIds : event = s.stored[n] /\ s.stored[n] # None
  BY DEF latestStored
<1>3. event \in Event \cup {None}
  BY <1>1, <1>2
<1>4. t = [s EXCEPT !.active = x, !.last = event, !.candidate = None, !.since = None]
  BY DEF restored
<1>5. x \in {event, None} /\ (x # None => x = event /\ event.state \in OpenStates)
      /\ (x = None /\ event # None => event.state \notin OpenStates)
  OBVIOUS
<1> HIDE DEF event, open, x, t
<1>6. /\ t \in AlarmSlot /\ t.active = x /\ t.last = event
      /\ t.stored = s.stored /\ t.raised = s.raised /\ t.candidate = None
  BY <1>1, <1>3, <1>4, <1>5 DEF AlarmSlot
<1>7. SlotInv(t)
  <2>1. CASE x = None
    <3>1. event # None => event.state = "Cleared"
      BY <2>1, <1>3, <1>5, NoneAssumption DEF Event, OpenStates
    <3> QED BY <1>1, <1>6, <2>1, <3>1 DEF SlotInv
  <2>2. CASE x # None
    <3>1. PICK n \in EventIds : event = s.stored[n] /\ s.stored[n] # None
      BY <2>2, <1>2, <1>5
    <3>2. /\ event.eventId = n /\ n <= s.raised /\ FreshUnacknowledged(event)
      BY <3>1, <1>1 DEF SlotInv
    <3> QED BY <1>1, <1>5, <1>6, <2>2, <3>1, <3>2 DEF SlotInv
  <2> QED BY <2>1, <2>2
<1> QED BY <1>6, <1>7 DEF SlotOK, t

(* Acknowledging saves the event and then remembers it. *)
LEMMA AcknowledgeSlot ==
  ASSUME NEW s, SlotOK(s), s.active # None, s.active.state = "Active",
         NEW operator \in Operators, NEW at \in Time
  PROVE  LET e == [s.active EXCEPT !.state = "Acknowledged",
                     !.updatedAt = at, !.acknowledgedBy = operator]
             t == [s EXCEPT !.active = e, !.last = e,
                            !.stored = saveEvent(@, e)]
         IN  SlotOK(t) /\ StoredStep(s, t)
<1> DEFINE e == [s.active EXCEPT !.state = "Acknowledged",
                   !.updatedAt = at, !.acknowledgedBy = operator]
           x == [s.stored EXCEPT ![e.eventId] = e]
           t == [s EXCEPT !.active = e, !.last = e, !.stored = saveEvent(@, e)]
<1>1. s \in AlarmSlot /\ SlotInv(s) /\ s.active \in Event
      /\ s.stored \in [EventIds -> Event \cup {None}]
  BY DEF SlotOK, AlarmSlot
<1>2. /\ e \in Event /\ e # None /\ e.eventId = s.active.eventId
      /\ e.state = "Acknowledged" /\ e.acknowledgedBy = operator
      /\ e.eventId \in EventIds
  BY <1>1, NoneAssumption DEF Event, OpenStates
<1>3. x \in [EventIds -> Event \cup {None}] /\ x[e.eventId] = e
      /\ \A n \in EventIds : n # e.eventId => x[n] = s.stored[n]
  <2> HIDE DEF e
  <2> QED BY <1>1, <1>2
<1>4. t = [s EXCEPT !.active = e, !.last = e, !.stored = x]
  BY DEF saveEvent
<1> HIDE DEF e, x, t
<1>5. /\ t \in AlarmSlot /\ t.active = e /\ t.last = e /\ t.stored = x
      /\ t.raised = s.raised /\ t.candidate = s.candidate
  BY <1>1, <1>2, <1>3, <1>4 DEF AlarmSlot
<1>6. SlotInv(t)
  BY <1>1, <1>2, <1>3, <1>5 DEF SlotInv, FreshUnacknowledged, OpenStates
<1>7. StoredStep(s, t)
  <2> SUFFICES ASSUME NEW n \in EventIds, s.stored[n] # None
               PROVE  /\ t.stored[n] # None
                      /\ s.stored[n].acknowledgedBy # None
                           => t.stored[n].acknowledgedBy
                                = s.stored[n].acknowledgedBy
                      /\ s.stored[n].state = "Cleared"
                           => t.stored[n].state = "Cleared"
    BY DEF StoredStep
  <2>1. CASE n = e.eventId
    <3>1. /\ s.active.acknowledgedBy = None
          /\ s.stored[n].state \in OpenStates
          /\ s.stored[n].acknowledgedBy \in {None, s.active.acknowledgedBy}
      BY <2>1, <1>1, <1>2 DEF SlotInv, FreshUnacknowledged
    <3> QED BY <2>1, <3>1, <1>2, <1>3, <1>5 DEF OpenStates
  <2>2. CASE n # e.eventId
    BY <2>2, <1>3, <1>5
  <2> QED BY <2>1, <2>2
<1> QED BY <1>5, <1>6, <1>7 DEF SlotOK, t, e

LEMMA StoredStepTrans ==
  ASSUME NEW s, NEW t, NEW u, StoredStep(s, t), StoredStep(t, u)
  PROVE  StoredStep(s, u)
BY DEF StoredStep

-----------------------------------------------------------------------------
(* The calls *)

LEMMA TimeFacts ==
  /\ 0..MaxTime \subseteq Time
  /\ \A now \in 0..MaxTime : DeviceTimes(now) \subseteq Time
BY BoundsAssumption DEF Time, DeviceTimes

LEMMA CallTimeFacts ==
  ASSUME TypeOK
  PROVE  CallTimes \subseteq 0..MaxTime
BY BoundsAssumption DEF CallTimes, TypeOK

LEMMA KeyFacts ==
  ASSUME IInv, NEW k \in Keys
  PROVE  /\ SlotOK(alarm[k]) /\ k[1] \in Devices /\ k[2] \in RuleIds
         /\ rules[k[2]] # None
              => rules[k[2]] \in RuleConfigs /\ isValid(rules[k[2]])
BY DEF IInv, TypeOK, SlotOK, RulesValid, Keys

(* The timeout check of one key. *)
LEMMA CheckOfflineSlot ==
  ASSUME IInv, NEW k \in Keys, NEW s, SlotOK(s), NEW heartbeat, NEW online,
         NEW checkAt \in Time, NEW now \in Time, NEW saved \in BOOLEAN,
         (/\ offlineRuleOf(k) /\ heartbeat[k[1]] # None
          /\ isOffline(rules[k[2]], k[1], heartbeat, online, checkAt))
           => mayRaise(s)
  PROVE  LET t == checkOffline(s, k, heartbeat, online, checkAt, now, saved)
         IN  SlotOK(t) /\ StoredStep(s, t)
<1> DEFINE c == rules[k[2]]
           offline == isOffline(c, k[1], heartbeat, online, checkAt)
           q == noteRun(s, offline, now)
           t == checkOffline(s, k, heartbeat, online, checkAt, now, saved)
<1> SUFFICES SlotOK(t) /\ StoredStep(s, t)
  OBVIOUS
<1>1. CASE offlineRuleOf(k) /\ heartbeat[k[1]] # None
  <2>1. c \in RuleConfigs /\ offline \in BOOLEAN
    BY <1>1, KeyFacts DEF offlineRuleOf, isOffline
  <2>2. SlotOK(q) /\ q.stored = s.stored /\ (mayRaise(s) => mayRaise(q))
    <3> HIDE DEF offline
    <3> QED BY NoteSlot
  <2>3. offline => mayRaise(q)
    BY <1>1, <2>2
  <2>4. t = evaluateRuleState(q, c, offline, ~offline, checkAt, saved)
    BY <1>1 DEF checkOffline
  <2> HIDE DEF q, c, offline, t
  <2>5. SlotOK(t) /\ StoredStep(q, t)
    BY <2>1, <2>2, <2>3, <2>4, EvaluateSlot
  <2> QED BY <2>2, <2>5 DEF StoredStep
<1>2. CASE ~(offlineRuleOf(k) /\ heartbeat[k[1]] # None)
  BY <1>2, StoredStepSame DEF checkOffline
<1> QED BY <1>1, <1>2

(* What a call must do to every slot. *)
SlotsStep ==
  /\ alarm' \in [Keys -> AlarmSlot]
  /\ \A k \in Keys : SlotInv(alarm'[k]) /\ StoredStep(alarm[k], alarm'[k])

LEMMA SetRulesStep ==
  ASSUME IInv, NEW new \in [RuleIds -> RuleConfigs \cup {None}],
         setRules(new) \/ clearRules
  PROVE  IInv' /\ SlotsStep
<1>1. SlotsStep
  <2>1. alarm' = [k \in Keys |->
                    [alarm[k] EXCEPT !.candidate = None, !.since = None]]
    BY DEF setRules, clearRules
  <2>2. \A k \in Keys :
          LET t == [alarm[k] EXCEPT !.candidate = None, !.since = None]
          IN  SlotOK(t) /\ StoredStep(alarm[k], t)
    BY KeyFacts, ResetSlot, StoredStepSame
  <2> QED BY <2>1, <2>2 DEF SlotsStep, SlotOK
<1>2. rules' \in [RuleIds -> RuleConfigs \cup {None}] /\ RulesValid'
  <2>1. CASE setRules(new)
    <3>1. rules' = [r \in RuleIds |->
                      IF new[r] # None /\ isValid(new[r]) THEN new[r] ELSE None]
      BY <2>1 DEF setRules
    <3> QED BY <3>1 DEF RulesValid
  <2>2. CASE clearRules
    BY <2>2 DEF clearRules, RulesValid
  <2> QED BY <2>1, <2>2
<1> QED BY <1>1, <1>2 DEF IInv, TypeOK, Calls, SlotsStep, setRules, clearRules

LEMMA AddRuleStep ==
  ASSUME IInv, NEW r \in RuleIds, NEW c \in RuleConfigs, addRule(r, c)
  PROVE  IInv' /\ SlotsStep
<1>1. SlotsStep
  BY KeyFacts, StoredStepSame DEF addRule, SlotsStep, SlotOK, IInv, TypeOK
<1>2. rules' \in [RuleIds -> RuleConfigs \cup {None}] /\ RulesValid'
  BY DEF addRule, RulesValid, IInv, TypeOK, isValid
<1> QED BY <1>1, <1>2 DEF IInv, TypeOK, Calls, SlotsStep, addRule

LEMMA RestoreStep ==
  ASSUME IInv, restore
  PROVE  IInv' /\ SlotsStep
<1>1. SlotsStep
  <2>1. \A k \in Keys : SlotOK(restored(alarm[k]))
                         /\ StoredStep(alarm[k], restored(alarm[k]))
    BY KeyFacts, RestoreSlot, StoredStepSame
  <2> QED BY <2>1 DEF restore, SlotsStep, SlotOK
<1> QED BY <1>1 DEF IInv, TypeOK, Calls, SlotsStep, restore, RulesValid, isValid

LEMMA RestartStep ==
  ASSUME IInv, Restart
  PROVE  IInv' /\ SlotsStep
<1>1. SlotsStep
  <2> DEFINE lost(k) == [alarm[k] EXCEPT !.active = None, !.last = None,
                                         !.candidate = None, !.since = None]
  <2>1. \A k \in Keys : SlotOK(restored(alarm[k]))
                         /\ StoredStep(alarm[k], restored(alarm[k]))
    BY KeyFacts, RestoreSlot, StoredStepSame
  <2>2. \A k \in Keys : SlotOK(lost(k)) /\ StoredStep(alarm[k], lost(k))
    BY KeyFacts, ResetSlot, StoredStepSame
  <2>3. \/ alarm' = [k \in Keys |-> restored(alarm[k])]
        \/ alarm' = [k \in Keys |-> lost(k)]
    BY DEF Restart
  <2> HIDE DEF lost
  <2> QED BY <2>1, <2>2, <2>3 DEF SlotsStep, SlotOK
<1>2. /\ rules' \in [RuleIds -> RuleConfigs \cup {None}] /\ RulesValid'
      /\ lastHeartbeat' \in [Devices -> Time \cup {None}]
      /\ deviceOnline' \in [Devices -> BOOLEAN] /\ clock' = clock
      /\ lastCall' = "recover"
  BY DEF Restart, RulesValid
<1> QED BY <1>1, <1>2 DEF IInv, TypeOK, Calls, SlotsStep

LEMMA TelemetryStep ==
  ASSUME IInv, NEW d \in Devices, NEW sample \in Samples,
         processTelemetry(d, sample)
  PROVE  IInv' /\ SlotsStep
<1>1. PICK at \in CallTimes,
           saved \in SaveOutcomes({k \in Keys : appliesTo(k, d, sample)}) :
        processTelemetry(d, sample)!(at, saved)
  BY DEF processTelemetry
<1> DEFINE c(k) == rules[k[2]]
           v(k) == sample[c(k).measurement]
           cond(k) == conditionMet(c(k), v(k))
           rec(k) == recoveryMet(c(k), v(k))
           q(k) == noteRun(alarm[k], cond(k), at)
           t(k) == evaluateRuleState(q(k), c(k), cond(k), rec(k), at, k \in saved)
           f(k) == IF appliesTo(k, d, sample) THEN t(k) ELSE alarm[k]
<1>2. at \in Time /\ at \in 0..MaxTime
  BY CallTimeFacts, TimeFacts DEF IInv
<1>3. ASSUME NEW k \in Keys
      PROVE  SlotOK(f(k)) /\ StoredStep(alarm[k], f(k))
  <2>1. CASE appliesTo(k, d, sample)
    <3>1. /\ c(k) \in RuleConfigs
          /\ cond(k) \in BOOLEAN /\ rec(k) \in BOOLEAN
          /\ (k \in saved) \in BOOLEAN
      BY <2>1, KeyFacts DEF appliesTo, conditionMet, recoveryMet
    <3>2. mayRaise(alarm[k]) /\ SlotOK(alarm[k])
      BY <1>1, <2>1, KeyFacts
    <3>3. SlotOK(q(k)) /\ q(k).stored = alarm[k].stored /\ mayRaise(q(k))
      <4> HIDE DEF cond
      <4> QED BY <1>2, <3>2, NoteSlot
    <3> HIDE DEF c, v, cond, rec, q
    <3>4. SlotOK(t(k)) /\ StoredStep(q(k), t(k))
      BY <1>2, <3>1, <3>3, EvaluateSlot
    <3> QED BY <2>1, <3>3, <3>4 DEF StoredStep
  <2>2. CASE ~appliesTo(k, d, sample)
    BY <2>2, KeyFacts, StoredStepSame
  <2> QED BY <2>1, <2>2
<1>4. alarm' = [k \in Keys |-> f(k)]
  BY <1>1
<1>5. SlotsStep
  <2> HIDE DEF f
  <2> QED BY <1>3, <1>4 DEF SlotsStep, SlotOK
<1>6. /\ clock' = at /\ lastCall' = "evaluate"
      /\ UNCHANGED <<rules, lastHeartbeat, deviceOnline>>
  BY <1>1
<1> QED BY <1>2, <1>5, <1>6 DEF IInv, TypeOK, Calls, SlotsStep, RulesValid

LEMMA TimerStep ==
  ASSUME IInv, updateOfflineStates
  PROVE  IInv' /\ SlotsStep
<1>1. PICK at \in CallTimes,
           saved \in SaveOutcomes({k \in Keys : offlineRuleOf(k)}) :
        updateOfflineStates!(at, saved)
  BY DEF updateOfflineStates
<1> DEFINE f(k) == checkOffline(alarm[k], k, lastHeartbeat, deviceOnline,
                                at, at, k \in saved)
<1>2. at \in Time /\ at \in 0..MaxTime
  BY CallTimeFacts, TimeFacts DEF IInv
<1>3. ASSUME NEW k \in Keys
      PROVE  SlotOK(f(k)) /\ StoredStep(alarm[k], f(k))
  <2>1. offlineRuleOf(k) => mayRaise(alarm[k])
    BY <1>1
  <2>2. SlotOK(alarm[k]) /\ (k \in saved) \in BOOLEAN
    BY KeyFacts
  <2> QED BY <1>2, <2>1, <2>2, CheckOfflineSlot
<1>4. alarm' = [k \in Keys |-> f(k)]
  BY <1>1
<1>5. SlotsStep
  <2> HIDE DEF f
  <2> QED BY <1>3, <1>4 DEF SlotsStep, SlotOK
<1>6. /\ clock' = at /\ lastCall' = "evaluate"
      /\ UNCHANGED <<rules, lastHeartbeat, deviceOnline>>
  BY <1>1
<1> QED BY <1>2, <1>5, <1>6 DEF IInv, TypeOK, Calls, SlotsStep, RulesValid

(* The two evaluations of one heartbeat cannot both open an alarm of the   *)
(* reporting device: one that says online is never timed out by its own    *)
(* timestamp, because a valid offline rule has a positive timeout.         *)
LEMMA HeartbeatStep ==
  ASSUME IInv, NEW d \in Devices, NEW isOnline \in BOOLEAN,
         processHeartbeat(d, isOnline)
  PROVE  IInv' /\ SlotsStep
<1>1. PICK now \in CallTimes,
           saved \in SaveOutcomes({k \in Keys : offlineRuleOf(k)}) :
        \E at \in DeviceTimes(now) : processHeartbeat(d, isOnline)!(now, saved)!(at)
  BY DEF processHeartbeat
<1>2. PICK at \in DeviceTimes(now) : processHeartbeat(d, isOnline)!(now, saved)!(at)
  BY <1>1
<1> DEFINE heartbeat == [lastHeartbeat EXCEPT ![d] = at]
           online == [deviceOnline EXCEPT ![d] = isOnline]
           q(k) == noteRun(alarm[k], ~isOnline, now)
           e(k) == evaluateRuleState(q(k), rules[k[2]], ~isOnline, isOnline,
                                     at, k \in saved)
           own(k) == IF k[1] = d /\ offlineRuleOf(k) THEN e(k) ELSE alarm[k]
           f(k) == checkOffline(own(k), k, heartbeat, online, at, now, k \in saved)
<1>3. now \in Time /\ now \in 0..MaxTime /\ at \in Time /\ at \in Int
  BY CallTimeFacts, TimeFacts DEF IInv, DeviceTimes, Time
<1>4. /\ heartbeat \in [Devices -> Time \cup {None}] /\ heartbeat[d] = at
      /\ online \in [Devices -> BOOLEAN] /\ online[d] = isOnline
  BY <1>3 DEF IInv, TypeOK
<1>5. ASSUME NEW k \in Keys
      PROVE  SlotOK(f(k)) /\ StoredStep(alarm[k], f(k))
  <2>1. /\ SlotOK(alarm[k])
        /\ offlineRuleOf(k) => mayRaise(alarm[k])
        /\ (k \in saved) \in BOOLEAN
    BY <1>2, KeyFacts
  <2>2. CASE k[1] = d /\ offlineRuleOf(k)
    <3>1. rules[k[2]] \in RuleConfigs /\ isValid(rules[k[2]])
          /\ rules[k[2]].type = "Offline" /\ rules[k[2]].offlineTimeout \in Int
      BY <2>2, KeyFacts, RulesAssumption DEF offlineRuleOf
    <3>2. SlotOK(q(k)) /\ q(k).stored = alarm[k].stored /\ mayRaise(q(k))
      BY <1>3, <2>1, <2>2, NoteSlot
    <3>3. /\ SlotOK(e(k)) /\ StoredStep(q(k), e(k))
          /\ ~isOnline => mayRaise(e(k))
      <4> HIDE DEF q
      <4> QED BY <1>3, <2>1, <3>1, <3>2, EvaluateSlot
    <3>4. isOffline(rules[k[2]], k[1], heartbeat, online, at) => ~isOnline
      <4> HIDE DEF heartbeat, online
      <4> QED BY <1>3, <1>4, <2>2, <3>1 DEF isOffline, isValid
    <3>5. own(k) = e(k)
      BY <2>2
    <3> HIDE DEF q, e, own, heartbeat, online
    <3>6. SlotOK(f(k)) /\ StoredStep(e(k), f(k))
      BY <1>3, <2>1, <3>3, <3>4, <3>5, CheckOfflineSlot
    <3>7. StoredStep(alarm[k], e(k))
      BY <3>2, <3>3 DEF StoredStep
    <3> QED BY <3>6, <3>7, StoredStepTrans
  <2>3. CASE ~(k[1] = d /\ offlineRuleOf(k))
    <3>1. own(k) = alarm[k]
      BY <2>3
    <3> HIDE DEF own, heartbeat, online
    <3> QED BY <1>3, <2>1, <3>1, CheckOfflineSlot
  <2> QED BY <2>2, <2>3
<1>6. alarm' = [k \in Keys |-> f(k)] /\ clock' = now /\ rules' = rules
      /\ lastCall' = "evaluate"
      /\ lastHeartbeat' = heartbeat /\ deviceOnline' = online
  BY <1>2
<1>7. SlotsStep
  <2> HIDE DEF f
  <2> QED BY <1>5, <1>6 DEF SlotsStep, SlotOK
<1> HIDE DEF f, heartbeat, online
<1> QED BY <1>3, <1>4, <1>6, <1>7 DEF IInv, TypeOK, Calls, SlotsStep, RulesValid

LEMMA AcknowledgeStep ==
  ASSUME IInv, NEW k \in Keys, NEW operator \in Operators,
         acknowledge(k, operator)
  PROVE  IInv' /\ SlotsStep
<1> DEFINE s == alarm[k]
           e(at) == [s.active EXCEPT !.state = "Acknowledged",
                       !.updatedAt = at, !.acknowledgedBy = operator]
           t(at) == [s EXCEPT !.active = e(at), !.last = e(at),
                              !.stored = saveEvent(@, e(at))]
<1>1. PICK at \in CallTimes : alarm' = [alarm EXCEPT ![k] = t(at)] /\ clock' = at
  BY DEF acknowledge
<1>2. at \in Time /\ at \in 0..MaxTime
  BY CallTimeFacts, TimeFacts DEF IInv
<1>3. SlotOK(t(at)) /\ StoredStep(s, t(at))
  BY <1>2, KeyFacts, AcknowledgeSlot DEF acknowledge
<1>4. SlotsStep
  <2> HIDE DEF t
  <2>1. alarm \in [Keys -> AlarmSlot]
    BY DEF IInv, TypeOK
  <2>2. \A j \in Keys : alarm'[j] = IF j = k THEN t(at) ELSE alarm[j]
    BY <1>1, <2>1
  <2>3. \A j \in Keys : SlotOK(alarm[j]) /\ StoredStep(alarm[j], alarm[j])
    BY KeyFacts, StoredStepSame
  <2>4. alarm' \in [Keys -> AlarmSlot]
    BY <1>1, <1>3, <2>1 DEF SlotOK
  <2> QED BY <1>3, <2>2, <2>3, <2>4 DEF SlotsStep, SlotOK
<1> QED BY <1>1, <1>2, <1>4 DEF IInv, TypeOK, Calls, SlotsStep, RulesValid, acknowledge

-----------------------------------------------------------------------------
(* The theorems *)

LEMMA InitIInv == Init => IInv
<1> SUFFICES ASSUME Init PROVE IInv
  OBVIOUS
<1>1. EmptySlot \in AlarmSlot /\ SlotInv(EmptySlot)
  BY BoundsAssumption DEF EmptySlot, AlarmSlot, SlotInv
<1>2. 0 \in 0..MaxTime
  BY BoundsAssumption
<1> QED BY <1>1, <1>2 DEF Init, IInv, TypeOK, Calls, RulesValid

LEMMA NextIInv ==
  ASSUME IInv, [Next]_vars
  PROVE  IInv' /\ \A k \in Keys : StoredStep(alarm[k], alarm'[k])
<1>1. ASSUME NEW new \in [RuleIds -> RuleConfigs \cup {None}], setRules(new)
      PROVE  IInv' /\ SlotsStep
  BY <1>1, SetRulesStep
<1>2. ASSUME NEW r \in RuleIds, NEW c \in RuleConfigs, addRule(r, c)
      PROVE  IInv' /\ SlotsStep
  BY <1>2, AddRuleStep
<1>3. ASSUME clearRules PROVE IInv' /\ SlotsStep
  BY <1>3, SetRulesStep DEF IInv, TypeOK
<1>4. ASSUME restore PROVE IInv' /\ SlotsStep
  BY <1>4, RestoreStep
<1>5. ASSUME Restart PROVE IInv' /\ SlotsStep
  BY <1>5, RestartStep
<1>6. ASSUME NEW d \in Devices, NEW sample \in Samples,
             processTelemetry(d, sample)
      PROVE  IInv' /\ SlotsStep
  BY <1>6, TelemetryStep
<1>7. ASSUME NEW d \in Devices, NEW isOnline \in BOOLEAN,
             processHeartbeat(d, isOnline)
      PROVE  IInv' /\ SlotsStep
  BY <1>7, HeartbeatStep
<1>8. ASSUME updateOfflineStates PROVE IInv' /\ SlotsStep
  BY <1>8, TimerStep
<1>9. ASSUME NEW k \in Keys, NEW operator \in Operators,
             acknowledge(k, operator)
      PROVE  IInv' /\ SlotsStep
  BY <1>9, AcknowledgeStep
<1>10. ASSUME UNCHANGED vars PROVE IInv' /\ SlotsStep
  BY <1>10, KeyFacts, StoredStepSame
  DEF vars, IInv, TypeOK, RulesValid, SlotsStep, SlotOK
<1>11. IInv' /\ SlotsStep
  BY <1>1, <1>2, <1>3, <1>4, <1>5, <1>6, <1>7, <1>8, <1>9, <1>10 DEF Next
<1> QED BY <1>11 DEF SlotsStep

(* The inductive invariant of the engine. *)
THEOREM Invariance == Spec => []IInv
<1>1. IInv /\ [Next]_vars => IInv'
  BY NextIInv
<1> QED BY <1>1, InitIInv, PTL DEF Spec

(* Type correctness of every table of the engine. *)
THEOREM TypeCorrect == Spec => []TypeOK
<1>1. IInv => TypeOK
  BY DEF IInv
<1> QED BY <1>1, Invariance, PTL

(* m_activeEvents and m_lastEvents always agree. *)
THEOREM TablesAlwaysAgree == Spec => []TablesAgree
<1>1. IInv => TablesAgree
  BY DEF IInv, TablesAgree, SlotInv
<1> QED BY <1>1, Invariance, PTL

(* No pending activation beside an open alarm. *)
THEOREM CandidatesOnlyWhileNormal == Spec => []CandidateOnlyWhileNormal
<1>1. IInv => CandidateOnlyWhileNormal
  BY DEF IInv, CandidateOnlyWhileNormal, SlotInv
<1> QED BY <1>1, Invariance, PTL

(* A successful acknowledgement is in the repository, whatever failed.     *)
THEOREM AcknowledgementIsDurable == Spec => []AcknowledgementDurable
<1>1. IInv => AcknowledgementDurable
  BY DEF IInv, AcknowledgementDurable, SlotInv
<1> QED BY <1>1, Invariance, PTL

(* The repository never loses or changes who acknowledged an event. *)
THEOREM AcknowledgementIsKept == Spec => AcknowledgementKept
<1>1. IInv /\ [Next]_vars =>
        [\A k \in Keys, n \in EventIds :
           (alarm[k].stored[n] # None /\ alarm[k].stored[n].acknowledgedBy # None)
             => /\ alarm'[k].stored[n] # None
                /\ alarm'[k].stored[n].acknowledgedBy
                     = alarm[k].stored[n].acknowledgedBy]_vars
  BY NextIInv DEF StoredStep
<1> QED BY <1>1, Invariance, PTL DEF Spec, AcknowledgementKept

(* The repository never reopens a cleared event. *)
THEOREM ClearedStaysCleared == Spec => ClearedIsFinal
<1>1. IInv /\ [Next]_vars =>
        [\A k \in Keys, n \in EventIds :
           (alarm[k].stored[n] # None /\ alarm[k].stored[n].state = "Cleared")
             => alarm'[k].stored[n].state = "Cleared"]_vars
  BY NextIInv DEF StoredStep
<1> QED BY <1>1, Invariance, PTL DEF Spec, ClearedIsFinal

-----------------------------------------------------------------------------
(* One evaluation, seen from outside *)

(* The repository takes an event, or the loss of its save is marked. *)
Saves(s, t, event, saved) ==
  IF saved
  THEN t.stored = [s.stored EXCEPT ![event.eventId] = event] /\ t.unsaved = s.unsaved
  ELSE t.stored = s.stored /\ t.unsaved = TRUE

(* The four things that the evaluation of one rule can do to a slot. *)
StaysOpen(s, t, at) ==
  /\ s.active # None
  /\ t.active = [s.active EXCEPT !.updatedAt = at] /\ t.last = t.active
  /\ t.candidate = None
  /\ t.raised = s.raised /\ t.stored = s.stored /\ t.unsaved = s.unsaved

Clears(s, t, at, saved) ==
  /\ s.active # None
  /\ t.last = [s.active EXCEPT !.state = "Cleared", !.updatedAt = at]
  /\ t.active = None /\ t.candidate = None
  /\ t.raised = s.raised
  /\ Saves(s, t, t.last, saved)

Waits(s, t, c, condition, at) ==
  /\ s.active = None /\ t.active = None /\ t.last = s.last
  /\ t.raised = s.raised /\ t.stored = s.stored /\ t.unsaved = s.unsaved
  /\ IF condition
     THEN /\ t.candidate \in {at, s.candidate} \ {None}
          /\ t.candidate <= at /\ at - t.candidate < c.activationDelay
     ELSE t.candidate = None

Raises(s, t, c, at, saved) ==
  /\ s.active = None
  /\ t.raised = s.raised + 1
  /\ t.active = [eventId |-> t.raised, state |-> "Active",
                 updatedAt |-> at, acknowledgedBy |-> None]
  /\ t.last = t.active /\ t.candidate = None
  /\ Saves(s, t, t.active, saved)
  /\ \/ c.activationDelay <= 0
     \/ s.candidate # None /\ at - s.candidate >= c.activationDelay

Evaluates(s, t, c, condition, at, saved) ==
  /\ t.since = s.since
  /\ \/ condition /\ StaysOpen(s, t, at)
     \/ ~condition /\ c.type # "Offline" /\ StaysOpen(s, t, at)
     \/ ~condition /\ Clears(s, t, at, saved)
     \/ Waits(s, t, c, condition, at)
     \/ condition /\ Raises(s, t, c, at, saved)

(* A save, accepted or refused, changes nothing else.                      *)
LEMMA PersistSaves ==
  ASSUME NEW s \in AlarmSlot, NEW e \in Event, NEW saved \in BOOLEAN
  PROVE  LET p == persistEvent(s, e, saved)
         IN  /\ p \in AlarmSlot
             /\ p.candidate = s.candidate /\ p.raised = s.raised
             /\ p.since = s.since
             /\ Saves(s, p, e, saved)
<1>1. [s.stored EXCEPT ![e.eventId] = e] \in [EventIds -> Event \cup {None}]
  BY DEF AlarmSlot
<1>2. CASE saved
  BY <1>1, <1>2 DEF persistEvent, saveEvent, AlarmSlot, Saves
<1>3. CASE ~saved
  BY <1>3 DEF persistEvent, AlarmSlot, Saves
<1> QED BY <1>2, <1>3

(* An open alarm is touched or cleared. *)
LEMMA OpenEvaluates ==
  ASSUME NEW s, SlotOK(s), s.active # None, NEW c \in RuleConfigs,
         NEW condition \in BOOLEAN, NEW recovery \in BOOLEAN, NEW at \in Time,
         NEW saved \in BOOLEAN
  PROVE  Evaluates(s, evaluateRuleState(s, c, condition, recovery, at, saved),
                   c, condition, at, saved)
<1> DEFINE t == evaluateRuleState(s, c, condition, recovery, at, saved)
           e == [s.active EXCEPT !.updatedAt = at]
           q == [s EXCEPT !.active = e, !.last = e]
           cleared == [q.active EXCEPT !.state = "Cleared", !.updatedAt = at]
           p == persistEvent(q, cleared, saved)
<1>1. s \in AlarmSlot /\ s.active \in Event /\ s.candidate = None
      /\ s.active.state \in OpenStates
  BY DEF SlotOK, AlarmSlot, SlotInv
<1>2. e \in Event /\ e.state = s.active.state /\ e # None
  BY <1>1, NoneAssumption DEF Event
<1>3. /\ q \in AlarmSlot /\ q.active = e /\ q.last = e /\ q.candidate = None
      /\ q.raised = s.raised /\ q.stored = s.stored /\ q.unsaved = s.unsaved
      /\ q.since = s.since
  <2> HIDE DEF e
  <2> QED BY <1>1, <1>2 DEF AlarmSlot
<1>4. t = IF condition THEN [q EXCEPT !.candidate = None]
          ELSE IF recovery \/ c.type = "Offline" THEN clearAlarm(q, at, saved)
          ELSE q
  BY DEF evaluateRuleState, evaluateOpen
<1>5. StaysOpen(s, q, at)
  BY <1>3 DEF StaysOpen
<1>6. [q EXCEPT !.candidate = None] = q
  <2> HIDE DEF q
  <2> QED BY <1>3 DEF AlarmSlot
<1>7. cleared = [s.active EXCEPT !.state = "Cleared", !.updatedAt = at]
      /\ cleared \in Event
  <2>1. cleared = [e EXCEPT !.state = "Cleared", !.updatedAt = at]
    BY <1>3
  <2>2. [e EXCEPT !.state = "Cleared", !.updatedAt = at]
          = [s.active EXCEPT !.state = "Cleared", !.updatedAt = at]
    BY <1>1 DEF Event
  <2>3. [s.active EXCEPT !.state = "Cleared", !.updatedAt = at] \in Event
    BY <1>1 DEF Event
  <2> QED BY <2>1, <2>2, <2>3
<1>8. /\ clearAlarm(q, at, saved)
           = [p EXCEPT !.active = None, !.last = cleared, !.candidate = None]
  BY <1>1, <1>2, <1>3 DEF clearAlarm, isAlarmTransitionAllowed, OpenStates
<1>9. p \in AlarmSlot /\ p.raised = q.raised /\ p.since = q.since
      /\ Saves(q, p, cleared, saved)
  <2> HIDE DEF q, cleared, p
  <2> QED BY <1>3, <1>7, PersistSaves DEF p
<1> HIDE DEF q, cleared, p, t, e
<1>10. Clears(s, clearAlarm(q, at, saved), at, saved)
       /\ clearAlarm(q, at, saved).since = s.since
  <2> DEFINE u == [p EXCEPT !.active = None, !.last = cleared, !.candidate = None]
  <2>1. /\ u.active = None /\ u.last = cleared /\ u.candidate = None
        /\ u.raised = s.raised /\ u.since = s.since
        /\ u.stored = p.stored /\ u.unsaved = p.unsaved
    BY <1>3, <1>9 DEF AlarmSlot
  <2> HIDE DEF u
  <2>2. Saves(s, u, cleared, saved)
    BY <1>3, <1>9, <2>1 DEF Saves
  <2>3. Clears(s, u, at, saved)
    BY <1>7, <2>1, <2>2 DEF Clears
  <2> QED BY <1>8, <2>1, <2>3 DEF u
<1>11. CASE condition
  BY <1>3, <1>4, <1>5, <1>6, <1>11 DEF Evaluates, t
<1>12. CASE ~condition /\ (recovery \/ c.type = "Offline")
  BY <1>4, <1>10, <1>12 DEF Evaluates, t
<1>13. CASE ~condition /\ ~(recovery \/ c.type = "Offline")
  BY <1>3, <1>4, <1>5, <1>13 DEF Evaluates, t
<1> QED BY <1>11, <1>12, <1>13

(* A key without an alarm waits or raises one. *)
LEMMA NormalEvaluates ==
  ASSUME NEW s, SlotOK(s), s.active = None, NEW c \in RuleConfigs,
         NEW condition \in BOOLEAN, NEW recovery \in BOOLEAN, NEW at \in Time,
         NEW saved \in BOOLEAN, condition => mayRaise(s)
  PROVE  Evaluates(s, evaluateRuleState(s, c, condition, recovery, at, saved),
                   c, condition, at, saved)
<1> DEFINE t == evaluateRuleState(s, c, condition, recovery, at, saved)
           q == [s EXCEPT !.candidate = None]
           w == [s EXCEPT !.candidate = at]
           event == [eventId |-> q.raised + 1, state |-> "Active",
                     updatedAt |-> at, acknowledgedBy |-> None]
           p == persistEvent(q, event, saved)
           u == raiseAlarm(q, at, saved)
<1>1. s \in AlarmSlot /\ at \in Int /\ c.activationDelay \in Int
      /\ s.candidate \in Time \cup {None} /\ at # None
      /\ (s.candidate # None => s.candidate \in Int)
  BY BoundsAssumption, RulesAssumption, NoneAssumption DEF SlotOK, AlarmSlot, Time
<1>2. /\ q \in AlarmSlot /\ q.active = s.active /\ q.last = s.last
      /\ q.candidate = None /\ q.stored = s.stored /\ q.raised = s.raised
      /\ q.unsaved = s.unsaved /\ q.since = s.since
  BY <1>1 DEF AlarmSlot
<1>3. /\ w.active = s.active /\ w.last = s.last
      /\ w.candidate = at /\ w.stored = s.stored /\ w.raised = s.raised
      /\ w.unsaved = s.unsaved /\ w.since = s.since
  BY <1>1 DEF AlarmSlot
<1>4. t = IF ~condition THEN q
          ELSE IF c.activationDelay <= 0 THEN u
          ELSE IF s.candidate = None \/ s.candidate > at THEN w
          ELSE IF at - s.candidate >= c.activationDelay THEN u
          ELSE s
  BY DEF evaluateRuleState, evaluateNormal
<1>5. condition => /\ u.since = s.since /\ u.raised = s.raised + 1
                   /\ u.active = event /\ u.last = event /\ u.candidate = None
                   /\ event.eventId = u.raised
                   /\ Saves(s, u, event, saved)
  <2> SUFFICES ASSUME condition
               PROVE  /\ u.since = s.since /\ u.raised = s.raised + 1
                      /\ u.active = event /\ u.last = event /\ u.candidate = None
                      /\ event.eventId = u.raised
                      /\ Saves(s, u, event, saved)
    OBVIOUS
  <2>1. event \in Event /\ event.eventId = s.raised + 1
    BY <1>1, <1>2, BoundsAssumption, NoneAssumption
    DEF AlarmSlot, Event, EventIds, OpenStates, mayRaise
  <2>2. p \in AlarmSlot /\ p.since = q.since /\ p.candidate = q.candidate
        /\ Saves(q, p, event, saved)
    <3> HIDE DEF q, event, p
    <3> QED BY <1>2, <2>1, PersistSaves DEF p
  <2>3. u = [p EXCEPT !.active = event, !.last = event, !.raised = q.raised + 1]
    BY DEF raiseAlarm
  <2> HIDE DEF q, event, p, u
  <2>4. /\ u.since = s.since /\ u.raised = s.raised + 1
        /\ u.active = event /\ u.last = event /\ u.candidate = None
        /\ u.stored = p.stored /\ u.unsaved = p.unsaved
    BY <1>2, <2>2, <2>3 DEF AlarmSlot
  <2> QED BY <1>2, <2>1, <2>2, <2>4 DEF Saves
<1>6. event = [eventId |-> q.raised + 1, state |-> "Active",
               updatedAt |-> at, acknowledgedBy |-> None]
  OBVIOUS
<1> HIDE DEF q, w, u, t, event
<1>7. CASE ~condition
  BY <1>2, <1>4, <1>7 DEF Evaluates, Waits, t
<1> DEFINE ready == \/ c.activationDelay <= 0
                    \/ s.candidate # None /\ at - s.candidate >= c.activationDelay
                       /\ s.candidate <= at
<1>8. CASE condition /\ ready
  <2>1. t = u
    BY <1>1, <1>4, <1>8
  <2>2. Raises(s, u, c, at, saved)
    BY <1>2, <1>5, <1>6, <1>8 DEF Raises
  <2> QED BY <1>5, <1>8, <2>1, <2>2 DEF Evaluates, t
<1>9. CASE condition /\ ~ready
  <2>1. \/ t = w /\ c.activationDelay > 0
        \/ t = s /\ s.candidate # None /\ s.candidate <= at
           /\ at - s.candidate < c.activationDelay
    BY <1>1, <1>4, <1>9
  <2>2. Waits(s, t, c, condition, at)
    BY <1>1, <1>3, <1>9, <2>1 DEF Waits
  <2>3. t.since = s.since
    BY <1>3, <2>1
  <2> QED BY <1>9, <2>2, <2>3 DEF Evaluates, t
<1> QED BY <1>7, <1>8, <1>9

(* Whatever evaluateRuleState does to a slot is one of the four.           *)
LEMMA SlotEvaluates ==
  ASSUME NEW s, SlotOK(s), NEW c \in RuleConfigs,
         NEW condition \in BOOLEAN, NEW recovery \in BOOLEAN, NEW at \in Time,
         NEW saved \in BOOLEAN, condition => mayRaise(s)
  PROVE  Evaluates(s, evaluateRuleState(s, c, condition, recovery, at, saved),
                   c, condition, at, saved)
BY OpenEvaluates, NormalEvaluates

(* Which outcomes leave an open alarm, and in which state. *)
LEMMA OutcomeStates ==
  ASSUME NEW s, SlotOK(s), NEW t \in AlarmSlot, NEW c, NEW at \in Time,
         NEW saved
  PROVE  /\ StaysOpen(s, t, at) =>
              /\ t.active # None /\ t.active.state = s.active.state
              /\ t.active.eventId = s.active.eventId
              /\ t.active.acknowledgedBy = s.active.acknowledgedBy
              /\ t.active.updatedAt = at
         /\ Raises(s, t, c, at, saved) =>
              /\ t.active # None /\ t.active.state = "Active"
              /\ t.active.eventId = t.raised /\ t.active.updatedAt = at
<1>1. s.active # None => s.active \in Event
  BY DEF SlotOK, AlarmSlot
<1>2. ASSUME StaysOpen(s, t, at)
      PROVE  /\ t.active # None /\ t.active.state = s.active.state
             /\ t.active.eventId = s.active.eventId
             /\ t.active.acknowledgedBy = s.active.acknowledgedBy
             /\ t.active.updatedAt = at
  <2>1. PICK e : e = [s.active EXCEPT !.updatedAt = at]
    OBVIOUS
  <2>2. /\ e \in Event /\ e.state = s.active.state
        /\ e.eventId = s.active.eventId /\ e.updatedAt = at
        /\ e.acknowledgedBy = s.active.acknowledgedBy
    BY <1>1, <1>2, <2>1 DEF StaysOpen, Event
  <2>3. t.active = e
    BY <1>2, <2>1 DEF StaysOpen
  <2> QED BY <2>2, <2>3, NoneAssumption
<1>3. ASSUME Raises(s, t, c, at, saved)
      PROVE  /\ t.active # None /\ t.active.state = "Active"
             /\ t.active.eventId = t.raised /\ t.active.updatedAt = at
  <2>1. t.raised \in EventIds
    BY <1>3, BoundsAssumption DEF Raises, SlotOK, AlarmSlot, EventIds
  <2>2. [eventId |-> t.raised, state |-> "Active", updatedAt |-> at,
         acknowledgedBy |-> None] \in Event
    BY <2>1 DEF Event, OpenStates
  <2>3. t.active # None
    BY <1>3, <2>2, NoneAssumption DEF Raises
  <2> QED BY <2>3, <1>3 DEF Raises
<1> QED BY <1>2, <1>3

(* The second evaluation that a heartbeat causes for the reporting device  *)
(* finds the same condition at the same time and changes nothing more.     *)
LEMMA EvaluateAgain ==
  ASSUME NEW s, SlotOK(s), NEW c \in RuleConfigs, c.type = "Offline",
         NEW condition \in BOOLEAN, NEW at \in Time, NEW now \in Time,
         NEW saved \in BOOLEAN, condition => mayRaise(s),
         condition <=> s.since # None
  PROVE  LET t == evaluateRuleState(s, c, condition, ~condition, at, saved)
         IN  evaluateRuleState(noteRun(t, condition, now), c, condition,
                               ~condition, at, saved) = t
<1> DEFINE t == evaluateRuleState(s, c, condition, ~condition, at, saved)
           q == noteRun(t, condition, now)
<1> SUFFICES evaluateRuleState(q, c, condition, ~condition, at, saved) = t
  OBVIOUS
<1>1. SlotOK(t) /\ t \in AlarmSlot /\ Evaluates(s, t, c, condition, at, saved)
  <2> HIDE DEF t
  <2> QED BY EvaluateSlot, SlotEvaluates DEF t, SlotOK
<1>2. at \in Int /\ c.activationDelay \in Int /\ at # None
      /\ (t.candidate # None => t.candidate \in Int)
  <2> HIDE DEF t
  <2> QED BY <1>1, BoundsAssumption, RulesAssumption, NoneAssumption DEF AlarmSlot, Time
<1> HIDE DEF t, q
<1>3. q = t
  BY <1>1 DEF q, noteRun, Evaluates, AlarmSlot
<1>4. CASE t.active # None
  <2>1. t.active.updatedAt = at /\ condition /\ t.last = t.active
        /\ t.candidate = None /\ t.active \in Event
    <3>1. ~Clears(s, t, at, saved) /\ ~Waits(s, t, c, condition, at)
      BY <1>4 DEF Clears, Waits
    <3>2. condition /\ (StaysOpen(s, t, at) \/ Raises(s, t, c, at, saved))
      BY <1>1, <3>1 DEF Evaluates
    <3>3. t.active.updatedAt = at
      BY <1>1, <3>2, OutcomeStates
    <3> QED BY <1>1, <1>4, <3>2, <3>3 DEF StaysOpen, Raises, AlarmSlot
  <2>2. [t.active EXCEPT !.updatedAt = at] = t.active
    BY <2>1 DEF Event
  <2>3. [[t EXCEPT !.active = t.active, !.last = t.active] EXCEPT !.candidate = None] = t
    BY <1>1, <2>1 DEF AlarmSlot
  <2>4. evaluateRuleState(t, c, condition, ~condition, at, saved)
          = [[t EXCEPT !.active = [t.active EXCEPT !.updatedAt = at],
                       !.last = [t.active EXCEPT !.updatedAt = at]]
               EXCEPT !.candidate = None]
    BY <1>4, <2>1 DEF evaluateRuleState, evaluateOpen
  <2> QED BY <1>3, <2>2, <2>3, <2>4
<1>5. CASE t.active = None
  <2>1. ~condition => t.candidate = None
    BY <1>1, <1>5 DEF Evaluates, StaysOpen, Clears, Waits
  <2>2. condition => /\ t.candidate # None /\ t.candidate <= at
                     /\ at - t.candidate < c.activationDelay
    <3>1. ~StaysOpen(s, t, at) /\ ~Raises(s, t, c, at, saved)
      BY <1>1, <1>5, OutcomeStates
    <3> QED BY <1>1, <3>1 DEF Evaluates, Waits
  <2>3. [t EXCEPT !.candidate = None] = t \/ condition
    BY <1>1, <2>1 DEF AlarmSlot
  <2>4. condition => ~(c.activationDelay <= 0) /\ ~(t.candidate > at)
    BY <1>2, <2>2
  <2>5. condition => ~(at - t.candidate >= c.activationDelay)
    BY <1>2, <2>2
  <2>6. evaluateRuleState(t, c, condition, ~condition, at, saved) = t
    BY <1>5, <2>2, <2>3, <2>4, <2>5 DEF evaluateRuleState, evaluateNormal
  <2> QED BY <1>3, <2>6
<1> QED BY <1>4, <1>5

-----------------------------------------------------------------------------
(* One call, seen from outside *)

(* A call at local time now evaluates a key once at most.  An offline rule *)
(* is met only by a device that reports offline or by an old heartbeat.    *)
KeyEvaluates(k, now) ==
  \E at \in DeviceTimes(now), condition \in BOOLEAN, saved \in BOOLEAN :
    /\ rules[k[2]] # None
    /\ condition => mayRaise(alarm[k])
    /\ (offlineRuleOf(k) /\ condition) =>
         \/ ~deviceOnline'[k[1]]
         \/ /\ lastHeartbeat'[k[1]] # None
            /\ at - lastHeartbeat'[k[1]] >= rules[k[2]].offlineTimeout
    /\ Evaluates(noteRun(alarm[k], condition, now), alarm'[k], rules[k[2]],
                 condition, at, saved)

EvaluationCall ==
  \E now \in CallTimes :
    /\ clock' = now
    /\ lastCall' = "evaluate"
    /\ rules' = rules
    /\ \A k \in Keys : alarm'[k] = alarm[k] \/ KeyEvaluates(k, now)

(* The provers take a membership for a truth value once it is named.       *)
LEMMA TruthValue ==
  ASSUME NEW x, NEW S
  PROVE  \E b \in BOOLEAN : b = (x \in S)
<1> (x \in S) \in BOOLEAN
  OBVIOUS
<1> WITNESS (x \in S) \in BOOLEAN
<1> QED OBVIOUS

(* One evaluation of a key, its history noted first.                       *)
LEMMA NotedEvaluates ==
  ASSUME IInv, NEW k \in Keys, rules[k[2]] # None,
         NEW condition \in BOOLEAN, NEW recovery \in BOOLEAN,
         NEW now \in CallTimes, NEW at \in DeviceTimes(now), NEW saved \in BOOLEAN,
         condition => mayRaise(alarm[k])
  PROVE  LET s == noteRun(alarm[k], condition, now)
         IN  /\ SlotOK(s) /\ (condition => mayRaise(s))
             /\ at \in Time /\ now \in Time
             /\ Evaluates(s, evaluateRuleState(s, rules[k[2]], condition,
                                               recovery, at, saved),
                          rules[k[2]], condition, at, saved)
<1>1. now \in Time /\ at \in Time
  BY CallTimeFacts, TimeFacts DEF IInv
<1>2. PICK s : s = noteRun(alarm[k], condition, now)
  OBVIOUS
<1>3. SlotOK(s) /\ (condition => mayRaise(s))
  BY <1>1, <1>2, KeyFacts, NoteSlot
<1>4. rules[k[2]] \in RuleConfigs
  BY KeyFacts
<1> QED BY <1>1, <1>2, <1>3, <1>4, SlotEvaluates

(* A call may read the local clock for the device's.                       *)
LEMMA NowFacts ==
  ASSUME TypeOK, NEW now \in CallTimes
  PROVE  now \in DeviceTimes(now) /\ now \in Int
<1>1. now \in Int /\ MaxSkew \in Nat
  BY CallTimeFacts, BoundsAssumption
<1> QED BY <1>1 DEF DeviceTimes

(* Telemetry evaluates the keys that the sample applies to.                *)
LEMMA TelemetryEvaluates ==
  ASSUME IInv, NEW d \in Devices, NEW sample \in Samples,
         processTelemetry(d, sample)
  PROVE  EvaluationCall
<1>1. PICK at \in CallTimes,
           saved \in SaveOutcomes({k \in Keys : appliesTo(k, d, sample)}) :
        processTelemetry(d, sample)!(at, saved)
  BY DEF processTelemetry
<1>2. ASSUME NEW k \in Keys, appliesTo(k, d, sample)
      PROVE  KeyEvaluates(k, at)
  <2> DEFINE c == rules[k[2]]
             v == sample[c.measurement]
  <2>1. PICK condition \in BOOLEAN : condition = conditionMet(c, v)
    BY DEF conditionMet
  <2>2. PICK recovery \in BOOLEAN : recovery = recoveryMet(c, v)
    BY DEF recoveryMet
  <2>3. PICK taken \in BOOLEAN : taken = (k \in saved)
    BY TruthValue
  <2>4. c # None /\ ~offlineRuleOf(k) /\ mayRaise(alarm[k])
    BY <1>1, <1>2 DEF appliesTo, offlineRuleOf
  <2>5. alarm'[k] = evaluateRuleState(noteRun(alarm[k], condition, at), c,
                                      condition, recovery, at, taken)
    BY <1>1, <1>2, <2>1, <2>2, <2>3
  <2>6. at \in DeviceTimes(at)
    BY NowFacts DEF IInv
  <2> HIDE DEF c, v
  <2>7. Evaluates(noteRun(alarm[k], condition, at), alarm'[k], c, condition, at, taken)
    BY <2>4, <2>5, <2>6, NotedEvaluates DEF c
  <2> QED BY <2>4, <2>6, <2>7 DEF KeyEvaluates, c
<1>3. \A k \in Keys : ~appliesTo(k, d, sample) => alarm'[k] = alarm[k]
  BY <1>1
<1> QED BY <1>1, <1>2, <1>3 DEF EvaluationCall

(* The timeout check of one key that has not been evaluated yet. *)
LEMMA CheckEvaluates ==
  ASSUME IInv, NEW k \in Keys, NEW now \in CallTimes, NEW at \in DeviceTimes(now),
         NEW saved \in BOOLEAN, offlineRuleOf(k) => mayRaise(alarm[k]),
         alarm'[k] = checkOffline(alarm[k], k, lastHeartbeat', deviceOnline',
                                  at, now, saved)
  PROVE  alarm'[k] = alarm[k] \/ KeyEvaluates(k, now)
<1>1. CASE offlineRuleOf(k) /\ lastHeartbeat'[k[1]] # None
  <2> DEFINE c == rules[k[2]]
  <2>1. PICK condition \in BOOLEAN :
          condition = isOffline(c, k[1], lastHeartbeat', deviceOnline', at)
    BY DEF isOffline
  <2>2. PICK recovery \in BOOLEAN : recovery = ~condition
    OBVIOUS
  <2>3. c # None /\ mayRaise(alarm[k])
    BY <1>1 DEF offlineRuleOf
  <2>4. condition => \/ ~deviceOnline'[k[1]]
                     \/ /\ lastHeartbeat'[k[1]] # None
                        /\ at - lastHeartbeat'[k[1]] >= c.offlineTimeout
    BY <1>1, <2>1 DEF isOffline
  <2>5. alarm'[k] = evaluateRuleState(noteRun(alarm[k], condition, now), c,
                                      condition, recovery, at, saved)
    BY <1>1, <2>1, <2>2 DEF checkOffline
  <2> HIDE DEF c
  <2>6. Evaluates(noteRun(alarm[k], condition, now), alarm'[k], c, condition, at, saved)
    BY <2>3, <2>5, NotedEvaluates DEF c
  <2>7. KeyEvaluates(k, now)
    BY <2>3, <2>4, <2>6 DEF KeyEvaluates, c
  <2> QED BY <2>7
<1>2. CASE ~(offlineRuleOf(k) /\ lastHeartbeat'[k[1]] # None)
  BY <1>2 DEF checkOffline
<1> QED BY <1>1, <1>2

(* The timer checks every key for a timeout.                               *)
LEMMA TimerEvaluates ==
  ASSUME IInv, updateOfflineStates
  PROVE  EvaluationCall
<1>1. PICK at \in CallTimes,
           saved \in SaveOutcomes({k \in Keys : offlineRuleOf(k)}) :
        updateOfflineStates!(at, saved)
  BY DEF updateOfflineStates
<1>2. ASSUME NEW k \in Keys
      PROVE  alarm'[k] = alarm[k] \/ KeyEvaluates(k, at)
  <2>1. PICK taken \in BOOLEAN : taken = (k \in saved)
    BY TruthValue
  <2>2. alarm'[k] = checkOffline(alarm[k], k, lastHeartbeat', deviceOnline',
                                 at, at, taken)
    BY <1>1, <2>1
  <2>3. offlineRuleOf(k) => mayRaise(alarm[k])
    BY <1>1
  <2>4. at \in DeviceTimes(at)
    BY NowFacts DEF IInv
  <2> QED BY <2>2, <2>3, <2>4, CheckEvaluates
<1> QED BY <1>1, <1>2 DEF EvaluationCall

(* A heartbeat evaluates the device's own keys, whose second evaluation    *)
(* changes nothing, and checks the others.                                 *)
LEMMA HeartbeatEvaluates ==
  ASSUME IInv, NEW d \in Devices, NEW isOnline \in BOOLEAN,
         processHeartbeat(d, isOnline)
  PROVE  EvaluationCall
<1>1. PICK now \in CallTimes,
           saved \in SaveOutcomes({k \in Keys : offlineRuleOf(k)}) :
        \E at \in DeviceTimes(now) : processHeartbeat(d, isOnline)!(now, saved)!(at)
  BY DEF processHeartbeat
<1>2. PICK at \in DeviceTimes(now) : processHeartbeat(d, isOnline)!(now, saved)!(at)
  BY <1>1
<1> DEFINE own(k, taken) ==
             IF k[1] = d /\ offlineRuleOf(k)
             THEN evaluateRuleState(noteRun(alarm[k], ~isOnline, now),
                    rules[k[2]], ~isOnline, isOnline, at, taken)
             ELSE alarm[k]
<1>3. /\ clock' = now /\ rules' = rules /\ lastCall' = "evaluate"
      /\ lastHeartbeat' = [lastHeartbeat EXCEPT ![d] = at]
      /\ deviceOnline' = [deviceOnline EXCEPT ![d] = isOnline]
      /\ \A k \in Keys : offlineRuleOf(k) => mayRaise(alarm[k])
      /\ \A k \in Keys : alarm'[k] = checkOffline(own(k, k \in saved), k, lastHeartbeat',
                                        deviceOnline', at, now, k \in saved)
  BY <1>2
<1>4. /\ lastHeartbeat'[d] = at /\ deviceOnline'[d] = isOnline
      /\ now \in Time /\ at \in Time /\ at \in Int /\ at # None
  BY <1>3, CallTimeFacts, TimeFacts, NoneAssumption, BoundsAssumption
  DEF IInv, TypeOK, Time
<1>5. ASSUME NEW k \in Keys
      PROVE  alarm'[k] = alarm[k] \/ KeyEvaluates(k, now)
  <2>1. PICK taken \in BOOLEAN : taken = (k \in saved)
    BY TruthValue
  <2>2. alarm'[k] = checkOffline(own(k, taken), k, lastHeartbeat',
                                 deviceOnline', at, now, taken)
    BY <1>3, <2>1
  <2>3. CASE k[1] = d /\ offlineRuleOf(k)
    <3> DEFINE c == rules[k[2]]
    <3>1. c \in RuleConfigs /\ isValid(c) /\ c # None /\ mayRaise(alarm[k])
          /\ c.type = "Offline" /\ c.offlineTimeout \in Int
      BY <1>3, <2>3, KeyFacts, RulesAssumption DEF offlineRuleOf
    <3>2. PICK condition \in BOOLEAN : condition = ~isOnline
      OBVIOUS
    <3>3. isOffline(c, k[1], lastHeartbeat', deviceOnline', at) <=> condition
      <4> HIDE DEF c
      <4>1. /\ c.offlineTimeout > 0 /\ ~(at - at >= c.offlineTimeout)
            /\ lastHeartbeat'[k[1]] = at /\ deviceOnline'[k[1]] = isOnline
        BY <1>4, <2>3, <3>1 DEF isValid
      <4> QED BY <3>2, <4>1 DEF isOffline
    <3>4. PICK s : s = noteRun(alarm[k], condition, now)
      OBVIOUS
    <3>5. PICK t : t = evaluateRuleState(s, c, condition, ~condition, at, taken)
      OBVIOUS
    <3>6. own(k, taken) = t
      BY <2>3, <3>2, <3>4, <3>5
    <3> HIDE DEF c, own
    <3>7. /\ SlotOK(s) /\ (condition => mayRaise(s))
          /\ Evaluates(s, t, c, condition, at, taken)
      <4> (~condition) \in BOOLEAN
        OBVIOUS
      <4> QED BY <3>1, <3>4, <3>5, NotedEvaluates DEF c
    <3>8. condition <=> s.since # None
      <4>1. alarm[k] \in AlarmSlot
        BY KeyFacts DEF SlotOK
      <4> QED BY <1>4, <3>4, <4>1, NoneAssumption DEF noteRun, AlarmSlot
    <3>9. evaluateRuleState(noteRun(t, condition, now), c, condition,
                            ~condition, at, taken) = t
      BY <1>4, <3>1, <3>5, <3>7, <3>8, EvaluateAgain
    <3>10. alarm'[k] = t
      <4>1. PICK met \in BOOLEAN :
              met = isOffline(c, k[1], lastHeartbeat', deviceOnline', at)
        BY DEF isOffline
      <4>2. met = condition
        BY <3>3, <4>1
      <4>3. lastHeartbeat'[k[1]] # None
        BY <1>4, <2>3
      <4>4. checkOffline(t, k, lastHeartbeat', deviceOnline', at, now, taken)
              = evaluateRuleState(noteRun(t, met, now), c, met, ~met, at, taken)
        BY <2>3, <4>1, <4>3 DEF checkOffline, c
      <4> QED BY <2>2, <3>6, <3>9, <4>2, <4>4
    <3>11. condition => ~deviceOnline'[k[1]]
      BY <1>4, <2>3, <3>2
    <3> QED BY <3>1, <3>4, <3>7, <3>10, <3>11 DEF KeyEvaluates, c
  <2>4. CASE ~(k[1] = d /\ offlineRuleOf(k))
    <3>1. own(k, taken) = alarm[k]
      BY <2>4
    <3> HIDE DEF own
    <3> QED BY <1>3, <2>2, <3>1, CheckEvaluates
  <2> QED BY <2>3, <2>4
<1> QED BY <1>3, <1>5 DEF EvaluationCall

-----------------------------------------------------------------------------
(* The operator's view *)

viewOf(s) == IF s.active = None THEN "Normal" ELSE s.active.state

shownOf(s) == IF s.active = None THEN 0 ELSE s.active.eventId

recordOf(s) ==
  [n \in EventIds |-> IF s.stored[n] = None THEN "None" ELSE s.stored[n].state]

RecordStep(s, t, n, new) ==
  recordOf(t) = recordOf(s) \/ recordOf(t) = [recordOf(s) EXCEPT ![n] = new]

LifeStays(s, t) ==
  /\ viewOf(t) = viewOf(s) /\ shownOf(t) = shownOf(s)
  /\ t.raised = s.raised /\ recordOf(t) = recordOf(s)

LifeRaises(s, t) ==
  /\ viewOf(s) = "Normal" /\ viewOf(t) = "Active"
  /\ t.raised = s.raised + 1 /\ shownOf(t) = t.raised
  /\ RecordStep(s, t, shownOf(t), "Active")

LifeClears(s, t) ==
  /\ viewOf(s) # "Normal" /\ viewOf(t) = "Normal"
  /\ shownOf(t) = 0 /\ t.raised = s.raised
  /\ RecordStep(s, t, shownOf(s), "Cleared")

LifeStep(s, t) == LifeStays(s, t) \/ LifeRaises(s, t) \/ LifeClears(s, t)

(* A saved event changes the record of its own number and no other.        *)
LEMMA SavedRecord ==
  ASSUME NEW s \in AlarmSlot, NEW t \in AlarmSlot, NEW e \in Event,
         NEW saved \in BOOLEAN, Saves(s, t, e, saved)
  PROVE  RecordStep(s, t, e.eventId, e.state)
<1>1. CASE saved
  <2>1. /\ s.stored \in [EventIds -> Event \cup {None}] /\ e.eventId \in EventIds
        /\ t.stored = [s.stored EXCEPT ![e.eventId] = e] /\ e # None
    BY <1>1, NoneAssumption DEF AlarmSlot, Saves, Event
  <2>2. \A n \in EventIds : t.stored[n] = IF n = e.eventId THEN e ELSE s.stored[n]
    BY <2>1
  <2> QED BY <2>1, <2>2 DEF RecordStep, recordOf
<1>2. CASE ~saved
  BY <1>2 DEF Saves, RecordStep, recordOf
<1> QED BY <1>1, <1>2

(* Noting the history changes nothing but the history.                     *)
LEMMA NotedSlot ==
  ASSUME NEW s, SlotOK(s), NEW condition, NEW now \in Time
  PROVE  LET q == noteRun(s, condition, now)
         IN  /\ SlotOK(q)
             /\ q.active = s.active /\ q.last = s.last
             /\ q.candidate = s.candidate /\ q.stored = s.stored
             /\ q.raised = s.raised /\ q.unsaved = s.unsaved
             /\ q.since = IF ~condition THEN None
                          ELSE IF s.since = None THEN now ELSE s.since
<1>1. SlotOK(noteRun(s, condition, now))
  BY NoteSlot
<1>2. s \in AlarmSlot
  BY DEF SlotOK
<1> QED BY <1>1, <1>2 DEF noteRun, AlarmSlot

(* One evaluation is at most one step of an alarm's life.                  *)
LEMMA EvaluationLife ==
  ASSUME IInv, IInv', NEW k \in Keys, NEW now \in CallTimes,
         alarm'[k] = alarm[k] \/ KeyEvaluates(k, now)
  PROVE  LifeStep(alarm[k], alarm'[k])
<1>1. CASE alarm'[k] = alarm[k]
  BY <1>1 DEF LifeStep, LifeStays, shownOf, viewOf, recordOf
<1>2. CASE KeyEvaluates(k, now)
  <2>1. PICK at \in DeviceTimes(now), condition \in BOOLEAN, saved \in BOOLEAN :
          Evaluates(noteRun(alarm[k], condition, now), alarm'[k], rules[k[2]],
                    condition, at, saved)
    BY <1>2 DEF KeyEvaluates
  <2>2. at \in Time /\ now \in Time
    BY CallTimeFacts, TimeFacts DEF IInv
  <2>3. PICK q : q = noteRun(alarm[k], condition, now)
    OBVIOUS
  <2>4. /\ SlotOK(q) /\ q \in AlarmSlot
        /\ q.active = alarm[k].active /\ q.raised = alarm[k].raised
        /\ q.stored = alarm[k].stored
    BY <2>2, <2>3, KeyFacts, NotedSlot DEF SlotOK
  <2>5. PICK t : t = alarm'[k]
    OBVIOUS
  <2>6. t \in AlarmSlot
    BY <2>5 DEF IInv, TypeOK
  <2>7. q.active # None => viewOf(q) # "Normal"
    BY <2>4 DEF SlotOK, SlotInv, viewOf, OpenStates
  <2>8. Evaluates(q, t, rules[k[2]], condition, at, saved)
    BY <2>1, <2>3, <2>5
  <2>9. LifeStep(q, t)
    <3>1. CASE StaysOpen(q, t, at)
      BY <2>2, <2>4, <2>6, <3>1, OutcomeStates
      DEF StaysOpen, LifeStep, LifeStays, viewOf, shownOf, recordOf
    <3>2. CASE Clears(q, t, at, saved)
      <4>1. q.active \in Event /\ q.active # None
        BY <2>4, <3>2 DEF Clears, AlarmSlot
      <4>2. PICK e : e = [q.active EXCEPT !.state = "Cleared", !.updatedAt = at]
        OBVIOUS
      <4>3. e \in Event /\ e.state = "Cleared" /\ e.eventId = q.active.eventId
        BY <2>2, <4>1, <4>2 DEF Event
      <4>4. Saves(q, t, e, saved)
        BY <3>2, <4>2 DEF Clears
      <4>5. RecordStep(q, t, shownOf(q), "Cleared")
        BY <2>4, <2>6, <4>1, <4>3, <4>4, SavedRecord DEF shownOf
      <4> QED BY <2>7, <3>2, <4>5 DEF Clears, LifeStep, LifeClears, viewOf, shownOf
    <3>3. CASE Waits(q, t, rules[k[2]], condition, at)
      BY <3>3 DEF Waits, LifeStep, LifeStays, viewOf, shownOf, recordOf
    <3>4. CASE Raises(q, t, rules[k[2]], at, saved)
      <4>1. /\ t.active # None /\ t.active.state = "Active"
            /\ t.active.eventId = t.raised /\ t.active \in Event
        BY <2>2, <2>4, <2>6, <3>4, OutcomeStates DEF AlarmSlot
      <4>2. Saves(q, t, t.active, saved)
        BY <3>4 DEF Raises
      <4>3. RecordStep(q, t, shownOf(t), "Active")
        BY <2>4, <2>6, <4>1, <4>2, SavedRecord DEF shownOf
      <4> QED BY <3>4, <4>1, <4>3 DEF Raises, LifeStep, LifeRaises, viewOf, shownOf
    <3> QED BY <2>8, <3>1, <3>2, <3>3, <3>4 DEF Evaluates
  <2>10. viewOf(q) = viewOf(alarm[k]) /\ shownOf(q) = shownOf(alarm[k])
         /\ recordOf(q) = recordOf(alarm[k])
    BY <2>4 DEF viewOf, shownOf, recordOf
  <2> QED BY <2>4, <2>5, <2>9, <2>10
    DEF LifeStep, LifeStays, LifeRaises, LifeClears, RecordStep
<1> QED BY <1>1, <1>2

(* A call in which every key takes at most one step is an evaluation.      *)
LEMMA LifeRefines ==
  ASSUME \A k \in Keys : LifeStep(alarm[k], alarm'[k]), lastCall' = "evaluate"
  PROVE  Lifecycle!Evaluate
<1>1. ASSUME NEW k \in Keys
      PROVE  Lifecycle!Stay(k) \/ Lifecycle!Raise(k) \/ Lifecycle!Clear(k)
  <2>1. CASE LifeStays(alarm[k], alarm'[k])
    BY <2>1 DEF LifeStays, Lifecycle!Stay, viewOf, shownOf, recordOf
  <2>2. CASE LifeRaises(alarm[k], alarm'[k])
    BY <2>2 DEF LifeRaises, RecordStep, Lifecycle!Raise, Lifecycle!Saves,
                viewOf, shownOf, recordOf
  <2>3. CASE LifeClears(alarm[k], alarm'[k])
    BY <2>3 DEF LifeClears, RecordStep, Lifecycle!Clear, Lifecycle!Saves,
                viewOf, shownOf, recordOf
  <2> QED BY <2>1, <2>2, <2>3 DEF LifeStep
<1> QED BY <1>1 DEF Lifecycle!Evaluate

(* A call that evaluates rules moves every key one step of its life at     *)
(* most.                                                                   *)
LEMMA EvaluationRefines ==
  ASSUME IInv, IInv', EvaluationCall
  PROVE  Lifecycle!Evaluate
BY EvaluationLife, LifeRefines DEF EvaluationCall

(* Restoring, and a new engine, show an event only as the repository has   *)
(* it, and write nothing.                                                  *)
LEMMA RecoveryRefines ==
  ASSUME IInv, restore \/ Restart
  PROVE  Lifecycle!Recover
<1>1. ASSUME NEW k \in Keys
      PROVE  /\ alarm'[k].raised = alarm[k].raised
             /\ alarm'[k].stored = alarm[k].stored
             /\ alarm'[k].active # None =>
                  /\ alarm'[k].active.state \in OpenStates
                  /\ alarm'[k].active.eventId \in EventIds
                  /\ alarm[k].stored[alarm'[k].active.eventId] = alarm'[k].active
  <2>1. SlotOK(alarm[k]) /\ alarm[k] \in AlarmSlot
    BY KeyFacts DEF SlotOK
  <2>2. PICK s : s = alarm[k]
    OBVIOUS
  <2>3. CASE alarm'[k] = restored(s)
    <3>1. PICK event : event = latestStored(s)
      OBVIOUS
    <3>2. event # None => /\ event.eventId \in EventIds
                          /\ s.stored[event.eventId] = event
      <4>1. event # None => \E n \in EventIds : s.stored[n] # None /\ event = s.stored[n]
        BY <3>1 DEF latestStored
      <4>2. \A n \in EventIds : s.stored[n] # None => s.stored[n].eventId = n
        BY <2>1, <2>2 DEF SlotOK, SlotInv
      <4> QED BY <4>1, <4>2
    <3>3. PICK a : a = IF event # None /\ event.state \in OpenStates
                       THEN event ELSE None
      OBVIOUS
    <3>4. alarm'[k] = [s EXCEPT !.active = a, !.last = event,
                                !.candidate = None, !.since = None]
      BY <2>3, <3>1, <3>3 DEF restored
    <3>5. alarm'[k].raised = s.raised /\ alarm'[k].stored = s.stored
          /\ alarm'[k].active = a
      BY <2>1, <2>2, <3>4 DEF AlarmSlot
    <3> QED BY <2>2, <3>2, <3>3, <3>5
  <2>4. CASE alarm'[k] = [s EXCEPT !.active = None, !.last = None,
                                   !.candidate = None, !.since = None]
    BY <2>1, <2>2, <2>4 DEF AlarmSlot
  <2> QED BY <2>2, <2>3, <2>4 DEF restore, Restart
<1>2. lastCall' = "recover"
  BY DEF restore, Restart
<1>3. ASSUME NEW k \in Keys, alarm'[k].active # None
      PROVE  alarm[k].stored[alarm'[k].active.eventId] # None
  BY <1>1, <1>3
<1> QED BY <1>1, <1>2, <1>3 DEF Lifecycle!Recover, Lifecycle!OpenStates, OpenStates

(* An acknowledgement is one of the operator's.                            *)
LEMMA AcknowledgeRefines ==
  ASSUME IInv, NEW k \in Keys, NEW operator \in Operators,
         acknowledge(k, operator)
  PROVE  Lifecycle!Acknowledge(k)
<1>1. PICK at \in CallTimes :
        alarm' = [alarm EXCEPT ![k] =
          [alarm[k] EXCEPT
             !.active = [alarm[k].active EXCEPT !.state = "Acknowledged",
                           !.updatedAt = at, !.acknowledgedBy = operator],
             !.last = [alarm[k].active EXCEPT !.state = "Acknowledged",
                         !.updatedAt = at, !.acknowledgedBy = operator],
             !.stored = saveEvent(@, [alarm[k].active EXCEPT !.state = "Acknowledged",
                           !.updatedAt = at, !.acknowledgedBy = operator])]]
  BY DEF acknowledge
<1>2. PICK e : e = [alarm[k].active EXCEPT !.state = "Acknowledged",
                      !.updatedAt = at, !.acknowledgedBy = operator]
  OBVIOUS
<1>3. /\ alarm[k] \in AlarmSlot /\ alarm \in [Keys -> AlarmSlot]
      /\ alarm[k].active # None /\ alarm[k].active.state = "Active"
      /\ alarm[k].active \in Event /\ at \in Time
  <2>1. alarm[k] \in AlarmSlot /\ alarm \in [Keys -> AlarmSlot]
    BY DEF IInv, TypeOK
  <2>2. alarm[k].active # None /\ alarm[k].active.state = "Active"
    BY DEF acknowledge
  <2>3. at \in Time
    BY CallTimeFacts, TimeFacts DEF IInv
  <2> QED BY <2>1, <2>2, <2>3 DEF AlarmSlot
<1>4. /\ e \in Event /\ e # None /\ e.state = "Acknowledged"
      /\ e.eventId = alarm[k].active.eventId /\ e.eventId \in EventIds
  BY <1>2, <1>3, NoneAssumption DEF Event, OpenStates
<1>5. /\ alarm'[k].active = e /\ alarm'[k].raised = alarm[k].raised
      /\ alarm'[k].stored = [alarm[k].stored EXCEPT ![e.eventId] = e]
      /\ \A j \in Keys : j # k => alarm'[j] = alarm[j]
  <2>1. PICK x : x = saveEvent(alarm[k].stored, e)
    OBVIOUS
  <2>3. x = [alarm[k].stored EXCEPT ![e.eventId] = e]
    BY <2>1 DEF saveEvent
  <2>2. alarm' = [alarm EXCEPT ![k] =
                    [alarm[k] EXCEPT !.active = e, !.last = e, !.stored = x]]
    BY <1>1, <1>2, <2>1
  <2> QED BY <1>3, <2>2, <2>3 DEF AlarmSlot
<1>6. recordOf(alarm'[k]) = [recordOf(alarm[k]) EXCEPT ![e.eventId] = "Acknowledged"]
  <2>1. \A n \in EventIds : alarm'[k].stored[n]
                              = IF n = e.eventId THEN e ELSE alarm[k].stored[n]
    BY <1>3, <1>4, <1>5 DEF AlarmSlot
  <2> QED BY <1>4, <2>1 DEF recordOf
<1>7. \A j \in Keys \ {k} : Lifecycle!Stay(j)
  BY <1>5 DEF Lifecycle!Stay
<1>8. lastCall' = "acknowledge"
  BY DEF acknowledge
<1> QED BY <1>3, <1>4, <1>5, <1>6, <1>7, <1>8 DEF Lifecycle!Acknowledge, recordOf

(* Changes of the rules leave every alarm as it is.                        *)
LEMMA QuietRefines ==
  ASSUME IInv,
         \/ \E new \in [RuleIds -> RuleConfigs \cup {None}] : setRules(new)
         \/ \E r \in RuleIds, c \in RuleConfigs : addRule(r, c)
         \/ clearRules
  PROVE  Lifecycle!Evaluate
<1>1. ASSUME NEW k \in Keys
      PROVE  LifeStep(alarm[k], alarm'[k])
  <2>1. alarm[k] \in AlarmSlot
    BY KeyFacts DEF SlotOK
  <2>2. \/ alarm' = alarm
        \/ alarm' = [j \in Keys |->
                       [alarm[j] EXCEPT !.candidate = None, !.since = None]]
    BY DEF setRules, addRule, clearRules
  <2>3. /\ alarm'[k].active = alarm[k].active /\ alarm'[k].raised = alarm[k].raised
        /\ alarm'[k].stored = alarm[k].stored
    BY <2>1, <2>2 DEF AlarmSlot
  <2> QED BY <2>3 DEF LifeStep, LifeStays, viewOf, shownOf, recordOf
<1>2. lastCall' = "evaluate"
  BY DEF setRules, addRule, clearRules
<1> QED BY <1>1, <1>2, LifeRefines

(* The engine implements what AlarmLifecycle promises an operator: any     *)
(* call but restore() and the construction of an engine moves every key at *)
(* most one step of its life, only acknowledge() acknowledges, every       *)
(* activation is a new occurrence, the repository learns of exactly these  *)
(* steps, and a recovery shows an occurrence only in the state the         *)
(* repository has it in (evaluateRuleState, acknowledge and restore).      *)
THEOREM EngineImplementsLifecycle == Spec => LifecycleSpec
<1>1. Init => Lifecycle!Init
  BY DEF Init, EmptySlot, Lifecycle!Init
<1>2. IInv /\ IInv' /\ [Next]_vars => [Lifecycle!Next]_(Lifecycle!vars)
  <2> SUFFICES ASSUME IInv, IInv', [Next]_vars
               PROVE  [Lifecycle!Next]_(Lifecycle!vars)
    OBVIOUS
  <2>1. CASE EvaluationCall
    BY <2>1, EvaluationRefines DEF Lifecycle!Next
  <2>2. CASE restore \/ Restart
    BY <2>2, RecoveryRefines DEF Lifecycle!Next
  <2>3. ASSUME NEW k \in Keys, NEW operator \in Operators, acknowledge(k, operator)
        PROVE  [Lifecycle!Next]_(Lifecycle!vars)
    BY <2>3, AcknowledgeRefines DEF Lifecycle!Next
  <2>4. CASE \/ \E new \in [RuleIds -> RuleConfigs \cup {None}] : setRules(new)
             \/ \E r \in RuleIds, c \in RuleConfigs : addRule(r, c)
             \/ clearRules
    BY <2>4, QuietRefines DEF Lifecycle!Next
  <2>8. CASE UNCHANGED vars
    BY <2>8 DEF vars, Lifecycle!vars
  <2>5. ASSUME NEW d \in Devices, NEW sample \in Samples, processTelemetry(d, sample)
        PROVE  EvaluationCall
    BY <2>5, TelemetryEvaluates
  <2>6. ASSUME NEW d \in Devices, NEW isOnline \in BOOLEAN, processHeartbeat(d, isOnline)
        PROVE  EvaluationCall
    BY <2>6, HeartbeatEvaluates
  <2>7. updateOfflineStates => EvaluationCall
    BY TimerEvaluates
  <2> QED BY <2>1, <2>2, <2>3, <2>4, <2>5, <2>6, <2>7, <2>8 DEF Next
<1> QED BY <1>1, <1>2, Invariance, PTL DEF Spec, LifecycleSpec, Lifecycle!Spec

-----------------------------------------------------------------------------
(* Timing *)

(* The run of met conditions began in the past, and a pending activation   *)
(* was noted within it, as far as the device's clock can be trusted.       *)
Paced(s, now) ==
  /\ s.since # None => s.since <= now
  /\ s.candidate # None => s.since # None /\ s.since - MaxSkew <= s.candidate

Timing == IInv /\ \A k \in Keys : Paced(alarm[k], clock)

SinceReady(s, now, delay) ==
  s.since # None /\ now - s.since >= delay - 2 * MaxSkew

(* One evaluation keeps the pace, and what it raises is due.               *)
LEMMA EvaluationPaced ==
  ASSUME NEW s, SlotOK(s), NEW t, SlotOK(t), NEW condition \in BOOLEAN,
         NEW now \in Time, NEW at \in DeviceTimes(now), NEW then \in Int,
         then <= now, NEW c \in RuleConfigs, NEW saved \in BOOLEAN,
         Paced(s, then),
         Evaluates(noteRun(s, condition, now), t, c, condition, at, saved)
  PROVE  /\ Paced(t, now)
         /\ t.raised > s.raised => SinceReady(t, now, c.activationDelay)
<1>1. PICK q : q = noteRun(s, condition, now)
  OBVIOUS
<1>2. /\ SlotOK(q) /\ q.candidate = s.candidate /\ q.raised = s.raised
      /\ q.since = IF ~condition THEN None
                   ELSE IF s.since = None THEN now ELSE s.since
  BY <1>1, NotedSlot
<1>3. /\ now \in Int /\ at \in Int /\ MaxSkew \in Nat /\ now # None
      /\ c.activationDelay \in Int
      /\ at <= now + MaxSkew /\ now - MaxSkew <= at
      /\ (s.since # None => s.since \in Int)
      /\ (s.candidate # None => s.candidate \in Int)
      /\ s.raised \in Int
  <2>1. /\ s.since \in Time \cup {None} /\ s.candidate \in Time \cup {None}
        /\ s.raised \in 0..MaxEvents
    BY DEF SlotOK, AlarmSlot
  <2>2. MaxSkew \in Nat /\ MaxEvents \in Nat /\ c.activationDelay \in Int
    BY BoundsAssumption, RulesAssumption
  <2>3. Time \subseteq Int /\ None \notin Time
    BY BoundsAssumption, NoneAssumption DEF Time
  <2>4. at \in Int /\ at <= now + MaxSkew /\ now - MaxSkew <= at
    BY <2>2, <2>3 DEF DeviceTimes
  <2>5. s.raised \in Int
    BY <2>1, <2>2
  <2>6. now \in Int /\ now # None
    BY <2>3
  <2>7. /\ s.since # None => s.since \in Int
        /\ s.candidate # None => s.candidate \in Int
    BY <2>1, <2>3
  <2> QED BY <2>2, <2>4, <2>5, <2>6, <2>7
<1>4. Evaluates(q, t, c, condition, at, saved)
  BY <1>1
<1>5. t.since = q.since
  BY <1>4 DEF Evaluates
<1>6. condition => q.since # None /\ q.since \in Int /\ q.since <= now
  BY <1>2, <1>3 DEF Paced
<1>7. t.since # None => t.since <= now
  BY <1>2, <1>5, <1>6
<1>8. t.candidate # None => t.since # None /\ t.since - MaxSkew <= t.candidate
  <2>1. CASE Waits(q, t, c, condition, at)
    <3>1. t.candidate # None => condition /\ t.candidate \in {at, s.candidate}
      BY <1>2, <2>1 DEF Waits
    <3>2. CASE t.candidate = at
      BY <1>3, <1>5, <1>6, <3>1, <3>2
    <3>3. CASE t.candidate = s.candidate
      BY <1>2, <1>3, <1>5, <3>1, <3>3 DEF Paced
    <3> QED BY <3>1, <3>2, <3>3
  <2>2. CASE ~Waits(q, t, c, condition, at)
    BY <1>4, <2>2 DEF Evaluates, StaysOpen, Clears, Raises
  <2> QED BY <2>1, <2>2
<1>9. t.raised > s.raised => SinceReady(t, now, c.activationDelay)
  <2> SUFFICES ASSUME t.raised > s.raised
               PROVE  SinceReady(t, now, c.activationDelay)
    OBVIOUS
  <2>1. condition /\ Raises(q, t, c, at, saved)
    <3>1. t.raised # q.raised
      BY <1>2, <1>3
    <3> QED BY <1>4, <3>1 DEF Evaluates, StaysOpen, Clears, Waits
  <2>2. CASE c.activationDelay <= 0
    BY <1>3, <1>5, <1>6, <2>1, <2>2 DEF SinceReady
  <2>3. CASE s.candidate # None /\ at - s.candidate >= c.activationDelay
    <3>1. t.since = s.since /\ s.since # None /\ s.since - MaxSkew <= s.candidate
      BY <1>2, <1>5, <2>1, <2>3 DEF Paced
    <3> QED BY <1>3, <2>3, <3>1 DEF SinceReady
  <2> QED BY <1>2, <2>1, <2>2, <2>3 DEF Raises
<1> QED BY <1>7, <1>8, <1>9 DEF Paced

(* What any other call leaves of a slot's timing.                          *)
LEMMA OtherCalls ==
  ASSUME IInv, ~EvaluationCall, [Next]_vars, NEW k \in Keys
  PROVE  /\ alarm'[k].raised = alarm[k].raised
         /\ \/ alarm'[k].candidate = alarm[k].candidate /\ alarm'[k].since = alarm[k].since
            \/ alarm'[k].candidate = None /\ alarm'[k].since = None
         /\ clock' \in Int /\ clock <= clock'
<1>1. PICK s : s = alarm[k]
  OBVIOUS
<1>2. s \in AlarmSlot
  BY <1>1, KeyFacts DEF SlotOK
<1>3. \A d \in Devices, sample \in Samples : ~processTelemetry(d, sample)
  BY TelemetryEvaluates
<1>4. \A d \in Devices, isOnline \in BOOLEAN : ~processHeartbeat(d, isOnline)
  BY HeartbeatEvaluates
<1>5. ~updateOfflineStates
  BY TimerEvaluates
<1>6. \/ clock' = clock
      \/ clock' \in CallTimes
  BY <1>3, <1>4, <1>5
  DEF Next, vars, setRules, addRule, clearRules, restore, Restart, acknowledge
<1>7. clock' \in Int /\ clock <= clock'
  BY <1>6, BoundsAssumption DEF CallTimes, IInv, TypeOK
<1>8. \/ alarm'[k] = s
      \/ alarm'[k] = [s EXCEPT !.candidate = None, !.since = None]
      \/ alarm'[k] = restored(s)
      \/ alarm'[k] = [s EXCEPT !.active = None, !.last = None,
                               !.candidate = None, !.since = None]
      \/ \E e, x : alarm'[k] = [s EXCEPT !.active = e, !.last = e, !.stored = x]
  <2>1. ASSUME NEW j \in Keys, NEW operator \in Operators, acknowledge(j, operator)
        PROVE  \/ alarm'[k] = s
               \/ \E e, x : alarm'[k] = [s EXCEPT !.active = e, !.last = e, !.stored = x]
    <3>1. PICK e, x : alarm' = [alarm EXCEPT ![j] =
                        [alarm[j] EXCEPT !.active = e, !.last = e, !.stored = x]]
      BY <2>1 DEF acknowledge
    <3>2. alarm \in [Keys -> AlarmSlot]
      BY DEF IInv, TypeOK
    <3> QED BY <1>1, <3>1, <3>2
  <2>2. CASE \E new \in [RuleIds -> RuleConfigs \cup {None}] : setRules(new)
    BY <1>1, <2>2 DEF setRules
  <2>3. CASE \E r \in RuleIds, c \in RuleConfigs : addRule(r, c)
    BY <1>1, <2>3 DEF addRule
  <2>4. CASE clearRules
    BY <1>1, <2>4 DEF clearRules
  <2>5. CASE restore
    BY <1>1, <2>5 DEF restore
  <2>6. CASE Restart
    BY <1>1, <2>6 DEF Restart
  <2>7. CASE UNCHANGED vars
    BY <1>1, <2>7 DEF vars
  <2> QED BY <1>3, <1>4, <1>5, <2>1, <2>2, <2>3, <2>4, <2>5, <2>6, <2>7 DEF Next
<1>9. PICK t : t = alarm'[k]
  OBVIOUS
<1>10. /\ t.raised = s.raised
       /\ \/ t.candidate = s.candidate /\ t.since = s.since
          \/ t.candidate = None /\ t.since = None
  <2>1. CASE t = [s EXCEPT !.candidate = None, !.since = None]
    BY <1>2, <2>1 DEF AlarmSlot
  <2>2. CASE t = restored(s)
    BY <1>2, <2>2 DEF restored, AlarmSlot
  <2>3. CASE t = [s EXCEPT !.active = None, !.last = None,
                           !.candidate = None, !.since = None]
    BY <1>2, <2>3 DEF AlarmSlot
  <2>4. CASE \E e, x : t = [s EXCEPT !.active = e, !.last = e, !.stored = x]
    <3> PICK e, x : t = [s EXCEPT !.active = e, !.last = e, !.stored = x]
      BY <2>4
    <3> QED BY <1>2 DEF AlarmSlot
  <2> QED BY <1>8, <1>9, <2>1, <2>2, <2>3, <2>4
<1> QED BY <1>1, <1>7, <1>9, <1>10

(* Every step keeps the pace, and raises only what is due.                 *)
LEMMA TimingStep ==
  ASSUME Timing, IInv', [Next]_vars
  PROVE  /\ Timing'
         /\ \A k \in Keys : alarm'[k].raised > alarm[k].raised =>
              SinceReady(alarm'[k], clock', rules[k[2]].activationDelay)
<1>1. CASE EvaluationCall
  <2>1. PICK now \in CallTimes :
          /\ clock' = now
          /\ \A k \in Keys : alarm'[k] = alarm[k] \/ KeyEvaluates(k, now)
    BY <1>1 DEF EvaluationCall
  <2>2. now \in Time /\ now \in Int /\ clock \in Int /\ clock <= now
    <3>1. now \in Time
      BY CallTimeFacts, TimeFacts DEF Timing, IInv
    <3> QED BY <3>1, BoundsAssumption DEF CallTimes, Timing, IInv, TypeOK
  <2>3. ASSUME NEW k \in Keys
        PROVE  /\ Paced(alarm'[k], now)
               /\ alarm'[k].raised > alarm[k].raised =>
                    SinceReady(alarm'[k], now, rules[k[2]].activationDelay)
    <3>1. PICK s, t : s = alarm[k] /\ t = alarm'[k]
      OBVIOUS
    <3>2. SlotOK(s) /\ SlotOK(t) /\ Paced(s, clock)
      BY <3>1, KeyFacts, IInv' DEF Timing, IInv, TypeOK, SlotOK
    <3>3. CASE t = s
      <4>1. /\ s.since # None => s.since \in Int
            /\ s.raised \in Int
        BY <3>2, BoundsAssumption DEF SlotOK, AlarmSlot, Time
      <4> QED BY <2>2, <3>1, <3>2, <3>3, <4>1 DEF Paced
    <3>4. CASE KeyEvaluates(k, now)
      <4>1. PICK at \in DeviceTimes(now), condition \in BOOLEAN, saved \in BOOLEAN :
              /\ rules[k[2]] # None
              /\ Evaluates(noteRun(s, condition, now), t, rules[k[2]],
                           condition, at, saved)
        BY <3>1, <3>4 DEF KeyEvaluates
      <4>2. rules[k[2]] \in RuleConfigs
        BY <4>1, KeyFacts DEF Timing
      <4> QED BY <2>2, <3>1, <3>2, <4>1, <4>2, EvaluationPaced
    <3> QED BY <2>1, <3>1, <3>3, <3>4
  <2> QED BY <2>1, <2>3 DEF Timing
<1>2. CASE ~EvaluationCall
  <2>1. ASSUME NEW k \in Keys
        PROVE  /\ Paced(alarm'[k], clock')
               /\ ~(alarm'[k].raised > alarm[k].raised)
    <3>1. PICK s, t : s = alarm[k] /\ t = alarm'[k]
      OBVIOUS
    <3>2. /\ t.raised = s.raised
          /\ \/ t.candidate = s.candidate /\ t.since = s.since
             \/ t.candidate = None /\ t.since = None
          /\ clock' \in Int /\ clock <= clock'
      BY <1>2, <3>1, OtherCalls DEF Timing
    <3>3. SlotOK(s) /\ Paced(s, clock) /\ clock \in Int
      BY <3>1, KeyFacts DEF Timing, IInv, TypeOK
    <3>4. /\ s.since # None => s.since \in Int
          /\ s.raised \in Int
      BY <3>3, BoundsAssumption DEF SlotOK, AlarmSlot, Time
    <3> QED BY <3>1, <3>2, <3>3, <3>4 DEF Paced
  <2> QED BY <2>1 DEF Timing
<1> QED BY <1>1, <1>2

(* A raised offline alarm is due by the device's report or by its time.    *)
LEMMA OfflineStep ==
  ASSUME IInv, IInv', [Next]_vars, NEW k \in Keys, offlineRuleOf(k),
         alarm'[k].raised > alarm[k].raised
  PROVE  \/ ~deviceOnline'[k[1]]
         \/ /\ lastHeartbeat'[k[1]] # None
            /\ clock' - lastHeartbeat'[k[1]] >= rules[k[2]].offlineTimeout - MaxSkew
<1>1. alarm[k].raised \in Int
  BY KeyFacts, BoundsAssumption DEF SlotOK, AlarmSlot
<1>2. EvaluationCall
  BY <1>1, OtherCalls
<1>3. PICK now \in CallTimes : clock' = now /\ KeyEvaluates(k, now)
  BY <1>1, <1>2 DEF EvaluationCall
<1>4. PICK at \in DeviceTimes(now), condition \in BOOLEAN, saved \in BOOLEAN :
        /\ rules[k[2]] # None
        /\ condition =>
             \/ ~deviceOnline'[k[1]]
             \/ /\ lastHeartbeat'[k[1]] # None
                /\ at - lastHeartbeat'[k[1]] >= rules[k[2]].offlineTimeout
        /\ Evaluates(noteRun(alarm[k], condition, now), alarm'[k], rules[k[2]],
                     condition, at, saved)
  BY <1>3 DEF KeyEvaluates
<1>5. now \in Time /\ now \in Int /\ at \in Int /\ at <= now + MaxSkew
  <2>1. now \in 0..MaxTime /\ now \in Time
    BY CallTimeFacts, TimeFacts DEF IInv
  <2> QED BY <2>1, BoundsAssumption DEF DeviceTimes
<1>6. condition
  <2>1. noteRun(alarm[k], condition, now).raised = alarm[k].raised
    BY <1>5, KeyFacts, NotedSlot
  <2>2. alarm'[k].raised # alarm[k].raised
    BY <1>1
  <2> QED BY <1>4, <2>1, <2>2 DEF Evaluates, StaysOpen, Clears, Waits
<1>7. lastHeartbeat'[k[1]] # None => lastHeartbeat'[k[1]] \in Int
  BY KeyFacts, IInv', BoundsAssumption DEF IInv, TypeOK, Time
<1>8. rules[k[2]].offlineTimeout \in Int /\ MaxSkew \in Nat
  BY <1>4, KeyFacts, RulesAssumption, BoundsAssumption
<1> QED BY <1>3, <1>4, <1>5, <1>6, <1>7, <1>8

(* The duration filter as the engine keeps it whatever the devices' clocks *)
(* say: a candidate and the heartbeat that ends its delay are both in      *)
(* device time and each may be MaxSkew off (evaluateRuleState).            *)
DurationFilterWithinSkew ==
  [][\A k \in Keys :
       alarm'[k].raised > alarm[k].raised
         => /\ alarm'[k].since # None
            /\ clock' - alarm'[k].since
                 >= rules[k[2]].activationDelay - 2 * MaxSkew]_vars

(* No device that reports online is declared offline before its timeout,   *)
(* up to what its clock is off.                                            *)
OfflineJustifiedWithinSkew ==
  [][\A k \in Keys :
       (offlineRuleOf(k) /\ alarm'[k].raised > alarm[k].raised)
         => \/ ~deviceOnline'[k[1]]
            \/ clock' - lastHeartbeat'[k[1]]
                 >= rules[k[2]].offlineTimeout - MaxSkew]_vars

(* The pace is kept in every reachable state.                              *)
LEMMA TimingInvariance == Spec => []Timing
<1>1. Init => Timing
  <2> SUFFICES ASSUME Init PROVE Timing
    OBVIOUS
  <2>1. \A k \in Keys : alarm[k] = EmptySlot
    BY DEF Init
  <2>2. Paced(EmptySlot, clock)
    BY DEF Paced, EmptySlot
  <2> QED BY <2>1, <2>2, InitIInv DEF Timing
<1>2. Timing /\ IInv' /\ [Next]_vars => Timing'
  BY TimingStep
<1> QED BY <1>1, <1>2, Invariance, PTL DEF Spec

(* An alarm is raised only after its condition has been met for the        *)
(* activation delay, up to what the devices' clocks are off.               *)
THEOREM DurationFiltered == Spec => DurationFilterWithinSkew
<1>1. Timing /\ IInv' /\ [Next]_vars =>
        [\A k \in Keys :
           alarm'[k].raised > alarm[k].raised
             => /\ alarm'[k].since # None
                /\ clock' - alarm'[k].since
                     >= rules[k[2]].activationDelay - 2 * MaxSkew]_vars
  BY TimingStep DEF SinceReady
<1> QED BY <1>1, TimingInvariance, Invariance, PTL DEF Spec, DurationFilterWithinSkew

(* With synchronised device clocks the filter is exact. *)
THEOREM DurationFilteredExactly ==
  ASSUME MaxSkew = 0
  PROVE  Spec => DurationFilter
<1>1. Timing /\ IInv' /\ [Next]_vars =>
        [\A k \in Keys :
           alarm'[k].raised > alarm[k].raised
             => /\ alarm'[k].since # None
                /\ clock' - alarm'[k].since >= rules[k[2]].activationDelay]_vars
  <2> SUFFICES ASSUME Timing, IInv', [Next]_vars, NEW k \in Keys,
                      alarm'[k].raised > alarm[k].raised
               PROVE  /\ alarm'[k].since # None
                      /\ clock' - alarm'[k].since >= rules[k[2]].activationDelay
    OBVIOUS
  <2>1. SinceReady(alarm'[k], clock', rules[k[2]].activationDelay)
    BY TimingStep
  <2>2. rules[k[2]].activationDelay - 2 * MaxSkew = rules[k[2]].activationDelay
    <3>1. alarm[k].raised \in Int /\ IInv
      BY KeyFacts, BoundsAssumption DEF SlotOK, AlarmSlot, Timing
    <3>2. EvaluationCall
      BY <3>1, OtherCalls
    <3>3. \E now \in CallTimes : KeyEvaluates(k, now)
      BY <3>1, <3>2 DEF EvaluationCall
    <3>4. rules[k[2]] # None
      BY <3>3 DEF KeyEvaluates
    <3>5. rules[k[2]].activationDelay \in Int
      BY <3>1, <3>4, KeyFacts, RulesAssumption
    <3> QED BY <3>5
  <2> QED BY <2>1, <2>2 DEF SinceReady
<1> QED BY <1>1, TimingInvariance, Invariance, PTL DEF Spec, DurationFilter

(* No device is declared offline while it reports online and its last      *)
(* heartbeat is younger than the timeout, up to what its clock is off.     *)
THEOREM OfflineAlwaysJustified == Spec => OfflineJustifiedWithinSkew
<1>1. IInv /\ IInv' /\ [Next]_vars =>
        [\A k \in Keys :
           (offlineRuleOf(k) /\ alarm'[k].raised > alarm[k].raised)
             => \/ ~deviceOnline'[k[1]]
                \/ clock' - lastHeartbeat'[k[1]]
                     >= rules[k[2]].offlineTimeout - MaxSkew]_vars
  BY OfflineStep
<1> QED BY <1>1, Invariance, PTL DEF Spec, OfflineJustifiedWithinSkew

(* With synchronised device clocks the timeout is exact. *)
THEOREM OfflineExactlyJustified ==
  ASSUME MaxSkew = 0
  PROVE  Spec => OfflineJustified
<1>1. IInv /\ IInv' /\ [Next]_vars =>
        [\A k \in Keys :
           (offlineRuleOf(k) /\ alarm'[k].raised > alarm[k].raised)
             => \/ ~deviceOnline'[k[1]]
                \/ clock' - lastHeartbeat'[k[1]]
                     >= rules[k[2]].offlineTimeout]_vars
  <2> SUFFICES ASSUME IInv, IInv', [Next]_vars, NEW k \in Keys,
                      offlineRuleOf(k), alarm'[k].raised > alarm[k].raised
               PROVE  \/ ~deviceOnline'[k[1]]
                      \/ clock' - lastHeartbeat'[k[1]] >= rules[k[2]].offlineTimeout
    OBVIOUS
  <2>1. rules[k[2]].offlineTimeout \in Int
    BY KeyFacts, RulesAssumption DEF offlineRuleOf
  <2> QED BY <2>1, OfflineStep
<1> QED BY <1>1, Invariance, PTL DEF Spec, OfflineJustified

-----------------------------------------------------------------------------
(* What a restored engine shows *)

(* No event is stamped later than a device may stamp it by now; and while  *)
(* no save of a key was lost, its last event is stored as it is shown, and *)
(* no other is stamped later than that by more than two clocks may differ. *)
Kept(s, now) ==
  /\ \A n \in EventIds : s.stored[n] # None => s.stored[n].updatedAt <= now + MaxSkew
  /\ (~s.unsaved /\ s.last # None) =>
       LET own == s.stored[s.last.eventId]
       IN  /\ own # None
           /\ own.state = s.last.state
           /\ own.acknowledgedBy = s.last.acknowledgedBy
           /\ \A n \in EventIds : s.stored[n] # None =>
                s.stored[n].updatedAt <= own.updatedAt + 2 * MaxSkew

Restorable == IInv /\ \A k \in Keys : Kept(alarm[k], clock)

(* The numbers in a slot. *)
LEMMA SlotNumbers ==
  ASSUME NEW s, SlotOK(s)
  PROVE  /\ s.raised \in Nat /\ s.raised <= MaxEvents
         /\ s.stored \in [EventIds -> Event \cup {None}]
         /\ s.last \in Event \cup {None} /\ s.active \in Event \cup {None}
         /\ \A n \in EventIds : s.stored[n] # None =>
              /\ s.stored[n].eventId = n /\ n <= s.raised
              /\ s.stored[n].updatedAt \in Int
         /\ MaxEvents \in Nat
<1>1. s \in AlarmSlot /\ SlotInv(s) /\ MaxEvents \in Nat
  BY BoundsAssumption DEF SlotOK
<1>2. ASSUME NEW n \in EventIds, s.stored[n] # None
      PROVE  s.stored[n].eventId = n /\ n <= s.raised /\ s.stored[n].updatedAt \in Int
  <2>1. s.stored[n] \in Event
    BY <1>1, <1>2 DEF AlarmSlot
  <2> QED BY <1>1, <1>2, <2>1, BoundsAssumption DEF SlotInv, Event, Time
<1> QED BY <1>1, <1>2 DEF AlarmSlot

(* Every nonempty set of natural numbers has a least element.              *)
LEMMA LeastNatural ==
  ASSUME NEW S \in SUBSET Nat, S # {}
  PROVE  \E x \in S : \A y \in S : x <= y
<1> DEFINE R == {p \in Nat \X Nat : p[1] < p[2]}
<1>1. OpToRel(<, Nat) = R
  BY DEF OpToRel
<1>2. IsWellFoundedOn(R, Nat)
  BY <1>1, NatLessThanWellFounded, Zenon
<1>3. PICK x \in S : \A y \in S : <<y, x>> \notin R
  <2> HIDE DEF R
  <2> QED BY <1>2, WFMin
<1>4. \A y \in S : <<y, x>> \in Nat \X Nat /\ <<y, x>>[1] = y /\ <<y, x>>[2] = x
  OBVIOUS
<1>5. \A y \in S : ~(y < x)
  BY <1>3, <1>4
<1> QED BY <1>5

(* Of finitely high marks there is a first highest one.                    *)
LEMMA FirstHighest ==
  ASSUME NEW S \in SUBSET Nat, S # {}, NEW bound \in Int, NEW f \in [S -> Int],
         \A i \in S : f[i] <= bound
  PROVE  \E n \in S : \A i \in S : f[i] <= f[n] /\ (i < n => f[i] < f[n])
<1>1. PICK top \in S : \A i \in S : f[i] <= f[top]
  <2> DEFINE gaps == {bound - f[i] : i \in S}
  <2>1. gaps \subseteq Nat /\ gaps # {}
    <3>1. \A i \in S : f[i] \in Int /\ f[i] <= bound
      OBVIOUS
    <3>2. \A i \in S : bound - f[i] \in Nat
      BY <3>1
    <3> QED BY <3>2
  <2>2. PICK x \in gaps : \A y \in gaps : x <= y
    <3> HIDE DEF gaps
    <3> QED BY <2>1, LeastNatural
  <2>3. PICK n \in S : x = bound - f[n]
    OBVIOUS
  <2>4. \A i \in S : bound - f[n] <= bound - f[i]
    BY <2>2, <2>3
  <2> HIDE DEF gaps
  <2> QED BY <2>4
<1>2. PICK n \in S : f[n] = f[top] /\ \A i \in S : f[i] = f[top] => n <= i
  <2> DEFINE ties == {i \in S : f[i] = f[top]}
  <2>1. ties \subseteq Nat /\ ties # {}
    OBVIOUS
  <2>2. PICK x \in ties : \A y \in ties : x <= y
    <3> HIDE DEF ties
    <3> QED BY <2>1, LeastNatural
  <2> QED BY <2>2
<1>3. ASSUME NEW i \in S
      PROVE  f[i] <= f[n] /\ (i < n => f[i] < f[n])
  BY <1>1, <1>2
<1> QED BY <1>3

(* restore() finds an event for every key that has one stored, and none is *)
(* stamped later than what it takes.                                       *)
LEMMA LatestIsLatest ==
  ASSUME NEW s, SlotOK(s), NEW m \in EventIds, s.stored[m] # None
  PROVE  \E n \in EventIds :
           /\ latestStored(s) = s.stored[n] /\ s.stored[n] # None
           /\ \A i \in EventIds : s.stored[i] # None =>
                s.stored[i].updatedAt <= s.stored[n].updatedAt
<1> DEFINE ids == {n \in EventIds : s.stored[n] # None}
           latest == {n \in ids : \A i \in ids :
                        /\ s.stored[i].updatedAt <= s.stored[n].updatedAt
                        /\ i < n => s.stored[i].updatedAt < s.stored[n].updatedAt}
<1>1. latestStored(s) = IF latest = {} THEN None
                        ELSE s.stored[CHOOSE n \in latest : TRUE]
  BY DEF latestStored
<1>2. ids \in SUBSET Nat /\ ids # {} /\ MaxTime + MaxSkew \in Int
  BY BoundsAssumption DEF EventIds
<1>3. \A i \in ids : /\ s.stored[i].updatedAt \in Int
                     /\ s.stored[i].updatedAt <= MaxTime + MaxSkew
  <2>1. s.stored \in [EventIds -> Event \cup {None}]
    BY DEF SlotOK, AlarmSlot
  <2>2. ASSUME NEW i \in ids PROVE s.stored[i].updatedAt \in Time
    <3>1. s.stored[i] \in Event
      BY <2>1
    <3> QED BY <3>1 DEF Event
  <2> QED BY <2>2, BoundsAssumption DEF Time
<1> HIDE DEF ids
<1>4. PICK f : f = [i \in ids |-> s.stored[i].updatedAt]
  OBVIOUS
<1>5. f \in [ids -> Int] /\ \A i \in ids : f[i] <= MaxTime + MaxSkew
  BY <1>3, <1>4
<1>6. \E n \in ids : \A i \in ids : f[i] <= f[n] /\ (i < n => f[i] < f[n])
  BY <1>2, <1>5, FirstHighest
<1>7. latest # {}
  BY <1>4, <1>6
<1>8. PICK j \in latest : latestStored(s) = s.stored[j]
  BY <1>1, <1>7
<1> QED BY <1>8 DEF ids

(* A save of the last event at the time of a call.                         *)
LEMMA KeptAfterSave ==
  ASSUME NEW s, SlotOK(s), NEW then \in Int, Kept(s, then), NEW now \in Int,
         then <= now, NEW at \in Int, now - MaxSkew <= at, at <= now + MaxSkew,
         NEW t, NEW e \in Event, e.updatedAt = at,
         t.stored = [s.stored EXCEPT ![e.eventId] = e], t.last = e
  PROVE  Kept(t, now)
<1>1. /\ s.stored \in [EventIds -> Event \cup {None}] /\ e.eventId \in EventIds
      /\ MaxSkew \in Int /\ MaxSkew >= 0 /\ e # None
      /\ \A n \in EventIds : s.stored[n] # None => s.stored[n].updatedAt \in Int
  BY SlotNumbers, BoundsAssumption, NoneAssumption DEF Event
<1>2. \A n \in EventIds : t.stored[n] = IF n = e.eventId THEN e ELSE s.stored[n]
  BY <1>1
<1>3. ASSUME NEW n \in EventIds, t.stored[n] # None
      PROVE  /\ t.stored[n].updatedAt <= now + MaxSkew
             /\ t.stored[n].updatedAt <= at + 2 * MaxSkew
  <2>1. CASE n = e.eventId
    BY <1>1, <1>2, <2>1
  <2>2. CASE n # e.eventId
    <3>1. s.stored[n] # None /\ t.stored[n] = s.stored[n]
      BY <1>2, <1>3, <2>2
    <3>2. PICK x \in Int : x = s.stored[n].updatedAt
      BY <1>1, <3>1
    <3>3. x <= then + MaxSkew
      BY <3>1, <3>2 DEF Kept
    <3>4. x <= now + MaxSkew /\ x <= at + 2 * MaxSkew
      BY <1>1, <3>3
    <3> QED BY <3>1, <3>2, <3>4
  <2> QED BY <2>1, <2>2
<1>4. t.stored[t.last.eventId] = e
  BY <1>1, <1>2
<1> QED BY <1>1, <1>3, <1>4 DEF Kept

(* Touching, forgetting or keeping the last event changes nothing of it.   *)
LEMMA KeptSame ==
  ASSUME NEW s, SlotOK(s), NEW then \in Int, Kept(s, then), NEW now \in Int,
         then <= now, NEW t, t.stored = s.stored, t.unsaved = s.unsaved,
         \/ t.last = None
         \/ t.last = s.last
         \/ /\ s.last # None /\ t.last.eventId = s.last.eventId
            /\ t.last.state = s.last.state
            /\ t.last.acknowledgedBy = s.last.acknowledgedBy
  PROVE  Kept(t, now)
<1>1. ASSUME NEW n \in EventIds, t.stored[n] # None
      PROVE  t.stored[n].updatedAt <= now + MaxSkew
  <2>1. PICK x \in Int : x = s.stored[n].updatedAt
    BY <1>1, SlotNumbers
  <2>2. x <= then + MaxSkew
    BY <1>1, <2>1 DEF Kept
  <2> QED BY <2>1, <2>2, BoundsAssumption
<1> QED BY <1>1 DEF Kept

(* A refused save excuses the key from then on.                            *)
LEMMA KeptUnsaved ==
  ASSUME NEW s, SlotOK(s), NEW then \in Int, Kept(s, then), NEW now \in Int,
         then <= now, NEW t, t.stored = s.stored, t.unsaved = TRUE
  PROVE  Kept(t, now)
<1>1. ASSUME NEW n \in EventIds, t.stored[n] # None
      PROVE  t.stored[n].updatedAt <= now + MaxSkew
  <2>1. PICK x \in Int : x = s.stored[n].updatedAt
    BY <1>1, SlotNumbers
  <2>2. x <= then + MaxSkew
    BY <1>1, <2>1 DEF Kept
  <2> QED BY <2>1, <2>2, BoundsAssumption
<1> QED BY <1>1 DEF Kept

(* One evaluation at a later time keeps a key restorable.                  *)
LEMMA EvaluationKept ==
  ASSUME NEW s, SlotOK(s), NEW t, SlotOK(t), NEW condition \in BOOLEAN,
         NEW now \in Time, NEW then \in Int, then <= now,
         NEW at \in DeviceTimes(now), at \in Time,
         NEW c, NEW saved \in BOOLEAN, Kept(s, then),
         Evaluates(noteRun(s, condition, now), t, c, condition, at, saved)
  PROVE  Kept(t, now)
<1>1. PICK q : q = noteRun(s, condition, now)
  OBVIOUS
<1>2. /\ SlotOK(q) /\ q.active = s.active /\ q.last = s.last
      /\ q.stored = s.stored /\ q.raised = s.raised /\ q.unsaved = s.unsaved
  BY <1>1, NotedSlot
<1>3. /\ Evaluates(q, t, c, condition, at, saved) /\ now \in Int /\ at \in Int
      /\ now - MaxSkew <= at /\ at <= now + MaxSkew
  BY <1>1, BoundsAssumption DEF Time, DeviceTimes
<1>4. Kept(q, then) /\ t \in AlarmSlot
  BY <1>2 DEF Kept, SlotOK
<1>5. q.active # None => q.last = q.active /\ q.active \in Event
  BY <1>2 DEF SlotOK, SlotInv, AlarmSlot
<1>6. CASE StaysOpen(q, t, at)
  <2>1. /\ t.last.eventId = q.last.eventId /\ t.last.state = q.last.state
        /\ t.last.acknowledgedBy = q.last.acknowledgedBy /\ q.last # None
    BY <1>2, <1>4, <1>5, <1>6, OutcomeStates DEF StaysOpen
  <2>2. t.stored = q.stored /\ t.unsaved = q.unsaved
    BY <1>6 DEF StaysOpen
  <2> QED BY <1>2, <1>3, <1>4, <2>1, <2>2, KeptSame
<1>7. CASE Waits(q, t, c, condition, at)
  BY <1>2, <1>3, <1>4, <1>7, KeptSame DEF Waits
<1>8. ASSUME NEW e \in Event, e.updatedAt = at, t.last = e, Saves(q, t, e, saved)
      PROVE  Kept(t, now)
  <2>1. CASE saved
    BY <1>2, <1>3, <1>4, <1>8, <2>1, KeptAfterSave DEF Saves
  <2>2. CASE ~saved
    BY <1>2, <1>3, <1>4, <1>8, <2>2, KeptUnsaved DEF Saves
  <2> QED BY <2>1, <2>2
<1>9. CASE Clears(q, t, at, saved)
  <2>1. PICK e : e = [q.active EXCEPT !.state = "Cleared", !.updatedAt = at]
    OBVIOUS
  <2>2. e \in Event /\ e.updatedAt = at
    BY <1>5, <1>9, <2>1 DEF Clears, Event
  <2>3. t.last = e /\ Saves(q, t, e, saved)
    BY <1>9, <2>1 DEF Clears
  <2> QED BY <1>8, <2>2, <2>3
<1>10. CASE Raises(q, t, c, at, saved)
  <2>1. t.active # None /\ t.active.updatedAt = at
    BY <1>2, <1>4, <1>10, OutcomeStates
  <2>2. PICK e : e = t.active
    OBVIOUS
  <2>3. e \in Event /\ e.updatedAt = at /\ t.last = e /\ Saves(q, t, e, saved)
    BY <1>4, <1>10, <2>1, <2>2 DEF AlarmSlot, Raises
  <2> QED BY <1>8, <2>3
<1> QED BY <1>3, <1>6, <1>7, <1>9, <1>10 DEF Evaluates

(* So does restoring it.                                                   *)
LEMMA RestoreKept ==
  ASSUME NEW s, SlotOK(s), NEW now \in Int, Kept(s, now)
  PROVE  Kept(restored(s), now)
<1>1. PICK event : event = latestStored(s)
  OBVIOUS
<1>2. PICK t : t = restored(s)
  OBVIOUS
<1>3. t.last = event /\ t.stored = s.stored
  BY <1>1, <1>2 DEF restored, SlotOK, AlarmSlot
<1>4. ASSUME event # None
      PROVE  /\ event.eventId \in EventIds /\ s.stored[event.eventId] = event
             /\ \A n \in EventIds : s.stored[n] # None =>
                  s.stored[n].updatedAt <= event.updatedAt + 2 * MaxSkew
  <2>1. PICK m \in EventIds : s.stored[m] # None
    BY <1>1, <1>4 DEF latestStored
  <2>2. PICK n \in EventIds :
          /\ event = s.stored[n] /\ s.stored[n] # None
          /\ \A i \in EventIds : s.stored[i] # None =>
               s.stored[i].updatedAt <= s.stored[n].updatedAt
    BY <1>1, <2>1, LatestIsLatest
  <2>3. event.eventId = n /\ event.updatedAt \in Int
        /\ \A i \in EventIds : s.stored[i] # None => s.stored[i].updatedAt \in Int
    BY <2>2, SlotNumbers
  <2> QED BY <2>2, <2>3, BoundsAssumption
<1> QED BY <1>2, <1>3, <1>4 DEF Kept

(* And every step.                                                         *)
LEMMA RestorableStep ==
  ASSUME Restorable, IInv', [Next]_vars
  PROVE  Restorable'
<1> USE DEF Restorable
<1>1. clock \in Int
  BY BoundsAssumption DEF IInv, TypeOK
<1>2. \A now \in CallTimes : now \in Time /\ now \in Int /\ clock <= now
  <2>1. \A now \in CallTimes : now \in Time
    BY CallTimeFacts, TimeFacts DEF IInv
  <2> QED BY <2>1, <1>1, BoundsAssumption DEF CallTimes, Time
<1>3. CASE EvaluationCall
  <2>1. PICK now \in CallTimes :
          /\ clock' = now
          /\ \A k \in Keys : alarm'[k] = alarm[k] \/ KeyEvaluates(k, now)
    BY <1>3 DEF EvaluationCall
  <2>2. ASSUME NEW k \in Keys
        PROVE  Kept(alarm'[k], now)
    <3>1. PICK s, t : s = alarm[k] /\ t = alarm'[k]
      OBVIOUS
    <3>2. SlotOK(s) /\ SlotOK(t) /\ Kept(s, clock)
      BY <3>1, KeyFacts, IInv' DEF IInv, TypeOK, SlotOK
    <3>3. CASE t = s
      BY <1>1, <1>2, <3>1, <3>2, <3>3, KeptSame
    <3>4. CASE KeyEvaluates(k, now)
      <4>1. PICK at \in DeviceTimes(now), condition \in BOOLEAN, saved \in BOOLEAN :
              Evaluates(noteRun(s, condition, now), t, rules[k[2]], condition,
                        at, saved)
        BY <3>1, <3>4 DEF KeyEvaluates
      <4>2. at \in Time
        BY CallTimeFacts, TimeFacts DEF IInv
      <4> QED BY <1>1, <1>2, <3>1, <3>2, <4>1, <4>2, EvaluationKept
    <3> QED BY <2>1, <3>1, <3>3, <3>4
  <2> QED BY <2>1, <2>2
<1>4. ASSUME NEW k \in Keys, NEW operator \in Operators, acknowledge(k, operator)
      PROVE  Restorable'
  <2>1. PICK at \in CallTimes :
          /\ clock' = at
          /\ alarm' = [alarm EXCEPT ![k] =
               [alarm[k] EXCEPT
                  !.active = [alarm[k].active EXCEPT !.state = "Acknowledged",
                                !.updatedAt = at, !.acknowledgedBy = operator],
                  !.last = [alarm[k].active EXCEPT !.state = "Acknowledged",
                              !.updatedAt = at, !.acknowledgedBy = operator],
                  !.stored = saveEvent(@, [alarm[k].active EXCEPT !.state = "Acknowledged",
                                !.updatedAt = at, !.acknowledgedBy = operator])]]
    BY <1>4 DEF acknowledge
  <2>2. PICK e : e = [alarm[k].active EXCEPT !.state = "Acknowledged",
                        !.updatedAt = at, !.acknowledgedBy = operator]
    OBVIOUS
  <2>3. PICK x : x = saveEvent(alarm[k].stored, e)
    OBVIOUS
  <2>4. alarm' = [alarm EXCEPT ![k] =
                    [alarm[k] EXCEPT !.active = e, !.last = e, !.stored = x]]
    BY <2>1, <2>2, <2>3
  <2>5. \A j \in Keys : SlotOK(alarm[j]) /\ SlotOK(alarm'[j]) /\ Kept(alarm[j], clock)
    BY KeyFacts, IInv' DEF IInv, TypeOK, SlotOK
  <2>6. alarm \in [Keys -> AlarmSlot]
    BY DEF IInv, TypeOK
  <2>7. PICK s, t : s = alarm[k] /\ t = alarm'[k]
    OBVIOUS
  <2>8. /\ s.active # None /\ s.active \in Event /\ s.last = s.active
        /\ s \in AlarmSlot
    BY <1>4, <2>5, <2>7 DEF acknowledge, SlotOK, SlotInv, AlarmSlot
  <2>9. /\ e \in Event /\ e.eventId = s.active.eventId /\ e.updatedAt = at
        /\ e.state = "Acknowledged" /\ e # None
    BY <1>2, <2>2, <2>7, <2>8, NoneAssumption DEF Event, OpenStates
  <2>10. /\ t.last = e /\ t.raised = s.raised /\ t.unsaved = s.unsaved
         /\ t.stored = [s.stored EXCEPT ![e.eventId] = e]
    BY <2>3, <2>4, <2>6, <2>7, <2>8 DEF AlarmSlot, saveEvent
  <2>11. Kept(t, at)
    <3>1. /\ at \in Int /\ clock <= at
          /\ at - MaxSkew <= at /\ at <= at + MaxSkew
      BY <1>2, BoundsAssumption
    <3> QED BY <1>1, <2>5, <2>7, <2>9, <2>10, <3>1, KeptAfterSave
  <2>12. ASSUME NEW j \in Keys, j # k
         PROVE  Kept(alarm'[j], at)
    <3>1. alarm'[j] = alarm[j]
      BY <2>4, <2>6, <2>12
    <3>2. at \in Int /\ clock <= at
      BY <1>1, <1>2
    <3> QED BY <1>1, <2>5, <3>1, <3>2, KeptSame
  <2> QED BY <2>1, <2>7, <2>11, <2>12
<1>5. CASE restore \/ Restart
  <2>1. ASSUME NEW k \in Keys
        PROVE  Kept(alarm'[k], clock)
    <3>1. PICK s : s = alarm[k]
      OBVIOUS
    <3>2. SlotOK(s) /\ Kept(s, clock) /\ s \in AlarmSlot
      BY <3>1, KeyFacts DEF SlotOK
    <3>3. CASE alarm'[k] = restored(s)
      BY <1>1, <3>2, <3>3, RestoreKept
    <3>4. CASE alarm'[k] = [s EXCEPT !.active = None, !.last = None,
                                     !.candidate = None, !.since = None]
      <4>1. PICK t : t = alarm'[k]
        OBVIOUS
      <4>2. /\ t.last = None /\ t.raised = s.raised /\ t.stored = s.stored
            /\ t.unsaved = s.unsaved
        BY <3>2, <3>4, <4>1 DEF AlarmSlot
      <4> QED BY <1>1, <3>2, <4>1, <4>2, KeptSame
    <3> QED BY <1>5, <3>1, <3>3, <3>4 DEF restore, Restart
  <2>2. clock' = clock
    BY <1>5 DEF restore, Restart
  <2> QED BY <2>1, <2>2
<1>6. CASE \/ \E new \in [RuleIds -> RuleConfigs \cup {None}] : setRules(new)
           \/ \E r \in RuleIds, c \in RuleConfigs : addRule(r, c)
           \/ clearRules
           \/ UNCHANGED vars
  <2>1. clock' = clock
    BY <1>6 DEF setRules, addRule, clearRules, vars
  <2>2. \/ alarm' = alarm
        \/ alarm' = [k \in Keys |->
                       [alarm[k] EXCEPT !.candidate = None, !.since = None]]
    BY <1>6 DEF setRules, addRule, clearRules, vars
  <2>3. ASSUME NEW k \in Keys
        PROVE  Kept(alarm'[k], clock)
    <3>1. PICK s, t : s = alarm[k] /\ t = alarm'[k]
      OBVIOUS
    <3>2. SlotOK(s) /\ Kept(s, clock) /\ s \in AlarmSlot
      BY <3>1, KeyFacts DEF SlotOK
    <3>3. t = s \/ t = [s EXCEPT !.candidate = None, !.since = None]
      BY <2>2, <3>1
    <3>4. /\ t.last = s.last /\ t.raised = s.raised /\ t.stored = s.stored
          /\ t.unsaved = s.unsaved
      BY <3>2, <3>3 DEF AlarmSlot
    <3> QED BY <1>1, <3>1, <3>2, <3>4, KeptSame
  <2> QED BY <2>1, <2>3
<1>7. ASSUME NEW d \in Devices, NEW sample \in Samples, processTelemetry(d, sample)
      PROVE  EvaluationCall
  BY <1>7, TelemetryEvaluates
<1>8. ASSUME NEW d \in Devices, NEW isOnline \in BOOLEAN, processHeartbeat(d, isOnline)
      PROVE  EvaluationCall
  BY <1>8, HeartbeatEvaluates
<1>9. updateOfflineStates => EvaluationCall
  BY TimerEvaluates
<1> QED BY <1>3, <1>4, <1>5, <1>6, <1>7, <1>8, <1>9 DEF Next

(* For every key whose saves all succeeded the repository has the event    *)
(* the engine shows, in the state it shows; and an engine restored at any  *)
(* instant shows that event, or one stamped later by no more than two      *)
(* device clocks can differ, which with exact clocks is one saved at the   *)
(* same instant.  No restriction on clocks, delays or saves is assumed     *)
(* (persistEvent, acknowledge and restore).                                *)
THEOREM RestoredAlwaysWithinSkew == Spec => []RestoredWithinSkew
<1>1. Init => Restorable
  <2> SUFFICES ASSUME Init PROVE Restorable
    OBVIOUS
  <2>1. \A k \in Keys : alarm[k] = EmptySlot
    BY DEF Init
  <2>2. Kept(EmptySlot, clock)
    BY DEF Kept, EmptySlot
  <2> QED BY <2>1, <2>2, InitIInv DEF Restorable
<1>2. Restorable /\ IInv' /\ [Next]_vars => Restorable'
  BY RestorableStep
<1>3. Restorable => RestoredWithinSkew
  <2> SUFFICES ASSUME Restorable, NEW k \in Keys, NEW s, s = alarm[k],
                      NEW own, own = s.stored[s.last.eventId],
                      NEW e, e = latestStored(s),
                      ~s.unsaved, s.last # None
               PROVE  /\ own # None
                      /\ own.state = s.last.state
                      /\ own.acknowledgedBy = s.last.acknowledgedBy
                      /\ e # None
                      /\ e # own => e.updatedAt - own.updatedAt \in 0..(2 * MaxSkew)
    BY DEF RestoredWithinSkew
  <2>1. SlotOK(s) /\ Kept(s, clock)
    BY KeyFacts DEF Restorable
  <2>2. s.last.eventId \in EventIds
    BY <2>1, SlotNumbers DEF Event
  <2>3. /\ own # None /\ own.state = s.last.state
        /\ own.acknowledgedBy = s.last.acknowledgedBy
        /\ \A n \in EventIds : s.stored[n] # None =>
             s.stored[n].updatedAt <= own.updatedAt + 2 * MaxSkew
    BY <2>1 DEF Kept
  <2>4. PICK n \in EventIds :
          /\ e = s.stored[n] /\ s.stored[n] # None
          /\ \A i \in EventIds : s.stored[i] # None =>
               s.stored[i].updatedAt <= s.stored[n].updatedAt
    BY <2>1, <2>2, <2>3, LatestIsLatest
  <2>5. /\ own.updatedAt \in Int /\ e.updatedAt \in Int
        /\ own.updatedAt <= e.updatedAt
        /\ e.updatedAt <= own.updatedAt + 2 * MaxSkew
    BY <2>1, <2>2, <2>3, <2>4, SlotNumbers
  <2>6. e.updatedAt - own.updatedAt \in 0..(2 * MaxSkew)
    BY <2>5, BoundsAssumption
  <2> QED BY <2>3, <2>4, <2>6
<1> QED BY <1>1, <1>2, <1>3, Invariance, PTL DEF Spec
=============================================================================
