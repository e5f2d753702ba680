--------------------------- MODULE AlarmLifecycle ---------------------------
(***************************************************************************)
(* What the alarm component promises to an operator, without rules, clocks *)
(* or event tables.  Every alarm key walks through Normal -> Active ->     *)
(* Acknowledged -> Normal (clearing an unacknowledged alarm is allowed)    *)
(* and every activation is a new, numbered occurrence.  Only an            *)
(* acknowledgement acknowledges; any other call moves a key at most one    *)
(* step; and only a recovery jumps, to what storage records.               *)
(***************************************************************************)
EXTENDS Naturals

CONSTANTS
  Keys,          (* alarm keys: a device paired with a rule *)
  Numbers        (* the numbers of a key's occurrences      *)

VARIABLES
  state,         (* what stateFor() answers for each key                  *)
  current,       (* the occurrence each key shows, 0 while it is Normal   *)
  occurrences,   (* how many occurrences each key has had                 *)
  recorded,      (* what storage says of each occurrence of each key      *)
  lastCall       (* the kind of the last call                             *)

vars == <<state, current, occurrences, recorded, lastCall>>

OpenStates == {"Active", "Acknowledged"}
Records == OpenStates \cup {"Cleared", "None"}

Init ==
  /\ state = [k \in Keys |-> "Normal"]
  /\ current = [k \in Keys |-> 0]
  /\ occurrences = [k \in Keys |-> 0]
  /\ recorded = [k \in Keys |-> [n \in Numbers |-> "None"]]
  /\ lastCall = "recover"

(* Nothing of key k changes.                                               *)
Stay(k) ==
  /\ state'[k] = state[k]
  /\ current'[k] = current[k]
  /\ occurrences'[k] = occurrences[k]
  /\ recorded'[k] = recorded[k]

(* Storage learns of the occurrence's new state, or the save was lost.     *)
Saves(k, n, new) ==
  \/ recorded'[k] = recorded[k]
  \/ recorded'[k] = [recorded[k] EXCEPT ![n] = new]

Raise(k) ==
  /\ state[k] = "Normal" /\ state'[k] = "Active"
  /\ occurrences'[k] = occurrences[k] + 1
  /\ current'[k] = occurrences'[k]
  /\ Saves(k, current'[k], "Active")

Clear(k) ==
  /\ state[k] # "Normal" /\ state'[k] = "Normal"
  /\ current'[k] = 0
  /\ occurrences'[k] = occurrences[k]
  /\ Saves(k, current[k], "Cleared")

(* A telemetry, heartbeat, timer or rule call: every key stays or takes    *)
(* one step.                                                               *)
Evaluate ==
  /\ lastCall' = "evaluate"
  /\ \A k \in Keys : Stay(k) \/ Raise(k) \/ Clear(k)

(* The operator acknowledges the alarm shown, once storage has recorded it *)
(* so; no other key is touched.                                            *)
Acknowledge(k) ==
  /\ lastCall' = "acknowledge"
  /\ state[k] = "Active" /\ state'[k] = "Acknowledged"
  /\ current'[k] = current[k]
  /\ occurrences'[k] = occurrences[k]
  /\ recorded'[k] = [recorded[k] EXCEPT ![current[k]] = "Acknowledged"]
  /\ \A l \in Keys \ {k} : Stay(l)

(* Reloading from storage invents nothing and writes nothing: a key is     *)
(* Normal or shows an occurrence storage records as open, in that state.   *)
Recover ==
  /\ lastCall' = "recover"
  /\ \A k \in Keys :
       /\ occurrences'[k] = occurrences[k]
       /\ recorded'[k] = recorded[k]
       /\ \/ state'[k] = "Normal" /\ current'[k] = 0
          \/ /\ current'[k] \in Numbers
             /\ recorded[k][current'[k]] \in OpenStates
             /\ state'[k] = recorded[k][current'[k]]

Next == Evaluate \/ (\E k \in Keys : Acknowledge(k)) \/ Recover

Spec == Init /\ [][Next]_vars
=============================================================================
