------------------------------ MODULE Presence ------------------------------
(***************************************************************************)
(* What a debounced presence detector promises, independent of how it      *)
(* counts: it sees one reading at a time, believes a load present or       *)
(* absent, and changes its mind exactly when the last Needed readings all  *)
(* spoke against the belief, announcing each change once.                  *)
(*                                                                         *)
(* This is the abstract specification that weight_manager.c implements     *)
(* (module WeightManager).  Readings that are neither Loaded nor Unloaded lie  *)
(* in the hysteresis band and support whatever is believed.                *)
(***************************************************************************)
EXTENDS Naturals

CONSTANTS
  Readings,      \* everything that can be read
  Loaded, Unloaded,  \* the readings that speak for and against a load
  Needed         \* how many readings in a row it takes, at least 1

VARIABLES
  reading,   \* the last reading seen
  present,   \* the detector's belief
  streak,    \* how many of the last readings in a row spoke against it
  event      \* what the last reading made the detector announce

vars == <<reading, present, streak, event>>

Init ==
  /\ reading \in Readings
  /\ present = FALSE
  /\ streak = 0
  /\ event = "NONE"

\* The readings that speak against the present belief.
Against == IF present THEN Unloaded ELSE Loaded

Agree(r) ==
  /\ r \notin Against
  /\ streak' = 0
  /\ event' = "NONE"
  /\ UNCHANGED present

Doubt(r) ==
  /\ r \in Against
  /\ streak + 1 < Needed
  /\ streak' = streak + 1
  /\ event' = "NONE"
  /\ UNCHANGED present

Change(r) ==
  /\ r \in Against
  /\ streak + 1 = Needed
  /\ streak' = 0
  /\ present' = ~present
  /\ event' = IF present THEN "WEIGHT_REMOVED" ELSE "WEIGHT_ADDED"

Next ==
  \E r \in Readings :
    /\ reading' = r
    /\ Agree(r) \/ Doubt(r) \/ Change(r)

Spec == Init /\ [][Next]_vars
=============================================================================
