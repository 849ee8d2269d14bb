--------------------------- MODULE WeightManager ---------------------------
(***************************************************************************)
(* main/weight_manager/weight_manager.c: the debounced state machine that  *)
(* decides whether a load is on the scale.                                 *)
(*                                                                         *)
(* One WMReceive step is one iteration of weight_manager_task's loop after *)
(* xQueueReceive returned: convert, handle_state_transition, and the reset *)
(* of debounce_count whenever the state changed.  Weights are grams as     *)
(* integers; NaN stands for the not-a-number that calibration_convert      *)
(* yields after a calibration whose two raw readings were equal, and every *)
(* comparison with it is false.                                            *)
(***************************************************************************)
EXTENDS Integers

CONSTANTS
  DebounceCount,   \* WM_DEBOUNCE_COUNT
  WakeThreshold,   \* WM_WAKE_THRESHOLD_G
  SleepThreshold,  \* WM_SLEEP_THRESHOLD_G
  SaneLimit,       \* the 1000 g sanity bound of the ERROR branch
  NaN,             \* the weight that compares with nothing
  Weights          \* the converted weights that can arrive

ASSUME WeightManagerAssumption ==
  /\ DebounceCount \in Nat /\ DebounceCount >= 2
  /\ WakeThreshold \in Int
  /\ SleepThreshold \in Int /\ SleepThreshold < WakeThreshold
  /\ Weights \ {NaN} \subseteq Int
  /\ 0 \in Weights \ {NaN}

VARIABLES
  current_state,    \* static wm_state_t current_state
  debounce_count,   \* the task's local debounce_count
  current_weight,   \* the task's local current_weight
  event             \* what log_weight_event was called with in the last step

wmVars == <<current_state, debounce_count, current_weight, event>>

States == {"NO_WEIGHT", "DEBOUNCE_ADD", "MEASURING", "DEBOUNCE_REMOVE", "ERROR"}
Events == {"NONE", "WEIGHT_ADDED", "WEIGHT_REMOVED"}

Heavy(w) == w # NaN /\ w >= WakeThreshold
Light(w) == w # NaN /\ w <= SleepThreshold
Sane(w)  == w # NaN /\ -SaneLimit < w /\ w < SaneLimit

WMInit ==
  /\ current_state = "NO_WEIGHT"
  /\ debounce_count = 0
  /\ current_weight = 0
  /\ event = "NONE"

(***************************************************************************)
(* handle_state_transition: the new state, the counter it leaves behind    *)
(* and the event it logs.                                                  *)
(***************************************************************************)
Stay(state, count) == [state |-> state, count |-> count, event |-> "NONE"]

\* Seeded bug: the reading is seen but not counted.
Uncounted(count, debouncing, confirmed, announcement) ==
  IF count + 1 >= DebounceCount
    THEN [state |-> confirmed, count |-> count, event |-> announcement]
    ELSE Stay(debouncing, count)

\* Seeded bug: a change is always confirmed as a load.
CountedAsLoad(count, debouncing, confirmed, announcement) ==
  IF count + 1 >= DebounceCount
    THEN [state |-> "MEASURING", count |-> count + 1, event |-> announcement]
    ELSE Stay(debouncing, count + 1)

\* One more reading against the settled state: confirm it or keep debouncing.
Counted(count, debouncing, confirmed, announcement) ==
  IF count + 1 >= DebounceCount
    THEN [state |-> confirmed, count |-> count + 1, event |-> announcement]
    ELSE Stay(debouncing, count + 1)

handle_state_transition(current, w, count) ==
  LET added   == Counted(count, "DEBOUNCE_ADD", "MEASURING", "WEIGHT_ADDED")
      removed == Counted(count, "DEBOUNCE_REMOVE", "NO_WEIGHT", "WEIGHT_REMOVED")
  IN CASE current = "NO_WEIGHT" ->
            IF Heavy(w) THEN added ELSE Stay(current, count)
       [] current = "DEBOUNCE_ADD" ->
            IF Heavy(w) THEN added ELSE Stay("NO_WEIGHT", 0)
       [] current = "MEASURING" ->
            IF Light(w) THEN removed ELSE Stay(current, count)
       [] current = "DEBOUNCE_REMOVE" ->
            IF Light(w) THEN removed ELSE Stay("MEASURING", 0)
       [] OTHER ->
            IF Sane(w) THEN Stay("NO_WEIGHT", 0) ELSE Stay(current, count)

\* Seeded bug: the task does not reset debounce_count on a state change.
ReceiveWithoutReset(w) ==
  LET new == handle_state_transition(current_state, w, debounce_count)
  IN /\ current_weight' = w
     /\ current_state' = new.state
     /\ debounce_count' = new.count
     /\ event' = new.event

WMReceive(w) ==
  LET new == handle_state_transition(current_state, w, debounce_count)
  IN /\ current_weight' = w
     /\ current_state' = new.state
     /\ debounce_count' = IF new.state # current_state THEN 0 ELSE new.count
     /\ event' = new.event

WMNext == \E w \in Weights : WMReceive(w)

WMSpec == WMInit /\ [][WMNext]_wmVars

-----------------------------------------------------------------------------
(***************************************************************************)
(* Properties.                                                             *)
(***************************************************************************)

\* The type invariant, made inductive: a count is pending only while
\* debouncing and stays below the limit, and the ERROR state of wm_state_t is
\* never entered (no branch of weight_manager.c:58-118 returns it).
WMTypeOK ==
  /\ current_state \in States \ {"ERROR"}
  /\ debounce_count \in 0..(DebounceCount - 1)
  /\ debounce_count > 0 => current_state \in {"DEBOUNCE_ADD", "DEBOUNCE_REMOVE"}
  /\ current_weight \in Weights
  /\ event \in Events

\* weight_manager.c:58-157 is a presence detector that changes its mind, and
\* logs WEIGHT_ADDED or WEIGHT_REMOVED, exactly on DebounceCount + 1 readings in
\* a row against its belief: the reading that enters a DEBOUNCE state is
\* counted and then forgotten by the reset of lines 143-146.
Detector ==
  INSTANCE Presence WITH
    Readings <- Weights,
    Loaded   <- {w \in Weights : Heavy(w)},
    Unloaded <- {w \in Weights : Light(w)},
    Needed   <- DebounceCount + 1,
    reading  <- current_weight,
    present  <- current_state \in {"MEASURING", "DEBOUNCE_REMOVE"},
    streak   <- IF current_state \in {"DEBOUNCE_ADD", "DEBOUNCE_REMOVE"}
                  THEN debounce_count + 1 ELSE 0

ImplementsDetector == Detector!Spec

\* A load left on the scale is measured sooner or later, whatever the readings were
\* before (weight_manager.c:134-147): the debounce is not put off for ever.  How
\* long measuring goes on is left open, since weight_manager.h:46-49 has it end
\* after WM_ACTIVE_TIMEOUT_MS as well, a timeout the code lacks.
WakesUnderLoad == <>[]Heavy(current_weight) => []<>(current_state = "MEASURING")

\* An emptied scale comes to report no weight for good, whatever the readings were
\* before (weight_manager.c:134-147).
SleepsOnceEmptied == <>[]Light(current_weight) => <>[](current_state = "NO_WEIGHT")
=============================================================================
