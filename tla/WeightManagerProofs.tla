------------------------ MODULE WeightManagerProofs ------------------------
(***************************************************************************)
(* Proofs about weight_manager.c's state machine, for every debounce       *)
(* count, every pair of thresholds and every set of weights.               *)
(***************************************************************************)
EXTENDS WeightManager, TLAPS

\* The initial state is typed, and a received weight keeps it so.
LEMMA WMInitTypeOK == WMInit => WMTypeOK
  BY WeightManagerAssumption DEF WMInit, WMTypeOK, States, Events

\* Each branch of handle_state_transition, followed by the reset of the count.
LEMMA ReceiveKeepsType ==
  ASSUME NEW w \in Weights, WMTypeOK, WMReceive(w)
  PROVE  WMTypeOK'
<1> DEFINE new == handle_state_transition(current_state, w, debounce_count)
<1>1. /\ new.state \in States \ {"ERROR"}
      /\ new.event \in Events
      /\ new.count \in 0..DebounceCount
      /\ new.state = current_state =>
           /\ new.count \in 0..(DebounceCount - 1)
           /\ new.count > 0 => new.state \in {"DEBOUNCE_ADD", "DEBOUNCE_REMOVE"}
  <2>1. CASE current_state = "NO_WEIGHT"
    BY <2>1, WeightManagerAssumption
    DEF WMTypeOK, handle_state_transition, Counted, Stay, States, Events
  <2>2. CASE current_state = "DEBOUNCE_ADD"
    BY <2>2, WeightManagerAssumption
    DEF WMTypeOK, handle_state_transition, Counted, Stay, States, Events
  <2>3. CASE current_state = "MEASURING"
    BY <2>3, WeightManagerAssumption
    DEF WMTypeOK, handle_state_transition, Counted, Stay, States, Events
  <2>4. CASE current_state = "DEBOUNCE_REMOVE"
    BY <2>4, WeightManagerAssumption
    DEF WMTypeOK, handle_state_transition, Counted, Stay, States, Events
  <2> QED  BY <2>1, <2>2, <2>3, <2>4 DEF WMTypeOK, States
<1>2. /\ current_weight' = w
      /\ current_state' = new.state
      /\ debounce_count' = IF new.state # current_state THEN 0 ELSE new.count
      /\ event' = new.event
  BY DEF WMReceive
<1> HIDE DEF new
<1> QED  BY <1>1, <1>2, WeightManagerAssumption DEF WMTypeOK

\* Nothing but a received weight moves the state machine.
LEMMA StutterKeepsType == WMTypeOK /\ UNCHANGED wmVars => WMTypeOK'
  BY DEF WMTypeOK, wmVars

\* The state machine of weight_manager.c keeps its type invariant: the count
\* stays below the limit, is pending only while debouncing, and the ERROR state
\* is never entered.
THEOREM WMTypeCorrect == WMSpec => []WMTypeOK
<1>1. WMTypeOK /\ [WMNext]_wmVars => WMTypeOK'
  BY ReceiveKeepsType, StutterKeepsType DEF WMNext
<1> QED  BY <1>1, WMInitTypeOK, PTL DEF WMSpec

-----------------------------------------------------------------------------
(***************************************************************************)
(* Refinement: WeightManager implements Presence.                          *)
(***************************************************************************)

Present == current_state \in {"MEASURING", "DEBOUNCE_REMOVE"}
Streak == IF current_state \in {"DEBOUNCE_ADD", "DEBOUNCE_REMOVE"}
            THEN debounce_count + 1 ELSE 0

LEMMA InitRefines == WMInit => Detector!Init
  BY WeightManagerAssumption DEF WMInit, Detector!Init

\* One received weight is one Agree, Doubt or Change step of the detector.
LEMMA ReceiveRefines ==
  ASSUME NEW w \in Weights, WMTypeOK, WMReceive(w)
  PROVE  Detector!Next
<1> SUFFICES Detector!Agree(w) \/ Detector!Doubt(w) \/ Detector!Change(w)
  BY DEF Detector!Next, WMReceive
<1> USE WeightManagerAssumption
    DEF WMTypeOK, WMReceive, handle_state_transition, Counted, Stay, Heavy, Light,
        Detector!Against
<1>1. CASE current_state = "NO_WEIGHT"
  <2>1. CASE Heavy(w)
    BY <1>1, <2>1 DEF Detector!Doubt
  <2>2. CASE ~Heavy(w)
    BY <1>1, <2>2 DEF Detector!Agree
  <2> QED  BY <2>1, <2>2
<1>2. CASE current_state = "DEBOUNCE_ADD"
  <2>1. CASE Heavy(w) /\ debounce_count + 1 < DebounceCount
    BY <1>2, <2>1 DEF Detector!Doubt
  <2>2. CASE Heavy(w) /\ debounce_count + 1 >= DebounceCount
    BY <1>2, <2>2 DEF Detector!Change
  <2>3. CASE ~Heavy(w)
    BY <1>2, <2>3 DEF Detector!Agree
  <2> QED  BY <2>1, <2>2, <2>3
<1>3. CASE current_state = "MEASURING"
  <2>1. CASE Light(w)
    BY <1>3, <2>1 DEF Detector!Doubt
  <2>2. CASE ~Light(w)
    BY <1>3, <2>2 DEF Detector!Agree
  <2> QED  BY <2>1, <2>2
<1>4. CASE current_state = "DEBOUNCE_REMOVE"
  <2>1. CASE Light(w) /\ debounce_count + 1 < DebounceCount
    BY <1>4, <2>1 DEF Detector!Doubt
  <2>2. CASE Light(w) /\ debounce_count + 1 >= DebounceCount
    BY <1>4, <2>2 DEF Detector!Change
  <2>3. CASE ~Light(w)
    BY <1>4, <2>3 DEF Detector!Agree
  <2> QED  BY <2>1, <2>2, <2>3
<1> QED  BY <1>1, <1>2, <1>3, <1>4 DEF States

LEMMA StutterRefines == UNCHANGED wmVars => UNCHANGED Detector!vars
  BY DEF wmVars, Detector!vars

\* The debounced state machine implements the presence detector that needs
\* DebounceCount + 1 readings in a row, for every debounce count of at least 2.
THEOREM WMImplementsDetector == WMSpec => ImplementsDetector
<1>1. WMTypeOK /\ [WMNext]_wmVars => [Detector!Next]_Detector!vars
  BY ReceiveRefines, StutterRefines DEF WMNext
<1> QED
  BY <1>1, InitRefines, WMTypeCorrect, PTL
  DEF WMSpec, ImplementsDetector, Detector!Spec
=============================================================================
