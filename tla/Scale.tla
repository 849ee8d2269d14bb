------------------------------- MODULE Scale -------------------------------
(***************************************************************************)
(* The firmware as a scale: app_main (main.c:71-107) takes the tare and    *)
(* calibrates with one known weight, and from then on each conversion that *)
(* comes out of the queue is turned into a weight and handed to the weight *)
(* manager's state machine.                                                *)
(*                                                                         *)
(* The user may put the known weight on the scale too late, or not at all, *)
(* so that the two readings are equal; the load cell may be wired the      *)
(* other way round, so that counts fall under a load.  What the queue and  *)
(* the filters do in between is in SamplePipeline and StepFilter.          *)
(***************************************************************************)
EXTENDS WeightManager, Sequences

CONSTANTS
  Bits,          \* the width of a conversion, 24
  CalSamples,    \* CAL_SAMPLES
  KnownWeight,   \* CAL_KNOWN_WEIGHT_G
  Infinity       \* a weight above every finite one, for the float's +inf

ASSUME ScaleAssumption ==
  /\ Bits \in Nat \ {0}
  /\ CalSamples \in Nat \ {0}
  /\ KnownWeight \in Nat \ {0}
  /\ Infinity \in Int /\ Infinity > KnownWeight * 2^Bits

INSTANCE Calibration

\* The weights that can arrive are those the scale can convert a count to.
ASSUME ScaleWeights ==
  \A z, x, r \in Counts : calibration_convert(calibration_compute(z, x), r) \in Weights

VARIABLES
  cal_pc,          \* app_main: "tare", "load", or "run" once it has calibrated
  raw_buf,         \* the samples for the tare
  zero_raw,
  raw_at_weight,
  g_calib,         \* the model of the scale
  raw              \* the last conversion the weight manager received

calVars == <<cal_pc, raw_buf, zero_raw, raw_at_weight, g_calib>>
vars == <<calVars, raw, wmVars>>

\* g_calib is a global, and all zeros until it is computed.
Init ==
  /\ cal_pc = "tare"
  /\ raw_buf = <<>>
  /\ zero_raw = 0
  /\ raw_at_weight = 0
  /\ g_calib = [slope |-> 0, intercept |-> 0, den |-> 1]
  /\ raw = 0
  /\ WMInit

Sample(val) ==
  /\ cal_pc = "tare"
  /\ Len(raw_buf) < CalSamples
  /\ raw_buf' = Append(raw_buf, hx711_read_raw(val))
  /\ UNCHANGED <<cal_pc, zero_raw, raw_at_weight, g_calib, raw, wmVars>>

Tare ==
  /\ cal_pc = "tare"
  /\ Len(raw_buf) = CalSamples
  /\ zero_raw' = calibration_tare(raw_buf)
  /\ raw_buf' = <<>>
  /\ cal_pc' = "load"
  /\ UNCHANGED <<raw_at_weight, g_calib, raw, wmVars>>

\* One reading, five seconds after the user was asked for the known weight.
Calibrate(val) ==
  /\ cal_pc = "load"
  /\ raw_at_weight' = hx711_read_raw(val)
  /\ g_calib' = calibration_compute(zero_raw, raw_at_weight')
  /\ cal_pc' = "run"
  /\ UNCHANGED <<raw_buf, zero_raw, raw, wmVars>>

Weigh(val) ==
  /\ cal_pc = "run"
  /\ raw' = hx711_read_raw(val)
  /\ WMReceive(calibration_convert(g_calib, raw'))
  /\ UNCHANGED calVars

Next ==
  \/ \E val \in Clocked : Sample(val) \/ Calibrate(val) \/ Weigh(val)
  \/ Tare

Spec == Init /\ [][Next]_vars

\* app_main is scheduled, the chip keeps converting, and the queue receive of
\* the weight manager blocks only while there is nothing to receive.
FairSpec == Spec /\ WF_vars(Next)

-----------------------------------------------------------------------------
(***************************************************************************)
(* Properties.                                                             *)
(***************************************************************************)

\* The type invariant, with that of the state machine.
TypeOK ==
  /\ cal_pc \in {"tare", "load", "run"}
  /\ raw_buf \in Seq(Counts) /\ Len(raw_buf) <= CalSamples
  /\ zero_raw \in Counts
  /\ raw_at_weight \in Counts
  /\ g_calib \in [slope : Int, intercept : Int, den : Nat]
  /\ raw \in Counts
  /\ WMTypeOK

\* The tare lies among the samples it was taken from, and the calibrated scale
\* reads zero at the tare and the known weight at the weight, whichever way
\* round the cell is wired and whatever the signs of the counts
\* (calibration.c:12-23, 75-103).
CalibratedAtBothPoints ==
  [][/\ cal_pc' # "tare" /\ cal_pc = "tare" =>
          \E i, j \in 1..CalSamples : raw_buf[i] <= zero_raw' /\ zero_raw' <= raw_buf[j]
     /\ cal_pc' = "run" /\ raw_at_weight' # zero_raw =>
          /\ calibration_convert(g_calib', zero_raw) = 0
          /\ calibration_convert(g_calib', raw_at_weight') = KnownWeight]_vars

\* How far apart the two readings of the calibration are, and how far the last
\* conversion is from the tare, in the direction of the known weight and in
\* units of which the known weight has Span.
Span == IF raw_at_weight > zero_raw THEN raw_at_weight - zero_raw
                                    ELSE zero_raw - raw_at_weight
Displacement ==
  KnownWeight * (IF raw_at_weight > zero_raw THEN raw - zero_raw ELSE zero_raw - raw)

\* Weight events are about the load itself: once calibrated with two different
\* readings, WEIGHT_ADDED is announced only on a conversion that is the wake
\* threshold's share of the known weight, or more, away from the tare on the
\* side of the known weight, and WEIGHT_REMOVED only on one that is not past
\* the sleep threshold by a unit (weight_manager.c:58-147, calibration.c:75-103).
EventsMatchLoad ==
  [][Span > 0 /\ raw_at_weight' = raw_at_weight =>
       /\ event' = "WEIGHT_ADDED" => Displacement' >= WakeThreshold * Span
       /\ event' = "WEIGHT_REMOVED" => Displacement' < (SleepThreshold + 1) * Span]_vars
=============================================================================
