-------------------------- MODULE MCWeightManager --------------------------
(***************************************************************************)
(* weight_manager.c on its own, with the source's three constants and the  *)
(* weights around both thresholds, the sanity bound and the not-a-number.  *)
(***************************************************************************)
EXTENDS WeightManager

\* Every gram from empty to well above the wake threshold, offsets below zero,
\* loads on and beyond the sanity bound, and NaN.
MCWeights == {-1200, -5} \cup 0..35 \cup {999, 1000, NaN}

-----------------------------------------------------------------------------
\* weight_manager.c:27 documents WM_DEBOUNCE_COUNT as the number of consecutive
\* readings for a state change; the code takes one more.
Documented ==
  INSTANCE Presence WITH
    Readings <- Weights,
    Loaded   <- {w \in Weights : Heavy(w)},
    Unloaded <- {w \in Weights : Light(w)},
    Needed   <- DebounceCount,
    reading  <- current_weight,
    present  <- current_state \in {"MEASURING", "DEBOUNCE_REMOVE"},
    streak   <- IF current_state \in {"DEBOUNCE_ADD", "DEBOUNCE_REMOVE"}
                  THEN debounce_count + 1 ELSE 0

\* A state change takes exactly WM_DEBOUNCE_COUNT consecutive readings, as the
\* comment at weight_manager.c:27 says.
DebouncedAsDocumented == Documented!Spec
=============================================================================
