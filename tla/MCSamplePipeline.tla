-------------------------- MODULE MCSamplePipeline --------------------------
(***************************************************************************)
(* The pipeline with a queue short enough to overflow while the weight     *)
(* manager still waits for SNTP and long enough to hold readings of        *)
(* different ages; one weight on each side of the hysteresis band.         *)
(***************************************************************************)
EXTENDS SamplePipeline

MCWeights == {0, 25}
=============================================================================
