------------------------------ MODULE MCScale ------------------------------
(***************************************************************************)
(* A converter of three bits and a known weight of 60: with these every    *)
(* calibration there is can be tried, and among the weights are some below,*)
(* on, between and above the thresholds of 20 and 10, and all the infinite *)
(* and undefined ones.                                                     *)
(***************************************************************************)
EXTENDS Scale

\* Fewer than 2^Bits counts from the tare, a span of one count at least.
MCWeights == -480..480 \cup {-Infinity, Infinity, NaN}
=============================================================================
