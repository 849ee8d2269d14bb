---------------------------- MODULE Calibration ----------------------------
(***************************************************************************)
(* main/calibration/calibration.c, single-point form, and the conversion   *)
(* it works on (hx711_read_raw), as operators.                             *)
(*                                                                         *)
(* The slope and the intercept are floats in the program; here they are    *)
(* the quotients they stand for, over one common denominator, and only     *)
(* the converted weight is rounded, downwards to a whole unit.  What the   *)
(* floats do when the denominator is zero is modelled as it is: infinities *)
(* and not-a-numbers.                                                      *)
(***************************************************************************)
EXTENDS Integers, SequencesExt

CONSTANTS
  Bits,          \* the width of a conversion, 24
  KnownWeight,   \* CAL_KNOWN_WEIGHT_G
  Infinity,      \* a weight above every finite one, for the float's +inf
  NaN            \* the weight that compares with nothing

\* What can be clocked out of the chip, and what it is as a signed number.
Clocked == 0..(2^Bits - 1)
Counts  == -(2^(Bits - 1))..(2^(Bits - 1) - 1)

\* Seeded bug: the sign is not extended.
read_raw_unsigned(val) == val

hx711_read_raw(val) == IF val >= 2^(Bits - 1) THEN val - 2^Bits ELSE val

\* Integer division in C truncates towards zero.
Truncated(a, n) == IF a >= 0 THEN a \div n ELSE -((-a) \div n)

\* Seeded bug: the mean of one sample too few.
tare_dropping_one(raws) == Truncated(FoldSeq(+, 0, raws), Len(raws) - 1)

calibration_tare(raws) == Truncated(FoldSeq(+, 0, raws), Len(raws))

\* slope = weight / (raw_at_weight - zero_raw), intercept = -slope * zero_raw,
\* with the sign of the denominator moved into the numerators.
calibration_compute(zero_raw, raw_at_weight) ==
  LET num == IF raw_at_weight >= zero_raw THEN KnownWeight ELSE -KnownWeight
  IN [slope |-> num, intercept |-> -num * zero_raw,
      den |-> IF raw_at_weight >= zero_raw THEN raw_at_weight - zero_raw
                                           ELSE zero_raw - raw_at_weight]

\* Seeded bug: the intercept is subtracted.
convert_subtracting(cal, raw) ==
  IF cal.den > 0 THEN (cal.slope * raw - cal.intercept) \div cal.den ELSE NaN

\* slope * raw + intercept.  With a denominator of zero both terms are infinite,
\* or not a number when they are infinity times zero.
calibration_convert(cal, raw) ==
  LET a == cal.slope * raw
      b == cal.intercept
  IN IF cal.den > 0 THEN (a + b) \div cal.den
     ELSE IF a > 0 /\ b > 0 THEN Infinity
     ELSE IF a < 0 /\ b < 0 THEN -Infinity
     ELSE NaN
=============================================================================
