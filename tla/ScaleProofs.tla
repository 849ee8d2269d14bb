----------------------------- MODULE ScaleProofs -----------------------------
(***************************************************************************)
(* Proofs about Scale for every converter, known weight, pair of           *)
(* thresholds and debounce count.                                          *)
(***************************************************************************)
EXTENDS Scale, WeightManagerProofs, MovingAverageProofs

-----------------------------------------------------------------------------
(***************************************************************************)
(* Arithmetic of the calibration.                                          *)
(***************************************************************************)
\* Powers of two, from the number of subsets of a set: those of 1..(n + 1) are
\* those of 1..n, without and with n + 1.
LEMMA PowersOfTwo ==
  ASSUME NEW n \in Nat PROVE 2^n \in Nat \ {0} /\ 2^(n + 1) = 2 * 2^n
<1> DEFINE S == 1..n
           T == 1..(n + 1)
           A == SUBSET S
           B == (SUBSET T) \ (SUBSET S)
<1>1. IsFiniteSet(S) /\ Cardinality(S) = n /\ IsFiniteSet(T) /\ Cardinality(T) = n + 1
  BY FS_Interval
<1>2. IsFiniteSet(A) /\ Cardinality(A) = 2^n
      /\ IsFiniteSet(SUBSET T) /\ Cardinality(SUBSET T) = 2^(n + 1)
  BY <1>1, FS_SUBSET
<1>3. /\ \A X \in A : X \cup {n + 1} \in B
      /\ \A X, Y \in A : X \cup {n + 1} = Y \cup {n + 1} => X = Y
      /\ \A Y \in B : Y \ {n + 1} \in A /\ (Y \ {n + 1}) \cup {n + 1} = Y
  <2>1. S = T \ {n + 1} /\ n + 1 \in T /\ n + 1 \notin S
    OBVIOUS
  <2> HIDE DEF S, T
  <2>2. \A X \in A : X \cup {n + 1} \in B
    BY <2>1
  <2>3. \A X, Y \in A : X \cup {n + 1} = Y \cup {n + 1} => X = Y
    <3> SUFFICES ASSUME NEW X \in A, NEW Y \in A, X \cup {n + 1} = Y \cup {n + 1} PROVE X = Y
      OBVIOUS
    <3>1. n + 1 \notin X /\ n + 1 \notin Y
      BY <2>1
    <3> QED BY <3>1
  <2>4. \A Y \in B : Y \ {n + 1} \in A /\ (Y \ {n + 1}) \cup {n + 1} = Y
    <3> SUFFICES ASSUME NEW Y \in B PROVE Y \ {n + 1} \in A /\ (Y \ {n + 1}) \cup {n + 1} = Y
      OBVIOUS
    <3>1. Y \subseteq T /\ ~(Y \subseteq S)
      OBVIOUS
    <3>2. Y \ {n + 1} \subseteq S /\ n + 1 \in Y
      BY <2>1, <3>1
    <3> QED BY <3>2
  <2> QED BY <2>2, <2>3, <2>4
<1>4. ExistsBijection(A, B)
  <2> DEFINE f == [X \in A |-> X \cup {n + 1}]
  <2> HIDE DEF A, B
  <2>1. f \in [A -> B] /\ \A X, Y \in A : f[X] = f[Y] => X = Y
    BY <1>3
  <2>2. \A Y \in B : \E X \in A : f[X] = Y
    BY <1>3
  <2> QED BY <2>1, <2>2 DEF ExistsBijection, Bijection, Injection, Surjection, IsInjective
<1>5. IsFiniteSet(B) /\ Cardinality(B) = 2^n
  BY <1>2, <1>4, FS_Bijection
<1>6. SUBSET T = A \cup B /\ A \cap B = {}
  OBVIOUS
<1>7. Cardinality(SUBSET T) = Cardinality(A) + Cardinality(B) - Cardinality({})
  BY <1>2, <1>5, <1>6, FS_Union, Zenon
<1>8. Cardinality({}) = 0 /\ Cardinality(A) \in Nat /\ Cardinality(A) # 0
  <2>1. {} \in A
    OBVIOUS
  <2> HIDE DEF A
  <2> QED BY <1>2, <2>1, FS_EmptySet, FS_CardinalityType
<1> HIDE DEF A, B, T
<1> QED BY <1>2, <1>5, <1>7, <1>8

\* The range of a conversion, and the sign extension that maps into it.
LEMMA CountsAre ==
  /\ -(2^(Bits - 1)) \in Int /\ 2^(Bits - 1) - 1 \in Int
  /\ 0 \in Counts
  /\ \A val \in Clocked : hx711_read_raw(val) \in Counts
<1> DEFINE half == 2^(Bits - 1)
<1>1. half \in Nat \ {0} /\ 2^Bits = 2 * half
  <2>1. Bits - 1 \in Nat /\ (Bits - 1) + 1 = Bits
    BY ScaleAssumption
  <2> QED BY <2>1, PowersOfTwo
<1>2. Counts = -half..(half - 1) /\ Clocked = 0..(2^Bits - 1)
      /\ \A val : hx711_read_raw(val) = IF val >= half THEN val - 2^Bits ELSE val
  BY Zenon DEF Counts, Clocked, hx711_read_raw
<1> HIDE DEF half
<1> QED BY <1>1, <1>2 DEF half

\* The tare lies in every range its samples lie in (calibration.c:12-23).
LEMMA TareWithin ==
  ASSUME NEW n \in Nat \ {0}, NEW s \in Seq(Int), Len(s) = n, NEW lo \in Int, NEW hi \in Int,
         \A k \in 1..n : s[k] \in lo..hi
  PROVE  calibration_tare(s) \in lo..hi
<1> DEFINE S == 1..n
           sum == SumFunctionOnSet(s, S)
<1>1. DOMAIN s = S
  BY LenProperties
<1>2. FoldSeq(+, 0, s) = SumFunctionOnSet(s, DOMAIN s)
  BY DEF FoldSeq, FoldFunction, SumFunctionOnSet
<1>3. calibration_tare(s) = Truncated(sum, n)
  BY <1>1, <1>2, Zenon DEF calibration_tare
<1>4. IsFiniteSet(S) /\ Cardinality(S) = n
  BY FS_Interval
<1>5. \A k \in S : s[k] \in Int /\ lo <= s[k] /\ s[k] <= hi
  OBVIOUS
<1> HIDE DEF S
<1>6. n * lo <= sum /\ sum <= n * hi
  BY <1>4, <1>5, SumBounds
<1>7. sum \in Int
  BY <1>4, <1>5, SumTakes
<1> HIDE DEF sum
<1>8. sum \div n \in lo..hi /\ -((-sum) \div n) \in lo..hi
  BY <1>6, <1>7, QuotientInRange
<1> QED BY <1>3, <1>8 DEF Truncated

\* What a quotient rounded downwards says of its dividend.
LEMMA Quotient ==
  ASSUME NEW d \in Int, NEW n \in Int, n > 0
  PROVE  /\ d \div n \in Int
         /\ (d \div n) * n <= d
         /\ d < (d \div n + 1) * n
OBVIOUS

\* Products of integers keep an order of one factor.
LEMMA ProductOrder ==
  ASSUME NEW a \in Int, NEW b \in Int, a <= b, NEW n \in Int, n > 0
  PROVE  a * n <= b * n
OBVIOUS

\* The distance of conversion r from the tare z, towards the known weight at x,
\* in units of which the known weight has Apart(z, x).
Apart(z, x) == IF x > z THEN x - z ELSE z - x
Away(z, x, r) == KnownWeight * (IF x > z THEN r - z ELSE z - r)

\* With two different readings a conversion is the rounded share of the known
\* weight that its distance from the tare is of theirs (calibration.c:75-103).
LEMMA Converts ==
  ASSUME NEW z \in Int, NEW x \in Int, NEW r \in Int, z # x
  PROVE  /\ Apart(z, x) \in Int /\ Apart(z, x) > 0
         /\ Away(z, x, r) \in Int
         /\ calibration_convert(calibration_compute(z, x), r)
              = Away(z, x, r) \div Apart(z, x)
<1> DEFINE cal == calibration_compute(z, x)
<1>1. KnownWeight \in Int
  BY ScaleAssumption
<1>2. CASE x > z
  <2>1. /\ cal.slope = KnownWeight /\ cal.intercept = -KnownWeight * z
        /\ cal.den = x - z
    BY <1>2 DEF calibration_compute
  <2>2. KnownWeight * r + (-KnownWeight * z) = KnownWeight * (r - z)
    BY <1>1
  <2>3. x - z \in Int /\ x - z > 0
    BY <1>2
  <2>4. Away(z, x, r) = KnownWeight * (r - z) /\ Apart(z, x) = x - z
    BY <1>2 DEF Away, Apart
  <2>5. KnownWeight * (r - z) \in Int
    BY <1>1
  <2>6. calibration_convert(cal, r) = (KnownWeight * r + (-KnownWeight * z)) \div (x - z)
    BY <2>1, <2>3 DEF calibration_convert
  <2> QED BY <2>2, <2>3, <2>4, <2>5, <2>6
<1>3. CASE x < z
  <2>1. /\ cal.slope = -KnownWeight /\ cal.intercept = -(-KnownWeight) * z
        /\ cal.den = z - x
    BY <1>3, <1>1 DEF calibration_compute
  <2>2. (-KnownWeight) * r + (-(-KnownWeight) * z) = KnownWeight * (z - r)
    BY <1>1
  <2>3. z - x \in Int /\ z - x > 0
    BY <1>3
  <2>4. Away(z, x, r) = KnownWeight * (z - r) /\ Apart(z, x) = z - x
    BY <1>3 DEF Away, Apart
  <2>5. KnownWeight * (z - r) \in Int
    BY <1>1
  <2>6. calibration_convert(cal, r) = ((-KnownWeight) * r + (-(-KnownWeight) * z)) \div (z - x)
    BY <2>1, <2>3 DEF calibration_convert
  <2> QED BY <2>2, <2>3, <2>4, <2>5, <2>6
<1> QED BY <1>2, <1>3

\* Which weights handle_state_transition logs events for (weight_manager.c:58-118).
LEMMA EventNeeds ==
  ASSUME NEW w, current_state \in States \ {"ERROR"}, WMReceive(w)
  PROVE  /\ event' = "WEIGHT_ADDED" => Heavy(w)
         /\ event' = "WEIGHT_REMOVED" => Light(w)
<1> DEFINE new == handle_state_transition(current_state, w, debounce_count)
<1>1. event' = new.event
  BY DEF WMReceive
<1>2. /\ new.event = "WEIGHT_ADDED" => Heavy(w)
      /\ new.event = "WEIGHT_REMOVED" => Light(w)
  BY DEF handle_state_transition, Counted, Stay, States
<1> QED BY <1>1, <1>2

-----------------------------------------------------------------------------
(***************************************************************************)
(* Events and the load.                                                    *)
(***************************************************************************)
\* g_calib is what was computed from the two readings, and nothing is announced
\* before.
Calibrated ==
  /\ cal_pc = "run" => g_calib = calibration_compute(zero_raw, raw_at_weight)
  /\ cal_pc # "run" => event = "NONE"

ScaleInv == TypeOK /\ Calibrated

\* All counts are zero at first, and nothing has been announced.
LEMMA ScaleInvInit == Init => ScaleInv
<1> SUFFICES ASSUME Init PROVE ScaleInv
  OBVIOUS
<1>1. /\ cal_pc = "tare" /\ raw_buf = <<>> /\ zero_raw = 0 /\ raw_at_weight = 0
      /\ g_calib = [slope |-> 0, intercept |-> 0, den |-> 1] /\ raw = 0 /\ event = "NONE"
  BY DEF Init, WMInit
<1>2. raw_buf \in Seq(Counts) /\ Len(raw_buf) <= CalSamples
  BY <1>1, ScaleAssumption
<1>3. WMTypeOK
  BY WMInitTypeOK DEF Init
<1>4. g_calib \in [slope : Int, intercept : Int, den : Nat]
  BY <1>1
<1> QED BY <1>1, <1>2, <1>3, <1>4, CountsAre DEF ScaleInv, TypeOK, Calibrated

\* Samples are counted, and are conversions (main.c:87-90).
LEMMA SampleOK == ASSUME ScaleInv, NEW val \in Clocked, Sample(val) PROVE ScaleInv'
<1>1. /\ raw_buf' = Append(raw_buf, hx711_read_raw(val)) /\ Len(raw_buf) < CalSamples
      /\ UNCHANGED <<cal_pc, zero_raw, raw_at_weight, g_calib, raw, wmVars>>
  BY DEF Sample
<1>2. raw_buf \in Seq(Counts) /\ hx711_read_raw(val) \in Counts
  BY CountsAre DEF ScaleInv, TypeOK
<1>3. raw_buf' \in Seq(Counts) /\ Len(raw_buf') <= CalSamples
  BY <1>1, <1>2, AppendProperties, ScaleAssumption
<1>4. WMTypeOK'
  BY <1>1, StutterKeepsType DEF ScaleInv, TypeOK
<1> QED BY <1>1, <1>3, <1>4 DEF ScaleInv, TypeOK, Calibrated, wmVars

\* The tare is the mean of conversions, and so a count (main.c:92).
LEMMA TareOK == ASSUME ScaleInv, Tare PROVE ScaleInv'
<1>1. /\ Len(raw_buf) = CalSamples /\ zero_raw' = calibration_tare(raw_buf)
      /\ raw_buf' = <<>> /\ cal_pc = "tare" /\ cal_pc' = "load"
      /\ UNCHANGED <<raw_at_weight, g_calib, raw, wmVars>>
  BY DEF Tare
<1>2. raw_buf \in Seq(Counts) /\ Counts \subseteq Int
  BY DEF ScaleInv, TypeOK, Counts
<1>3. raw_buf \in Seq(Int)
  BY <1>2, SeqMonotonic
<1>4. \A k \in 1..CalSamples : raw_buf[k] \in Counts
  BY <1>1, <1>2, ElementOfSeq
<1>5. zero_raw' \in Counts
  <2>1. CalSamples \in Nat \ {0}
    BY ScaleAssumption
  <2> QED BY <1>1, <1>3, <1>4, <2>1, TareWithin, CountsAre DEF Counts
<1>6. raw_buf' \in Seq(Counts) /\ Len(raw_buf') <= CalSamples
  BY <1>1, ScaleAssumption
<1>7. WMTypeOK'
  BY <1>1, StutterKeepsType DEF ScaleInv, TypeOK
<1> QED BY <1>1, <1>5, <1>6, <1>7 DEF ScaleInv, TypeOK, Calibrated, wmVars

\* The model is computed from two counts (main.c:98-104).
LEMMA CalibrateOK == ASSUME ScaleInv, NEW val \in Clocked, Calibrate(val) PROVE ScaleInv'
<1>1. /\ raw_at_weight' = hx711_read_raw(val) /\ cal_pc = "load" /\ cal_pc' = "run"
      /\ g_calib' = calibration_compute(zero_raw, raw_at_weight')
      /\ UNCHANGED <<raw_buf, zero_raw, raw, wmVars>>
  BY DEF Calibrate
<1>2. raw_at_weight' \in Counts /\ zero_raw \in Counts
  BY <1>1, CountsAre DEF ScaleInv, TypeOK
<1>3. raw_at_weight' \in Int /\ zero_raw \in Int
  BY <1>2 DEF Counts
<1>4. g_calib' \in [slope : Int, intercept : Int, den : Nat]
  <2>1. KnownWeight \in Int
    BY ScaleAssumption
  <2>2. KnownWeight * zero_raw \in Int /\ (-KnownWeight) * zero_raw \in Int
        /\ (-(-KnownWeight)) * zero_raw \in Int
    BY <1>3, <2>1
  <2> QED BY <1>1, <1>3, <2>1, <2>2 DEF calibration_compute
<1>5. WMTypeOK'
  BY <1>1, StutterKeepsType DEF ScaleInv, TypeOK
<1> QED BY <1>1, <1>2, <1>4, <1>5 DEF ScaleInv, TypeOK, Calibrated, wmVars

\* What is weighed is a weight the scale can show (weight_manager.c:136-155).
LEMMA WeighOK == ASSUME ScaleInv, NEW val \in Clocked, Weigh(val) PROVE ScaleInv'
<1>1. /\ cal_pc = "run" /\ raw' = hx711_read_raw(val) /\ UNCHANGED calVars
      /\ WMReceive(calibration_convert(g_calib, raw'))
  BY DEF Weigh
<1>2. raw' \in Counts
  BY <1>1, CountsAre
<1>3. calibration_convert(g_calib, raw') \in Weights
  BY <1>1, <1>2, ScaleWeights DEF ScaleInv, TypeOK, Calibrated
<1>4. WMTypeOK'
  BY <1>1, <1>3, ReceiveKeepsType DEF ScaleInv, TypeOK
<1> QED BY <1>1, <1>2, <1>4 DEF ScaleInv, TypeOK, Calibrated, calVars

\* Every step keeps the types, and keeps what is weighed with computed from the readings.
LEMMA ScaleInvStep == ScaleInv /\ [Next]_vars => ScaleInv'
<1> SUFFICES ASSUME ScaleInv, [Next]_vars PROVE ScaleInv'
  OBVIOUS
<1>1. CASE UNCHANGED vars
  <2>1. WMTypeOK'
    BY <1>1, StutterKeepsType DEF vars, ScaleInv, TypeOK
  <2> QED BY <1>1, <2>1 DEF vars, calVars, wmVars, ScaleInv, TypeOK, Calibrated
<1> QED BY <1>1, SampleOK, TareOK, CalibrateOK, WeighOK DEF Next

\* Types, and that the model in use is the one computed from the two readings, for every
\* converter and known weight (main.c:71-107).
THEOREM ScaleInvariant == Spec => []ScaleInv
  BY ScaleInvInit, ScaleInvStep, PTL DEF Spec

\* Every conversion, tare and weight is in its range, for every converter, known
\* weight and number of samples (main.c:71-107, calibration.c:12-103).
THEOREM ScaleTypeCorrect == Spec => []TypeOK
<1>1. ScaleInv => TypeOK
  BY DEF ScaleInv
<1> QED BY <1>1, ScaleInvariant, PTL

-----------------------------------------------------------------------------
(***************************************************************************)
(* The calibration.                                                        *)
(***************************************************************************)
\* Not all samples are above their mean, and not all below it.
LEMMA TareAmongSamples ==
  ASSUME NEW n \in Nat \ {0}, NEW s \in Seq(Counts), Len(s) = n
  PROVE  \E k, m \in 1..n : s[k] <= calibration_tare(s) /\ calibration_tare(s) <= s[m]
<1> DEFINE lo == -(2^(Bits - 1))
           hi == 2^(Bits - 1) - 1
           mean == calibration_tare(s)
<1>1. lo \in Int /\ hi \in Int /\ Counts = lo..hi
  BY CountsAre DEF Counts
<1>2. s \in Seq(Int)
  BY <1>1, SeqMonotonic
<1>3. \A k \in 1..n : s[k] \in lo..hi
  BY <1>1, ElementOfSeq
<1> HIDE DEF lo, hi, mean
<1>4. mean \in lo..hi
  BY <1>1, <1>2, <1>3, TareWithin DEF mean
<1>5. \E k \in 1..n : s[k] <= mean
  <2> SUFFICES ASSUME \A k \in 1..n : ~(s[k] <= mean) PROVE FALSE
    OBVIOUS
  <2>1. \A k \in 1..n : s[k] \in (mean + 1)..hi
    BY <1>1, <1>3, <1>4
  <2>2. mean + 1 \in Int /\ hi \in Int
    BY <1>1, <1>4
  <2>3. mean \in (mean + 1)..hi
    BY <1>2, <2>1, <2>2, TareWithin DEF mean
  <2> QED BY <1>1, <1>4, <2>3
<1>6. \E m \in 1..n : mean <= s[m]
  <2> SUFFICES ASSUME \A m \in 1..n : ~(mean <= s[m]) PROVE FALSE
    OBVIOUS
  <2>1. \A m \in 1..n : s[m] \in lo..(mean - 1)
    BY <1>1, <1>3, <1>4
  <2>2. mean - 1 \in Int /\ lo \in Int
    BY <1>1, <1>4
  <2>3. mean \in lo..(mean - 1)
    BY <1>2, <2>1, <2>2, TareWithin DEF mean
  <2> QED BY <1>1, <1>4, <2>3
<1> QED BY <1>5, <1>6 DEF mean

\* A multiple divides exactly.
LEMMA ExactQuotient ==
  ASSUME NEW k \in Int, NEW n \in Int, n > 0 PROVE (k * n) \div n = k /\ 0 \div n = 0
OBVIOUS

\* The line goes through both its points, with either sign of the slope
\* (calibration.c:75-103).
LEMMA ConvertsAtBothPoints ==
  ASSUME NEW z \in Int, NEW x \in Int, z # x
  PROVE  /\ calibration_convert(calibration_compute(z, x), z) = 0
         /\ calibration_convert(calibration_compute(z, x), x) = KnownWeight
<1>1. KnownWeight \in Int
  BY ScaleAssumption
<1>2. Apart(z, x) \in Int /\ Apart(z, x) > 0
  BY Converts
<1>3. Away(z, x, z) = 0
  BY <1>1 DEF Away
<1>4. Away(z, x, x) = KnownWeight * Apart(z, x)
  BY <1>1 DEF Away, Apart
<1> QED BY <1>1, <1>2, <1>3, <1>4, Converts, ExactQuotient

\* The tare lies among its samples and the calibrated scale is right at both
\* points, for every converter, known weight and number of samples
\* (calibration.c:12-23, 75-103).
THEOREM ScaleCalibratedAtBothPoints == Spec => CalibratedAtBothPoints
<1> DEFINE Right ==
      /\ cal_pc' # "tare" /\ cal_pc = "tare" =>
           \E i, j \in 1..CalSamples : raw_buf[i] <= zero_raw' /\ zero_raw' <= raw_buf[j]
      /\ cal_pc' = "run" /\ raw_at_weight' # zero_raw =>
           /\ calibration_convert(g_calib', zero_raw) = 0
           /\ calibration_convert(g_calib', raw_at_weight') = KnownWeight
<1>1. ScaleInv /\ Next => Right
  <2> SUFFICES ASSUME ScaleInv, Next PROVE Right
    OBVIOUS
  <2>1. ASSUME NEW val \in Clocked, Sample(val) PROVE Right
    BY <2>1 DEF Sample
  <2>2. ASSUME Tare PROVE Right
    <3>1. CalSamples \in Nat \ {0} /\ raw_buf \in Seq(Counts) /\ Len(raw_buf) = CalSamples
          /\ zero_raw' = calibration_tare(raw_buf) /\ cal_pc' = "load"
      BY <2>2, ScaleAssumption DEF Tare, ScaleInv, TypeOK
    <3>2. \E k, m \in 1..CalSamples : raw_buf[k] <= zero_raw' /\ zero_raw' <= raw_buf[m]
      BY <3>1, TareAmongSamples
    <3> QED BY <3>1, <3>2
  <2>3. ASSUME NEW val \in Clocked, Calibrate(val) \/ Weigh(val) PROVE Right
    <3>1. /\ g_calib' = calibration_compute(zero_raw, raw_at_weight')
          /\ cal_pc # "tare" /\ raw_at_weight' \in Counts /\ zero_raw \in Counts
      BY <2>3, CountsAre DEF Calibrate, Weigh, calVars, ScaleInv, TypeOK, Calibrated
    <3>2. zero_raw \in Int /\ raw_at_weight' \in Int
      BY <3>1 DEF Counts
    <3> QED BY <3>1, <3>2, ConvertsAtBothPoints
  <2> QED BY <2>1, <2>2, <2>3 DEF Next
<1>2. Spec => [][Right]_vars
  BY <1>1, ScaleInvariant, PTL DEF Spec
<1> QED BY <1>2 DEF CalibratedAtBothPoints

\* A weighed conversion announces only what it is heavy, or light, enough for.
LEMMA WeighMatches ==
  ASSUME ScaleInv, ScaleInv', NEW val \in Clocked, Weigh(val), Span > 0
  PROVE  /\ event' = "WEIGHT_ADDED" => Displacement' >= WakeThreshold * Span
         /\ event' = "WEIGHT_REMOVED" => Displacement' < (SleepThreshold + 1) * Span
<1> DEFINE w == calibration_convert(g_calib, raw')
           D == Away(zero_raw, raw_at_weight, raw')
           S == Apart(zero_raw, raw_at_weight)
<1>1. zero_raw \in Int /\ raw_at_weight \in Int /\ raw' \in Int
  BY DEF ScaleInv, TypeOK, Counts
<1>2. zero_raw # raw_at_weight
  BY <1>1 DEF Span
<1>3. WMReceive(w) /\ cal_pc = "run" /\ UNCHANGED <<zero_raw, raw_at_weight>>
  BY DEF Weigh, calVars
<1>4. Span = S /\ Displacement' = D
  BY <1>3 DEF Span, Displacement, Apart, Away
<1>5. S \in Int /\ S > 0 /\ D \in Int /\ w = D \div S
  BY <1>1, <1>2, <1>3, Converts DEF ScaleInv, Calibrated
<1>6. /\ event' = "WEIGHT_ADDED" => Heavy(w)
      /\ event' = "WEIGHT_REMOVED" => Light(w)
  BY <1>3, EventNeeds DEF ScaleInv, TypeOK, WMTypeOK
<1> HIDE DEF w, D, S
<1>7. w \in Int /\ w * S <= D /\ D < (w + 1) * S
  BY <1>5, Quotient
<1>8. WakeThreshold \in Int /\ SleepThreshold \in Int
  BY WeightManagerAssumption
<1>9. ASSUME event' = "WEIGHT_ADDED" PROVE D >= WakeThreshold * S
  <2>1. WakeThreshold <= w
    BY <1>6, <1>7, <1>8, <1>9 DEF Heavy
  <2>2. WakeThreshold * S <= w * S
    BY <1>5, <1>7, <1>8, <2>1, ProductOrder
  <2>3. WakeThreshold * S \in Int /\ w * S \in Int
    BY <1>5, <1>7, <1>8
  <2> QED BY <1>5, <1>7, <2>2, <2>3
<1>10. ASSUME event' = "WEIGHT_REMOVED" PROVE D < (SleepThreshold + 1) * S
  <2>1. w + 1 <= SleepThreshold + 1
    BY <1>6, <1>7, <1>8, <1>10 DEF Light
  <2>2. (w + 1) * S <= (SleepThreshold + 1) * S
    BY <1>5, <1>7, <1>8, <2>1, ProductOrder
  <2>3. (SleepThreshold + 1) * S \in Int /\ (w + 1) * S \in Int
    BY <1>5, <1>7, <1>8
  <2> QED BY <1>5, <1>7, <2>2, <2>3
<1> QED BY <1>4, <1>9, <1>10

\* Weight events are about the load itself, for every calibration with two
\* different readings, whichever way round the cell is wired
\* (weight_manager.c:58-147, calibration.c:75-103).
THEOREM ScaleEventsMatchLoad == Spec => EventsMatchLoad
<1> DEFINE Matches ==
      Span > 0 /\ raw_at_weight' = raw_at_weight =>
        /\ event' = "WEIGHT_ADDED" => Displacement' >= WakeThreshold * Span
        /\ event' = "WEIGHT_REMOVED" => Displacement' < (SleepThreshold + 1) * Span
<1>1. ScaleInv /\ ScaleInv' /\ [Next]_vars => [Matches]_vars
  <2> SUFFICES ASSUME ScaleInv, ScaleInv', Next PROVE Matches
    OBVIOUS
  <2>1. ASSUME NEW val \in Clocked, Weigh(val) PROVE Matches
    BY <2>1, WeighMatches
  <2>2. ASSUME NEW val \in Clocked, Sample(val) \/ Calibrate(val) PROVE Matches
    BY <2>2 DEF Sample, Calibrate, ScaleInv, Calibrated, wmVars
  <2>3. CASE Tare
    BY <2>3 DEF Tare, ScaleInv, Calibrated, wmVars
  <2> QED BY <2>1, <2>2, <2>3 DEF Next
<1>2. Spec => [][Matches]_vars
  BY <1>1, ScaleInvariant, PTL DEF Spec
<1> QED BY <1>2 DEF EventsMatchLoad

-----------------------------------------------------------------------------
\* Weighing conversions of a calibrated scale is a behaviour of the state machine,
\* and so of the presence detector (main.c:71-107, weight_manager.c:134-156).
THEOREM ScaleImplementsDetector == Spec => ImplementsDetector
<1>1. Init => WMInit
  BY DEF Init
<1>2. TypeOK' /\ [Next]_vars => [WMNext]_wmVars
  <2> SUFFICES ASSUME TypeOK', [Next]_vars PROVE [WMNext]_wmVars
    OBVIOUS
  <2>1. ASSUME NEW val \in Clocked, Weigh(val) PROVE WMNext
    <3>1. WMReceive(current_weight') /\ current_weight' \in Weights
      BY <2>1 DEF Weigh, WMReceive, TypeOK, WMTypeOK
    <3> QED BY <3>1 DEF WMNext
  <2>2. ASSUME NEW val \in Clocked, Sample(val) \/ Calibrate(val) PROVE UNCHANGED wmVars
    BY <2>2 DEF Sample, Calibrate
  <2>3. CASE Tare
    BY <2>3 DEF Tare
  <2>4. CASE UNCHANGED vars
    BY <2>4 DEF vars
  <2> QED BY <2>1, <2>2, <2>3, <2>4 DEF Next
<1>3. Spec => WMSpec
  BY <1>1, <1>2, ScaleTypeCorrect, PTL DEF Spec, WMSpec
<1> QED BY <1>3, WMImplementsDetector, PTL
=============================================================================
