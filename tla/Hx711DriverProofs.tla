-------------------------- MODULE Hx711DriverProofs --------------------------
(***************************************************************************)
(* Proofs about Hx711Driver for any set of clients, any windows and noises *)
(* and any conversions: types, mutual exclusion, that the output stays in  *)
(* the range of the conversions, how far a step is followed, and that no   *)
(* band a single stray sample leaves is left by the median.                *)
(***************************************************************************)
EXTENDS Hx711Driver, MovingAverageProofs

Assumptions == KalmanAssumption /\ StepFilterAssumption /\ DriverAssumption
Windows == MaWindows \cup {0}
Filters == [x_est : Int, Q : Nat, R : R_min..R_max]

-----------------------------------------------------------------------------
(***************************************************************************)
(* The operators the filters are built from.                               *)
(***************************************************************************)
\* The noises stay in their range where they are limited, and are never negative
\* (kalman_filter.c:64-72).
LEMMA NoisesOK ==
  ASSUME NEW kf \in Filters, NEW z \in Int, NEW n \in Noises(kf, z)
  PROVE  n[1] \in Nat /\ n[2] \in R_min..R_max
<1> USE KalmanAssumption
<1> DEFINE Q == kf.Q
           R == kf.R
<1>1. Q \in Nat /\ R \in R_min..R_max
  BY DEF Filters
<1> HIDE DEF Q, R
<1>2. \A q \in Scaled(Q, 120) \cup Scaled(Q, 80) : q \in Nat
  BY <1>1 DEF Scaled
<1>3. \A r \in Scaled(R, 120) : r \in Int /\ r >= R
  BY <1>1 DEF Scaled
<1>4. \A r \in Scaled(R, 80) : r \in Int /\ r <= R
  BY <1>1 DEF Scaled
<1>5. CASE fabs(z - kf.x_est) > threshold
  <2>1. PICK q \in Scaled(Q, 120), r \in Scaled(R, 80) : n = <<fmin(q, Q_max), fmax(r, R_min)>>
    BY <1>5 DEF Noises, Q, R
  <2> QED BY <2>1, <1>1, <1>2, <1>4 DEF fmin, fmax
<1>6. CASE ~(fabs(z - kf.x_est) > threshold)
  <2>1. PICK q \in Scaled(Q, 80), r \in Scaled(R, 120) : n = <<fmax(q, Q_min), fmin(r, R_max)>>
    BY <1>6 DEF Noises, Q, R
  <2> QED BY <2>1, <1>1, <1>2, <1>3 DEF fmin, fmax
<1> QED BY <1>5, <1>6

\* An update keeps the filter's types and leaves at most R/(Q+R) of the distance.
LEMMA UpdateOK ==
  ASSUME NEW kf \in Filters, NEW z \in Int, NEW kg \in kalman_update_adaptive(kf, z)
  PROVE  /\ kg \in Filters
         /\ (kf.Q + kf.R) * fabs(z - kg.x_est) <= kf.R * fabs(z - kf.x_est)
         /\ fabs(z - kg.x_est) <= fabs(z - kf.x_est)
<1>1. PICK x \in Estimates(kf, z), n \in Noises(kf, z) : kg = [x_est |-> x, Q |-> n[1], R |-> n[2]]
  BY DEF kalman_update_adaptive
<1>2. n[1] \in Nat /\ n[2] \in R_min..R_max
  BY NoisesOK
<1>3. kf.x_est \in Int
  BY DEF Filters
<1>4. x \in fmin(kf.x_est, z)..fmax(kf.x_est, z)
      /\ (kf.Q + kf.R) * fabs(z - x) <= kf.R * fabs(z - kf.x_est)
  BY DEF Estimates
<1>5. x \in Int /\ fabs(z - x) <= fabs(z - kf.x_est)
  BY <1>3, <1>4 DEF fmin, fmax, fabs
<1>6. kg \in Filters /\ kg.x_est = x
  BY <1>1, <1>2, <1>5 DEF Filters
<1> QED BY <1>4, <1>5, <1>6

\* The ring in use, as the lemmas about rings have it.
LEMMA RingInUse ==
  ASSUME FilterOK, StepFilterAssumption, s_ma_window > 0
  PROVE  s_ma_window \in Nat \ {0} /\ s_ma \in MovingAverages(s_ma_window)
<1>1. PICK n \in Windows : s_ma \in MovingAverages(n)
  BY DEF FilterOK, Windows
<1>2. n \in Nat
  BY DEF Windows, StepFilterAssumption
<1>3. s_ma.size = n
  BY <1>1, <1>2, RingFields DEF InRing
<1> QED BY <1>1, <1>3 DEF FilterOK, StepFilterAssumption

\* What the chain's first half makes of a value.
LEMMA AveragedOK ==
  ASSUME FilterOK, StepFilterAssumption, NEW v \in Int, NEW restart \in BOOLEAN
  PROVE  LET ma == Averaged(v, restart)
         IN /\ \E n \in Windows : ma \in MovingAverages(n)
            /\ s_ma_window > 0 => ma.size = s_ma_window /\ ma.count > 0
            /\ PassedOn(v, ma) \subseteq Int
<1> DEFINE ma == Averaged(v, restart)
<1>1. CASE s_ma_window = 0
  BY <1>1 DEF Averaged, PassedOn, FilterOK, Windows
<1>2. CASE s_ma_window # 0
  <2>1. s_ma_window \in Nat \ {0}
    BY <1>2 DEF FilterOK, StepFilterAssumption
  <2>2. s_ma \in MovingAverages(s_ma_window)
    BY <2>1, RingInUse
  <2> DEFINE f == IF restart THEN moving_average_reset(s_ma, v) ELSE s_ma
  <2>3. f \in MovingAverages(s_ma_window)
    BY <2>1, <2>2, ResetRing
  <2>4. ma = moving_average_update(f, v)
    BY <1>2 DEF Averaged
  <2> HIDE DEF f, ma
  <2>5. ma \in MovingAverages(s_ma_window) /\ ma.count > 0
    BY <2>1, <2>3, <2>4, UpdateRing
  <2>6. InRing(ma, s_ma_window)
    BY <2>1, <2>5, RingFields
  <2>7. ma.sum \in Int /\ ma.count \in Nat \ {0} /\ ma.size = s_ma_window
    BY <2>1, <2>5, <2>6 DEF InRing
  <2>8. PassedOn(v, ma) = {ma.sum \div ma.count, -((-ma.sum) \div ma.count)}
    BY <1>2, <2>1, <2>7 DEF PassedOn, Rounded, Returned, Mean
  <2>9. PassedOn(v, ma) \subseteq Int
    BY <2>7, <2>8
  <2>10. s_ma_window \in Windows
    BY DEF FilterOK, Windows
  <2> QED BY <2>5, <2>7, <2>9, <2>10 DEF ma
<1> QED BY <1>1, <1>2

\* A restart passes the value itself on.
LEMMA RestartPassesOn ==
  ASSUME FilterOK, StepFilterAssumption, NEW v \in Int
  PROVE  PassedOn(v, Averaged(v, TRUE)) = {v}
<1> DEFINE ma == Averaged(v, TRUE)
<1>1. CASE s_ma_window = 0
  BY <1>1 DEF PassedOn
<1>2. CASE s_ma_window # 0
  <2>1. s_ma_window \in Nat \ {0}
    BY <1>2 DEF FilterOK, StepFilterAssumption
  <2>2. s_ma \in MovingAverages(s_ma_window)
    BY <2>1, RingInUse
  <2>3. ma = moving_average_update(moving_average_reset(s_ma, v), v)
    BY <1>2 DEF Averaged
  <2> HIDE DEF ma
  <2>4. ma.count \in {1, 2} /\ ma.sum = ma.count * v
    BY <2>1, <2>2, <2>3, RestartedMean
  <2>5. ma \in MovingAverages(s_ma_window)
    BY <2>1, <2>2, <2>3, ResetRing, UpdateRing
  <2>6. ma.size = s_ma_window
    BY <2>1, <2>5, RingFields DEF InRing
  <2>7. PassedOn(v, ma) = {ma.sum \div ma.count, -((-ma.sum) \div ma.count)}
    BY <1>2, <2>1, <2>6 DEF PassedOn, Rounded, Returned, Mean
  <2>8. ma.sum \div ma.count = v /\ -((-ma.sum) \div ma.count) = v
    BY <2>4
  <2> QED BY <2>7, <2>8 DEF ma
<1> QED BY <1>1, <1>2

-----------------------------------------------------------------------------
(***************************************************************************)
(* The invariant.                                                          *)
(***************************************************************************)
\* A task is past xSemaphoreTake only while it is the holder, and samples are
\* there only while a median is under way.
HolderReads ==
  /\ \A t \in Tasks : at[t] \in {"read", "filter"} => mutex = t
  /\ mutex \in Tasks => at[mutex] \in {"read", "filter"}
  /\ i > 0 => mutex \in Tasks /\ call[mutex] = "median"
  /\ \A t \in Tasks : at[t] = "filter" => i = adaptive_window
  /\ \A t \in Tasks : at[t] = "read" => i < adaptive_window

\* With no stray yet both remembered samples lie in the band; with one, the
\* newer does from the third sample on, and both from the fourth on.
InBand(x) == x \in BandLow..BandHigh
StrayFits ==
  /\ strays = 0 => (i >= 1 => InBand(newer)) /\ (i >= 2 => InBand(older))
  /\ strays = 1 => /\ i = 2 => InBand(newer) \/ InBand(older)
                   /\ i >= 3 => InBand(newer)
                   /\ i >= 4 => InBand(older)

TasksOK ==
  /\ mutex \in Tasks \cup {"NULL", "free"}
  /\ at \in [Tasks -> {"out", "take", "read", "filter"}]
  /\ call \in [Tasks -> Calls \cup {"none"}]
  /\ call["HX711_Task"] \in {"none", "filtered"}
  /\ mutex # "NULL" => ready

MedianOK ==
  /\ adaptive_window \in MedianMin..MedianMax
  /\ i \in 0..adaptive_window
  /\ older \in Int /\ newer \in Int
  /\ strays \in 0..i

Inv == FilterOK /\ TasksOK /\ MedianOK /\ HolderReads /\ StrayFits

\* The filters' types are kept by each call that touches the filters.
LEMMA InitFilterOK ==
  ASSUME Assumptions, FilterOK, NEW window \in Windows, NEW kf \in BOOLEAN, NEW r \in Raw,
         hx711_init(window, kf, r)
  PROVE  FilterOK'
<1> USE DEF Assumptions
<1>1. r \in Int /\ window \in Nat
  BY DEF StepFilterAssumption, Windows
<1>2. PICK m \in Windows : s_ma \in MovingAverages(m)
  BY DEF FilterOK, Windows
<1>3. m \in Nat
  BY DEF Windows, StepFilterAssumption
<1>4. /\ \E n \in Windows : s_ma' \in MovingAverages(n)
      /\ window > 0 => s_ma'.size = window /\ s_ma'.count > 0
  <2>1. CASE window = 0
    BY <1>2, <2>1 DEF hx711_init
  <2>2. CASE window # 0
    <3>1. window \in Nat \ {0}
      BY <1>1, <2>2
    <3> DEFINE f == moving_average_init(s_ma, window, FALSE)
    <3>2. f \in MovingAverages(window)
      BY <1>1, <1>2, <1>3, InitRing
    <3>3. s_ma' = moving_average_update(f, r)
      BY <2>2 DEF hx711_init
    <3> HIDE DEF f
    <3>4. s_ma' \in MovingAverages(window) /\ s_ma'.count > 0
      BY <1>1, <3>1, <3>2, <3>3, UpdateRing
    <3> QED BY <3>1, <3>4, RingFields DEF InRing
  <2> QED BY <2>1, <2>2
<1>5. s_kf' \in Filters
  <2>1. CASE kf
    <3>1. kalman_init_adaptive(Q_init, R_init) \in Filters
      BY DEF kalman_init_adaptive, Filters, StepFilterAssumption
    <3> QED BY <1>1, <2>1, <3>1, UpdateOK DEF hx711_init
  <2>2. CASE ~kf
    BY <2>2 DEF hx711_init, FilterOK, Filters
  <2> QED BY <2>1, <2>2
<1>6. s_last_output' \in Int
  BY <1>1, <1>5 DEF hx711_init, Filters
<1>7. lowest' \in Int /\ highest' \in Int /\ calm' \in 0..CalmLimit
  BY <1>1 DEF hx711_init, fmin, fmax, StepFilterAssumption
<1>8. s_boost_count' \in 0..(BoostSamples - 1)
  BY DEF hx711_init, StepFilterAssumption
<1>9. ready' \in BOOLEAN /\ s_use_kf' \in BOOLEAN /\ s_ma_window' = window
  BY DEF hx711_init
<1>10. /\ s_ma_window' \in Windows
       /\ \E n \in Windows : s_ma' \in MovingAverages(n)
       /\ s_ma_window' > 0 => s_ma'.size = s_ma_window' /\ s_ma'.count > 0
  BY <1>4, <1>9
<1> QED BY <1>5, <1>6, <1>7, <1>8, <1>9, <1>10 DEF FilterOK, Windows, Filters

\* Tearing the driver down takes the ring away (hx711.c:143-157).
LEMMA DeinitFilterOK ==
  ASSUME Assumptions, FilterOK, hx711_deinit PROVE FilterOK'
<1> USE DEF Assumptions
<1>1. \E n \in Windows : s_ma' \in MovingAverages(n)
  <2>1. CASE s_ma_window > 0
    <3>1. s_ma' \in MovingAverages(0)
      BY <2>1, RingInUse, DeinitRing DEF hx711_deinit
    <3> QED BY <3>1 DEF Windows
  <2>2. CASE ~(s_ma_window > 0)
    BY <2>2 DEF hx711_deinit, FilterOK, Windows
  <2> QED BY <2>1, <2>2
<1>2. /\ s_ma_window' = 0
      /\ UNCHANGED <<ready, s_use_kf, s_kf, s_boost_count, s_last_output, calm, lowest, highest>>
  BY DEF hx711_deinit
<1>3. /\ s_ma_window' \in Windows
      /\ ~(s_ma_window' > 0)
  BY <1>2 DEF Windows
<1>4. ready' \in BOOLEAN /\ s_use_kf' \in BOOLEAN
  BY <1>2, Zenon DEF FilterOK
<1> QED BY <1>1, <1>2, <1>3, <1>4 DEF FilterOK, Windows

\* A filtered reading keeps the filters (hx711.c:198-229),
LEMMA FilteredOK ==
  ASSUME Assumptions, FilterOK, NEW r \in Raw, hx711_read_filtered(r)
  PROVE  FilterOK'
<1> USE DEF Assumptions
<1>1. r \in Int
  BY DEF StepFilterAssumption
<1> DEFINE restart == s_boost_count > 0 \/ IsStep(r)
<1>2. restart \in BOOLEAN
  BY DEF IsStep
<1>3. s_ma' = Averaged(r, restart)
  BY DEF hx711_read_filtered
<1>4. PICK w \in PassedOn(r, s_ma') :
        /\ StepKalman(w)
        /\ calm' = IF IsStep(r) \/ IsStep(w) THEN 0 ELSE fmin(calm + 1, CalmLimit)
  BY DEF hx711_read_filtered
<1> HIDE DEF restart
<1>5. /\ \E n \in Windows : s_ma' \in MovingAverages(n)
      /\ s_ma_window > 0 => s_ma'.size = s_ma_window /\ s_ma'.count > 0
      /\ w \in Int
  BY <1>1, <1>2, <1>3, <1>4, AveragedOK
<1>6. s_kf' \in Filters /\ s_last_output' \in Int /\ s_boost_count' \in 0..(BoostSamples - 1)
  <2>1. CASE ~s_use_kf
    BY <1>4, <1>5, <2>1 DEF StepKalman, FilterOK, Filters
  <2>2. CASE s_use_kf
    <3> DEFINE boosted == s_boost_count > 0 \/ IsStep(w)
               left == IF boosted THEN BoostSamples ELSE s_boost_count
               q == IF boosted THEN BoostedQ ELSE IF s_boost_count = 1 THEN NormalQ ELSE s_kf.Q
               kq == [s_kf EXCEPT !.Q = q]
    <3>1. s_boost_count' = (IF left > 0 THEN left - 1 ELSE left)
          /\ s_kf' \in kalman_update_adaptive(kq, w) /\ s_last_output' = s_kf'.x_est
      BY <1>4, <2>2 DEF StepKalman
    <3>2. left \in 0..BoostSamples /\ (left > 0 \/ left = 0)
      BY DEF FilterOK, StepFilterAssumption
    <3>3. q \in Nat
      BY DEF FilterOK, StepFilterAssumption
    <3> HIDE DEF q
    <3>4. kq \in Filters
      BY <3>3 DEF FilterOK, Filters
    <3> HIDE DEF kq, left
    <3>5. s_kf' \in Filters
      BY <1>5, <3>1, <3>4, UpdateOK
    <3>6. s_boost_count' \in 0..(BoostSamples - 1)
      BY <3>1, <3>2 DEF StepFilterAssumption
    <3> QED BY <3>1, <3>5, <3>6 DEF Filters
  <2> QED BY <2>1, <2>2
<1>7. lowest' \in Int /\ highest' \in Int
  BY <1>1 DEF hx711_read_filtered, Converted, fmin, fmax, FilterOK
<1>8. calm' \in 0..CalmLimit
  BY <1>4 DEF fmin, FilterOK, StepFilterAssumption
<1>9. UNCHANGED config
  BY DEF hx711_read_filtered
<1> QED BY <1>5, <1>6, <1>7, <1>8, <1>9 DEF FilterOK, Windows, Filters, config

\* and so does the end of a median (hx711.c:288-303).
LEMMA MedianFilterOK ==
  ASSUME Assumptions, FilterOK, newer \in Int, NEW t \in Tasks, MedianFilter(t)
  PROVE  FilterOK'
<1> USE DEF Assumptions
<1> DEFINE restart == IsStep(newer)
<1>1. restart \in BOOLEAN
  BY DEF IsStep
<1>2. s_ma' = Averaged(newer, restart) /\ s_last_output' \in PassedOn(newer, s_ma')
  BY DEF MedianFilter
<1> HIDE DEF restart
<1>3. /\ \E n \in Windows : s_ma' \in MovingAverages(n)
      /\ s_ma_window > 0 => s_ma'.size = s_ma_window /\ s_ma'.count > 0
      /\ s_last_output' \in Int
  BY <1>1, <1>2, AveragedOK
<1> QED BY <1>3 DEF MedianFilter, FilterOK, Windows, config

\* The steps that leave the filters alone leave their types alone.
LEMMA SameFilterOK == ASSUME FilterOK, UNCHANGED sfVars PROVE FilterOK'
BY DEF FilterOK, sfVars, config, filters

\* The range of the conversions goes on being one.
LEMMA ConvertedOK ==
  ASSUME FilterOK, NEW r \in Int, Converted(r), UNCHANGED <<config, filters>> PROVE FilterOK'
<1>1. lowest' \in Int /\ highest' \in Int
  BY DEF Converted, fmin, fmax, FilterOK
<1> QED BY <1>1 DEF FilterOK, config, filters

\* Every step keeps the filters' types.
LEMMA FilterStep == ASSUME Assumptions, Inv, [Next]_vars PROVE FilterOK'
<1> USE DEF Inv
<1>1. CASE \E window \in Windows, kf \in BOOLEAN, r \in Raw :
             InitForCalibration(window, kf, r) \/ hx711_init_rtos(window, kf, r)
  BY <1>1, InitFilterOK DEF InitForCalibration, hx711_init_rtos
<1>2. CASE DeinitBeforeRtos
  BY <1>2, DeinitFilterOK DEF DeinitBeforeRtos
<1>3. ASSUME NEW t \in Tasks, (\E c \in Calls : Begin(t, c)) \/ Take(t) \/ TimedOut(t) \/ RawRead(t)
      PROVE  FilterOK'
  BY <1>3, SameFilterOK DEF Begin, Take, TimedOut, RawRead
<1>4. ASSUME NEW t \in Tasks, NEW r \in Raw, FilteredRead(t, r) PROVE FilterOK'
  BY <1>4, FilteredOK DEF FilteredRead
<1>5. ASSUME NEW t \in Tasks, NEW r \in Raw, MedianSample(t, r) PROVE FilterOK'
  BY <1>5, ConvertedOK DEF MedianSample, Assumptions, StepFilterAssumption
<1>6. ASSUME NEW t \in Tasks, MedianFilter(t) PROVE FilterOK'
  BY <1>6, MedianFilterOK DEF MedianOK
<1>7. CASE UNCHANGED vars
  BY <1>7, SameFilterOK DEF vars
<1> QED BY <1>1, <1>2, <1>3, <1>4, <1>5, <1>6, <1>7 DEF Next, Holding, Windows

\* Every step keeps the tasks at their labels, and the samples to their holder.
LEMMA TasksStep == ASSUME Assumptions, Inv, [Next]_vars PROVE TasksOK' /\ MedianOK' /\ HolderReads'
<1> USE DEF Assumptions, DriverAssumption, Inv, TasksOK, MedianOK, HolderReads, Calls
<1>0. "free" \notin Tasks /\ "NULL" \notin Tasks /\ "HX711_Task" \in Tasks
  BY DEF Tasks
<1>1. CASE \E window \in Windows, kf \in BOOLEAN, r \in Raw :
             InitForCalibration(window, kf, r) \/ hx711_init_rtos(window, kf, r)
  <2>1. UNCHANGED <<at, call, median>> /\ ready' = TRUE /\ mutex' \in {mutex, "free"}
        /\ mutex \in {"NULL", "free"}
    BY <1>1 DEF InitForCalibration, hx711_init_rtos, hx711_init, tasks
  <2> QED BY <1>0, <2>1 DEF median
<1>2. CASE DeinitBeforeRtos
  BY <1>0, <1>2 DEF DeinitBeforeRtos, hx711_deinit, tasks, median
<1>3. ASSUME NEW t \in Tasks, NEW c \in Calls, Begin(t, c)
      PROVE  TasksOK' /\ MedianOK' /\ HolderReads'
  <2>1. /\ at[t] = "out" /\ at' = [at EXCEPT ![t] = "take"]
        /\ call' = [call EXCEPT ![t] = c] /\ (t = "HX711_Task" => c = "filtered")
        /\ UNCHANGED <<ready, mutex, median>>
    BY <1>3 DEF Begin, sfVars, config
  <2>2. t # mutex
    BY <2>1
  <2>3. TasksOK'
    BY <1>0, <2>1
  <2>4. MedianOK'
    BY <2>1 DEF median
  <2>5. HolderReads'
    BY <1>0, <2>1, <2>2 DEF median
  <2> QED BY <2>3, <2>4, <2>5
<1>4. ASSUME NEW t \in Tasks, Take(t) PROVE TasksOK' /\ MedianOK' /\ HolderReads'
  <2>1. i = 0
    BY <1>0, <1>4 DEF Take
  <2>2. adaptive_window' \in MedianMin..MedianMax
    BY <1>4 DEF Take, NextWindow, fmin, fmax
  <2>3. TasksOK' /\ MedianOK'
    BY <1>0, <1>4, <2>1, <2>2 DEF Take, sfVars, config
  <2>4. HolderReads'
    BY <1>0, <1>4, <2>1, <2>2 DEF Take
  <2> QED BY <2>3, <2>4
<1>5. ASSUME NEW t \in Tasks, TimedOut(t) PROVE TasksOK' /\ MedianOK' /\ HolderReads'
  <2>1. /\ at[t] = "take" /\ at' = [at EXCEPT ![t] = "out"]
        /\ call' = [call EXCEPT ![t] = "none"]
        /\ UNCHANGED <<ready, mutex, median>>
    BY <1>5 DEF TimedOut, Return, sfVars, config
  <2>2. t # mutex
    BY <2>1
  <2>3. TasksOK'
    BY <1>0, <2>1
  <2>4. MedianOK'
    BY <2>1 DEF median
  <2>5. HolderReads'
    BY <1>0, <2>1, <2>2 DEF median
  <2> QED BY <2>3, <2>4, <2>5
<1>6. ASSUME NEW t \in Tasks, RawRead(t) \/ \E r \in Raw : FilteredRead(t, r)
      PROVE  TasksOK' /\ MedianOK' /\ HolderReads'
  <2>1. at[t] = "read" /\ call[t] # "median" /\ Give(t) /\ UNCHANGED <<ready, median>>
    BY <1>6 DEF RawRead, FilteredRead, hx711_read_filtered, sfVars, config
  <2>2. i = 0
    BY <1>0, <2>1
  <2> QED BY <1>0, <2>1, <2>2 DEF Give, Return, median
<1>7. ASSUME NEW t \in Tasks, NEW r \in Raw, MedianSample(t, r)
      PROVE  TasksOK' /\ MedianOK' /\ HolderReads'
  <2>1. i < adaptive_window /\ mutex = t /\ call[t] = "median" /\ r \in Int
    BY <1>7 DEF MedianSample, StepFilterAssumption
  <2>2. newer' \in Int /\ older' \in Int
    BY <1>7, <2>1 DEF MedianSample, Cascaded, median3, Lower, Higher
  <2>3. i' = i + 1 /\ i' \in 0..adaptive_window' /\ strays' \in 0..i' /\ adaptive_window' = adaptive_window
    BY <1>7, <2>1 DEF MedianSample
  <2>4. TasksOK' /\ MedianOK'
    BY <1>7, <2>2, <2>3 DEF MedianSample, config
  <2>5. HolderReads'
    BY <1>0, <1>7, <2>1, <2>3 DEF MedianSample
  <2> QED BY <2>4, <2>5
<1>8. ASSUME NEW t \in Tasks, MedianFilter(t) PROVE TasksOK' /\ MedianOK' /\ HolderReads'
  <2>1. MedianOK'
    BY <1>8 DEF MedianFilter, Forget
  <2>2. TasksOK' /\ HolderReads'
    BY <1>0, <1>8 DEF MedianFilter, Forget, Give, Return, config
  <2> QED BY <2>1, <2>2
<1>9. CASE UNCHANGED vars
  BY <1>9 DEF vars, tasks, median, sfVars, config
<1> QED BY <1>1, <1>2, <1>3, <1>4, <1>5, <1>6, <1>7, <1>8, <1>9 DEF Next, Holding, Windows

\* The median of three lies in a band that two of the three lie in (moving_average.c:
\* 8-13 has the same steps).
LEMMA TwoInBand ==
  ASSUME BandLow \in Int, BandHigh \in Int, NEW a \in Int, NEW b \in Int, NEW c \in Int,
         \/ InBand(a) /\ InBand(b)
         \/ InBand(a) /\ InBand(c)
         \/ InBand(b) /\ InBand(c)
  PROVE  InBand(median3(a, b, c))
BY DEF InBand, median3, Lower, Higher

\* Every sample keeps the account of the strays.
LEMMA StrayStep == ASSUME Assumptions, Inv, [Next]_vars PROVE StrayFits'
<1>1. ASSUME NEW t \in Tasks, NEW r \in Raw, MedianSample(t, r) PROVE StrayFits'
  <2>1. /\ older' = newer /\ newer' = Cascaded(r) /\ i' = i + 1
        /\ strays' = IF r \in BandLow..BandHigh THEN strays ELSE strays + 1
    BY <1>1 DEF MedianSample
  <2>2. /\ r \in Int /\ BandLow \in Int /\ BandHigh \in Int
        /\ i \in Nat /\ strays \in 0..i /\ older \in Int /\ newer \in Int
    BY DEF Assumptions, StepFilterAssumption, DriverAssumption, Inv, MedianOK
  <2>3. CASE InBand(r)
    <3>1. strays' = strays
      BY <2>1, <2>3 DEF InBand
    <3>2. i < 2 => newer' = r
      BY <2>1, <2>2 DEF Cascaded
    <3>3. i >= 2 => newer' = median3(older, newer, r)
      BY <2>1, <2>2 DEF Cascaded
    <3>4. i >= 2 /\ (InBand(older) \/ InBand(newer)) => InBand(newer')
      BY <2>2, <2>3, <3>3, TwoInBand
    <3> QED BY <2>1, <2>2, <2>3, <3>1, <3>2, <3>4 DEF Inv, StrayFits
  <2>4. CASE ~InBand(r)
    <3>1. strays' = strays + 1
      BY <2>1, <2>4 DEF InBand
    <3>2. i >= 2 => newer' = median3(older, newer, r)
      BY <2>1, <2>2 DEF Cascaded
    <3>3. i >= 2 /\ InBand(older) /\ InBand(newer) => InBand(newer')
      <4> SUFFICES ASSUME i >= 2, InBand(older), InBand(newer) PROVE InBand(newer')
        BY DEF InBand
      <4>1. InBand(median3(older, newer, r))
        BY <2>2 DEF InBand, median3, Lower, Higher
      <4>2. newer' = median3(older, newer, r)
        BY <3>2
      <4> QED BY <4>1, <4>2 DEF InBand
    <3>4. strays = 0 \/ strays # 0
      OBVIOUS
    <3>5. CASE strays # 0
      <4>1. strays' \notin {0, 1}
        BY <2>2, <3>1, <3>5
      <4> QED BY <4>1 DEF StrayFits
    <3>6. CASE strays = 0
      <4>1. strays' = 1 /\ older' = newer
        BY <2>1, <3>1, <3>6
      <4>2. (i >= 1 => InBand(newer)) /\ (i >= 2 => InBand(older))
        BY <3>6 DEF Inv, StrayFits
      <4>3. i' >= 2 => InBand(older')
        BY <2>1, <2>2, <4>1, <4>2 DEF InBand
      <4>4. i' >= 3 => InBand(newer')
        BY <2>1, <2>2, <3>3, <4>2
      <4> QED BY <2>1, <2>2, <4>1, <4>3, <4>4 DEF StrayFits, InBand
    <3> QED BY <3>5, <3>6
  <2> QED BY <2>3, <2>4
<1>2. ASSUME NEW t \in Tasks, MedianFilter(t) PROVE StrayFits'
  BY <1>2 DEF MedianFilter, Forget, StrayFits
<1>3. ASSUME NEW t \in Tasks, Take(t) PROVE StrayFits'
  BY <1>3 DEF Take, StrayFits, Inv, InBand
<1>4. ASSUME UNCHANGED median PROVE StrayFits'
  BY <1>4 DEF median, StrayFits, Inv, InBand
<1>5. ASSUME NEW t \in Tasks, NEW r \in Raw, FilteredRead(t, r) PROVE StrayFits'
  BY <1>4, <1>5 DEF FilteredRead
<1>6. ASSUME NEW t \in Tasks, (\E c \in Calls : Begin(t, c)) \/ TimedOut(t) \/ RawRead(t)
      PROVE  StrayFits'
  BY <1>4, <1>6 DEF Begin, TimedOut, RawRead
<1>7. CASE UNCHANGED vars
  BY <1>4, <1>7 DEF vars
<1>8. CASE \E window \in Windows, kf \in BOOLEAN, r \in Raw :
             InitForCalibration(window, kf, r) \/ hx711_init_rtos(window, kf, r)
  BY <1>4, <1>8 DEF InitForCalibration, hx711_init_rtos
<1>9. CASE DeinitBeforeRtos
  BY <1>4, <1>9 DEF DeinitBeforeRtos
<1> QED BY <1>1, <1>2, <1>3, <1>5, <1>6, <1>7, <1>8, <1>9 DEF Next, Holding, Windows

\* Nothing is set up at first.
LEMMA InvInit == ASSUME Assumptions, Init PROVE Inv
<1> USE DEF Assumptions
<1>1. FilterOK
  <2>1. s_ma \in MovingAverages(0)
    BY DetachedRing DEF Init, SFInit
  <2>2. s_kf \in Filters
    BY DEF Init, SFInit, kalman_init_adaptive, Filters, KalmanAssumption
  <2>3. 0 \in Windows
    BY DEF Windows
  <2>4. /\ s_ma_window = 0 /\ s_boost_count = 0 /\ s_last_output = 0 /\ lowest = 0
        /\ highest = 0 /\ calm = CalmLimit
    BY DEF Init, SFInit
  <2>5. s_boost_count \in 0..(BoostSamples - 1) /\ calm \in 0..CalmLimit /\ ~(s_ma_window > 0)
    BY <2>4 DEF StepFilterAssumption
  <2>6. ready \in BOOLEAN /\ s_use_kf \in BOOLEAN
    BY Zenon DEF Init, SFInit
  <2> QED BY <2>1, <2>2, <2>3, <2>4, <2>5, <2>6 DEF FilterOK, Windows, Filters
<1>2. TasksOK
  BY DEF Init, TasksOK, Tasks
<1>3. MedianOK
  BY DEF Init, MedianOK, DriverAssumption
<1>4. HolderReads
  BY DEF Init, HolderReads, DriverAssumption, Tasks
<1>5. StrayFits
  BY DEF Init, StrayFits
<1> QED BY <1>1, <1>2, <1>3, <1>4, <1>5 DEF Inv

\* Types, the holder of the mutex and the stray samples, together inductive, for any
\* clients and conversions (hx711.c:42-308).
THEOREM DriverInvariant == Spec => []Inv
<1>1. Assumptions
  BY KalmanAssumption, StepFilterAssumption, DriverAssumption DEF Assumptions
<1>2. Init => Inv
  BY <1>1, InvInit
<1>3. Inv /\ [Next]_vars => Inv'
  BY <1>1, FilterStep, TasksStep, StrayStep DEF Inv
<1> QED BY <1>2, <1>3, PTL DEF Spec

-----------------------------------------------------------------------------
\* Types are kept, for any clients, windows and conversions (hx711.c:21-34,
\* 188-305).
THEOREM DriverTypeCorrect == Spec => []TypeOK
<1>1. Inv => TypeOK
  BY DEF Inv, TasksOK, MedianOK, TypeOK
<1> QED BY <1>1, DriverInvariant, PTL

\* However many tasks call the driver and however often they give up, one at a
\* time clocks the chip and touches the filters (hx711.c:188-196, 231-239, 247-249,
\* 265-305).
THEOREM DriverOneReader == Spec => []OneReader
<1>1. Inv => OneReader
  BY DEF Inv, HolderReads, OneReader
<1> QED BY <1>1, DriverInvariant, PTL

\* No band that a single sample leaves is left by the median, for every band and
\* every window (hx711.c:284-288).
THEOREM DriverMedianRejectsStray == Spec => []MedianRejectsStray
<1>1. Inv => MedianRejectsStray
  <2> SUFFICES ASSUME Inv, NEW t \in Tasks, at[t] = "filter", strays <= 1
               PROVE  newer \in BandLow..BandHigh
    BY DEF MedianRejectsStray
  <2>1. i >= 3
    BY DriverAssumption DEF Inv, HolderReads, MedianOK, DriverAssumption
  <2>2. strays \in {0, 1}
    BY DEF Inv, MedianOK
  <2>3. i \in Int /\ StrayFits
    BY DriverAssumption DEF Inv, MedianOK
  <2>4. InBand(newer)
    BY <2>1, <2>2, <2>3 DEF StrayFits
  <2> QED BY <2>4 DEF InBand
<1> QED BY <1>1, DriverInvariant, PTL

-----------------------------------------------------------------------------
(***************************************************************************)
(* The range of the output.  The running sum is exact and what it is the   *)
(* sum of lies in the range, so that a mean does; an estimate lies between *)
(* the one before it and the value it is given.                            *)
(***************************************************************************)
RingWithin(f, n, lo, hi) ==
  /\ ExactRing(f, n)
  /\ \A k \in 0..(n - 1) : f.buffer[k] \in lo..hi

\* A ring of zeros is within a range with zero in it,
LEMMA InitWithin ==
  ASSUME NEW m \in Nat, NEW f \in MovingAverages(m), NEW n \in Nat, NEW b \in BOOLEAN,
         NEW lo \in Int, NEW hi \in Int, 0 \in lo..hi
  PROVE  RingWithin(moving_average_init(f, n, b), n, lo, hi)
<1> DEFINE g == moving_average_init(f, n, b)
<1>1. /\ IsRecord(g)
      /\ g.buffer = [k \in 0..(n - 1) |-> 0]
      /\ g.size = n /\ g.index = 0 /\ g.sum = 0 /\ g.count = 0
      /\ g.last_vals = f.last_vals /\ g.last_count = 0 /\ g.mutex = b
  BY InitFields
<1>2. ExactRing(g, n)
  BY InitExact
<1> HIDE DEF g
<1> QED BY <1>1, <1>2 DEF RingWithin, g

\* an update with a value of the range leaves it there,
LEMMA UpdateWithin ==
  ASSUME NEW n \in Nat \ {0}, NEW f, NEW lo \in Int, NEW hi \in Int,
         RingWithin(f, n, lo, hi), NEW v \in lo..hi
  PROVE  RingWithin(moving_average_update(f, v), n, lo, hi)
<1> DEFINE g == moving_average_update(f, v)
<1>1. ExactRing(f, n) /\ f \in MovingAverages(n) /\ v \in Int /\ f.buffer \in [0..(n - 1) -> Int]
      /\ f.index \in 0..(n - 1)
  BY RingFields DEF RingWithin, ExactRing, InRing
<1>2. /\ IsRecord(g)
      /\ g.buffer = [f.buffer EXCEPT ![f.index] = v]
      /\ g.size = n /\ g.index = (f.index + 1) % n
      /\ g.sum = f.sum - f.buffer[f.index] + v
      /\ g.count = IF f.count < n THEN f.count + 1 ELSE f.count
      /\ g.last_vals = f.last_vals /\ g.last_count = f.last_count /\ g.mutex = f.mutex
  BY <1>1, UpdateFields, Zenon
<1>3. ExactRing(g, n)
  BY <1>1, UpdateExact
<1> HIDE DEF g
<1>4. \A k \in 0..(n - 1) : g.buffer[k] \in lo..hi
  BY <1>1, <1>2 DEF RingWithin
<1> QED BY <1>3, <1>4 DEF RingWithin, g

\* and so does a restart.
LEMMA ResetWithin ==
  ASSUME NEW n \in Nat \ {0}, NEW f \in MovingAverages(n), NEW lo \in Int, NEW hi \in Int,
         0 \in lo..hi, NEW v \in lo..hi
  PROVE  RingWithin(moving_average_reset(f, v), n, lo, hi)
<1> DEFINE g == moving_average_reset(f, v)
<1>1. v \in Int
  OBVIOUS
<1>2. /\ IsRecord(g)
      /\ g.buffer = [k \in 0..(n - 1) |-> IF k = 0 THEN v ELSE 0]
      /\ g.size = n /\ g.index = 1 % n /\ g.sum = v /\ g.count = 1
      /\ g.last_vals = <<v, v, v>> /\ g.last_count = 3 /\ g.mutex = f.mutex
  BY <1>1, ResetFields
<1>3. ExactRing(g, n)
  BY <1>1, ResetExact
<1> HIDE DEF g
<1>4. \A k \in 0..(n - 1) : g.buffer[k] \in lo..hi
  BY <1>2
<1> QED BY <1>3, <1>4 DEF RingWithin, g

\* What the first half of the chain keeps of a value in the range, and what it
\* passes on, are in the range.
LEMMA AveragedWithin ==
  ASSUME FilterOK, StepFilterAssumption, NEW lo \in Int, NEW hi \in Int, 0 \in lo..hi,
         s_ma_window > 0 => RingWithin(s_ma, s_ma_window, lo, hi),
         NEW v \in lo..hi, NEW restart \in BOOLEAN
  PROVE  LET ma == Averaged(v, restart)
         IN /\ s_ma_window > 0 => RingWithin(ma, s_ma_window, lo, hi)
            /\ PassedOn(v, ma) \subseteq lo..hi
<1> DEFINE ma == Averaged(v, restart)
           n == s_ma_window
<1>1. CASE n = 0
  BY <1>1 DEF PassedOn
<1>2. CASE n # 0
  <2>1. n \in Nat \ {0} /\ n > 0 /\ v \in Int
    BY <1>2 DEF FilterOK, StepFilterAssumption
  <2>2. s_ma \in MovingAverages(n) /\ RingWithin(s_ma, n, lo, hi)
    BY <2>1, RingInUse
  <2> DEFINE f == IF restart THEN moving_average_reset(s_ma, v) ELSE s_ma
  <2>3. RingWithin(f, n, lo, hi)
    BY <2>1, <2>2, ResetWithin
  <2>4. f \in MovingAverages(n)
    BY <2>3 DEF RingWithin, ExactRing
  <2>5. ma = moving_average_update(f, v)
    BY <1>2 DEF Averaged
  <2> HIDE DEF f, ma, n
  <2>6. RingWithin(ma, n, lo, hi)
    BY <2>1, <2>3, <2>5, UpdateWithin
  <2>7. ma \in MovingAverages(n) /\ ma.count > 0
    BY <2>1, <2>4, <2>5, UpdateRing
  <2>8. ma.size = n /\ ma.size > 0
    BY <2>1, <2>7, RingFields DEF InRing
  <2>9. PassedOn(v, ma) = {ma.sum \div ma.count, -((-ma.sum) \div ma.count)}
    <3>1. Returned(ma) = Mean(ma.sum, ma.count)
      <4>1. ~(ma.size <= 0)
        BY <2>1, <2>8
      <4> QED BY <4>1 DEF Returned
    <3> QED BY <1>2, <3>1 DEF PassedOn, Rounded, Mean, n
  <2>10. ma.sum \div ma.count \in lo..hi /\ -((-ma.sum) \div ma.count) \in lo..hi
    <3>1. n \in Nat /\ ExactRing(ma, n) /\ \A k \in 0..(n - 1) : ma.buffer[k] \in lo..hi
      BY <2>1, <2>6 DEF RingWithin
    <3> QED BY <2>7, <3>1, MeanInRange
  <2> QED BY <2>6, <2>9, <2>10 DEF ma, n
<1> QED BY <1>1, <1>2 DEF FilterOK

\* An update does not leave the range of the estimate and the measurement.
LEMMA EstimateWithin ==
  ASSUME NEW kf, NEW lo \in Int, NEW hi \in Int, kf.x_est \in lo..hi, NEW z \in lo..hi,
         NEW kg \in kalman_update_adaptive(kf, z)
  PROVE  kg.x_est \in lo..hi
<1>1. PICK x \in Estimates(kf, z), n \in Noises(kf, z) : kg = [x_est |-> x, Q |-> n[1], R |-> n[2]]
  BY DEF kalman_update_adaptive
<1>2. x \in fmin(kf.x_est, z)..fmax(kf.x_est, z)
  BY DEF Estimates
<1>3. x \in lo..hi
  BY <1>2 DEF fmin, fmax
<1> QED BY <1>1, <1>3

\* The second half of the chain.
LEMMA KalmanWithin ==
  ASSUME FilterOK, NEW lo \in Int, NEW hi \in Int, NEW w \in lo..hi,
         s_use_kf => s_kf.x_est \in lo..hi, StepKalman(w)
  PROVE  s_last_output' \in lo..hi /\ (s_use_kf => s_kf'.x_est \in lo..hi)
<1>1. CASE ~s_use_kf
  BY <1>1 DEF StepKalman
<1>2. CASE s_use_kf
  <2> DEFINE q == IF s_boost_count > 0 \/ IsStep(w) THEN BoostedQ
                  ELSE IF s_boost_count = 1 THEN NormalQ ELSE s_kf.Q
             kq == [s_kf EXCEPT !.Q = q]
  <2>1. s_kf' \in kalman_update_adaptive(kq, w) /\ s_last_output' = s_kf'.x_est
    BY <1>2 DEF StepKalman
  <2> HIDE DEF q
  <2>2. kq.x_est = s_kf.x_est
    BY DEF FilterOK
  <2> HIDE DEF kq
  <2>3. s_kf'.x_est \in lo..hi
    BY <1>2, <2>1, <2>2, EstimateWithin
  <2> QED BY <2>1, <2>3
<1> QED BY <1>1, <1>2

\* The filtered value, the estimate, the samples and the ring are in the range;
\* the samples are forgotten between medians.
InRange(x) == x \in lowest..highest
RangeInv ==
  /\ InRange(0) /\ InRange(s_last_output) /\ InRange(older) /\ InRange(newer)
  /\ s_use_kf => InRange(s_kf.x_est)
  /\ i = 0 => older = 0 /\ newer = 0
  /\ s_ma_window > 0 => RingWithin(s_ma, s_ma_window, lowest, highest)

\* The range only grows, and takes in the conversion.
LEMMA Widened ==
  ASSUME FilterOK, NEW r \in Int, Converted(r)
  PROVE  /\ lowest' \in Int /\ highest' \in Int /\ r \in lowest'..highest'
         /\ \A x : InRange(x) => x \in lowest'..highest'
BY DEF FilterOK, Converted, fmin, fmax, InRange

\* What is within a range is within a wider one.
LEMMA WithinWider ==
  ASSUME NEW f, NEW n, NEW lo, NEW hi, NEW low, NEW high, RingWithin(f, n, lo, hi),
         \A x : x \in lo..hi => x \in low..high
  PROVE  RingWithin(f, n, low, high)
BY DEF RingWithin

\* The calls that leave the range and what it is about alone.
LEMMA SameRange == ASSUME RangeInv, UNCHANGED <<sfVars, i, older, newer>> PROVE RangeInv'
BY DEF RangeInv, InRange, sfVars, config, filters

\* hx711_init starts from zeros (hx711.c:42-97).
LEMMA InitRange ==
  ASSUME Assumptions, FilterOK, RangeInv, i = 0, NEW window \in Windows, NEW kf \in BOOLEAN,
         NEW r \in Raw, hx711_init(window, kf, r), UNCHANGED median
  PROVE  RangeInv'
<1> DEFINE lo == lowest'
           hi == highest'
<1>1. r \in Int /\ window \in Nat
  BY DEF Assumptions, StepFilterAssumption, Windows
<1>2. lo \in Int /\ hi \in Int /\ 0 \in lo..hi /\ r \in lo..hi
  BY <1>1 DEF hx711_init, fmin, fmax
<1>3. older' = 0 /\ newer' = 0
  BY DEF RangeInv, median
<1>4. /\ s_ma_window' = window /\ s_use_kf' = kf
      /\ s_ma' = IF window = 0 THEN s_ma
                 ELSE moving_average_update(moving_average_init(s_ma, window, FALSE), r)
      /\ s_kf' \in IF kf THEN kalman_update_adaptive(kalman_init_adaptive(Q_init, R_init), r)
                   ELSE {s_kf}
      /\ s_last_output' = IF kf THEN s_kf'.x_est ELSE r
  BY DEF hx711_init
<1> HIDE DEF lo, hi
<1>5. kf => s_kf'.x_est \in lo..hi
  <2> DEFINE fresh == kalman_init_adaptive(Q_init, R_init)
  <2>1. fresh.x_est = 0
    BY DEF kalman_init_adaptive
  <2>2. kf => s_kf' \in kalman_update_adaptive(fresh, r)
    BY <1>4
  <2> HIDE DEF fresh
  <2> QED BY <1>2, <2>1, <2>2, EstimateWithin
<1>6. ASSUME window # 0 PROVE RingWithin(s_ma', window, lo, hi)
  <2>1. PICK m \in Windows : s_ma \in MovingAverages(m)
    BY DEF FilterOK, Windows
  <2>2. m \in Nat
    BY DEF Windows, Assumptions, StepFilterAssumption
  <2> DEFINE f == moving_average_init(s_ma, window, FALSE)
  <2>3. RingWithin(f, window, lo, hi)
    BY <1>1, <1>2, <2>1, <2>2, InitWithin
  <2>4. s_ma' = moving_average_update(f, r)
    BY <1>4, <1>6
  <2> HIDE DEF f
  <2>5. window \in Nat \ {0}
    BY <1>1, <1>6
  <2> QED BY <1>2, <2>3, <2>4, <2>5, UpdateWithin
<1>7. s_last_output' \in lo..hi
  BY <1>2, <1>4, <1>5
<1>8. s_ma_window' > 0 => RingWithin(s_ma', s_ma_window', lo, hi)
  <2>1. s_ma_window' = window
    BY <1>4
  <2>2. window > 0 => window # 0
    BY <1>1
  <2> QED BY <1>6, <2>1, <2>2, Zenon
<1>9. s_use_kf' => s_kf'.x_est \in lo..hi
  BY <1>4, <1>5
<1>10. 0 \in lo..hi /\ older' \in lo..hi /\ newer' \in lo..hi
  BY <1>2, <1>3
<1> QED BY <1>3, <1>7, <1>8, <1>9, <1>10 DEF RangeInv, InRange, lo, hi

\* Nothing that is left of the filters leaves the range.
LEMMA DeinitRange ==
  ASSUME FilterOK, RangeInv, hx711_deinit, UNCHANGED median PROVE RangeInv'
<1>1. s_ma_window' = 0 /\ UNCHANGED <<s_use_kf, s_kf, s_last_output, lowest, highest, i, older, newer>>
  BY DEF hx711_deinit, median
<1> QED BY <1>1 DEF RangeInv, InRange

\* A filtered reading: the step test, the mean or the restart, the boosted estimate
\* (hx711.c:198-229).
LEMMA FilteredRange ==
  ASSUME Assumptions, FilterOK, RangeInv, NEW r \in Raw, hx711_read_filtered(r), UNCHANGED median
  PROVE  RangeInv'
<1> DEFINE lo == lowest'
           hi == highest'
           restart == s_boost_count > 0 \/ IsStep(r)
<1>1. r \in Int /\ Converted(r) /\ UNCHANGED <<s_ma_window, s_use_kf>>
  BY DEF Assumptions, StepFilterAssumption, hx711_read_filtered, config
<1>2. lo \in Int /\ hi \in Int /\ r \in lo..hi /\ \A x : x \in lowest..highest => x \in lo..hi
  BY <1>1, Widened DEF InRange
<1>3. restart \in BOOLEAN /\ s_ma' = Averaged(r, restart)
  BY DEF IsStep, hx711_read_filtered
<1>4. PICK w \in PassedOn(r, s_ma') : StepKalman(w)
  BY DEF hx711_read_filtered
<1> HIDE DEF lo, hi, restart
<1>5. 0 \in lo..hi /\ (s_use_kf => s_kf.x_est \in lo..hi) /\ older \in lo..hi /\ newer \in lo..hi
  BY <1>2 DEF RangeInv, InRange
<1>6. s_ma_window > 0 => RingWithin(s_ma, s_ma_window, lo, hi)
  BY <1>2, WithinWider DEF RangeInv
<1>7. /\ s_ma_window > 0 => RingWithin(s_ma', s_ma_window, lo, hi)
      /\ w \in lo..hi
  <2>1. LET ma == Averaged(r, restart)
        IN /\ s_ma_window > 0 => RingWithin(ma, s_ma_window, lo, hi)
           /\ PassedOn(r, ma) \subseteq lo..hi
    BY <1>2, <1>3, <1>5, <1>6, AveragedWithin DEF Assumptions
  <2>2. /\ s_ma_window > 0 => RingWithin(s_ma', s_ma_window, lo, hi)
        /\ PassedOn(r, s_ma') \subseteq lo..hi
    BY <1>3, <2>1, Zenon
  <2> QED BY <1>4, <2>2
<1>8. s_last_output' \in lo..hi /\ (s_use_kf => s_kf'.x_est \in lo..hi)
  BY <1>2, <1>4, <1>5, <1>7, KalmanWithin
<1>9. i = 0 => older = 0 /\ newer = 0
  BY DEF RangeInv
<1> QED BY <1>1, <1>5, <1>7, <1>8, <1>9 DEF RangeInv, InRange, lo, hi, median

\* A sample of the median is a conversion (hx711.c:277-288).
LEMMA SampleRange ==
  ASSUME Assumptions, Inv, RangeInv, NEW t \in Tasks, NEW r \in Raw, MedianSample(t, r)
  PROVE  RangeInv'
<1> DEFINE lo == lowest'
           hi == highest'
<1>1. r \in Int /\ Converted(r) /\ UNCHANGED <<config, filters>> /\ FilterOK
  BY DEF Assumptions, StepFilterAssumption, MedianSample, Inv
<1>2. lo \in Int /\ hi \in Int /\ r \in lo..hi /\ \A x : x \in lowest..highest => x \in lo..hi
  BY <1>1, Widened DEF InRange
<1>3. older' = newer /\ newer' = Cascaded(r) /\ i' = i + 1 /\ i \in Nat
  BY DEF MedianSample, Inv, MedianOK, Assumptions, DriverAssumption
<1> HIDE DEF lo, hi
<1>4. 0 \in lo..hi /\ s_last_output \in lo..hi /\ (s_use_kf => s_kf.x_est \in lo..hi)
      /\ older \in lo..hi /\ newer \in lo..hi
  BY <1>2 DEF RangeInv, InRange
<1>5. s_ma_window > 0 => RingWithin(s_ma, s_ma_window, lo, hi)
  BY <1>2, WithinWider DEF RangeInv
<1>6. Cascaded(r) \in lo..hi
  <2>1. Cascaded(r) \in {older, newer, r}
    BY MedianIsOneOfThem DEF Cascaded
  <2> QED BY <1>2, <1>4, <2>1
<1>7. i' # 0
  BY <1>3
<1> QED BY <1>1, <1>3, <1>4, <1>5, <1>6, <1>7 DEF RangeInv, InRange, config, filters, lo, hi

\* The median goes through the ring and becomes the last output (hx711.c:288-303).
LEMMA MedianFilterRange ==
  ASSUME Assumptions, FilterOK, RangeInv, NEW t \in Tasks, MedianFilter(t) PROVE RangeInv'
<1> DEFINE restart == IsStep(newer)
<1>1. restart \in BOOLEAN /\ s_ma' = Averaged(newer, restart)
      /\ s_last_output' \in PassedOn(newer, s_ma')
  BY DEF IsStep, MedianFilter
<1>2. /\ UNCHANGED <<s_ma_window, s_use_kf, s_kf, lowest, highest>>
      /\ i' = 0 /\ older' = 0 /\ newer' = 0
  BY DEF MedianFilter, Forget, config
<1> HIDE DEF restart
<1>3. lowest \in Int /\ highest \in Int /\ 0 \in lowest..highest /\ newer \in lowest..highest
      /\ (s_ma_window > 0 => RingWithin(s_ma, s_ma_window, lowest, highest))
  BY DEF FilterOK, RangeInv, InRange
<1>4. LET ma == Averaged(newer, restart)
      IN /\ s_ma_window > 0 => RingWithin(ma, s_ma_window, lowest, highest)
         /\ PassedOn(newer, ma) \subseteq lowest..highest
  BY <1>1, <1>3, AveragedWithin DEF Assumptions
<1>5. /\ s_ma_window > 0 => RingWithin(s_ma', s_ma_window, lowest, highest)
      /\ PassedOn(newer, s_ma') \subseteq lowest..highest
  BY <1>1, <1>4, Zenon
<1>6. s_last_output' \in lowest..highest
  BY <1>1, <1>5
<1> QED BY <1>2, <1>3, <1>5, <1>6 DEF RangeInv, InRange

\* Every step keeps the range.
LEMMA RangeStep == ASSUME Assumptions, Inv, RangeInv, [Next]_vars PROVE RangeInv'
<1>1. mutex = "NULL" => i = 0
  BY DEF Inv, MedianOK, HolderReads, Tasks, Assumptions, DriverAssumption
<1>2. FilterOK /\ (mutex # "NULL" => ready)
  BY DEF Inv, TasksOK
<1>3. CASE \E window \in Windows, kf \in BOOLEAN, r \in Raw :
             InitForCalibration(window, kf, r) \/ hx711_init_rtos(window, kf, r)
  BY <1>1, <1>2, <1>3, InitRange DEF InitForCalibration, hx711_init_rtos
<1>4. CASE DeinitBeforeRtos
  BY <1>2, <1>4, DeinitRange DEF DeinitBeforeRtos
<1>5. ASSUME NEW t \in Tasks, (\E c \in Calls : Begin(t, c)) \/ Take(t) \/ TimedOut(t) \/ RawRead(t)
      PROVE  RangeInv'
  <2>1. UNCHANGED <<sfVars, i, older, newer>>
    BY <1>5 DEF Begin, Take, TimedOut, RawRead, median
  <2> QED BY <2>1, SameRange
<1>6. ASSUME NEW t \in Tasks, NEW r \in Raw, FilteredRead(t, r) PROVE RangeInv'
  BY <1>2, <1>6, FilteredRange DEF FilteredRead
<1>7. ASSUME NEW t \in Tasks, NEW r \in Raw, MedianSample(t, r) PROVE RangeInv'
  BY <1>7, SampleRange
<1>8. ASSUME NEW t \in Tasks, MedianFilter(t) PROVE RangeInv'
  BY <1>2, <1>8, MedianFilterRange
<1>9. CASE UNCHANGED vars
  <2>1. UNCHANGED <<sfVars, i, older, newer>>
    BY <1>9 DEF vars, median
  <2> QED BY <2>1, SameRange
<1> QED BY <1>3, <1>4, <1>5, <1>6, <1>7, <1>8, <1>9 DEF Next, Holding, Windows

\* No stale slot and no stale sum leaks, and no median, restart or rounding leaves
\* the range of the conversions, for any windows, noises and conversions
\* (hx711.c:198-229, 259-305, moving_average.c:37-54, 110-124).
THEOREM DriverOutputInRange == Spec => []OutputInRange
<1>1. Assumptions
  BY KalmanAssumption, StepFilterAssumption, DriverAssumption DEF Assumptions
<1>2. Init => RangeInv
  BY DEF Init, SFInit, RangeInv, InRange
<1>3. Inv /\ RangeInv /\ [Next]_vars => RangeInv'
  BY <1>1, RangeStep
<1>4. Inv /\ RangeInv => OutputInRange
  BY DEF Inv, FilterOK, RangeInv, InRange, OutputInRange
<1> QED BY <1>2, <1>3, <1>4, DriverInvariant, PTL DEF Spec

\* The share of a distance that is left only grows with R.
LEMMA ShareOfDistance ==
  ASSUME NEW B \in Nat, NEW R \in Nat, NEW M \in Nat, R <= M, NEW a \in Nat, NEW b \in Nat,
         a <= b, (B + R) * a <= R * b
  PROVE  (B + M) * a <= M * b
<1>1. PICK d \in Nat : M = R + d
  <2>1. M - R \in Nat /\ M = R + (M - R)
    OBVIOUS
  <2> QED BY <2>1
<1>2. d * a <= d * b
  OBVIOUS
<1>3. (B + M) * a = (B + R) * a + d * a /\ M * b = R * b + d * b
  BY <1>1
<1>4. (B + R) * a \in Int /\ R * b \in Int /\ d * a \in Int /\ d * b \in Int
  OBVIOUS
<1> QED BY <1>2, <1>3, <1>4

\* A step reaches the output, for any noises and any rounding (hx711.c:205-223,
\* kalman_filter.c:56-72).
THEOREM DriverStepReachesOutput == Spec => StepReachesOutput
<1> DEFINE Follows == \A r \in Raw :
       hx711_read_filtered(r) /\ s_use_kf /\ (s_boost_count > 0 \/ IsStep(r)) =>
         (BoostedQ + R_max) * fabs(r - s_kf.x_est') <= R_max * fabs(r - s_kf.x_est)
<1>1. Inv => Follows
  <2> SUFFICES ASSUME Inv, NEW r \in Raw, hx711_read_filtered(r), s_use_kf,
                      s_boost_count > 0 \/ IsStep(r)
               PROVE  (BoostedQ + R_max) * fabs(r - s_kf.x_est') <= R_max * fabs(r - s_kf.x_est)
    OBVIOUS
  <2> USE KalmanAssumption, StepFilterAssumption
  <2>1. r \in Int /\ FilterOK
    BY DEF StepFilterAssumption, Inv
  <2>2. s_ma' = Averaged(r, TRUE)
    BY DEF hx711_read_filtered, Averaged
  <2>3. StepKalman(r)
    <3>1. PICK w \in PassedOn(r, s_ma') : StepKalman(w)
      BY DEF hx711_read_filtered
    <3>2. PassedOn(r, s_ma') = {r}
      BY <2>1, <2>2, RestartPassesOn
    <3>3. w = r
      BY <3>1, <3>2
    <3> QED BY <3>1, <3>3
  <2> DEFINE kq == [s_kf EXCEPT !.Q = BoostedQ]
  <2>4. s_kf' \in kalman_update_adaptive(kq, r)
    BY <2>3 DEF StepKalman
  <2>5. kq \in Filters /\ kq.Q = BoostedQ /\ kq.R = s_kf.R /\ kq.x_est = s_kf.x_est
    BY <2>1 DEF FilterOK, Filters, StepFilterAssumption
  <2> HIDE DEF kq
  <2>6. /\ (BoostedQ + s_kf.R) * fabs(r - s_kf'.x_est) <= s_kf.R * fabs(r - s_kf.x_est)
        /\ fabs(r - s_kf'.x_est) <= fabs(r - s_kf.x_est)
        /\ s_kf' \in Filters
    BY <2>1, <2>4, <2>5, UpdateOK
  <2>7. s_kf.R \in Nat /\ s_kf.R <= R_max /\ R_max \in Nat /\ BoostedQ \in Nat
    BY <2>1 DEF FilterOK, KalmanAssumption, StepFilterAssumption
  <2>8. fabs(r - s_kf'.x_est) \in Nat /\ fabs(r - s_kf.x_est) \in Nat
    BY <2>1, <2>6 DEF fabs, FilterOK, Filters
  <2> QED BY <2>6, <2>7, <2>8, ShareOfDistance
<1>2. Spec => [][Follows]_sfVars
  BY <1>1, DriverInvariant, PTL
<1> QED BY <1>2 DEF StepReachesOutput
=============================================================================
