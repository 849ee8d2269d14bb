----------------------------- MODULE StepFilter -----------------------------
(***************************************************************************)
(* The filter chain of main/hx711/hx711.c: hx711_init primes it with one   *)
(* conversion, hx711_read_filtered feeds it one conversion at a time.  A   *)
(* conversion goes through a moving average that is restarted on a step    *)
(* and then through an adaptive Kalman filter whose process noise Q is     *)
(* raised while s_boost_count lasts.                                       *)
(***************************************************************************)
EXTENDS MovingAverage, Kalman

CONSTANTS
  MaWindows,              \* the values of ma_window, 0 for no moving average
  Q_init, R_init,         \* the noises hx711_init is called with
  BoostedQ, NormalQ,      \* BOOSTED_Q, NORMAL_Q
  BoostSamples,           \* BOOST_SAMPLES
  StepThreshold,          \* STEP_THRESHOLD
  Raw,                    \* the raw conversions that can occur
  CalmLimit               \* bound: where the count of calm readings stops

ASSUME StepFilterAssumption ==
  /\ MaWindows \subseteq Nat
  /\ Q_init \in Nat /\ BoostedQ \in Nat /\ NormalQ \in Nat
  /\ R_init \in R_min..R_max
  /\ BoostSamples \in Nat \ {0}
  /\ StepThreshold \in Nat
  /\ Raw \subseteq Int
  /\ CalmLimit \in Nat

VARIABLES
  ready,           \* whether hx711_init has run
  s_ma_window,     \* the window in use, 0 for no moving average
  s_use_kf,        \* whether the Kalman filter is in use
  s_ma,            \* the moving average
  s_kf,            \* the Kalman filter
  s_boost_count,   \* readings left to boost
  s_last_output,   \* the last filtered value
  lowest, highest, \* history: the range of zero and the conversions since hx711_init
  calm             \* history: readings since a step was last detected

config  == <<ready, s_ma_window, s_use_kf>>
filters == <<s_ma, s_kf, s_boost_count, s_last_output, calm>>
sfVars  == <<config, filters, lowest, highest>>

\* Means are compared and passed on as integers, rounded either way.
Rounded(m) == {m.num \div m.den, -((-m.num) \div m.den)}
IsStep(w) == fabs(w - s_last_output) > StepThreshold

\* Keep the range of the conversions.
Converted(r) ==
  /\ lowest' = fmin(lowest, r)
  /\ highest' = fmax(highest, r)

\* The static variables before hx711_init.
SFInit ==
  /\ ready = FALSE
  /\ s_ma_window = 0
  /\ s_use_kf = FALSE
  /\ s_ma = Detached
  /\ s_kf = kalman_init_adaptive(0, R_min)
  /\ s_boost_count = 0
  /\ s_last_output = 0
  /\ lowest = 0
  /\ highest = 0
  /\ calm = CalmLimit

\* hx711_init, with the conversion r that primes the filters; app_main calls it
\* for the calibration and hx711_init_rtos calls it again.  The window is 0
\* when none is asked for or the buffer cannot be allocated.
hx711_init(window, kf, r) ==
  /\ ready' = TRUE
  /\ s_ma_window' = window
  /\ s_use_kf' = kf
  /\ s_ma' = IF window = 0 THEN s_ma
             ELSE moving_average_update(moving_average_init(s_ma, window, FALSE), r)
  /\ s_kf' \in IF kf THEN kalman_update_adaptive(kalman_init_adaptive(Q_init, R_init), r)
               ELSE {s_kf}
  /\ s_boost_count' = 0
  /\ s_last_output' = IF kf THEN s_kf'.x_est ELSE r
  /\ lowest' = fmin(0, r)
  /\ highest' = fmax(0, r)
  /\ calm' = CalmLimit

\* Without its RTOS parts, which Hx711Driver.tla has.
hx711_deinit ==
  /\ s_ma' = IF s_ma_window > 0 THEN moving_average_deinit(s_ma) ELSE s_ma
  /\ s_ma_window' = 0
  /\ UNCHANGED <<ready, s_use_kf, s_kf, s_boost_count, s_last_output, calm, lowest, highest>>

\* Seeded bug: the restart keeps the values from before the step.
AveragedWithoutRestart(r, restart) ==
  IF s_ma_window = 0 THEN s_ma ELSE moving_average_update(s_ma, r)

\* The moving average after value r, restarted first when the caller says so.
Averaged(r, restart) ==
  IF s_ma_window = 0 THEN s_ma
  ELSE moving_average_update(IF restart THEN moving_average_reset(s_ma, r) ELSE s_ma, r)

\* What the moving average passes on of value r.
PassedOn(r, ma) == IF s_ma_window = 0 THEN {r} ELSE Rounded(Returned(ma))

\* Seeded bug: every boosted reading adds to the boost instead of setting it.
KalmanAddingBoost(w) ==
  IF ~s_use_kf
    THEN s_last_output' = w /\ UNCHANGED <<s_boost_count, s_kf>>
    ELSE LET boosted == s_boost_count > 0 \/ IsStep(w)
             q == IF boosted THEN BoostedQ ELSE s_kf.Q
         IN /\ s_boost_count' = IF boosted THEN s_boost_count + BoostSamples - 1 ELSE 0
            /\ s_kf' \in kalman_update_adaptive([s_kf EXCEPT !.Q = q], w)
            /\ s_last_output' = s_kf'.x_est

\* The Kalman filter, its Q raised while boosting and on a step.
StepKalman(w) ==
  IF ~s_use_kf
    THEN s_last_output' = w /\ UNCHANGED <<s_boost_count, s_kf>>
    ELSE LET boosted == s_boost_count > 0 \/ IsStep(w)
             left == IF boosted THEN BoostSamples ELSE s_boost_count
             q == IF boosted THEN BoostedQ ELSE IF s_boost_count = 1 THEN NormalQ ELSE s_kf.Q
         IN /\ s_boost_count' = IF left > 0 THEN left - 1 ELSE left
            /\ s_kf' \in kalman_update_adaptive([s_kf EXCEPT !.Q = q], w)
            /\ s_last_output' = s_kf'.x_est

hx711_read_filtered(r) ==
  /\ ready
  /\ Converted(r)
  /\ s_ma' = Averaged(r, s_boost_count > 0 \/ IsStep(r))
  /\ \E w \in PassedOn(r, s_ma') :
       /\ StepKalman(w)
       /\ calm' = IF IsStep(r) \/ IsStep(w) THEN 0 ELSE fmin(calm + 1, CalmLimit)
  /\ UNCHANGED config

SFNext ==
  \/ \E r \in Raw :
       \/ \E window \in MaWindows \cup {0}, kf \in BOOLEAN : hx711_init(window, kf, r)
       \/ hx711_read_filtered(r)
  \/ hx711_deinit

SFSpec == SFInit /\ [][SFNext]_sfVars

-----------------------------------------------------------------------------
(***************************************************************************)
(* Properties.                                                             *)
(***************************************************************************)
\* The filters' part of the type invariant.
FilterOK ==
  /\ s_ma_window \in MaWindows \cup {0}
  /\ \E n \in MaWindows \cup {0} : s_ma \in MovingAverages(n)
  /\ s_ma_window > 0 => s_ma.size = s_ma_window /\ s_ma.count > 0
  /\ s_kf \in [x_est : Int, Q : Nat, R : R_min..R_max]
  /\ s_boost_count \in 0..(BoostSamples - 1)
  /\ s_last_output \in Int
  /\ lowest \in Int /\ highest \in Int
  /\ calm \in 0..CalmLimit
  /\ ready \in BOOLEAN /\ s_use_kf \in BOOLEAN

\* Whatever mixture of restarts and updates the step detection makes of the
\* ring buffer, no stale slot and no stale sum leaks: the filtered value and the
\* Kalman estimate stay within the range of the conversions seen and the zero the
\* Kalman filter starts from (hx711.c:198-229 with moving_average.c:37-54, 110-124).
OutputInRange ==
  /\ lowest <= s_last_output /\ s_last_output <= highest
  /\ s_use_kf => lowest <= s_kf.x_est /\ s_kf.x_est <= highest

\* A step reaches the output: when a conversion is further than the threshold
\* from the last output, or boosting is on, one reading leaves at most
\* R_max / (BOOSTED_Q + R_max) of the estimate's distance to it, a third with the
\* constants of the code, whatever the filters had come to by adapting
\* (hx711.c:205-223, kalman_filter.c:56-72).
StepReachesOutput ==
  [][\A r \in Raw :
       hx711_read_filtered(r) /\ s_use_kf /\ (s_boost_count > 0 \/ IsStep(r)) =>
         (BoostedQ + R_max) * fabs(r - s_kf.x_est') <= R_max * fabs(r - s_kf.x_est)]_sfVars

\* Boosting lasts for BOOST_SAMPLES readings after the last step and is over
\* then, as the constant at hx711.c:31 and the branch at hx711.c:217 that sets
\* Q back to NORMAL_Q say.
BoostIsTransient == calm >= BoostSamples => s_boost_count = 0
=============================================================================
