-------------------------------- MODULE Kalman --------------------------------
(***************************************************************************)
(* main/kalman_filter/kalman_filter.c: the adaptive filter as operators on *)
(* the fields of KalmanFilter that outlive a call.  Values are integers in *)
(* a unit of choice; where the floats round, an operator gives every       *)
(* neighbouring integer.                                                   *)
(*                                                                         *)
(* The covariance P_est is left out: it is never negative, so the gain     *)
(* K = (P+Q)/(P+Q+R) is at least Q/(Q+R) and at most 1, and any gain in    *)
(* between is possible.                                                    *)
(***************************************************************************)
EXTENDS Integers

CONSTANTS
  Q_min, Q_max, R_min, R_max,   \* the range the noises are adapted in
  threshold                     \* the innovation from which Q is increased

ASSUME KalmanAssumption ==
  /\ Q_min \in Nat /\ Q_max \in Nat
  /\ R_min \in Nat \ {0} /\ R_max \in Nat /\ R_min <= R_max
  /\ threshold \in Nat

fabs(x) == IF x < 0 THEN -x ELSE x
fmin(a, b) == IF a < b THEN a ELSE b
fmax(a, b) == IF a > b THEN a ELSE b

\* The product n * percent / 100, rounded either way.
Scaled(n, percent) == {(n * percent) \div 100, -((-(n * percent)) \div 100)}

kalman_init_adaptive(process_noise, measurement_noise) ==
  [x_est |-> 0, Q |-> process_noise, R |-> measurement_noise]

\* Where one update can take the estimate: towards the measurement z and not
\* past it, leaving at most R/(Q+R) of the distance.
Estimates(kf, z) ==
  {x \in fmin(kf.x_est, z)..fmax(kf.x_est, z) :
     (kf.Q + kf.R) * fabs(z - x) <= kf.R * fabs(z - kf.x_est)}

\* Seeded bug: R grows without limit while the load is steady.
NoisesUnlimited(kf, z) ==
  IF fabs(z - kf.x_est) > threshold
    THEN {<<fmin(q, Q_max), fmax(r, R_min)>> : q \in Scaled(kf.Q, 120), r \in Scaled(kf.R, 80)}
    ELSE {<<fmax(q, Q_min), r>> : q \in Scaled(kf.Q, 80), r \in Scaled(kf.R, 120)}

\* The adaptive tuning: more trust in the measurements after a large
\* innovation, less after a small one.  Q is limited only from the side it
\* moves towards.
Noises(kf, z) ==
  IF fabs(z - kf.x_est) > threshold
    THEN {<<fmin(q, Q_max), fmax(r, R_min)>> : q \in Scaled(kf.Q, 120), r \in Scaled(kf.R, 80)}
    ELSE {<<fmax(q, Q_min), fmin(r, R_max)>> : q \in Scaled(kf.Q, 80), r \in Scaled(kf.R, 120)}

\* The filters one update of kf with measurement z can result in.
kalman_update_adaptive(kf, z) ==
  {[x_est |-> x, Q |-> n[1], R |-> n[2]] : x \in Estimates(kf, z), n \in Noises(kf, z)}
=============================================================================
