--------------------------- MODULE MovingAverage ---------------------------
(***************************************************************************)
(* main/moving_avg/moving_average.c: a moving average over a ring buffer   *)
(* with a running sum, and a median-of-three prefilter, as operators on    *)
(* the moving_avg_t record.  Values are integers: the rounding of the      *)
(* float sum is not modelled, everything else about it is.  A mean is      *)
(* kept as the quotient it is, numerator and denominator.                  *)
(***************************************************************************)
EXTENDS Integers, Sequences

Mean(num, den) == [num |-> num, den |-> den]
ZeroMean == Mean(0, 1)   \* the 0.0f of the early returns

\* A moving_avg_t whose buffer was freed, or never attached.
Detached == [buffer |-> <<>>, size |-> 0, index |-> 0, sum |-> 0, count |-> 0,
             last_vals |-> <<0, 0, 0>>, last_count |-> 0, mutex |-> FALSE]

\* The filters with a buffer of n values.
MovingAverages(n) ==
  [buffer : [0..(n - 1) -> Int], size : {n}, index : {k \in 0..n : k < n \/ k = 0},
   sum : Int, count : 0..n, last_vals : [1..3 -> Int], last_count : 0..3, mutex : BOOLEAN]

\* moving_average_init, and moving_average_init_rtos when mutex is TRUE;
\* last_vals keeps whatever it held.
moving_average_init(f, size, mutex) ==
  [f EXCEPT !.buffer = [i \in 0..(size - 1) |-> 0], !.size = size, !.index = 0,
            !.sum = 0, !.count = 0, !.last_count = 0, !.mutex = mutex]

\* Seeded bug: the outgoing value stays in the sum.
update_without_subtracting(f, v) ==
  IF f.size <= 0 THEN f
  ELSE [f EXCEPT !.sum = @ + v,
                 !.buffer[f.index] = v,
                 !.index = (f.index + 1) % f.size,
                 !.count = IF f.count < f.size THEN @ + 1 ELSE @]

moving_average_update(f, v) ==
  IF f.size <= 0 THEN f
  ELSE [f EXCEPT !.sum = @ - f.buffer[f.index] + v,
                 !.buffer[f.index] = v,
                 !.index = (f.index + 1) % f.size,
                 !.count = IF f.count < f.size THEN @ + 1 ELSE @]

\* What moving_average_update returns, of the filter it left behind.
Returned(f) == IF f.size <= 0 THEN ZeroMean ELSE Mean(f.sum, f.count)

\* The three compare-and-swap steps of median3.
Lower(a, b)  == IF a > b THEN b ELSE a
Higher(a, b) == IF a > b THEN a ELSE b
median3(a, b, c) == Higher(Lower(a, b), Lower(Higher(a, b), c))

\* The history of raw values in front of the median.
Remember(f, v) ==
  IF f.last_count < 3
    THEN [f EXCEPT !.last_vals[f.last_count + 1] = v, !.last_count = @ + 1]
    ELSE [f EXCEPT !.last_vals = <<f.last_vals[2], f.last_vals[3], v>>]

moving_average_update_median3(f, v) ==
  LET g == Remember(f, v)
  IN moving_average_update(g,
       IF g.last_count = 3
         THEN median3(g.last_vals[1], g.last_vals[2], g.last_vals[3])
         ELSE v)

\* Seeded bug: the write index stays where it was.
reset_keeping_index(f, v) ==
  IF f.size <= 0 THEN f
  ELSE [f EXCEPT !.buffer = [i \in 0..(f.size - 1) |-> IF i = 0 THEN v ELSE 0],
                 !.sum = v, !.count = 1,
                 !.last_vals = <<v, v, v>>, !.last_count = 3]

\* Seeded bug: the old sum survives the restart.
reset_keeping_sum(f, v) ==
  IF f.size <= 0 THEN f
  ELSE [f EXCEPT !.buffer = [i \in 0..(f.size - 1) |-> IF i = 0 THEN v ELSE 0],
                 !.count = 1, !.index = 1 % f.size,
                 !.last_vals = <<v, v, v>>, !.last_count = 3]

moving_average_reset(f, v) ==
  IF f.size <= 0 THEN f
  ELSE [f EXCEPT !.buffer = [i \in 0..(f.size - 1) |-> IF i = 0 THEN v ELSE 0],
                 !.sum = v, !.count = 1, !.index = 1 % f.size,
                 !.last_vals = <<v, v, v>>, !.last_count = 3]

moving_average_deinit(f) == [Detached EXCEPT !.last_vals = f.last_vals]
=============================================================================
