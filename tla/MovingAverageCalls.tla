------------------------- MODULE MovingAverageCalls -------------------------
(***************************************************************************)
(* moving_average.c as its callers use it: any sequence of calls of the    *)
(* functions of moving_average.h on one filter.  A *_rtos call behaves as  *)
(* the plain one when the filter has no mutex or the mutex is taken in     *)
(* time, and returns 0.0f without touching the filter when it is not.      *)
(***************************************************************************)
EXTENDS MovingAverage, Functions

CONSTANTS
  Size,     \* the window size passed to moving_average_init
  Values    \* the values fed to the filter

ASSUME MovingAverageAssumption ==
  /\ Size \in Nat \ {0}
  /\ Values \subseteq Int

VARIABLES
  filter,   \* the moving_avg_t
  ret       \* what the last update returned

maVars == <<filter, ret>>

MAInit ==
  /\ filter = Detached
  /\ ret = ZeroMean

SetUp(mutex) ==
  /\ filter' = moving_average_init(filter, Size, mutex)
  /\ UNCHANGED ret

Update(v) ==
  /\ filter' = moving_average_update(filter, v)
  /\ ret' = Returned(filter')

UpdateMedian3(v) ==
  /\ filter' = moving_average_update_median3(filter, v)
  /\ ret' = Returned(filter')

\* moving_average_update_rtos, or its median form, gave up on the mutex.
UpdateTimedOut ==
  /\ filter.mutex
  /\ ret' = ZeroMean
  /\ UNCHANGED filter

Reset(v) ==
  /\ filter' = moving_average_reset(filter, v)
  /\ UNCHANGED ret

Deinit ==
  /\ filter' = moving_average_deinit(filter)
  /\ UNCHANGED ret

MANext ==
  \/ \E mutex \in BOOLEAN : SetUp(mutex)
  \/ \E v \in Values : Update(v) \/ UpdateMedian3(v) \/ Reset(v)
  \/ UpdateTimedOut
  \/ Deinit

MASpec == MAInit /\ [][MANext]_maVars

-----------------------------------------------------------------------------
(***************************************************************************)
(* Properties.                                                             *)
(***************************************************************************)

\* The type invariant: the write index is inside the buffer, and it wraps only
\* once the buffer is full.
MATypeOK ==
  /\ filter.size \in {0, Size}
  /\ filter.size = Size =>
       /\ filter.buffer \in [0..(Size - 1) -> Values \cup {0}]
       /\ filter.index \in 0..(Size - 1)
       /\ filter.count \in 0..Size
       /\ filter.count < Size => filter.index = filter.count
  /\ filter.sum \in Int
  /\ filter.last_vals \in [1..3 -> Values \cup {0}]
  /\ filter.last_count \in 0..3
  /\ filter.mutex \in BOOLEAN

\* The running sum is the sum of what is in the buffer, after any mixture of
\* updates, restarts and set-ups (moving_average.c:41-45, 113-117).
SumIsExact == filter.sum = SumFunction(filter.buffer)

\* The ring buffer, read back from the oldest slot, is a sliding window, and
\* each update returns the mean of that window (moving_average.c:16-165).
Window ==
  INSTANCE SlidingWindow WITH
    live   <- filter.size > 0,
    window <- [k \in 1..filter.count |->
                 filter.buffer[(filter.index - filter.count + k - 1) % filter.size]],
    recent <- SubSeq(filter.last_vals, 1, filter.last_count),
    out    <- ret

ImplementsWindow == Window!Spec
=============================================================================
