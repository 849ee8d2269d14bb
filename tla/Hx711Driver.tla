----------------------------- MODULE Hx711Driver -----------------------------
(***************************************************************************)
(* main/hx711/hx711.c with its mutex: hx711_rtos_task samples for ever,    *)
(* other tasks call hx711_read_raw_rtos, hx711_read_filtered_rtos and      *)
(* hx711_read_median_rtos.  A task waits for scale->mutex for a limited    *)
(* time, converts while it holds it and passes what it read through the    *)
(* filters, which all calls share.  A conversion takes far longer than the *)
(* 10 ms of most callers, so that they often give up.                      *)
(*                                                                         *)
(* The median call converts several times in a row.  Its second loop only  *)
(* looks two samples back, so the cascade is computed along with the       *)
(* sampling.                                                               *)
(***************************************************************************)
EXTENDS StepFilter

CONSTANTS
  Clients,              \* the tasks other than hx711_rtos_task
  MedianMin, MedianMax, \* MEDIAN_MIN_SAMPLES, MEDIAN_MAX_SAMPLES
  MedianIncrease,       \* MEDIAN_STEP_INCREASE
  BandLow, BandHigh     \* the band samples that are not strays lie in

ASSUME DriverAssumption ==
  /\ {"HX711_Task", "NULL", "free"} \cap Clients = {}
  /\ MedianMin \in Nat \ {0, 1, 2} /\ MedianMax \in Nat /\ MedianMin <= MedianMax
  /\ MedianIncrease \in Nat
  /\ BandLow \in Int /\ BandHigh \in Int

VARIABLES
  mutex,            \* scale->mutex: NULL, free, or the task that holds it
  at,               \* where each task is: out, take (waiting), read, filter
  call,             \* what each task is reading, none outside a call
  adaptive_window,  \* samples of the next median
  i,                \* samples taken by the median under way
  older, newer,     \* samples[i-2] and samples[i-1] after the cascade
  strays            \* history: how many of the samples lie outside the band

tasks  == <<mutex, at, call>>
median == <<adaptive_window, i, older, newer, strays>>
vars   == <<sfVars, tasks, median>>

Tasks == Clients \cup {"HX711_Task"}
Calls == {"raw", "filtered", "median"}

\* The locals of a median call go out of scope.
Forget == i' = 0 /\ older' = 0 /\ newer' = 0 /\ strays' = 0

\* Before calibration; adaptive_window is static.
Init ==
  /\ SFInit
  /\ mutex = "NULL"
  /\ at = [t \in Tasks |-> "out"]
  /\ call = [t \in Tasks |-> "none"]
  /\ adaptive_window = MedianMin
  /\ i = 0 /\ older = 0 /\ newer = 0 /\ strays = 0

\* The temporary hx711_init of the calibration.
InitForCalibration(window, kf, r) ==
  /\ ~ready
  /\ hx711_init(window, kf, r)
  /\ UNCHANGED <<tasks, median>>

\* The driver proper: filters primed anew, the mutex created, the task started.
hx711_init_rtos(window, kf, r) ==
  /\ ready
  /\ mutex = "NULL"
  /\ hx711_init(window, kf, r)
  /\ mutex' = "free"
  /\ UNCHANGED <<at, call, median>>

\* Before the mutex exists nobody else can be in the driver.
DeinitBeforeRtos ==
  /\ ready
  /\ mutex = "NULL"
  /\ hx711_deinit
  /\ UNCHANGED <<tasks, median>>

\* A task begins a call; hx711_rtos_task only reads filtered values.
Begin(t, c) ==
  /\ mutex # "NULL"
  /\ at[t] = "out"
  /\ t = "HX711_Task" => c = "filtered"
  /\ at' = [at EXCEPT ![t] = "take"]
  /\ call' = [call EXCEPT ![t] = c]
  /\ UNCHANGED <<sfVars, mutex, median>>

\* The end of a call, and the end that gives the mutex back.
Return(t) ==
  /\ at' = [at EXCEPT ![t] = "out"]
  /\ call' = [call EXCEPT ![t] = "none"]

Give(t) == Return(t) /\ mutex' = "free"

\* More samples while boosting, gradually fewer otherwise.
NextWindow ==
  IF s_boost_count > 0 THEN fmin(MedianMax, adaptive_window + MedianIncrease)
                       ELSE fmax(MedianMin, adaptive_window - 1)

Take(t) ==
  /\ at[t] = "take"
  /\ mutex = "free"
  /\ mutex' = t
  /\ at' = [at EXCEPT ![t] = "read"]
  /\ adaptive_window' = IF call[t] = "median" THEN NextWindow ELSE adaptive_window
  /\ UNCHANGED <<sfVars, call, i, older, newer, strays>>

\* Seeded bug: the result of xSemaphoreTake is not looked at.
ReadAnyway(t) ==
  /\ at[t] = "take"
  /\ mutex \in Tasks
  /\ at' = [at EXCEPT ![t] = "read"]
  /\ UNCHANGED <<sfVars, mutex, call, median>>

\* The mutex stayed taken for 10 or 100 ms: the call returns 0.
TimedOut(t) ==
  /\ at[t] = "take"
  /\ mutex \in Tasks
  /\ Return(t)
  /\ UNCHANGED <<sfVars, mutex, median>>

RawRead(t) ==
  /\ at[t] = "read" /\ call[t] = "raw"
  /\ Give(t)
  /\ UNCHANGED <<sfVars, median>>

FilteredRead(t, r) ==
  /\ at[t] = "read" /\ call[t] = "filtered"
  /\ hx711_read_filtered(r)
  /\ Give(t)
  /\ UNCHANGED median

\* Seeded bug: the cascade takes the highest of three for the median.
CascadedHighest(r) == IF i < 2 THEN r ELSE Higher(Higher(older, newer), r)

\* Sample r as the cascade leaves it.
Cascaded(r) == IF i < 2 THEN r ELSE median3(older, newer, r)

MedianSample(t, r) ==
  /\ at[t] = "read" /\ call[t] = "median"
  /\ older' = newer
  /\ newer' = Cascaded(r)
  /\ i' = i + 1
  /\ strays' = IF r \in BandLow..BandHigh THEN strays ELSE strays + 1
  /\ Converted(r)
  /\ at' = [at EXCEPT ![t] = IF i' < adaptive_window THEN "read" ELSE "filter"]
  /\ UNCHANGED <<config, filters, mutex, call, adaptive_window>>

\* Seeded bug: a return without giving the mutex back.
MedianKeepingMutex(t) ==
  /\ at[t] = "filter"
  /\ s_ma' = Averaged(newer, IsStep(newer))
  /\ s_last_output' \in PassedOn(newer, s_ma')
  /\ Return(t)
  /\ Forget
  /\ UNCHANGED <<config, s_kf, s_boost_count, calm, lowest, highest, mutex, adaptive_window>>

\* The last sample goes through the moving average, restarted on a step but not
\* for boosting, and past the Kalman filter, whose estimate stays as it was.
MedianFilter(t) ==
  /\ at[t] = "filter"
  /\ s_ma' = Averaged(newer, IsStep(newer))
  /\ s_last_output' \in PassedOn(newer, s_ma')
  /\ Give(t)
  /\ Forget
  /\ UNCHANGED <<config, s_kf, s_boost_count, calm, lowest, highest, adaptive_window>>

\* What a task does with the mutex.
Holding(t) ==
  \/ RawRead(t)
  \/ \E r \in Raw : FilteredRead(t, r) \/ MedianSample(t, r)
  \/ MedianFilter(t)

Next ==
  \/ \E window \in MaWindows \cup {0}, kf \in BOOLEAN, r \in Raw :
       InitForCalibration(window, kf, r) \/ hx711_init_rtos(window, kf, r)
  \/ DeinitBeforeRtos
  \/ \E t \in Tasks :
       \/ \E c \in Calls : Begin(t, c)
       \/ Take(t) \/ TimedOut(t) \/ Holding(t)

\* The task that holds the mutex is scheduled and the chip goes on converting.
Spec == Init /\ [][Next]_vars /\ \A t \in Tasks : WF_vars(Holding(t))

-----------------------------------------------------------------------------
(***************************************************************************)
(* Properties; FilterOK, OutputInRange and StepReachesOutput are in        *)
(* StepFilter.tla.                                                         *)
(***************************************************************************)
\* The type invariant: the filters', the tasks' and the median's parts.
TypeOK ==
  /\ FilterOK
  /\ mutex \in Tasks \cup {"NULL", "free"}
  /\ at \in [Tasks -> {"out", "take", "read", "filter"}]
  /\ call \in [Tasks -> Calls \cup {"none"}]
  /\ call["HX711_Task"] \in {"none", "filtered"}
  /\ mutex # "NULL" => ready
  /\ adaptive_window \in MedianMin..MedianMax
  /\ i \in 0..adaptive_window
  /\ older \in Int /\ newer \in Int
  /\ strays \in 0..i

\* The chip is clocked and the filters are touched by one task at a time, through
\* all the samples of a median and after any timeouts (hx711.c:188-196, 231-239,
\* 247-249, 265-305).
OneReader ==
  \A t, u \in Tasks : at[t] \in {"read", "filter"} /\ at[u] \in {"read", "filter"} => t = u

\* A single stray sample, the first ones included, never comes through the
\* cascade, however long the window was when it was taken (hx711.c:284-288).
MedianRejectsStray ==
  \A t \in Tasks : at[t] = "filter" /\ strays <= 1 => newer \in BandLow..BandHigh

\* Every call gives the mutex back, so that no caller waits in vain for ever
\* (hx711.c:191-194, 234-237, 247-249, 265-303).
MutexGivenBack == \A t \in Tasks : mutex = t ~> mutex # t
=============================================================================
