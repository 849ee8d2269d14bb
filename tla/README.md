# TLA+ models of the IoT-Scale firmware

This directory holds a formal model of the firmware under `src/main`: an ESP32 program (ESP-IDF,
FreeRTOS) that reads a load cell through an HX711, decides whether something lies on the scale,
serves the weight over HTTPS, and keeps the time by SNTP. The modules are checked by TLC on
small instances and, where it matters most, proved with TLAPS for all instances.

`PROJECT.json` lists the components, the runs, the map from definitions to source lines, the hazards and
the theorems. Line numbers here are relative to `src/main`.

To check: `tlc -config X.cfg M` for a run (the table below), `tlapm MProofs.tla` for the proofs.

## 1. The system

| Component | State it keeps | Operations | Talks to |
|---|---|---|---|
| start-up, `main.c` | `g_scale`, `g_calib`, `retries`, a dead `https_server` | `app_main`, the 1 s loop | everything, by calls |
| Wi-Fi station, `wifi/wifi_comm.c` | `s_wifi_event_group` (STA_START, SCAN_DONE, CONNECTED), `s_scan_successful` | `wifi_comm_start`, `wifi_event_handler`, scan and connect tasks, `wifi_is_connected`, `wifi_comm_stop` | driver events, `app_main` |
| HTTPS server, `wifi/wifi_comm.c` | `https_server_events` (START, ERROR), the handle, the task handle | server task, monitor task, `init_https_server`, start, stop | GOT_IP handler, main loop |
| `GET /weight`, `wifi/wifi_comm.c` | none | `weight_get_handler` | takes from the HX711 queue |
| HX711 driver, `hx711/hx711.c` | filters, `s_boost_count`, `s_last_output`, queue of 8, mutex | init, raw, filtered and median reads, sampling task, deinit | writes the queue |
| moving average, `moving_avg/` | ring buffer, running sum, median history | init, update, median update, reset, deinit, each with a mutex form | called by the driver |
| Kalman filter, `kalman_filter/` | estimate, covariance, Q, R | init, update, adaptive update | called by the driver |
| calibration, `calibration/` | slope, intercept | tare, compute, convert | `app_main`, weight manager |
| weight manager, `weight_manager/` | `current_state`, `debounce_count`, `wm_queue` | init (from two tasks), task loop | reads the queue, waits for SNTP |
| SNTP, `sntp_synch/` | `s_time_event` | start (from two tasks), wait, callback (in lwIP's thread) | `app_main`, GOT_IP handler, weight manager |
| time log, `spiffs_manager/` | `time_log.json` in flash | a task that reads, appends and rewrites it every 5 s; nothing calls `start_time_logging_task` yet | the system clock |
| BLE (`bluetooth*/`), power modes, connection manager, REST API, body composition | see section 7 | | not reached by `app_main`, or not compiled |

What is hard here, and what correctness means:

- *Shared queue.* One queue has one writer that drops when it is full, and two readers that steal
  from one another, one of which does not read for the first seconds. Correct: nothing is weighed twice or
  out of order, and events keep their distance.
- *Two starters.* `app_main` and the event task both start SNTP and the weight manager, with
  unlocked tests. Correct: nothing is used before it exists, start-up ends, the weight manager
  listens to the sensor, and what is started again later does no harm.
- *One chance to join.* The handler of the disconnect event is the only one that joins again, once per event.
  Correct: a join, a link or such an event is always there.
- *Event bits.* Several tasks wait on the same bits and clear them on exit. Correct: one attempt per
  signal, and a failed server comes back.
- *Blocking handler.* GOT_IP holds the event task for up to 10 s. Correct: events are late,
  never lost.
- *Filters.* A ring buffer with a running sum, restarted in the middle, followed by a boosted filter.
  Correct: a sliding window, no stale value, steps get through, boosting ends.
- *One chip, many callers.* The mutex of the driver is held over conversions of up to 100 ms while
  others give up after 10 ms. Correct: one reader at a time, the mutex comes back after every call.
- *Debounce.* Correct: a mind is changed after a fixed number of readings in a row, no other way.
- *Power loss.* The log is rewritten in place. Correct: times are lost only for a reason,
  and the log recovers.

## 2. Modules

| Module | Models | Uses |
|---|---|---|
| `Presence` | abstract: a detector that needs so many readings in a row | |
| `WeightManager` | `weight_manager.c:27-157` | refines `Presence` |
| `Calibration` | `calibration.c`, the sign of `hx711_read_raw` | operators |
| `Scale`, `MCScale` | `main.c:71-107`, then conversion to event | `WeightManager`, `Calibration` |
| `MCFilters` | the driver beside any calls of `moving_average.c` | `Hx711Driver`, `MovingAverageCalls` |
| `MCWeightManager` | the state machine alone, with the documented debounce | `WeightManager` |
| `SampleStream` | abstract: a bounded stream with competing consumers | |
| `SamplePipeline`, `MCSamplePipeline` | sampling task, queue, weight manager, `GET /weight` | `WeightManager`; refines `SampleStream` |
| `SlidingWindow` | abstract: the last n values and their mean | |
| `MovingAverage`, `MovingAverageCalls` | `moving_average.c`: operators, and any sequence of calls | refines `SlidingWindow` |
| `Kalman` | `kalman_filter.c`, the adaptive filter | operators |
| `StepFilter` | `hx711_init`, `hx711_read_filtered` | `MovingAverage`, `Kalman` |
| `Hx711Driver` | the driver's mutex, its callers, the median | `StepFilter` |
| `HttpsServer` | server task, monitors, main loop | |
| `Bootstrap` | `app_main`, station tasks, event handler, SNTP, weight manager start | |
| `TimeLog` | `spiffs_manager.c:91-148` with power losses | |
| `WeightManagerProofs`, `ScaleProofs`, `SamplePipelineProofs`, `MovingAverageProofs`, `Hx711DriverProofs`, `HttpsServerProofs`, `BootstrapProofs`, `TimeLogProofs` | proofs | |

Variables and actions have the names of the source where it has them. Definitions preceded by
"Seeded bug" are variants that no specification uses: each property is shown to fail when
the definition below it is replaced by the variant.

**WeightManager.** One `WMReceive(w)` is one turn of the task's loop: `handle_state_transition`
and the reset of the counter on a state change. A weight is an integer, or `NaN`, which compares
false with everything. The variable `event` records what was logged.

**Scale.** `Sample` and `Tare` are the tare, `Calibrate` is the one reading with the known weight, and
`Weigh` is a conversion that arrives at the weight manager. Slope and intercept are exact quotients; a
zero span gives infinities and `NaN`, as the floats do. The converted weight is rounded downwards. `Weights`, which
the state machine is given, is a parameter of the model only; `ScaleWeights` asks that it has every weight a
count can convert to, and TLC evaluates it for the run's converter.

**SamplePipeline.** Three program counters. `Read` and `Send` are apart, as the other two tasks run
in between. A queue call is one step. Readings are numbered in the model so that losing,
repeating and reordering can be seen; the program has no such numbers. The driver's mutex is in
`Hx711Driver`: in this pipeline only the sampling task takes it.

**MovingAverage, Kalman, StepFilter.** The record `moving_avg_t` with its operations; means are pairs of
sum and count, rounded either way when they are passed on. The float rounding of the running
sum is not modelled. The names in `MovingAverageCalls` begin with `MA`, since the proofs about the driver and the
scale extend it too. The record of the Kalman filter has the estimate and the noises Q and R, tuned on
a scale of integers with every product rounded either way. The covariance is left out: since
it is never negative the gain lies between Q/(Q+R) and 1, and `Estimates` allows all of that. `s_kf` and
`s_last_output` are separate, since a median changes one without the other.

**Hx711Driver.** `mutex` is `"NULL"` before `hx711_init_rtos`, then `"free"` or the holder. A call is `Begin`, then `Take`
or `TimedOut`, then what the holder does. A conversion takes long, so a waiting task can time out whenever
somebody else holds the mutex; no clock is needed. The median is taken one sample a step, so the
sampling task can wait, give up and try again between samples. The cascade (`hx711.c:284-288`) looks only two
samples back, so it is computed along with the sampling, `older` and `newer` being what it needs; `strays`
is history. The filters are shared by all calls, as in the code.

**HttpsServer.** `SetBits` is FreeRTOS's rule: all waiting tasks whose bits are now set are woken, and only
then is what they clear on exit cleared. A task is in its wait (`"wait"`: not yet called, `"blocked"`:
inside), or at the code after it. `init_https_server` only ever adds a monitor, since group and
server task exist; it finds no room when all `MaxMonitors` exist.

**Bootstrap.** `app_main` and `sys_evt`, the event task, run the same code for `sntp_sync_start`
and `weight_manager_init`, so these actions take the caller as parameter. Test, creation and use are
separate steps because the other task can run in between. The driver, marked external, posts events
in order; a join can fail, the link can be lost at any moment, also while GOT_IP is being handled. The SNTP
event groups are numbered as they are created, because two can be: `s_time_event` is the last, and
`waiting` is the one the GOT_IP handler read before its wait. A wait ends early only when the
bit of its own group is set. lwIP's thread is a task of its own: once the client runs and there is an address,
`ClockSet` (external) may set the clock at any time, and only a later step, `time_sync_notification_cb`, sets the bit, of the
group that is there by then. `SntpMode` is `esp_sntp_setoperatingmode`, in which lwIP asserts that its client does not
run yet; `sdkconfig:1700` has that assertion on and `:1209` makes a panic reboot, so a second caller that
comes to it after the first has called `esp_sntp_init` sets `panicked`. Nothing runs from then on (`Halted`), and
the next boot is the behaviour from `Init`, since none of this state outlives a reset. The assertion is in
lwIP's `sntp_setoperatingmode` and is modelled as external: `esp_sntp_init` without it would be harmless a second time.

**TimeLog.** A document is absent, torn (unreadable, empty included), bare (an object without
timestamps) or a log. `Load`, `Open` and `Write` are the steps between which power may fail: `fopen(.., "w")` has
emptied the file before `fclose` has written it. The `*Failing` actions are each call that can
fail. `saved` and `excused` are history: the last document written in full, and whether something
has happened since that explains a loss.

## 3. Runs

| Run | Module, cfg | Shows | Bounds |
|---|---|---|---|
| `scale` | `MCScale`, `Scale.cfg` | detector behaviour, waking under a load that stays, sleeping once emptied, calibration at both points, events match the load | 3-bit converter, 3 tare samples, known weight 60, so all calibrations are tried, degenerate and reversed ones too |
| `debounce_documented` | `MCWeightManager`, `DebounceDocumented.cfg` | **violated**: the comment's three readings | the source's constants |
| `sample_pipeline` | `MCSamplePipeline`, `SamplePipeline.cfg` | order, freshness, stream refinement, distance of events, draining | queue of 2, 9 conversions, 2 requests |
| `filters` | `MCFilters`, `Filters.cfg` | exact sum, sliding window; one reader, mutex given back, output in range, steps followed, median | ring: window 3, three values; driver: windows 0, 1, 3, two raw values further apart than the threshold, boost of 2, medians of 3 to 5, one caller beside the sampling task |
| `boost_transient` | `StepFilter`, `StepFilterBoost.cfg` | **violated**: boosting ends | the source's boost of 5 |
| `https_server` | `HttpsServer`, `HttpsServer.cfg` | attempts, restarts | 2 monitors, 2 GOT_IP, 3 failures |
| `https_restart` | `HttpsServer`, `HttpsServerRestart.cfg` | **violated**: a failed server is restarted | 2 monitors, 1 GOT_IP, 2 failures |
| `bootstrap` | `Bootstrap`, `Bootstrap.cfg` | made before use, bit follows association, never gives up, joins only what was found, a timeout means no time or none announced yet, start-up ends, events handled, later starts of SNTP and of the weight manager harmless | 2 polls, 2 drops, 2 leases |
| `manager_fed` | `Bootstrap`, `BootstrapManager.cfg` | **violated**: the weight manager listens to the sensor | 2 polls, 1 drop, 1 lease |
| `connected_documented` | `Bootstrap`, `BootstrapConnected.cfg` | **violated**: connected means an address | 2 polls, 1 drop, 1 lease |
| `time_log` | `TimeLog`, `TimeLog.cfg` | losses are excused, damage is got over | room for 2 times, 2 power losses, 2 failures |
| `time_log_keeps` | `TimeLog`, `TimeLogKeeps.cfg` | **violated**: times go on being logged | 1 failure, no power loss |

Why the bounds are enough. The queue of two overflows while the weight manager waits, and nine conversions
make room for two complete changes of mind (four readings each) with one lost. A window of three distinguishes
filling, full and wrapping, and with values 0, 1, 3 different windows have different sums. In `Hx711Driver` the means of 0 and 4
fill the range between, so outputs lie on, below and above the step threshold of 3, and Q and R
reach both ends of their ranges; the window of the median grows from three to five when boosting
and shrinks again one at a time, so it is taken odd and even; the sampling task and one caller are enough to hold
the mutex against one another, and the proofs have any number of callers. Two monitors
are what it takes for one to swallow the other's bit; a third adds another of the same kind.
Two leases need a drop in between, which lets a second GOT_IP meet a start-up at any point. Room for two times makes the log
overflow; two power losses let one hit a file torn by the other. The clock of `TimeLog` counts modulo a
number larger than the capacity, so times in one log differ.

`filters` puts two state machines into one run that share code but no state: a behaviour is of the driver or of
the calls, and the other one stays as it was set up, so that the states of the two add up and do not multiply.

`CHECK_DEADLOCK` is on everywhere: the tasks never end. Where a bound ends the exploration
(`SamplePipeline!Exhausted`), a task only repeats (`Bootstrap!Loop`, `TimeLog!Skip`) or the chip has panicked
(`Bootstrap!Halted`) a step that changes
nothing says so. `Hx711Driver` needs no such step, since calls go on for ever.

## 4. Fairness

Weak fairness is assumed only of the firmware's own tasks, which FreeRTOS schedules: the highest
ready task runs on each core, and every task here blocks or delays in its loop. `SamplePipeline`:
the end of the SNTP wait, which has a timeout, and the weight manager; neither sampling nor requests
are assumed to go on. `Scale`: the chip keeps converting. `Hx711Driver`: the task that
holds the mutex, and with it the chip; no caller has to call, wait or get the mutex. `HttpsServer`: every task, and the main loop; not the access
point, nor that a start succeeds (`Start \/ Fail` is fair, not `Start`). `Bootstrap`: `app_main`,
the event handler, and the driver's answer to `esp_wifi_start`; not scans, joins, leases, or
the time server, nor lwIP's thread; after a panic nothing is due. `TimeLog`: the task; not that a call succeeds, nor that the clock is set, which is why the
liveness properties there have it as a hypothesis.

## 5. What the checks found

1. **Debounce takes four readings, not three** (`weight_manager.c:27` against `:143-146`). The reading
   that enters a DEBOUNCE state is counted, then forgotten by the reset.
2. **Boosting never ends** (`hx711.c:214`). While `s_boost_count` is positive it is set to
   `BOOST_SAMPLES` again. After the first step the moving average is restarted on every
   reading, and line 217 is never reached.
3. **A failed HTTPS server is not restarted** (`wifi_comm.c:238-243`). The error bit is cleared by the wake-up
   before the monitor tests it, and the main loop can only add monitors.
4. **The weight manager may listen to nobody** (`wifi_comm.c:160`). When an address is obtained
   before `hx711_init_rtos` ran, `weight_manager_init` gets NULL and makes a queue of its own for good.
5. **One failed allocation ends time logging for ever** (`spiffs_manager.c:118-122`). `{}` is
   written, and `cJSON_ReplaceItemInObject` cannot add the missing array.
6. **Connected does not mean an address** (`wifi_comm.c:132` against `wifi_comm.h:18`). `wifi_is_connected` is true
   from the association on, and `app_main` starts SNTP on it. `BitFollowsAssociation` is about how far the
   bit lags behind the association, not about what the bit should mean.

Reached in a passing run, whose properties say where it ends:

- **Two first starts of SNTP may abort the chip** (`sntp_synch.c:36-47`, which says "Already started, do nothing"
  of the second). `app_main` and the GOT_IP handler can both pass the test; when one then comes to
  `esp_sntp_setoperatingmode` after the other's `esp_sntp_init`, lwIP's assertion panics the chip, which boots again. `BootCompletes` and
  `EventsHandled` hold up to such a panic, and `LaterSntpStartsHarmless` says that it takes this race.
- **Two weight managers** come of the same race at `weight_manager.c:160`; `LaterManagerStartsHarmless` says that
  nothing else makes a second one.

Read and left without a run: `https_server_is_running` (`main.c:172`) tests a variable nothing sets, so
a monitor is added every minute, without end; the first scan is also the last (`wifi_comm.c:186`), so a station that
does not find its access point stays offline until a reboot; a monitor may swallow the start signal meant for the server
task (`wifi_comm.c:238`); `weight_manager.h:16,24,46-49` has another wake threshold
and has measuring end after `WM_ACTIVE_TIMEOUT_MS`, a timeout the code lacks: it goes on measuring as long as
the load stays. `WakesUnderLoad` and `SleepsOnceEmptied` hold with and without such a timeout.

## 6. Proofs

All theorems hold for every value of the constants that the named assumptions allow.

- **WeightManagerProofs.** `WMTypeCorrect`: the type invariant is inductive as it stands, because it says that a
  count is pending only while debouncing and stays below the limit. From it `WMImplementsDetector`:
  initial states map to initial states, and `WMReceive` maps to `Agree`, `Doubt` or `Change` with
  `streak` one more than the counter while debouncing. It needs `DebounceCount >= 2`: with 1
  the code would not pass through a DEBOUNCE state.
- **ScaleProofs.** `ScaleInv` is the types and `Calibrated`: weighing begins only with slope and intercept computed
  from the two readings. That the tare is a count rests on the theory of sums below: a mean of counts lies between
  the least and the largest, in fact in every range the samples lie in, and from that, used on the
  ranges above and below it, the tare lies *among* its samples (`ScaleCalibratedAtBothPoints`); and the line goes
  through zero at the tare and the known weight at its reading. That a clocked word is a count needs
  `2^Bits = 2 * 2^(Bits - 1)` and that powers of two are positive (`PowersOfTwo`), of which the prover knows nothing;
  both are derived from the number of subsets of a set (the library's `FS_SUBSET`, whose proof in the library leaves one
  step, the doubling of powers of two, unproved, so that this much rests on the library). `ScaleEventsMatchLoad` says, for any
  converter, known weight and thresholds, with the cell wired either way round, that an event is about the displacement of the raw
  count; `ScaleImplementsDetector` maps `Weigh` to the state machine and from there to `Presence`. Neither
  has a hypothesis on the behaviour beside `Spec`.
- **SamplePipelineProofs.** `PipelineInv` is `TypeOK`, `FreshAndInOrder` and `StreakFits`, which
  ties the debounce count to the numbers of the readings since the last event and makes
  `EventsApart` follow. Readings between two events may be dropped or taken by clients; each that counts
  has a number of its own, so the distance can only be larger. `PipelineImplementsStream` is a refinement
  proof with the queue mapped to a set of numbers; `PipelineImplementsWeightManager` and
  `PipelineImplementsDetector` carry the detector into the pipeline.
- **MovingAverageProofs.** Sums first. `SumFunctionOnSet` is a fold whose recursive function is found by CHOOSE, and what it
  computes takes an induction that the library states with an operator as parameter. `SubsetInduction` does
  it with sets instead: a collection of subsets that has each one of whose smaller ones it has all, has them all, since
  the strict subset ordering of a finite set is well founded and a missing subset would be a least one. With it, functions that solve the
  equation of the sums exist (`SumsExist`) and agree (`SumsAgree`), which gives `SumTakes` (any element may be
  taken off first), `SumExcept`, `SumBounds`, `SumMoved` (a bijection of the indices). Then the ring.
  `SumIsExact` alone is not inductive: a slot that is overwritten before the ring is full is not subtracted, which is
  right only because it holds zero. `ExactRing` adds this, and that the index is the count until the ring is full, and `RingOK` says
  that the filter is unset or such a ring of the configured size; it is kept by every call, and gives
  `MovingAverageTypeCorrect` and `MovingAverageSumIsExact`. `MovingAverageImplementsWindow` is the refinement: `PlaceIs` computes the
  slot of the k-th oldest value, around the wrap as well, `ContentUpdate` shows that writing at the index and
  moving it appends the value and drops the oldest, `ContentSum` that the window's sum is the running sum,
  and `MedianIsTheMiddle` that three comparisons find the value the abstract specification chooses. A mean is then
  the same quotient on both sides. Sizes and values are arbitrary.
- **Hx711DriverProofs.** For any number of callers, windows, noises and conversions. The invariant is the types,
  `HolderReads` (whoever is past `xSemaphoreTake` is the holder, and samples are there only while
  the holder takes a median), from which `DriverOneReader` follows, and `StrayFits`. A stray can sit in either of the first two slots of the cascade, so
  `MedianRejectsStray` alone is not inductive: `StrayFits` says which of the two remembered samples is good after how many.
  `DriverStepReachesOutput` rests on `RestartPassesOn` and the bound of R. `DriverOutputInRange` needs `RangeInv` beside
  the types: the ring is exact and each of its slots lies in the range of what was converted so far, so that a mean
  does, whichever way it is rounded, while the range can only widen; an estimate lies between the one before it and its reading; and the
  two remembered samples of a median are conversions themselves.
- **HttpsServerProofs.** `OneRestartPerFailure` is not inductive. `FailureLeft` says that a monitor on its way to
  asking for a restart has a failure left to answer; it holds because a monitor
  clears the error bit on its way out of the wait, so an error bit it then sees is new.
- **BootstrapProofs.** `Inv` has the labels of each task, the types, what exists at which label, and that
  each caller starts things at most once, which bounds the double starts by two.
  `BitFollowsAssociation` needs `LastWord`: the last event about the link in the queue agrees with the link.
  `NeverGivesUp` and `JoinsOnlyFound` need what a disconnect event in the queue says about the scan and the
  link. `TimeoutMeansUnset` needs that the clock is set only with a bit set or the callback under way, and that
  `waiting` is a group that was made: with one group it is the one whose bit is set. The two theorems about later starts
  rest on the tests failing once something was created (`SntpStaysSettled`, `ManagerStaysSettled`; `OtherSteps` has
  all the steps that are not a caller's own), and on the chip staying where it panicked (`PanicInMode`). That a panic
  or a second weight manager does come of the race is not proved, but TLC reaches both.
- **TimeLogProofs.** `FileIsSaved`, `MemoryFollows` and `OnlyLogsHold` say that an unexcused
  file is the last saved document, and that the document in memory extends it.

The temporal part of each theorem is one PTL step. Every safety property, action property and refinement of a
passing run is stated by a theorem. Only TLC checks liveness under fairness, which the prover does
not do: `WakesUnderLoad`, `SleepsOnceEmptied`, `EveryReadingLeaves`, `BootCompletes`, `EventsHandled`, `RecoversUnlessBare`,
`MutexGivenBack`; and the six properties the code violates, which are counterexamples and nothing to prove.

## 7. Not modelled

- BLE GATT service and Bluetooth set-up: compiled, but nothing calls them, and they have no behaviour yet. As
  written, advertising is started without an event callback (`bluetooth.c:26`), so `ble_gap_event` never runs.
- Wi-Fi and BLE power modes: wrappers of driver calls that nothing calls. The file and the GATT service both define
  `current_conn_handle`, so they cannot be linked into one program once used.
- Connection manager and REST API: not in `main/CMakeLists.txt`, and not complete: `wifi_init`, `wifi_send_data`,
  `weight_manager_get_weight` and `weight_manager_set_threshold`, which they call, are defined nowhere.
- `wifi_comm_stop` with `stop_https_server`: no caller. It deletes event groups on which other tasks
  are blocked, and FreeRTOS gives that no outcome to model.
- `hx711_deinit` once the mutex exists, for the same reason (before that it is modelled), and `hx711_rtos_median_task`, which
  nothing creates and which would send integers into a queue of floats.
- The plain and the mutex forms of the Kalman update: no caller.
- The weight manager's log of every measurement (`weight_manager.c:148-154`): output only.
- Body composition: a formula over floats. Certificates: constant data. `log_utils.h`: a macro.
- Float rounding, and the multi-point fit (not compiled).
- `app/`, `build/`, `docs/html`, `components/`, `cert-gen/`, `swig-4.3.1/`: generated or third-party, and by far
  the largest part of the repository: the share of all its lines that is modelled is small, while of `src/main`
  what runs is covered.

## 8. What remains

1. `Bootstrap` and `SamplePipeline` composed: two weight managers on one queue, sharing `current_state` but each
   with its own `debounce_count`, which `Bootstrap` shows to be reachable (`wm_tasks = 2`).
2. Invariants behind the liveness properties that TLC alone checks: what is proved of them so far are the
   safety parts (`NeverGivesUp`, `TimeoutMeansUnset`, `OneReader`).
3. A run for each component that is given a caller: teardown (`wifi_comm_stop`, `hx711_deinit`), the median task,
   BLE with the power modes against a NimBLE host.

Runs are to stay few: composed modules replace the runs of their parts.
