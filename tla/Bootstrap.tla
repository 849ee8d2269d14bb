----------------------------- MODULE Bootstrap -----------------------------
(***************************************************************************)
(* How the firmware comes up: app_main (main.c) starts the Wi-Fi station,  *)
(* SNTP, the HX711 driver and the weight manager one after the other,      *)
(* while the ESP-IDF event task runs wifi_event_handler (wifi_comm.c),     *)
(* which on GOT_IP starts some of the same things.  Two more tasks scan    *)
(* for the access point and connect to it, and lwIP's thread calls back    *)
(* when it has set the clock.                                              *)
(*                                                                         *)
(* A step is one access to state that another task can touch, so the tests *)
(* and the assignments of sntp_sync_start and weight_manager_init are      *)
(* steps of their own.  Events are handled one at a time in the order in   *)
(* which the driver posted them.  When lwIP's assertion against a second   *)
(* start of its client fails the chip panics and boots again: that is the  *)
(* end of this start-up, and the next one begins at Init.                  *)
(***************************************************************************)
EXTENDS Integers, Sequences

CONSTANTS
  MaxRetries,   \* the 20 polls of app_main for a connection
  MaxDrops,     \* bound: lost associations and failed joins explored
  MaxLeases     \* bound: GOT_IP events explored

ASSUME BootstrapAssumption ==
  /\ MaxRetries \in Nat
  /\ MaxDrops \in Nat
  /\ MaxLeases \in Nat

VARIABLES
  pc,                  \* where each task is
  retries,             \* app_main's local
  arg,                 \* the queue argument each caller of weight_manager_init read
  event_groups,        \* whether s_wifi_event_group and https_server_events exist
  wifi_bits,           \* s_wifi_event_group
  s_scan_successful,
  s_time_event,        \* the SNTP event group, numbered as created; 0 for NULL
  synced,              \* the SNTP event groups whose TIME_SYNC_BIT is set
  waiting,             \* the group the GOT_IP handler waits on
  sntp_inits,          \* calls of esp_sntp_init; its client runs after the first
  time_set,            \* external: whether SNTP has ever set the clock
  panicked,            \* external: whether an assertion of lwIP has failed
  hx711_q,             \* hx711.c's queue
  sampling,            \* whether hx711_rtos_task was created
  wm_queue,            \* the queue the weight managers receive from
  wm_tasks,            \* weight manager tasks created
  http_starts,         \* whether SERVER_START_BIT was ever set
  link,                \* external: the station as the driver has it
  joining,             \* external: an esp_wifi_connect is outstanding
  ev_queue,            \* external: the default event loop
  drops, leases        \* external: how often the link was lost, an address given

shared == <<event_groups, wifi_bits, s_scan_successful>>
sntp   == <<s_time_event, synced, waiting, sntp_inits, time_set, panicked>>
wm     == <<arg, wm_queue, wm_tasks>>
hx     == <<hx711_q, sampling>>
driver == <<link, joining, ev_queue, drops, leases>>
vars   == <<pc, retries, shared, sntp, wm, hx, http_starts, driver>>

Callers == {"app_main", "sys_evt"}
Tasks   == Callers \cup {"wifi_scan", "wifi_conn", "lwip"}
Goto(t, label) == pc' = [pc EXCEPT ![t] = label]

\* Calibration has been done; the other tasks wait for their first work.
Init ==
  /\ pc = [t \in Tasks |-> IF t = "app_main" THEN "groups"
                           ELSE IF t \in {"sys_evt", "lwip"} THEN "idle" ELSE "none"]
  /\ retries = 0
  /\ arg = [t \in Callers |-> "NULL"]
  /\ event_groups = FALSE
  /\ wifi_bits = {}
  /\ s_scan_successful = FALSE
  /\ s_time_event = 0
  /\ synced = {}
  /\ waiting = 0
  /\ sntp_inits = 0
  /\ time_set = FALSE
  /\ panicked = FALSE
  /\ hx711_q = "NULL"
  /\ sampling = FALSE
  /\ wm_queue = "NULL"
  /\ wm_tasks = 0
  /\ http_starts = FALSE
  /\ link = "off"
  /\ joining = FALSE
  /\ ev_queue = <<>>
  /\ drops = 0
  /\ leases = 0

(***************************************************************************)
(* app_main and wifi_comm_start.                                           *)
(***************************************************************************)
\* Seeded bug: the event groups are not created here.
SkipEventGroups ==
  /\ pc["app_main"] = "groups"
  /\ Goto("app_main", "wifi_start")
  /\ UNCHANGED <<retries, shared, sntp, wm, hx, http_starts, driver>>

CreateEventGroups ==
  /\ pc["app_main"] = "groups"
  /\ event_groups' = TRUE
  /\ Goto("app_main", "wifi_start")
  /\ UNCHANGED <<retries, wifi_bits, s_scan_successful, sntp, wm, hx, http_starts, driver>>

StartWifi ==
  /\ pc["app_main"] = "wifi_start"
  /\ link' = "starting"
  /\ Goto("app_main", "sta_wait")
  /\ UNCHANGED <<retries, shared, sntp, wm, hx, http_starts, joining, ev_queue, drops,
                 leases>>

\* The station is up: create the scan and connect tasks.
StationStarted ==
  /\ pc["app_main"] = "sta_wait"
  /\ "STA_START" \in wifi_bits
  /\ pc' = [pc EXCEPT !["app_main"] = "poll", !["wifi_scan"] = "scan",
                     !["wifi_conn"] = "poll"]
  /\ UNCHANGED <<retries, shared, sntp, wm, hx, http_starts, driver>>

wifi_is_connected == "CONNECTED" \in wifi_bits

\* Seeded bug: the retries are not counted.
PollForEver ==
  /\ pc["app_main"] = "poll"
  /\ IF wifi_is_connected THEN Goto("app_main", "decide") ELSE UNCHANGED pc
  /\ UNCHANGED <<retries, shared, sntp, wm, hx, http_starts, driver>>

PollConnected ==
  /\ pc["app_main"] = "poll"
  /\ IF wifi_is_connected \/ retries = MaxRetries
       THEN Goto("app_main", "decide") /\ UNCHANGED retries
       ELSE retries' = retries + 1 /\ UNCHANGED pc
  /\ UNCHANGED <<shared, sntp, wm, hx, http_starts, driver>>

\* The second look at the connection decides whether SNTP is started.
DecideSntp ==
  /\ pc["app_main"] = "decide"
  /\ Goto("app_main", IF wifi_is_connected THEN "sntp_test" ELSE "hx_queue")
  /\ UNCHANGED <<retries, shared, sntp, wm, hx, http_starts, driver>>

\* hx711_init_rtos: first the queue ...
CreateQueue ==
  /\ pc["app_main"] = "hx_queue"
  /\ hx711_q' = "hx711"
  /\ Goto("app_main", "hx_task")
  /\ UNCHANGED <<retries, shared, sntp, wm, sampling, http_starts, driver>>

\* ... then, with the filters primed, the sampling task.
CreateSampler ==
  /\ pc["app_main"] = "hx_task"
  /\ sampling' = TRUE
  /\ Goto("app_main", "wm_arg")
  /\ UNCHANGED <<retries, shared, sntp, wm, hx711_q, http_starts, driver>>

(***************************************************************************)
(* sntp_sync_start, called by app_main and by the GOT_IP handler, the      *)
(* callback, and sntp_time_available, which the handler calls next.        *)
(***************************************************************************)
AfterSntp(t) == IF t = "app_main" THEN "hx_queue" ELSE "sntp_avail"

\* Seeded bug: no test whether SNTP was started.
SntpAlways(t) ==
  /\ pc[t] = "sntp_test"
  /\ Goto(t, "sntp_create")
  /\ UNCHANGED <<retries, shared, sntp, wm, hx, http_starts, driver>>

SntpTest(t) ==
  /\ pc[t] = "sntp_test"
  /\ Goto(t, IF s_time_event # 0 THEN AfterSntp(t) ELSE "sntp_create")
  /\ UNCHANGED <<retries, shared, sntp, wm, hx, http_starts, driver>>

SntpCreate(t) ==
  /\ pc[t] = "sntp_create"
  /\ s_time_event' = s_time_event + 1
  /\ Goto(t, "sntp_mode")
  /\ UNCHANGED <<retries, shared, synced, waiting, sntp_inits, time_set, panicked, wm, hx,
                 http_starts, driver>>

\* esp_sntp_setoperatingmode asserts that the client does not run yet; with
\* CONFIG_LWIP_ESP_LWIP_ASSERT (sdkconfig:1700) the chip panics when it does.
SntpMode(t) ==
  /\ pc[t] = "sntp_mode"
  /\ IF sntp_inits > 0
       THEN panicked' = TRUE /\ UNCHANGED pc
       ELSE Goto(t, "sntp_init") /\ UNCHANGED panicked
  /\ UNCHANGED <<retries, shared, s_time_event, synced, waiting, sntp_inits, time_set, wm, hx,
                 http_starts, driver>>

\* esp_sntp_init starts the client, unless the other caller just has.
SntpInit(t) ==
  /\ pc[t] = "sntp_init"
  /\ sntp_inits' = sntp_inits + 1
  /\ Goto(t, AfterSntp(t))
  /\ UNCHANGED <<retries, shared, s_time_event, synced, waiting, time_set, panicked, wm, hx,
                 http_starts, driver>>

\* External: a server answered; lwIP sets the clock and calls back.
ClockSet ==
  /\ pc["lwip"] = "idle"
  /\ sntp_inits > 0
  /\ link = "ip"
  /\ time_set' = TRUE
  /\ Goto("lwip", "notify")
  /\ UNCHANGED <<retries, shared, s_time_event, synced, waiting, sntp_inits, panicked, wm, hx,
                 http_starts, driver>>

\* Once it has logged the time the callback sets the bit, on the group that is
\* there by then.
time_sync_notification_cb ==
  /\ pc["lwip"] = "notify"
  /\ synced' = synced \cup {s_time_event}
  /\ Goto("lwip", "idle")
  /\ UNCHANGED <<retries, shared, s_time_event, waiting, sntp_inits, time_set, panicked, wm, hx,
                 http_starts, driver>>

\* The handle is read once; without a group there is nothing to wait for.
sntp_time_available ==
  /\ pc["sys_evt"] = "sntp_avail"
  /\ waiting' = s_time_event
  /\ Goto("sys_evt", IF s_time_event # 0 THEN "sntp_wait" ELSE "https")
  /\ UNCHANGED <<retries, shared, s_time_event, synced, sntp_inits, time_set, panicked, wm, hx,
                 http_starts, driver>>

\* Seeded bug: the bit is cleared on exit.
SyncedClearingBit ==
  /\ pc["sys_evt"] = "sntp_wait"
  /\ waiting \in synced
  /\ synced' = synced \ {waiting}
  /\ Goto("sys_evt", "https")
  /\ UNCHANGED <<retries, shared, s_time_event, waiting, sntp_inits, time_set, panicked, wm, hx,
                 http_starts, driver>>

Synced ==
  /\ pc["sys_evt"] = "sntp_wait"
  /\ waiting \in synced
  /\ Goto("sys_evt", "https")
  /\ UNCHANGED <<retries, shared, sntp, wm, hx, http_starts, driver>>

\* Seeded bug: the wait for the time has no timeout.
NoTimeout ==
  /\ pc["sys_evt"] = "sntp_wait"
  /\ UNCHANGED vars

\* The ten seconds are over; the handler goes on without the time.
SyncTimedOut ==
  /\ pc["sys_evt"] = "sntp_wait"
  /\ waiting \notin synced
  /\ Goto("sys_evt", "https")
  /\ UNCHANGED <<retries, shared, sntp, wm, hx, http_starts, driver>>

(***************************************************************************)
(* weight_manager_init(hx711_get_queue(), &g_calib), by the same two.      *)
(***************************************************************************)
AfterManager(t) == IF t = "app_main" THEN "loop" ELSE "idle"

GetQueue(t) ==
  /\ pc[t] = "wm_arg"
  /\ arg' = [arg EXCEPT ![t] = hx711_q]
  /\ Goto(t, "wm_test")
  /\ UNCHANGED <<retries, shared, sntp, wm_queue, wm_tasks, hx, http_starts, driver>>

\* Seeded bug: no test whether the weight manager runs already.
ManagerAlways(t) ==
  /\ pc[t] = "wm_test"
  /\ Goto(t, "wm_assign")
  /\ UNCHANGED <<retries, shared, sntp, wm, hx, http_starts, driver>>

ManagerTest(t) ==
  /\ pc[t] = "wm_test"
  /\ Goto(t, IF wm_queue = "NULL" THEN "wm_assign" ELSE AfterManager(t))
  /\ UNCHANGED <<retries, shared, sntp, wm, hx, http_starts, driver>>

ManagerAssign(t) ==
  /\ pc[t] = "wm_assign"
  /\ wm_queue' = IF arg[t] = "NULL" THEN "own" ELSE arg[t]
  /\ Goto(t, "wm_task")
  /\ UNCHANGED <<retries, shared, sntp, arg, wm_tasks, hx, http_starts, driver>>

ManagerCreate(t) ==
  /\ pc[t] = "wm_task"
  /\ wm_tasks' = wm_tasks + 1
  /\ Goto(t, AfterManager(t))
  /\ UNCHANGED <<retries, shared, sntp, arg, wm_queue, hx, http_starts, driver>>

(***************************************************************************)
(* wifi_event_handler, on the event at the head of the loop.               *)
(***************************************************************************)
Handling(event) ==
  /\ pc["sys_evt"] = "idle"
  /\ ev_queue # <<>>
  /\ Head(ev_queue) = event
  /\ ev_queue' = Tail(ev_queue)

BitEvents == {"STA_START", "SCAN_DONE", "STA_CONNECTED"}
BitOf(event) == IF event = "STA_CONNECTED" THEN "CONNECTED" ELSE event

BitEvent(event) ==
  /\ Handling(event)
  /\ wifi_bits' = wifi_bits \cup {BitOf(event)}
  /\ UNCHANGED <<pc, retries, event_groups, s_scan_successful, sntp, wm, hx, http_starts,
                 link, joining, drops, leases>>

\* Seeded bug: the bit stays set.
DisconnectedKeepingBit ==
  /\ Handling("STA_DISCONNECTED")
  /\ joining' = TRUE
  /\ UNCHANGED <<pc, retries, shared, sntp, wm, hx, http_starts, link, drops, leases>>

\* Seeded bug: the handler only notes that the link is gone.
DisconnectedForGood ==
  /\ Handling("STA_DISCONNECTED")
  /\ wifi_bits' = wifi_bits \ {"CONNECTED"}
  /\ UNCHANGED <<pc, retries, event_groups, s_scan_successful, sntp, wm, hx, http_starts,
                 link, joining, drops, leases>>

Disconnected ==
  /\ Handling("STA_DISCONNECTED")
  /\ wifi_bits' = wifi_bits \ {"CONNECTED"}
  /\ joining' = TRUE
  /\ UNCHANGED <<pc, retries, event_groups, s_scan_successful, sntp, wm, hx, http_starts,
                 link, drops, leases>>

GotIp ==
  /\ Handling("GOT_IP")
  /\ Goto("sys_evt", "sntp_test")
  /\ UNCHANGED <<retries, shared, sntp, wm, hx, http_starts, link, joining, drops, leases>>

start_https_server ==
  /\ pc["sys_evt"] = "https"
  /\ http_starts' = TRUE
  /\ Goto("sys_evt", "wm_arg")
  /\ UNCHANGED <<retries, shared, sntp, wm, hx, driver>>

(***************************************************************************)
(* wifi_scan_task and wifi_connect_task.                                   *)
(***************************************************************************)
ScanStart ==
  /\ pc["wifi_scan"] = "scan"
  /\ Goto("wifi_scan", "scanning")
  /\ UNCHANGED <<retries, shared, sntp, wm, hx, http_starts, driver>>

\* The scan is over; the access point was seen or it was not.
ScanEnd ==
  /\ pc["wifi_scan"] = "results"
  /\ "SCAN_DONE" \in wifi_bits
  /\ wifi_bits' = wifi_bits \ {"SCAN_DONE"}
  /\ s_scan_successful' \in BOOLEAN
  /\ Goto("wifi_scan", "deleted")
  /\ UNCHANGED <<retries, event_groups, sntp, wm, hx, http_starts, driver>>

\* Seeded bug: the result of the scan is not waited for.
ConnectAtOnce ==
  /\ pc["wifi_conn"] = "poll"
  /\ joining' = TRUE
  /\ Goto("wifi_conn", "wait")
  /\ UNCHANGED <<retries, shared, sntp, wm, hx, http_starts, link, ev_queue, drops, leases>>

ConnectStart ==
  /\ pc["wifi_conn"] = "poll"
  /\ s_scan_successful
  /\ joining' = TRUE
  /\ Goto("wifi_conn", "wait")
  /\ UNCHANGED <<retries, shared, sntp, wm, hx, http_starts, link, ev_queue, drops, leases>>

ConnectEnd ==
  /\ pc["wifi_conn"] = "wait"
  /\ wifi_is_connected
  /\ Goto("wifi_conn", "deleted")
  /\ UNCHANGED <<retries, shared, sntp, wm, hx, http_starts, driver>>

(***************************************************************************)
(* External: the Wi-Fi driver and the access point.                        *)
(***************************************************************************)
Post(event) ==
  /\ ev_queue' = Append(ev_queue, event)
  /\ UNCHANGED <<retries, shared, sntp, wm, hx, http_starts>>

DriverStarted ==
  /\ link = "starting"
  /\ link' = "idle"
  /\ Post("STA_START")
  /\ UNCHANGED <<pc, joining, drops, leases>>

DriverScanned ==
  /\ pc["wifi_scan"] = "scanning"
  /\ Goto("wifi_scan", "results")
  /\ Post("SCAN_DONE")
  /\ UNCHANGED <<link, joining, drops, leases>>

DriverJoins ==
  /\ joining
  /\ link = "idle"
  /\ joining' = FALSE
  /\ \/ /\ link' = "associated"
        /\ Post("STA_CONNECTED")
        /\ UNCHANGED drops
     \/ /\ drops < MaxDrops
        /\ drops' = drops + 1
        /\ Post("STA_DISCONNECTED")
        /\ UNCHANGED link
  /\ UNCHANGED <<pc, leases>>

DriverLeases ==
  /\ link = "associated"
  /\ leases < MaxLeases
  /\ leases' = leases + 1
  /\ link' = "ip"
  /\ Post("GOT_IP")
  /\ UNCHANGED <<pc, joining, drops>>

DriverDrops ==
  /\ link \in {"associated", "ip"}
  /\ drops < MaxDrops
  /\ drops' = drops + 1
  /\ link' = "idle"
  /\ Post("STA_DISCONNECTED")
  /\ UNCHANGED <<pc, joining, leases>>

\* app_main's loop goes round; HttpsServer.tla has what it does there.
Loop ==
  /\ pc["app_main"] = "loop"
  /\ UNCHANGED vars

\* The chip has panicked, and boots again.
Halted ==
  /\ panicked
  /\ UNCHANGED vars

AppMain ==
  /\ ~panicked
  /\ \/ CreateEventGroups \/ StartWifi \/ StationStarted \/ PollConnected \/ DecideSntp
     \/ CreateQueue \/ CreateSampler \/ Loop

Start(t) ==
  /\ ~panicked
  /\ \/ SntpTest(t) \/ SntpCreate(t) \/ SntpMode(t) \/ SntpInit(t)
     \/ GetQueue(t) \/ ManagerTest(t) \/ ManagerAssign(t) \/ ManagerCreate(t)

Handler ==
  /\ ~panicked
  /\ \/ \E event \in BitEvents : BitEvent(event)
     \/ Disconnected \/ GotIp
     \/ sntp_time_available \/ Synced \/ SyncTimedOut \/ start_https_server

StationTasks ==
  /\ ~panicked
  /\ ScanStart \/ ScanEnd \/ ConnectStart \/ ConnectEnd

Lwip ==
  /\ ~panicked
  /\ ClockSet \/ time_sync_notification_cb

Driver ==
  /\ ~panicked
  /\ DriverStarted \/ DriverScanned \/ DriverJoins \/ DriverLeases \/ DriverDrops

Next ==
  \/ AppMain
  \/ \E t \in Callers : Start(t)
  \/ Handler
  \/ StationTasks
  \/ Lwip
  \/ Driver
  \/ Halted

Spec == Init /\ [][Next]_vars

(***************************************************************************)
(* Tasks are scheduled, and the driver answers esp_wifi_start.  Nothing    *)
(* is assumed of the scan, the access point or the time server.            *)
(***************************************************************************)
FairSpec ==
  /\ Spec
  /\ WF_vars(AppMain) /\ WF_vars(Handler) /\ WF_vars(~panicked /\ DriverStarted)
  /\ \A t \in Callers : WF_vars(Start(t))

-----------------------------------------------------------------------------
(***************************************************************************)
(* Properties.                                                             *)
(***************************************************************************)
StartLabels == {"sntp_test", "sntp_create", "sntp_mode", "sntp_init", "wm_arg", "wm_test",
                "wm_assign", "wm_task"}
AppLabels   == StartLabels \cup {"groups", "wifi_start", "sta_wait", "poll", "decide",
                                "hx_queue", "hx_task", "loop"}
EventLabels == StartLabels \cup {"idle", "sntp_avail", "sntp_wait", "https"}
Labels == AppLabels \cup EventLabels
            \cup {"none", "scan", "scanning", "results", "wait", "deleted", "notify"}
Events == {"STA_START", "SCAN_DONE", "STA_CONNECTED", "STA_DISCONNECTED", "GOT_IP"}

\* The type invariant; each of the two callers starts SNTP and the weight
\* manager at most once.
TypeOK ==
  /\ pc \in [Tasks -> Labels]
  /\ pc["app_main"] \in AppLabels
  /\ pc["sys_evt"] \in EventLabels
  /\ pc["wifi_scan"] \in {"none", "scan", "scanning", "results", "deleted"}
  /\ pc["wifi_conn"] \in {"none", "poll", "wait", "deleted"}
  /\ pc["lwip"] \in {"idle", "notify"}
  /\ retries \in 0..MaxRetries
  /\ arg \in [Callers -> {"NULL", "hx711"}]
  /\ event_groups \in BOOLEAN
  /\ wifi_bits \subseteq {"STA_START", "SCAN_DONE", "CONNECTED"}
  /\ s_scan_successful \in BOOLEAN
  /\ s_time_event \in 0..2
  /\ synced \subseteq 1..s_time_event
  /\ waiting \in 0..s_time_event
  /\ sntp_inits \in 0..2
  /\ time_set \in BOOLEAN
  /\ panicked \in BOOLEAN
  /\ hx711_q \in {"NULL", "hx711"}
  /\ sampling \in BOOLEAN
  /\ wm_queue \in {"NULL", "hx711", "own"}
  /\ wm_tasks \in 0..2
  /\ http_starts \in BOOLEAN
  /\ link \in {"off", "starting", "idle", "associated", "ip"}
  /\ joining \in BOOLEAN
  /\ ev_queue \in Seq(Events)
  /\ drops \in 0..MaxDrops
  /\ leases \in 0..MaxLeases

\* Nothing is used before it was made, in whatever order the two callers get
\* there: no event is waiting or handled without its event groups, SNTP cannot
\* call back before its event group exists, the sampling task has its queue and
\* a weight manager has one to receive from (wifi_comm.c:97-102, sntp_synch.c:
\* 40-47, hx711.c:113-131, weight_manager.c:160-173).
MadeBeforeUse ==
  /\ ev_queue # <<>> \/ pc["sys_evt"] # "idle" \/ wifi_bits # {} => event_groups
  /\ sntp_inits > 0 => s_time_event # 0
  /\ sampling => hx711_q # "NULL"
  /\ wm_tasks > 0 => wm_queue # "NULL"

Associated == link \in {"associated", "ip"}

\* WIFI_CONNECTED_BIT, which is about the association, is out of date only while
\* the event that changes it is still waiting: the handler loses none and applies
\* them in order, through up to ten seconds inside one GOT_IP (wifi_comm.c:130-138,
\* 149).  Whether the bit is what wifi_is_connected should return is another
\* matter: ConnectedMeansAddress.
BitFollowsAssociation ==
  (\A i \in 1..Len(ev_queue) : ev_queue[i] \notin {"STA_CONNECTED", "STA_DISCONNECTED"})
    => ("CONNECTED" \in wifi_bits <=> Associated)

\* wifi_comm.h:18 says of wifi_is_connected: "Returns true once the station has
\* obtained an IP address."
ConnectedMeansAddress == wifi_is_connected => leases > 0

\* The station never gives up: from the first esp_wifi_connect on, a join is under
\* way, or the link is up, or the event that makes the handler join again is on
\* its way, through failed joins and drops at any moment (wifi_comm.c:134-138,
\* 215-219).
NeverGivesUp ==
  pc["wifi_conn"] \in {"wait", "deleted"} =>
    \/ joining
    \/ Associated
    \/ \E i \in 1..Len(ev_queue) : ev_queue[i] = "STA_DISCONNECTED"

\* Neither the connect task nor the handler joins an access point that the scan
\* did not find (wifi_comm.c:193-206, 134-138).
JoinsOnlyFound == joining \/ Associated => s_scan_successful

\* The handler reports a timeout of SNTP with the clock set only in the moment
\* before the callback sets the bit, also at a second address long after; unless
\* both callers created a group, when it may be waiting on the one that was lost
\* (sntp_synch.c:17-32, 50-63, wifi_comm.c:148-153).
TimeoutMeansUnset ==
  [][SyncTimedOut /\ s_time_event = 1 => ~time_set \/ pc["lwip"] = "notify"]_vars

\* SNTP runs, and neither caller is past its test.
SntpSettled ==
  /\ sntp_inits > 0
  /\ \A t \in Callers : pc[t] \notin {"sntp_create", "sntp_mode", "sntp_init"}

\* The abort in lwIP's assertion takes the race of the two callers: once SNTP runs
\* with neither of them past its test, no address that is obtained later and no
\* late app_main leads to it (sntp_synch.c:36-47).
LaterSntpStartsHarmless == [](SntpSettled => []~panicked)

\* A weight manager runs, and neither caller is past its test.
ManagerSettled ==
  /\ wm_tasks > 0
  /\ \A t \in Callers : pc[t] \notin {"wm_assign", "wm_task"}

\* A second weight manager takes the race of the two callers: once there is just one
\* with neither of them past its test, no later address and no late app_main adds
\* another (weight_manager.c:159-180).
LaterManagerStartsHarmless == [](ManagerSettled /\ wm_tasks = 1 => [](wm_tasks = 1))

\* Whatever the access point and the time server do, app_main gets through to
\* its loop, by then with a weight manager, unless the second start of SNTP
\* aborts (main.c:109-148, sntp_synch.c:44).
BootCompletes == <>(panicked \/ (pc["app_main"] = "loop" /\ wm_tasks > 0))

\* No event stays unhandled while the chip is up: a GOT_IP handler that waits for
\* the time holds the others up, but not for good (wifi_comm.c:119-162).
EventsHandled == ev_queue # <<>> ~> ev_queue = <<>> \/ panicked

\* When app_main is through, the weight manager receives from the queue the
\* sensor feeds, as weight_manager.h:43 has it: "@param hx711_queue
\* QueueHandle_t from hx711_init_rtos()".
ManagerFedBySensor == pc["app_main"] = "loop" => wm_queue = hx711_q
=============================================================================
