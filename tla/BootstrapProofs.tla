-------------------------- MODULE BootstrapProofs --------------------------
(***************************************************************************)
(* Proofs about Bootstrap for any number of retries, lost links and        *)
(* leases: whatever the interleaving of app_main, the event task and the   *)
(* driver, nothing is used before it was made, and the check-then-act of   *)
(* the two callers never starts a thing more than twice.                   *)
(***************************************************************************)
EXTENDS Bootstrap, TLAPS

\* The two halves of the type invariant: where the tasks are, and what they
\* share; the counts are bounded by AtMostTwice.
PcOK ==
  /\ pc \in [Tasks -> Labels]
  /\ pc["app_main"] \in AppLabels
  /\ pc["sys_evt"] \in EventLabels
  /\ pc["wifi_scan"] \in {"none", "scan", "scanning", "results", "deleted"}
  /\ pc["wifi_conn"] \in {"none", "poll", "wait", "deleted"}
  /\ pc["lwip"] \in {"idle", "notify"}

DataOK ==
  /\ retries \in 0..MaxRetries
  /\ arg \in [Callers -> {"NULL", "hx711"}]
  /\ event_groups \in BOOLEAN
  /\ wifi_bits \subseteq {"STA_START", "SCAN_DONE", "CONNECTED"}
  /\ s_scan_successful \in BOOLEAN
  /\ s_time_event \in Nat
  /\ synced \subseteq 1..s_time_event
  /\ waiting \in 0..s_time_event
  /\ sntp_inits \in Nat
  /\ time_set \in BOOLEAN
  /\ panicked \in BOOLEAN
  /\ hx711_q \in {"NULL", "hx711"}
  /\ sampling \in BOOLEAN
  /\ wm_queue \in {"NULL", "hx711", "own"}
  /\ wm_tasks \in Nat
  /\ http_starts \in BOOLEAN
  /\ link \in {"off", "starting", "idle", "associated", "ip"}
  /\ joining \in BOOLEAN
  /\ ev_queue \in Seq(Events)
  /\ drops \in 0..MaxDrops
  /\ leases \in 0..MaxLeases

\* Before the event groups exist nothing is going on that could need them.
Quiet ==
  /\ ev_queue = <<>>
  /\ pc["sys_evt"] = "idle"
  /\ wifi_bits = {}
  /\ pc["wifi_scan"] = "none"
  /\ link = "off"

Made ==
  /\ pc["app_main"] = "groups" => Quiet
  /\ pc["app_main"] # "groups" => event_groups
  /\ pc["app_main"] = "wifi_start" => link = "off"
  /\ pc["app_main"] \in {"wifi_start", "sta_wait"} => pc["wifi_scan"] = "none"
  /\ \A t \in Callers : pc[t] \in {"sntp_mode", "sntp_init"} => s_time_event # 0
  /\ sntp_inits > 0 => s_time_event # 0
  /\ time_set => s_time_event # 0 /\ (synced # {} \/ pc["lwip"] = "notify")
  /\ pc["lwip"] = "notify" => s_time_event # 0
  /\ pc["sys_evt"] = "sntp_wait" => waiting # 0
  /\ pc["app_main"] = "hx_task" => hx711_q = "hx711"
  /\ sampling => hx711_q # "NULL"
  /\ \A t \in Callers : pc[t] = "wm_task" => wm_queue # "NULL"
  /\ wm_tasks > 0 => wm_queue # "NULL"

\* What app_main has contributed to the counts at the most.
GroupShare ==
  IF pc["app_main"] \in {"groups", "wifi_start", "sta_wait", "poll", "decide", "sntp_test",
                         "sntp_create"} THEN 0 ELSE 1
SntpShare ==
  IF pc["app_main"] \in {"groups", "wifi_start", "sta_wait", "poll", "decide", "sntp_test",
                         "sntp_create", "sntp_mode", "sntp_init"} THEN 0 ELSE 1
ManagerShare == IF pc["app_main"] = "loop" THEN 1 ELSE 0

\* The event task adds one to each count at the most: once it has, the test it
\* passed fails for good.
AtMostTwice ==
  /\ s_time_event <= GroupShare + 1
  /\ pc["sys_evt"] = "sntp_create" => s_time_event <= GroupShare
  /\ sntp_inits <= SntpShare + 1
  /\ pc["sys_evt"] \in {"sntp_create", "sntp_mode", "sntp_init"} => sntp_inits <= SntpShare
  /\ wm_tasks <= ManagerShare + 1
  /\ pc["sys_evt"] \in {"wm_assign", "wm_task"} => wm_tasks <= ManagerShare

Inv == PcOK /\ DataOK /\ Made /\ AtMostTwice

-----------------------------------------------------------------------------
\* Every step leaves every task at one of its own labels.
LEMMA PcStep == ASSUME Inv, [Next]_vars PROVE PcOK'
<1> USE DEF Inv, Goto, Callers, shared, sntp, wm, hx, driver, PcOK, Tasks, Labels, StartLabels, AppLabels,
       EventLabels
<1>1. CASE CreateEventGroups
  BY <1>1 DEF CreateEventGroups
<1>2. CASE StartWifi
  BY <1>2 DEF StartWifi
<1>3. CASE StationStarted
  BY <1>3 DEF StationStarted
<1>4. CASE PollConnected
  BY <1>4 DEF PollConnected, wifi_is_connected
<1>5. CASE DecideSntp
  BY <1>5 DEF DecideSntp, wifi_is_connected
<1>6. CASE CreateQueue
  BY <1>6 DEF CreateQueue
<1>7. CASE CreateSampler
  BY <1>7 DEF CreateSampler
<1>8. CASE \E t \in Callers : SntpTest(t)
  BY <1>8 DEF SntpTest, AfterSntp
<1>9. CASE \E t \in Callers : SntpCreate(t)
  BY <1>9 DEF SntpCreate
<1>10. CASE \E t \in Callers : SntpInit(t)
  BY <1>10 DEF SntpInit, AfterSntp
<1>11. CASE \E t \in Callers : GetQueue(t)
  BY <1>11 DEF GetQueue
<1>12. CASE \E t \in Callers : ManagerTest(t)
  BY <1>12 DEF ManagerTest, AfterManager
<1>13. CASE \E t \in Callers : ManagerAssign(t)
  BY <1>13 DEF ManagerAssign
<1>14. CASE \E t \in Callers : ManagerCreate(t)
  BY <1>14 DEF ManagerCreate, AfterManager
<1>15. CASE \E event \in BitEvents : BitEvent(event)
  BY <1>15 DEF BitEvent, Handling, BitEvents, BitOf
<1>16. CASE Disconnected
  BY <1>16 DEF Disconnected, Handling
<1>17. CASE GotIp
  BY <1>17 DEF GotIp, Handling
<1>18. CASE sntp_time_available
  BY <1>18 DEF sntp_time_available
<1>19. CASE Synced \/ SyncTimedOut
  BY <1>19 DEF Synced, SyncTimedOut
<1>20. CASE time_sync_notification_cb
  BY <1>20 DEF time_sync_notification_cb
<1>21. CASE start_https_server
  BY <1>21 DEF start_https_server
<1>22. CASE ScanStart
  BY <1>22 DEF ScanStart
<1>23. CASE ScanEnd
  BY <1>23 DEF ScanEnd
<1>24. CASE ConnectStart
  BY <1>24 DEF ConnectStart
<1>25. CASE ConnectEnd
  BY <1>25 DEF ConnectEnd, wifi_is_connected
<1>26. CASE DriverStarted
  BY <1>26 DEF DriverStarted, Post
<1>27. CASE DriverScanned
  BY <1>27 DEF DriverScanned, Post
<1>28. CASE DriverJoins
  BY <1>28 DEF DriverJoins, Post
<1>29. CASE DriverLeases
  BY <1>29 DEF DriverLeases, Post
<1>30. CASE DriverDrops
  BY <1>30 DEF DriverDrops, Post
<1>32. CASE \E t \in Callers : SntpMode(t)
  BY <1>32 DEF SntpMode
<1>33. CASE ClockSet
  BY <1>33 DEF ClockSet
<1>31. CASE Loop \/ Halted \/ UNCHANGED vars
  BY <1>31 DEF Loop, Halted, vars
<1> QED
  BY <1>1, <1>2, <1>3, <1>4, <1>5, <1>6, <1>7, <1>8, <1>9, <1>10, <1>11,
     <1>12, <1>13, <1>14, <1>15, <1>16, <1>17, <1>18, <1>19, <1>20, <1>21,
     <1>22, <1>23, <1>24, <1>25, <1>26, <1>27, <1>28, <1>29, <1>30, <1>31,
     <1>32, <1>33
  DEF Next, AppMain, Start, Handler, StationTasks, Lwip, Driver

\* Every step leaves the shared state in its type.
LEMMA DataStep == ASSUME Inv, [Next]_vars PROVE DataOK'
<1> USE BootstrapAssumption DEF Inv, Goto, Callers, shared, sntp, wm, hx, driver, DataOK, Events
<1>1. CASE CreateEventGroups
  BY <1>1 DEF CreateEventGroups
<1>2. CASE StartWifi
  BY <1>2 DEF StartWifi
<1>3. CASE StationStarted
  BY <1>3 DEF StationStarted
<1>4. CASE PollConnected
  BY <1>4 DEF PollConnected, wifi_is_connected
<1>5. CASE DecideSntp
  BY <1>5 DEF DecideSntp, wifi_is_connected
<1>6. CASE CreateQueue
  BY <1>6 DEF CreateQueue
<1>7. CASE CreateSampler
  BY <1>7 DEF CreateSampler
<1>8. CASE \E t \in Callers : SntpTest(t)
  BY <1>8 DEF SntpTest, AfterSntp
<1>9. CASE \E t \in Callers : SntpCreate(t)
  BY <1>9 DEF SntpCreate
<1>10. CASE \E t \in Callers : SntpInit(t)
  BY <1>10 DEF SntpInit, AfterSntp
<1>11. CASE \E t \in Callers : GetQueue(t)
  BY <1>11 DEF GetQueue
<1>12. CASE \E t \in Callers : ManagerTest(t)
  BY <1>12 DEF ManagerTest, AfterManager
<1>13. CASE \E t \in Callers : ManagerAssign(t)
  BY <1>13 DEF ManagerAssign
<1>14. CASE \E t \in Callers : ManagerCreate(t)
  BY <1>14 DEF ManagerCreate, AfterManager
<1>15. CASE \E event \in BitEvents : BitEvent(event)
  <2>1. PICK event \in {"STA_START", "SCAN_DONE", "STA_CONNECTED"} : BitEvent(event)
    BY <1>15 DEF BitEvents
  <2>2. wifi_bits' \subseteq {"STA_START", "SCAN_DONE", "CONNECTED"}
    BY <2>1 DEF BitEvent, BitOf
  <2>3. ev_queue' \in Seq(Events)
    BY <2>1 DEF BitEvent, Handling
  <2> QED BY <2>1, <2>2, <2>3 DEF BitEvent
<1>16. CASE Disconnected
  BY <1>16 DEF Disconnected, Handling
<1>17. CASE GotIp
  BY <1>17 DEF GotIp, Handling
<1>18. CASE sntp_time_available
  BY <1>18 DEF sntp_time_available
<1>19. CASE Synced \/ SyncTimedOut
  <2>1. UNCHANGED <<retries, shared, sntp, wm, hx, http_starts, driver>>
    BY <1>19 DEF Synced, SyncTimedOut
  <2> QED BY <2>1
<1>20. CASE time_sync_notification_cb
  <2>1. UNCHANGED <<retries, shared, s_time_event, waiting, sntp_inits, time_set, panicked, wm,
                    hx, http_starts, driver>>
    BY <1>20 DEF time_sync_notification_cb
  <2>2. synced' \subseteq 1..s_time_event
    BY <1>20 DEF time_sync_notification_cb, Made
  <2> QED BY <2>1, <2>2
<1>21. CASE start_https_server
  BY <1>21 DEF start_https_server
<1>22. CASE ScanStart
  BY <1>22 DEF ScanStart
<1>23. CASE ScanEnd
  BY <1>23 DEF ScanEnd
<1>24. CASE ConnectStart
  BY <1>24 DEF ConnectStart
<1>25. CASE ConnectEnd
  BY <1>25 DEF ConnectEnd, wifi_is_connected
<1>26. CASE DriverStarted
  BY <1>26 DEF DriverStarted, Post
<1>27. CASE DriverScanned
  BY <1>27 DEF DriverScanned, Post
<1>28. CASE DriverJoins
  <2>1. joining' \in BOOLEAN /\ link' \in {"off", "starting", "idle", "associated", "ip"}
    BY <1>28 DEF DriverJoins
  <2>2. ev_queue' \in Seq(Events)
    <3>1. \E event \in Events : ev_queue' = Append(ev_queue, event)
      BY <1>28 DEF DriverJoins, Post
    <3> QED BY <3>1
  <2>3. drops' \in 0..MaxDrops
    BY <1>28 DEF DriverJoins
  <2> QED BY <1>28, <2>1, <2>2, <2>3 DEF DriverJoins, Post
<1>29. CASE DriverLeases
  BY <1>29 DEF DriverLeases, Post
<1>30. CASE DriverDrops
  BY <1>30 DEF DriverDrops, Post
<1>32. CASE \E t \in Callers : SntpMode(t)
  <2>1. UNCHANGED <<retries, shared, s_time_event, synced, waiting, sntp_inits, time_set, wm,
                    hx, http_starts, driver>>
    BY <1>32 DEF SntpMode
  <2>2. panicked' = TRUE \/ panicked' = panicked
    <3>1. PICK t \in Callers : SntpMode(t)
      BY <1>32
    <3> QED BY <3>1, Zenon DEF SntpMode
  <2>3. panicked' \in BOOLEAN
    BY <2>2, Zenon
  <2> QED BY <2>1, <2>3
<1>33. CASE ClockSet
  <2>1. UNCHANGED <<retries, shared, s_time_event, synced, waiting, sntp_inits, panicked, wm,
                    hx, http_starts, driver>>
    BY <1>33 DEF ClockSet
  <2>2. time_set' \in BOOLEAN
    BY <1>33, Zenon DEF ClockSet
  <2> QED BY <2>1, <2>2
<1>31. CASE Loop \/ Halted \/ UNCHANGED vars
  <2>1. UNCHANGED <<pc, retries, arg, event_groups, wifi_bits, s_scan_successful,
                    s_time_event, synced, waiting, sntp_inits, time_set, panicked, hx711_q, sampling,
                    wm_queue, wm_tasks, http_starts, link, joining, ev_queue, drops, leases>>
    BY <1>31 DEF Loop, Halted, vars
  <2> QED BY <2>1
<1> QED
  BY <1>1, <1>2, <1>3, <1>4, <1>5, <1>6, <1>7, <1>8, <1>9, <1>10, <1>11,
     <1>12, <1>13, <1>14, <1>15, <1>16, <1>17, <1>18, <1>19, <1>20, <1>21,
     <1>22, <1>23, <1>24, <1>25, <1>26, <1>27, <1>28, <1>29, <1>30, <1>31,
     <1>32, <1>33
  DEF Next, AppMain, Start, Handler, StationTasks, Lwip, Driver

\* No step uses what was not made.
LEMMA MadeStep == ASSUME Inv, [Next]_vars PROVE Made'
<1> USE DEF Inv, Goto, Callers, shared, sntp, wm, hx, driver, PcOK, DataOK, Tasks, Made, Quiet
<1>1. CASE CreateEventGroups
  BY <1>1 DEF CreateEventGroups
<1>2. CASE StartWifi
  BY <1>2 DEF StartWifi
<1>3. CASE StationStarted
  BY <1>3 DEF StationStarted
<1>4. CASE PollConnected
  BY <1>4 DEF PollConnected, wifi_is_connected
<1>5. CASE DecideSntp
  BY <1>5 DEF DecideSntp, wifi_is_connected
<1>6. CASE CreateQueue
  BY <1>6 DEF CreateQueue
<1>7. CASE CreateSampler
  BY <1>7 DEF CreateSampler
<1>8. CASE \E t \in Callers : SntpTest(t)
  BY <1>8 DEF SntpTest, AfterSntp
<1>9. CASE \E t \in Callers : SntpCreate(t)
  BY <1>9 DEF SntpCreate
<1>10. CASE \E t \in Callers : SntpInit(t)
  BY <1>10 DEF SntpInit, AfterSntp
<1>11. CASE \E t \in Callers : GetQueue(t)
  BY <1>11 DEF GetQueue
<1>12. CASE \E t \in Callers : ManagerTest(t)
  BY <1>12 DEF ManagerTest, AfterManager
<1>13. CASE \E t \in Callers : ManagerAssign(t)
  BY <1>13 DEF ManagerAssign
<1>14. CASE \E t \in Callers : ManagerCreate(t)
  BY <1>14 DEF ManagerCreate, AfterManager
<1>15. CASE \E event \in BitEvents : BitEvent(event)
  BY <1>15 DEF BitEvent, Handling, BitEvents, BitOf
<1>16. CASE Disconnected
  BY <1>16 DEF Disconnected, Handling
<1>17. CASE GotIp
  BY <1>17 DEF GotIp, Handling
<1>18. CASE sntp_time_available
  BY <1>18 DEF sntp_time_available
<1>19. CASE Synced \/ SyncTimedOut
  BY <1>19 DEF Synced, SyncTimedOut
<1>20. CASE time_sync_notification_cb
  BY <1>20 DEF time_sync_notification_cb
<1>21. CASE start_https_server
  BY <1>21 DEF start_https_server
<1>22. CASE ScanStart
  BY <1>22 DEF ScanStart
<1>23. CASE ScanEnd
  BY <1>23 DEF ScanEnd
<1>24. CASE ConnectStart
  BY <1>24 DEF ConnectStart
<1>25. CASE ConnectEnd
  BY <1>25 DEF ConnectEnd, wifi_is_connected
<1>26. CASE DriverStarted
  BY <1>26 DEF DriverStarted, Post
<1>27. CASE DriverScanned
  BY <1>27 DEF DriverScanned, Post
<1>28. CASE DriverJoins
  BY <1>28 DEF DriverJoins, Post
<1>29. CASE DriverLeases
  BY <1>29 DEF DriverLeases, Post
<1>30. CASE DriverDrops
  BY <1>30 DEF DriverDrops, Post
<1>32. CASE \E t \in Callers : SntpMode(t)
  BY <1>32 DEF SntpMode
<1>33. CASE ClockSet
  BY <1>33 DEF ClockSet
<1>31. CASE Loop \/ Halted \/ UNCHANGED vars
  <2>1. UNCHANGED <<pc, retries, arg, event_groups, wifi_bits, s_scan_successful,
                    s_time_event, synced, waiting, sntp_inits, time_set, panicked, hx711_q, sampling,
                    wm_queue, wm_tasks, http_starts, link, joining, ev_queue, drops, leases>>
    BY <1>31 DEF Loop, Halted, vars
  <2> QED BY <2>1
<1> QED
  BY <1>1, <1>2, <1>3, <1>4, <1>5, <1>6, <1>7, <1>8, <1>9, <1>10, <1>11,
     <1>12, <1>13, <1>14, <1>15, <1>16, <1>17, <1>18, <1>19, <1>20, <1>21,
     <1>22, <1>23, <1>24, <1>25, <1>26, <1>27, <1>28, <1>29, <1>30, <1>31,
     <1>32, <1>33
  DEF Next, AppMain, Start, Handler, StationTasks, Lwip, Driver

\* No step adds a third.
LEMMA TwiceStep == ASSUME Inv, [Next]_vars PROVE AtMostTwice'
<1> USE DEF Inv, Goto, Callers, shared, sntp, wm, hx, driver, PcOK, DataOK, Tasks, Made, AtMostTwice, GroupShare, SntpShare,
       ManagerShare
<1>1. CASE CreateEventGroups
  BY <1>1 DEF CreateEventGroups
<1>2. CASE StartWifi
  BY <1>2 DEF StartWifi
<1>3. CASE StationStarted
  BY <1>3 DEF StationStarted
<1>4. CASE PollConnected
  BY <1>4 DEF PollConnected, wifi_is_connected
<1>5. CASE DecideSntp
  BY <1>5 DEF DecideSntp, wifi_is_connected
<1>6. CASE CreateQueue
  BY <1>6 DEF CreateQueue
<1>7. CASE CreateSampler
  BY <1>7 DEF CreateSampler
<1>8. CASE \E t \in Callers : SntpTest(t)
  BY <1>8 DEF SntpTest, AfterSntp
<1>9. CASE \E t \in Callers : SntpCreate(t)
  BY <1>9 DEF SntpCreate
<1>10. CASE \E t \in Callers : SntpInit(t)
  BY <1>10 DEF SntpInit, AfterSntp
<1>11. CASE \E t \in Callers : GetQueue(t)
  BY <1>11 DEF GetQueue
<1>12. CASE \E t \in Callers : ManagerTest(t)
  BY <1>12 DEF ManagerTest, AfterManager
<1>13. CASE \E t \in Callers : ManagerAssign(t)
  BY <1>13 DEF ManagerAssign
<1>14. CASE \E t \in Callers : ManagerCreate(t)
  BY <1>14 DEF ManagerCreate, AfterManager
<1>15. CASE \E event \in BitEvents : BitEvent(event)
  BY <1>15 DEF BitEvent, Handling, BitEvents, BitOf
<1>16. CASE Disconnected
  BY <1>16 DEF Disconnected, Handling
<1>17. CASE GotIp
  BY <1>17 DEF GotIp, Handling
<1>18. CASE sntp_time_available
  BY <1>18 DEF sntp_time_available
<1>19. CASE Synced \/ SyncTimedOut
  BY <1>19 DEF Synced, SyncTimedOut
<1>20. CASE time_sync_notification_cb
  BY <1>20 DEF time_sync_notification_cb
<1>21. CASE start_https_server
  BY <1>21 DEF start_https_server
<1>22. CASE ScanStart
  BY <1>22 DEF ScanStart
<1>23. CASE ScanEnd
  BY <1>23 DEF ScanEnd
<1>24. CASE ConnectStart
  BY <1>24 DEF ConnectStart
<1>25. CASE ConnectEnd
  BY <1>25 DEF ConnectEnd, wifi_is_connected
<1>26. CASE DriverStarted
  BY <1>26 DEF DriverStarted, Post
<1>27. CASE DriverScanned
  BY <1>27 DEF DriverScanned, Post
<1>28. CASE DriverJoins
  BY <1>28 DEF DriverJoins, Post
<1>29. CASE DriverLeases
  BY <1>29 DEF DriverLeases, Post
<1>30. CASE DriverDrops
  BY <1>30 DEF DriverDrops, Post
<1>32. CASE \E t \in Callers : SntpMode(t)
  BY <1>32 DEF SntpMode
<1>33. CASE ClockSet
  BY <1>33 DEF ClockSet
<1>31. CASE Loop \/ Halted \/ UNCHANGED vars
  BY <1>31 DEF Loop, Halted, vars
<1> QED
  BY <1>1, <1>2, <1>3, <1>4, <1>5, <1>6, <1>7, <1>8, <1>9, <1>10, <1>11,
     <1>12, <1>13, <1>14, <1>15, <1>16, <1>17, <1>18, <1>19, <1>20, <1>21,
     <1>22, <1>23, <1>24, <1>25, <1>26, <1>27, <1>28, <1>29, <1>30, <1>31,
     <1>32, <1>33
  DEF Next, AppMain, Start, Handler, StationTasks, Lwip, Driver
-----------------------------------------------------------------------------
\* The invariant holds initially and is what TypeOK needs.
LEMMA InvInit == Init => Inv
<1> SUFFICES ASSUME Init PROVE Inv
  OBVIOUS
<1> USE BootstrapAssumption DEF Init, Callers, Tasks
<1>1. PcOK
  BY DEF PcOK, Labels, StartLabels, AppLabels, EventLabels
<1>2. DataOK
  <2>1. arg \in [Callers -> {"NULL", "hx711"}] /\ ev_queue \in Seq(Events)
    OBVIOUS
  <2>2. event_groups \in BOOLEAN /\ s_scan_successful \in BOOLEAN
    OBVIOUS
  <2>3. /\ sampling \in BOOLEAN /\ time_set \in BOOLEAN
        /\ s_time_event \in Nat /\ synced \subseteq 1..s_time_event
        /\ waiting \in 0..s_time_event
    <3>1. s_time_event = 0 /\ synced = {} /\ waiting = 0 /\ sampling = FALSE /\ time_set = FALSE
      OBVIOUS
    <3>2. sampling \in BOOLEAN /\ time_set \in BOOLEAN
      BY <3>1, Zenon
    <3>3. s_time_event \in Nat /\ synced \subseteq 1..s_time_event /\ waiting \in 0..s_time_event
      BY <3>1
    <3> QED BY <3>2, <3>3
  <2>4. http_starts \in BOOLEAN /\ joining \in BOOLEAN
    OBVIOUS
  <2>5. retries \in 0..MaxRetries /\ drops \in 0..MaxDrops /\ leases \in 0..MaxLeases
    OBVIOUS
  <2> QED BY <2>1, <2>2, <2>3, <2>4, <2>5 DEF DataOK
<1>3. Made
  BY DEF Made, Quiet
<1>4. AtMostTwice
  BY DEF AtMostTwice, GroupShare, SntpShare, ManagerShare
<1> QED BY <1>1, <1>2, <1>3, <1>4 DEF Inv

LEMMA InvType == Inv => TypeOK
BY DEF Inv, PcOK, DataOK, AtMostTwice, GroupShare, SntpShare, ManagerShare, TypeOK

\* The inductive invariant is an invariant.
THEOREM BootstrapInvariant == Spec => []Inv
<1>1. Inv /\ [Next]_vars => Inv'
  BY PcStep, DataStep, MadeStep, TwiceStep DEF Inv
<1> QED BY <1>1, InvInit, PTL DEF Spec

\* Types are kept, and SNTP and the weight manager are started at most twice:
\* once by app_main and once by all the GOT_IP events together (sntp_synch.c:
\* 34-48, weight_manager.c:159-180).
THEOREM BootstrapTypeCorrect == Spec => []TypeOK
BY BootstrapInvariant, InvType, PTL

\* Nothing is used before it was made (wifi_comm.c:97-102, sntp_synch.c:40-47,
\* hx711.c:113-131, weight_manager.c:160-173).
THEOREM BootstrapMadeBeforeUse == Spec => []MadeBeforeUse
<1>1. Inv => MadeBeforeUse
  BY DEF Inv, PcOK, DataOK, Made, Quiet, MadeBeforeUse
<1> QED BY <1>1, BootstrapInvariant, PTL

-----------------------------------------------------------------------------
(***************************************************************************)
(* The connected bit.  BitFollowsAssociation speaks of a queue without link       *)
(* events only; the inductive form adds that the last link event in a      *)
(* queue that has one announces the state the link is in.                  *)
(***************************************************************************)
LinkEvents == {"STA_CONNECTED", "STA_DISCONNECTED"}

LastWord ==
  \A i \in 1..Len(ev_queue) :
    /\ ev_queue[i] \in LinkEvents
    /\ \A j \in 1..Len(ev_queue) : j > i => ev_queue[j] \notin LinkEvents
    => (ev_queue[i] = "STA_CONNECTED" <=> Associated)

LinkInv == BitFollowsAssociation /\ LastWord

\* Posting an event that is not about the link, the link being as it was.
LEMMA PostOther ==
  ASSUME Inv, LinkInv, NEW e \in Events \ LinkEvents, ev_queue' = Append(ev_queue, e),
         (Associated' <=> Associated), wifi_is_connected' <=> wifi_is_connected
  PROVE  LinkInv'
<1> USE DEF Inv, DataOK
<1>1. /\ Len(ev_queue') = Len(ev_queue) + 1
      /\ \A i \in 1..Len(ev_queue) : ev_queue'[i] = ev_queue[i]
      /\ ev_queue'[Len(ev_queue) + 1] = e
  OBVIOUS
<1>2. BitFollowsAssociation'
  BY <1>1 DEF LinkInv, BitFollowsAssociation, wifi_is_connected, Associated, LinkEvents
<1>3. LastWord'
  BY <1>1 DEF LinkInv, LastWord
<1> QED BY <1>2, <1>3 DEF LinkInv

\* Posting the event that says what the link has become.
LEMMA PostLink ==
  ASSUME Inv, NEW e \in LinkEvents, ev_queue' = Append(ev_queue, e),
         e = "STA_CONNECTED" <=> Associated'
  PROVE  LinkInv'
<1> USE DEF Inv, DataOK
<1>1. /\ Len(ev_queue') = Len(ev_queue) + 1
      /\ Len(ev_queue) \in Nat
      /\ ev_queue'[Len(ev_queue) + 1] = e
  BY DEF Events, LinkEvents
<1>2. BitFollowsAssociation'
  BY <1>1 DEF BitFollowsAssociation, wifi_is_connected, LinkEvents
<1>3. LastWord'
  <2> SUFFICES ASSUME NEW i \in 1..(Len(ev_queue) + 1),
                      \A j \in 1..(Len(ev_queue) + 1) : j > i => ev_queue'[j] \notin LinkEvents
               PROVE  ev_queue'[i] = "STA_CONNECTED" <=> Associated'
    BY <1>1 DEF LastWord
  <2>1. i = Len(ev_queue) + 1
    BY <1>1
  <2> QED BY <1>1, <2>1
<1> QED BY <1>2, <1>3 DEF LinkInv

\* Taking an event off the queue and applying it, if it is about the link.
LEMMA HandleOne ==
  ASSUME Inv, LinkInv, ev_queue # <<>>, ev_queue' = Tail(ev_queue), (Associated' <=> Associated),
         IF Head(ev_queue) \in LinkEvents
           THEN wifi_is_connected' <=> Head(ev_queue) = "STA_CONNECTED"
           ELSE wifi_is_connected' <=> wifi_is_connected
  PROVE  LinkInv'
<1> USE DEF Inv, DataOK
<1>1. /\ Len(ev_queue) \in Nat \ {0}
      /\ Len(ev_queue') = Len(ev_queue) - 1
      /\ \A i \in 1..(Len(ev_queue) - 1) : ev_queue'[i] = ev_queue[i + 1]
      /\ Head(ev_queue) = ev_queue[1]
  OBVIOUS
<1>2. LastWord'
  <2> SUFFICES ASSUME NEW i \in 1..(Len(ev_queue) - 1), ev_queue'[i] \in LinkEvents,
                      \A j \in 1..(Len(ev_queue) - 1) : j > i => ev_queue'[j] \notin LinkEvents
               PROVE  ev_queue'[i] = "STA_CONNECTED" <=> Associated'
    BY <1>1 DEF LastWord
  <2>1. \A j \in 1..Len(ev_queue) : j > i + 1 => ev_queue[j] \notin LinkEvents
    <3> SUFFICES ASSUME NEW j \in 1..Len(ev_queue), j > i + 1 PROVE ev_queue[j] \notin LinkEvents
      OBVIOUS
    <3>1. j - 1 \in 1..(Len(ev_queue) - 1) /\ j - 1 > i /\ (j - 1) + 1 = j
      BY <1>1
    <3>2. ev_queue'[j - 1] = ev_queue[j]
      BY <3>1, <1>1
    <3> QED BY <3>1, <3>2
  <2>2. i + 1 \in 1..Len(ev_queue) /\ ev_queue'[i] = ev_queue[i + 1]
    BY <1>1
  <2> QED BY <2>1, <2>2 DEF LinkInv, LastWord
<1>3. BitFollowsAssociation'
  <2> SUFFICES ASSUME \A i \in 1..(Len(ev_queue) - 1) : ev_queue'[i] \notin LinkEvents
               PROVE  wifi_is_connected' <=> Associated'
    BY <1>1 DEF BitFollowsAssociation, wifi_is_connected, LinkEvents, Associated
  <2>1. \A j \in 1..Len(ev_queue) : j > 1 => ev_queue[j] \notin LinkEvents
    <3> SUFFICES ASSUME NEW j \in 1..Len(ev_queue), j > 1 PROVE ev_queue[j] \notin LinkEvents
      OBVIOUS
    <3>1. j - 1 \in 1..(Len(ev_queue) - 1) /\ (j - 1) + 1 = j
      BY <1>1
    <3>2. ev_queue'[j - 1] = ev_queue[j]
      BY <3>1, <1>1
    <3> QED BY <3>1, <3>2
  <2>2. CASE Head(ev_queue) \in LinkEvents
    <3>1. ev_queue[1] = "STA_CONNECTED" <=> Associated
      BY <1>1, <2>1, <2>2 DEF LinkInv, LastWord
    <3> QED BY <1>1, <2>2, <3>1
  <2>3. CASE Head(ev_queue) \notin LinkEvents
    <3>1. \A j \in 1..Len(ev_queue) : ev_queue[j] \notin LinkEvents
      BY <1>1, <2>1, <2>3
    <3>2. wifi_is_connected <=> Associated
      BY <3>1 DEF LinkInv, BitFollowsAssociation, wifi_is_connected, LinkEvents, Associated
    <3> QED BY <2>3, <3>2
  <2> QED BY <2>2, <2>3
<1> QED BY <1>2, <1>3 DEF LinkInv

\* A step that touches neither the queue nor the link nor the bit.
LEMMA LinkUntouched ==
  ASSUME LinkInv, UNCHANGED ev_queue, (Associated' <=> Associated),
         wifi_is_connected' <=> wifi_is_connected
  PROVE  LinkInv'
BY DEF LinkInv, BitFollowsAssociation, wifi_is_connected, LastWord, Associated

\* Every step keeps the connected bit and the queue in line with the link.
LEMMA LinkStep == ASSUME Inv, LinkInv, [Next]_vars PROVE LinkInv'
<1> USE DEF Goto, Callers, shared, sntp, wm, hx, driver
<1>1. CASE Driver
  <2>1. CASE DriverStarted
    BY <2>1, PostOther DEF DriverStarted, Post, Events, LinkEvents, Associated, wifi_is_connected
  <2>2. CASE DriverScanned
    BY <2>2, PostOther DEF DriverScanned, Post, Events, LinkEvents, Associated, wifi_is_connected
  <2>3. CASE DriverJoins
    BY <2>3, PostLink DEF DriverJoins, Post, LinkEvents, Associated
  <2>4. CASE DriverLeases
    BY <2>4, PostOther DEF DriverLeases, Post, Events, LinkEvents, Associated, wifi_is_connected
  <2>5. CASE DriverDrops
    BY <2>5, PostLink DEF DriverDrops, Post, LinkEvents, Associated
  <2> QED BY <1>1, <2>1, <2>2, <2>3, <2>4, <2>5 DEF Driver
<1>2. CASE \E event \in BitEvents : BitEvent(event)
  <2>1. PICK event \in BitEvents : BitEvent(event)
    BY <1>2
  <2>2. IF Head(ev_queue) \in LinkEvents
          THEN wifi_is_connected' <=> Head(ev_queue) = "STA_CONNECTED"
          ELSE wifi_is_connected' <=> wifi_is_connected
    BY <2>1 DEF BitEvent, Handling, BitEvents, BitOf, LinkEvents, wifi_is_connected
  <2> QED BY <2>1, <2>2, HandleOne DEF BitEvent, Handling, Associated
<1>3. CASE Disconnected
  BY <1>3, HandleOne DEF Disconnected, Handling, LinkEvents, Associated, wifi_is_connected
<1>4. CASE GotIp
  BY <1>4, HandleOne DEF GotIp, Handling, LinkEvents, Associated, wifi_is_connected
<1>5. CASE sntp_time_available \/ Synced \/ SyncTimedOut \/ start_https_server
           \/ ClockSet \/ time_sync_notification_cb
  BY <1>5, LinkUntouched
  DEF sntp_time_available, Synced, SyncTimedOut, start_https_server,
      ClockSet, time_sync_notification_cb, Associated, wifi_is_connected
<1>6. CASE AppMain /\ ~Loop
  BY <1>6, LinkUntouched
  DEF Inv, Made, AppMain, CreateEventGroups, StartWifi, StationStarted, PollConnected, DecideSntp,
      CreateQueue, CreateSampler, Associated, wifi_is_connected
<1>7. CASE \E t \in Callers : Start(t)
  BY <1>7, LinkUntouched
  DEF Start, SntpTest, SntpCreate, SntpMode, SntpInit, GetQueue, ManagerTest, ManagerAssign,
      ManagerCreate, Associated, wifi_is_connected
<1>8. CASE StationTasks
  BY <1>8, LinkUntouched
  DEF StationTasks, ScanStart, ScanEnd, ConnectStart, ConnectEnd, Associated, wifi_is_connected
<1>9. CASE Loop \/ Halted \/ UNCHANGED vars
  BY <1>9, LinkUntouched DEF Loop, Halted, vars, Associated, wifi_is_connected
<1> QED BY <1>1, <1>2, <1>3, <1>4, <1>5, <1>6, <1>7, <1>8, <1>9 DEF Next, Handler, Lwip

\* The connected bit is out of date only while a link event waits to be handled
\* (wifi_comm.c:130-138), however long the queue and however often the link is
\* lost.
THEOREM BootstrapBitFollowsAssociation == Spec => []BitFollowsAssociation
<1>1. Init => LinkInv
  BY DEF Init, LinkInv, BitFollowsAssociation, Associated, LastWord, wifi_is_connected
<1>2. Inv /\ LinkInv /\ [Next]_vars => LinkInv'
  BY LinkStep
<1>3. LinkInv => BitFollowsAssociation
  BY DEF LinkInv
<1> QED BY <1>1, <1>2, <1>3, BootstrapInvariant, PTL DEF Spec

-----------------------------------------------------------------------------
\* The handler reports a timeout of SNTP with the clock set only while the callback
\* has still to set the bit, or when two groups were created (sntp_synch.c:17-32,
\* 50-63, wifi_comm.c:148-153).
THEOREM BootstrapTimeoutMeansUnset == Spec => TimeoutMeansUnset
<1>1. Inv => (SyncTimedOut /\ s_time_event = 1 => ~time_set \/ pc["lwip"] = "notify")
  <2> SUFFICES ASSUME Inv, SyncTimedOut, s_time_event = 1, time_set, pc["lwip"] # "notify"
               PROVE  FALSE
    OBVIOUS
  <2>1. PICK group \in synced : group \in 1..1
    BY DEF Inv, DataOK, Made
  <2>2. waiting = 1
    BY DEF Inv, DataOK, Made, SyncTimedOut
  <2>3. 1 \in synced
    BY <2>1
  <2> QED BY <2>2, <2>3 DEF SyncTimedOut
<1> QED BY <1>1, BootstrapInvariant, PTL DEF TimeoutMeansUnset

-----------------------------------------------------------------------------
(***************************************************************************)
(* Later starts: what a caller finds that makes its test after the others  *)
(* have finished.                                                          *)
(***************************************************************************)
\* The steps of the two callers apart from the others, which move them only to
\* labels where nothing is started, if at all.
LEMMA OtherSteps ==
  ASSUME Inv, [Next]_vars, \A t \in Callers : ~Start(t)
  PROVE  /\ UNCHANGED <<sntp_inits, wm_tasks, panicked>>
         /\ \A t \in Callers :
              pc'[t] = pc[t] \/ pc'[t] \notin StartLabels \/ pc'[t] \in {"sntp_test", "wm_arg"}
<1> USE DEF Goto, Callers, Tasks, StartLabels, shared, sntp, wm, hx, driver
<1>0. pc \in [Tasks -> Labels]
  BY DEF Inv, PcOK
<1>1. CASE AppMain /\ ~Loop
  BY <1>0, <1>1
  DEF AppMain, CreateEventGroups, StartWifi, StationStarted, PollConnected, DecideSntp,
      CreateQueue, CreateSampler
<1>2. CASE Handler
  BY <1>0, <1>2
  DEF Handler, BitEvent, Disconnected, GotIp, sntp_time_available, Synced, SyncTimedOut,
      start_https_server
<1>3. CASE StationTasks \/ Lwip
  BY <1>0, <1>3
  DEF StationTasks, ScanStart, ScanEnd, ConnectStart, ConnectEnd, Lwip, ClockSet,
      time_sync_notification_cb
<1>4. CASE Driver
  BY <1>0, <1>4
  DEF Driver, DriverStarted, DriverScanned, DriverJoins, DriverLeases, DriverDrops, Post
<1>5. CASE Loop \/ Halted \/ UNCHANGED vars
  BY <1>5 DEF Loop, Halted, vars
<1> QED BY <1>1, <1>2, <1>3, <1>4, <1>5 DEF Next

\* A caller passes its test only while nothing has been created, so once neither
\* is past it, neither gets there again.
LEMMA SntpStaysSettled == ASSUME Inv, SntpSettled, [Next]_vars PROVE SntpSettled'
<1>1. ASSUME NEW t \in Callers, Start(t) PROVE SntpSettled'
  BY <1>1
  DEF Start, SntpTest, SntpCreate, SntpMode, SntpInit, GetQueue, ManagerTest, ManagerAssign,
      ManagerCreate, AfterSntp, AfterManager, Goto, Callers, Tasks, shared, sntp, wm, Inv, PcOK,
      DataOK, Made, SntpSettled
<1>2. CASE \A t \in Callers : ~Start(t)
  BY <1>2, OtherSteps DEF SntpSettled, StartLabels
<1> QED BY <1>1, <1>2

LEMMA ManagerStaysSettled ==
  ASSUME Inv, ManagerSettled, [Next]_vars
  PROVE  ManagerSettled' /\ wm_tasks' = wm_tasks
<1>1. ASSUME NEW t \in Callers, Start(t) PROVE ManagerSettled' /\ wm_tasks' = wm_tasks
  BY <1>1
  DEF Start, SntpTest, SntpCreate, SntpMode, SntpInit, GetQueue, ManagerTest, ManagerAssign,
      ManagerCreate, AfterSntp, AfterManager, Goto, Callers, Tasks, shared, sntp, wm, Inv, PcOK,
      DataOK, Made, ManagerSettled
<1>2. CASE \A t \in Callers : ~Start(t)
  BY <1>2, OtherSteps DEF ManagerSettled, StartLabels
<1> QED BY <1>1, <1>2

\* The chip stays where it panicked.
PanicInMode == panicked => \E t \in Callers : pc[t] = "sntp_mode"

LEMMA PanicStep == ASSUME Inv, PanicInMode, [Next]_vars PROVE PanicInMode'
<1>1. CASE panicked
  <2>1. UNCHANGED vars
    BY <1>1 DEF Next, AppMain, Start, Handler, StationTasks, Lwip, Driver, Halted
  <2> QED BY <2>1 DEF vars, sntp, PanicInMode
<1>2. ASSUME ~panicked, NEW t \in Callers, Start(t) PROVE PanicInMode'
  BY <1>2
  DEF Start, SntpTest, SntpCreate, SntpMode, SntpInit, GetQueue, ManagerTest, ManagerAssign,
      ManagerCreate, Callers, sntp, PanicInMode
<1>3. CASE ~panicked /\ \A t \in Callers : ~Start(t)
  BY <1>3, OtherSteps DEF PanicInMode
<1> QED BY <1>1, <1>2, <1>3

\* Only the race of app_main with the first GOT_IP can abort in lwIP's assertion:
\* however many addresses are obtained afterwards, the chip does not panic
\* (sntp_synch.c:36-47).
THEOREM BootstrapLaterSntpStartsHarmless == Spec => LaterSntpStartsHarmless
<1>1. Init => PanicInMode
  BY DEF Init, PanicInMode
<1>2. Inv /\ PanicInMode /\ [Next]_vars => PanicInMode'
  BY PanicStep
<1>3. PanicInMode /\ SntpSettled => ~panicked
  BY DEF PanicInMode, SntpSettled
<1>4. Inv /\ SntpSettled /\ [Next]_vars => SntpSettled'
  BY SntpStaysSettled
<1> QED
  BY <1>1, <1>2, <1>3, <1>4, BootstrapInvariant, PTL DEF Spec, LaterSntpStartsHarmless

\* Only the same race can make two weight managers: however many addresses are
\* obtained afterwards, one remains one (weight_manager.c:159-180).
THEOREM BootstrapLaterManagerStartsHarmless == Spec => LaterManagerStartsHarmless
<1>1. Inv /\ (ManagerSettled /\ wm_tasks = 1) /\ [Next]_vars => (ManagerSettled /\ wm_tasks = 1)'
  BY ManagerStaysSettled
<1> QED BY <1>1, BootstrapInvariant, PTL DEF Spec, LaterManagerStartsHarmless

-----------------------------------------------------------------------------
(***************************************************************************)
(* The station: what it joins, and that it goes on joining.                *)
(***************************************************************************)
Lost == \E i \in 1..Len(ev_queue) : ev_queue[i] = "STA_DISCONNECTED"

\* Before the scan has found the access point nothing joins it, nothing has lost
\* it, and the scan's result is set once.
Found ==
  /\ s_scan_successful => pc["wifi_scan"] = "deleted"
  /\ ~s_scan_successful => ~joining /\ ~Associated /\ ~Lost

StationInv == Found /\ NeverGivesUp

\* An event is posted at the end ...
LEMMA LostPosted ==
  ASSUME Inv, NEW e \in Events, ev_queue' = Append(ev_queue, e)
  PROVE  Lost' <=> Lost \/ e = "STA_DISCONNECTED"
<1> USE DEF Inv, DataOK
<1>1. /\ Len(ev_queue) \in Nat
      /\ Len(ev_queue') = Len(ev_queue) + 1
      /\ \A i \in 1..Len(ev_queue) : ev_queue'[i] = ev_queue[i]
      /\ ev_queue'[Len(ev_queue) + 1] = e
  OBVIOUS
<1> QED BY <1>1 DEF Lost

\* ... and handled at the head.
LEMMA LostHandled ==
  ASSUME Inv, ev_queue # <<>>, ev_queue' = Tail(ev_queue)
  PROVE  /\ Lost' => Lost
         /\ Lost /\ Head(ev_queue) # "STA_DISCONNECTED" => Lost'
<1> USE DEF Inv, DataOK
<1>1. /\ Len(ev_queue) \in Nat \ {0}
      /\ Len(ev_queue') = Len(ev_queue) - 1
      /\ \A i \in 1..(Len(ev_queue) - 1) : ev_queue'[i] = ev_queue[i + 1]
      /\ Head(ev_queue) = ev_queue[1]
  OBVIOUS
<1>2. ASSUME Lost' PROVE Lost
  <2>1. PICK i \in 1..(Len(ev_queue) - 1) : ev_queue'[i] = "STA_DISCONNECTED"
    BY <1>1, <1>2 DEF Lost
  <2>2. i + 1 \in 1..Len(ev_queue) /\ ev_queue[i + 1] = "STA_DISCONNECTED"
    BY <1>1, <2>1
  <2> QED BY <2>2 DEF Lost
<1>3. ASSUME Lost, Head(ev_queue) # "STA_DISCONNECTED" PROVE Lost'
  <2>1. PICK i \in 1..Len(ev_queue) : ev_queue[i] = "STA_DISCONNECTED"
    BY <1>3 DEF Lost
  <2>2. i # 1
    BY <1>1, <1>3, <2>1
  <2>3. i - 1 \in 1..(Len(ev_queue) - 1) /\ (i - 1) + 1 = i
    BY <1>1, <2>2
  <2>4. ev_queue'[i - 1] = "STA_DISCONNECTED"
    BY <1>1, <2>1, <2>3
  <2> QED BY <1>1, <2>3, <2>4 DEF Lost
<1> QED BY <1>2, <1>3

\* A step that leaves the station alone.
LEMMA StationUntouched ==
  ASSUME StationInv,
         UNCHANGED <<ev_queue, link, joining, s_scan_successful, pc["wifi_conn"]>>,
         pc["wifi_scan"] = "deleted" => pc'["wifi_scan"] = "deleted"
  PROVE  StationInv'
BY DEF StationInv, Found, NeverGivesUp, Lost, Associated

\* Every step keeps the station to the access point it found.
LEMMA StationStep == ASSUME Inv, StationInv, [Next]_vars PROVE StationInv'
<1> USE DEF Goto, Callers, shared, sntp, wm, hx, driver
<1>0. pc \in [Tasks -> Labels] /\ Callers \subseteq Tasks
  BY DEF Inv, PcOK, Tasks
<1>1. CASE Driver
  <2>1. CASE DriverStarted
    <3>1. Lost' <=> Lost
      BY <2>1, LostPosted DEF DriverStarted, Post, Events
    <3> QED BY <2>1, <3>1 DEF DriverStarted, Post, StationInv, Found, NeverGivesUp, Lost, Associated
  <2>2. CASE DriverScanned
    <3>1. Lost' <=> Lost
      BY <2>2, LostPosted DEF DriverScanned, Post, Events
    <3> QED BY <1>0, <2>2, <3>1
        DEF DriverScanned, Post, StationInv, Found, NeverGivesUp, Lost, Associated, Tasks
  <2>3. CASE DriverJoins
    <3>1. s_scan_successful
      BY <2>3 DEF DriverJoins, StationInv, Found
    <3>2. Lost' \/ link' = "associated"
      BY <2>3, LostPosted DEF DriverJoins, Post, Events
    <3> QED BY <2>3, <3>1, <3>2 DEF DriverJoins, Post, StationInv, Found, NeverGivesUp, Lost, Associated
  <2>4. CASE DriverLeases
    <3>1. s_scan_successful
      BY <2>4 DEF DriverLeases, StationInv, Found, Associated
    <3> QED BY <2>4, <3>1 DEF DriverLeases, Post, StationInv, Found, NeverGivesUp, Associated
  <2>5. CASE DriverDrops
    <3>1. s_scan_successful
      BY <2>5 DEF DriverDrops, StationInv, Found, Associated
    <3>2. Lost'
      BY <2>5, LostPosted DEF DriverDrops, Post, Events
    <3> QED BY <2>5, <3>1, <3>2 DEF DriverDrops, Post, StationInv, Found, NeverGivesUp, Lost
  <2> QED BY <1>1, <2>1, <2>2, <2>3, <2>4, <2>5 DEF Driver
<1>2. ASSUME NEW event \in BitEvents, BitEvent(event) PROVE StationInv'
  <2>1. Lost' <=> Lost
    BY <1>2, LostHandled DEF BitEvent, Handling, BitEvents
  <2> QED BY <1>2, <2>1 DEF BitEvent, StationInv, Found, NeverGivesUp, Lost, Associated
<1>3. CASE Disconnected
  <2>1. Lost
    <3>1. Len(ev_queue) \in Nat \ {0} /\ ev_queue[1] = "STA_DISCONNECTED"
      BY <1>3 DEF Disconnected, Handling, Inv, DataOK
    <3> QED BY <3>1 DEF Lost
  <2>2. s_scan_successful
    BY <2>1 DEF StationInv, Found
  <2> QED BY <1>3, <2>2 DEF Disconnected, StationInv, Found, NeverGivesUp
<1>4. CASE GotIp
  <2>1. Lost' <=> Lost
    BY <1>4, LostHandled DEF GotIp, Handling
  <2> QED BY <1>0, <1>4, <2>1
      DEF GotIp, StationInv, Found, NeverGivesUp, Lost, Associated, Tasks
<1>5. CASE sntp_time_available \/ Synced \/ SyncTimedOut \/ start_https_server
           \/ ClockSet \/ time_sync_notification_cb
  BY <1>0, <1>5, StationUntouched
  DEF sntp_time_available, Synced, SyncTimedOut, start_https_server,
      ClockSet, time_sync_notification_cb, Tasks
<1>6. CASE CreateEventGroups \/ PollConnected \/ DecideSntp \/ CreateQueue \/ CreateSampler
  BY <1>0, <1>6, StationUntouched
  DEF CreateEventGroups, PollConnected, DecideSntp, CreateQueue, CreateSampler, Tasks
<1>7. CASE StartWifi
  BY <1>0, <1>7 DEF StartWifi, StationInv, Found, NeverGivesUp, Lost, Associated, Tasks, Inv, Made
<1>8. CASE StationStarted
  BY <1>0, <1>8 DEF StationStarted, StationInv, Found, NeverGivesUp, Lost, Associated, Tasks, Inv, Made
<1>9. ASSUME NEW t \in Callers, Start(t) PROVE StationInv'
  <2>1. /\ UNCHANGED <<ev_queue, link, joining, s_scan_successful>>
        /\ pc' = pc \/ \E label \in Labels : pc' = [pc EXCEPT ![t] = label]
    BY <1>9
    DEF Start, SntpTest, SntpCreate, SntpMode, SntpInit, GetQueue, ManagerTest, ManagerAssign,
        ManagerCreate, AfterSntp, AfterManager, Labels, AppLabels, EventLabels, StartLabels
  <2>2. UNCHANGED <<pc["wifi_conn"], pc["wifi_scan"]>>
    BY <1>0, <2>1 DEF Tasks
  <2> QED BY <2>1, <2>2, StationUntouched
<1>10. CASE ScanStart
  BY <1>0, <1>10 DEF ScanStart, StationInv, Found, NeverGivesUp, Lost, Associated, Tasks
<1>11. CASE ScanEnd
  BY <1>0, <1>11 DEF ScanEnd, StationInv, Found, NeverGivesUp, Lost, Associated, Tasks
<1>12. CASE ConnectStart
  BY <1>0, <1>12 DEF ConnectStart, StationInv, Found, NeverGivesUp, Tasks
<1>13. CASE ConnectEnd
  BY <1>0, <1>13 DEF ConnectEnd, StationInv, Found, NeverGivesUp, Lost, Associated, Tasks
<1>14. CASE Loop \/ Halted \/ UNCHANGED vars
  BY <1>14, StationUntouched DEF Loop, Halted, vars
<1> QED
  BY <1>1, <1>2, <1>3, <1>4, <1>5, <1>6, <1>7, <1>8, <1>9, <1>10, <1>11, <1>12, <1>13, <1>14
  DEF Next, AppMain, Handler, StationTasks, Lwip

LEMMA StationInvariant == Spec => []StationInv
<1>1. Init => StationInv
  BY DEF Init, StationInv, Found, NeverGivesUp, Lost, Associated, Tasks
<1>2. Inv /\ StationInv /\ [Next]_vars => StationInv'
  BY StationStep
<1> QED BY <1>1, <1>2, BootstrapInvariant, PTL DEF Spec

\* Through any number of failed joins and drops, and any delay of the handler, the
\* station never stops trying to be connected (wifi_comm.c:134-138, 215-219).
THEOREM BootstrapNeverGivesUp == Spec => []NeverGivesUp
<1>1. StationInv => NeverGivesUp
  BY DEF StationInv
<1> QED BY <1>1, StationInvariant, PTL

\* What the scan did not find is never joined (wifi_comm.c:193-206, 134-138).
THEOREM BootstrapJoinsOnlyFound == Spec => []JoinsOnlyFound
<1>1. StationInv => JoinsOnlyFound
  BY DEF StationInv, Found, Associated, JoinsOnlyFound
<1> QED BY <1>1, StationInvariant, PTL
=============================================================================
