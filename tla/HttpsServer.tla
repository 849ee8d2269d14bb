---------------------------- MODULE HttpsServer ----------------------------
(***************************************************************************)
(* The HTTPS server tasks of main/wifi/wifi_comm.c: the server task that   *)
(* starts esp_https_server, the monitor tasks that are to restart it, and  *)
(* the two places that set them going: the GOT_IP handler and the main     *)
(* loop.  They talk through the two bits of https_server_events.           *)
(*                                                                         *)
(* One xEventGroup call is one step.  FreeRTOS runs the server (priority   *)
(* 5) and the monitors (priority 4) on two cores, so any order of their    *)
(* steps is possible.  wifi_comm_stop, which nothing calls, is left out:   *)
(* once started the server stays started.                                  *)
(***************************************************************************)
EXTENDS Integers

CONSTANTS
  MaxMonitors,   \* the monitor tasks the heap has room for
  MaxGotIps,     \* bound: GOT_IP events explored
  MaxFailures    \* bound: failed starts explored

ASSUME HttpsServerAssumption ==
  /\ MaxMonitors \in Nat \ {0}
  /\ MaxGotIps \in Nat
  /\ MaxFailures \in Nat

VARIABLES
  connected,      \* WIFI_CONNECTED_BIT
  bits,           \* https_server_events
  pc,             \* where each task is
  https_server,   \* whether wifi_comm.c's handle is set
  signals,        \* history: how often SERVER_START_BIT was set
  got_ips,        \* of those, by the GOT_IP handler
  attempts,       \* history: how often the server task came out of its wait
  failures,       \* history: attempts that ended in SERVER_ERROR_BIT
  restarts        \* history: per monitor, the restarts it asked for

vars == <<connected, bits, pc, https_server, signals, got_ips, attempts, failures,
          restarts>>

Server   == 0
Monitors == 1..MaxMonitors
Tasks    == {Server} \cup Monitors

(***************************************************************************)
(* Event groups.  Both waits are for any bit and clear on exit; a task     *)
(* resumes at After(t).                                                    *)
(***************************************************************************)
WaitFor(t) == IF t = Server THEN {"START"} ELSE {"START", "ERROR"}
After(t)   == IF t = Server THEN "start" ELSE "test"

\* xEventGroupSetBits wakes every task waiting for one of the bits now set, and
\* only then clears what the woken tasks wait for.
Woken(b) == {t \in Tasks : pc[t] = "blocked" /\ WaitFor(t) \cap (bits \cup b) # {}}

SetBits(b, next) ==
  /\ bits' = (bits \cup b) \ UNION {WaitFor(t) : t \in Woken(b)}
  /\ pc' = [t \in Tasks |-> IF t \in Woken(b) THEN After(t) ELSE next[t]]
  /\ attempts' = IF Server \in Woken(b) THEN attempts + 1 ELSE attempts

\* Seeded bug: the wait does not clear the bits it found set.
WaitBitsKeeping(t) ==
  /\ pc[t] = "wait"
  /\ pc' = [pc EXCEPT ![t] = IF WaitFor(t) \cap bits # {} THEN After(t) ELSE "blocked"]
  /\ attempts' = IF t = Server /\ pc'[t] = "start" THEN attempts + 1 ELSE attempts
  /\ UNCHANGED <<connected, bits, https_server, signals, got_ips, failures, restarts>>

\* xEventGroupWaitBits at the top of either loop.
WaitBits(t) ==
  /\ pc[t] = "wait"
  /\ IF WaitFor(t) \cap bits # {}
       THEN /\ bits' = bits \ WaitFor(t)
            /\ pc' = [pc EXCEPT ![t] = After(t)]
            /\ attempts' = IF t = Server THEN attempts + 1 ELSE attempts
       ELSE /\ pc' = [pc EXCEPT ![t] = "blocked"]
            /\ UNCHANGED <<bits, attempts>>
  /\ UNCHANGED <<connected, https_server, signals, got_ips, failures, restarts>>

Init ==
  /\ connected = FALSE
  /\ bits = {}
  /\ pc = [t \in Tasks |-> IF t \in {Server, 1} THEN "wait" ELSE "none"]
  /\ https_server = FALSE
  /\ signals = 0
  /\ got_ips = 0
  /\ attempts = 0
  /\ failures = 0
  /\ restarts = [m \in Monitors |-> 0]

(***************************************************************************)
(* start_https_server_task: validate the certificate, start the server.    *)
(***************************************************************************)

\* Started and the handler registered: `while (https_server)' never ends.
Start ==
  /\ pc[Server] = "start"
  /\ https_server' = TRUE
  /\ pc' = [pc EXCEPT ![Server] = "running"]
  /\ UNCHANGED <<connected, bits, signals, got_ips, attempts, failures, restarts>>

\* Seeded bug: the `continue' is missing.
FailWithoutContinue ==
  /\ pc[Server] = "start"
  /\ failures < MaxFailures
  /\ failures' = failures + 1
  /\ SetBits({"ERROR"}, [pc EXCEPT ![Server] = "running"])
  /\ UNCHANGED <<connected, https_server, signals, got_ips, restarts>>

\* A bad certificate or key, or an error of httpd_ssl_start; then `continue'.
Fail ==
  /\ pc[Server] = "start"
  /\ failures < MaxFailures
  /\ failures' = failures + 1
  /\ SetBits({"ERROR"}, [pc EXCEPT ![Server] = "wait"])
  /\ UNCHANGED <<connected, https_server, signals, got_ips, restarts>>

(***************************************************************************)
(* https_server_monitor, after its wait.                                   *)
(***************************************************************************)
TestError(m) ==
  /\ pc[m] = "test"
  /\ pc' = [pc EXCEPT ![m] = IF "ERROR" \in bits THEN "delay" ELSE "wait"]
  /\ UNCHANGED <<connected, bits, https_server, signals, got_ips, attempts, failures,
                 restarts>>

\* SERVER_RESTART_DELAY_MS have passed.
Restart(m) ==
  /\ pc[m] = "delay"
  /\ restarts' = [restarts EXCEPT ![m] = @ + 1]
  /\ signals' = signals + 1
  /\ SetBits({"START"}, [pc EXCEPT ![m] = "wait"])
  /\ UNCHANGED <<connected, https_server, got_ips, failures>>

(***************************************************************************)
(* wifi_event_handler and the main loop.                                   *)
(***************************************************************************)
StaConnected ==
  /\ ~connected
  /\ connected' = TRUE
  /\ UNCHANGED <<bits, pc, https_server, signals, got_ips, attempts, failures, restarts>>

StaDisconnected ==
  /\ connected
  /\ connected' = FALSE
  /\ UNCHANGED <<bits, pc, https_server, signals, got_ips, attempts, failures, restarts>>

\* start_https_server, at the end of the GOT_IP handler.  The driver reports an
\* address only while associated.
GotIp ==
  /\ connected
  /\ got_ips < MaxGotIps
  /\ got_ips' = got_ips + 1
  /\ signals' = signals + 1
  /\ SetBits({"START"}, pc)
  /\ UNCHANGED <<connected, https_server, failures, restarts>>

\* main.c has an https_server of its own, which nothing ever sets.
https_server_is_running == FALSE

\* init_https_server: the event group and the server task exist since
\* wifi_comm_start, so all it does is create another monitor, if it can.
init_https_server ==
  \/ \E m \in Monitors :
       /\ pc[m] = "none"
       /\ \A n \in Monitors : pc[n] = "none" => m <= n
       /\ pc' = [pc EXCEPT ![m] = "wait"]
  \/ /\ \A m \in Monitors : pc[m] # "none"
     /\ UNCHANGED pc

\* app_main after its set-up, and then every 60th round of its loop.
MainLoop ==
  /\ IF connected /\ ~https_server_is_running THEN init_https_server ELSE UNCHANGED pc
  /\ UNCHANGED <<connected, bits, https_server, signals, got_ips, attempts, failures,
                 restarts>>

Next ==
  \/ \E t \in Tasks : WaitBits(t)
  \/ Start
  \/ Fail
  \/ \E m \in Monitors : TestError(m) \/ Restart(m)
  \/ StaConnected
  \/ StaDisconnected
  \/ GotIp
  \/ MainLoop

Spec == Init /\ [][Next]_vars

(***************************************************************************)
(* Every task is scheduled and the delay of a monitor ends.  Nothing is    *)
(* assumed of the access point, nor that a start ever succeeds.            *)
(***************************************************************************)
FairSpec ==
  /\ Spec
  /\ \A t \in Tasks : WF_vars(WaitBits(t))
  /\ \A m \in Monitors : WF_vars(TestError(m)) /\ WF_vars(Restart(m))
  /\ WF_vars(Start \/ Fail)
  /\ WF_vars(MainLoop)

-----------------------------------------------------------------------------
(***************************************************************************)
(* Properties.                                                             *)
(***************************************************************************)

\* The type invariant.
TypeOK ==
  /\ connected \in BOOLEAN
  /\ bits \subseteq {"START", "ERROR"}
  /\ pc \in [Tasks -> {"none", "wait", "blocked", "start", "running", "test", "delay"}]
  /\ pc[Server] \in {"wait", "blocked", "start", "running"}
  /\ \A m \in Monitors : pc[m] \in {"none", "wait", "blocked", "test", "delay"}
  /\ https_server \in BOOLEAN
  /\ https_server <=> pc[Server] = "running"
  /\ signals \in Nat
  /\ got_ips \in 0..MaxGotIps
  /\ attempts \in Nat
  /\ failures \in 0..MaxFailures
  /\ restarts \in [Monitors -> Nat]

\* The server never tries to start of its own accord, and one signal never makes
\* it try twice: every attempt uses up one setting of SERVER_START_BIT, by the
\* GOT_IP handler or by a monitor, also when that setting is still pending
\* while the task fails and loops (wifi_comm.c:246, 253, 271-274).
AttemptsAreSignalled ==
  attempts + (IF "START" \in bits THEN 1 ELSE 0) <= signals

\* One failure makes one monitor ask for at most one restart, although nothing
\* takes back the error bit when a monitor has seen it (wifi_comm.c:237-248).
OneRestartPerFailure == \A m \in Monitors : restarts[m] <= failures

\* While the station stays connected, a failed server is started again, as the
\* monitor's announcement "Server error, restarting in %d ms" (wifi_comm.c:244)
\* and the main loop's "Attempt to restart HTTPS server if needed" (main.c:157)
\* have it.
RestartedAfterFailure ==
  <>[]connected =>
    \A n \in 1..MaxFailures : (failures = n /\ attempts = n) ~> attempts > n
=============================================================================
