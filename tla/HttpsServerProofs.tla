------------------------- MODULE HttpsServerProofs -------------------------
(***************************************************************************)
(* Proofs about HttpsServer for any number of monitors, GOT_IP events and  *)
(* failed starts.                                                          *)
(*                                                                         *)
(* OneRestartPerFailure is not inductive: it says nothing of a monitor     *)
(* that is about to ask for a restart.  What holds the argument together   *)
(* is that a monitor clears the error bit on the way out of its wait, so   *)
(* an error bit it then sees belongs to a failure it has not answered.     *)
(***************************************************************************)
EXTENDS HttpsServer, TLAPS

\* A monitor that will ask for a restart, or that would on its next step,
\* has a failure left to answer.
FailureLeft ==
  \A m \in Monitors :
    pc[m] = "delay" \/ (pc[m] = "test" /\ "ERROR" \in bits) => restarts[m] < failures

Inv == TypeOK /\ AttemptsAreSignalled /\ OneRestartPerFailure /\ FailureLeft

-----------------------------------------------------------------------------
\* The server's number is not a monitor's.
LEMMA ServerIsNoMonitor ==
  /\ Server \in Tasks
  /\ \A m \in Monitors : m \in Tasks /\ m # Server
BY HttpsServerAssumption DEF Server, Monitors, Tasks

\* Clearing on exit leaves no start bit behind for a server that was woken.
LEMMA WokenServer ==
  ASSUME NEW b, Server \in Woken(b), NEW n, SetBits(b, n)
  PROVE  "START" \notin bits'
BY DEF Woken, SetBits, WaitFor

\* ... nor an error bit for a monitor that was woken.
LEMMA WokenMonitor ==
  ASSUME NEW b, NEW m \in Monitors, m \in Woken(b), NEW n, SetBits(b, n)
  PROVE  "ERROR" \notin bits'
BY ServerIsNoMonitor DEF Woken, SetBits, WaitFor

\* Setting bits keeps the types; only a woken task moves of its own.
LEMMA SetBitsType ==
  ASSUME TypeOK, NEW b \in SUBSET {"START", "ERROR"},
         NEW n \in [Tasks -> {"none", "wait", "blocked", "start", "running", "test", "delay"}],
         SetBits(b, n)
  PROVE  /\ bits' \subseteq {"START", "ERROR"}
         /\ pc' \in [Tasks -> {"none", "wait", "blocked", "start", "running", "test", "delay"}]
         /\ \A t \in Tasks : pc'[t] = IF t \in Woken(b) THEN After(t) ELSE n[t]
         /\ attempts' = IF Server \in Woken(b) THEN attempts + 1 ELSE attempts
BY DEF SetBits, TypeOK, After

-----------------------------------------------------------------------------
\* The inductive invariant holds initially.
LEMMA InvInit == Init => Inv
<1> SUFFICES ASSUME Init PROVE Inv
  OBVIOUS
<1> USE ServerIsNoMonitor, HttpsServerAssumption DEF Init
<1>1. \A t \in Tasks : pc[t] \in {"wait", "none"}
  OBVIOUS
<1>2. pc[Server] = "wait"
  OBVIOUS
<1>3. https_server \in BOOLEAN /\ (https_server <=> pc[Server] = "running")
  BY <1>2
<1>4. pc \in [Tasks -> {"none", "wait", "blocked", "start", "running", "test", "delay"}]
  BY <1>1
<1>5. connected \in BOOLEAN /\ restarts \in [Monitors -> Nat]
  OBVIOUS
<1>6. TypeOK
  BY <1>1, <1>2, <1>3, <1>4, <1>5 DEF TypeOK
<1>7. AttemptsAreSignalled /\ OneRestartPerFailure /\ FailureLeft
  BY <1>1 DEF AttemptsAreSignalled, OneRestartPerFailure, FailureLeft
<1> QED BY <1>6, <1>7 DEF Inv

\* A wait that is answered at once, or blocks, keeps the invariant.
LEMMA InvWaitBits == ASSUME Inv, NEW t \in Tasks, WaitBits(t) PROVE Inv'
<1> USE ServerIsNoMonitor DEF Inv
<1>1. TypeOK'
  <2>1. pc' \in [Tasks -> {"none", "wait", "blocked", "start", "running", "test", "delay"}]
    BY DEF TypeOK, WaitBits, After
  <2>2. pc'[t] \in {"blocked", After(t)} /\ \A u \in Tasks \ {t} : pc'[u] = pc[u]
    BY DEF TypeOK, WaitBits
  <2>3. pc'[Server] \in {"wait", "blocked", "start", "running"}
    BY <2>2 DEF TypeOK, After
  <2>4. \A m \in Monitors : pc'[m] \in {"none", "wait", "blocked", "test", "delay"}
    BY <2>2 DEF TypeOK, After
  <2>5. https_server' \in BOOLEAN /\ (https_server' <=> pc'[Server] = "running")
    BY <2>2 DEF TypeOK, After, WaitBits
  <2>6. bits' \subseteq {"START", "ERROR"} /\ attempts' \in Nat
    <3>1. bits' = bits \ WaitFor(t) \/ bits' = bits
      BY DEF WaitBits
    <3>2. attempts' = attempts + 1 \/ attempts' = attempts
      BY DEF WaitBits
    <3>3. bits' \subseteq {"START", "ERROR"}
      BY <3>1 DEF TypeOK
    <3>4. attempts' \in Nat
      BY <3>2 DEF TypeOK
    <3> QED BY <3>3, <3>4
  <2> QED BY <2>1, <2>3, <2>4, <2>5, <2>6 DEF TypeOK, WaitBits
<1>2. AttemptsAreSignalled'
  BY DEF TypeOK, WaitBits, WaitFor, AttemptsAreSignalled
<1>3. OneRestartPerFailure'
  BY DEF WaitBits, OneRestartPerFailure
<1>4. FailureLeft'
  BY DEF TypeOK, WaitBits, WaitFor, After, FailureLeft
<1> QED BY <1>1, <1>2, <1>3, <1>4

\* A failed start keeps the invariant: it is the failure to be answered.
LEMMA InvFail == ASSUME Inv, Fail PROVE Inv'
<1> USE ServerIsNoMonitor DEF Inv
<1> DEFINE n == [pc EXCEPT ![Server] = "wait"]
<1>1. SetBits({"ERROR"}, n)
  BY DEF Fail
<1>2. n \in [Tasks -> {"none", "wait", "blocked", "start", "running", "test", "delay"}]
  BY DEF TypeOK
<1> HIDE DEF n
<1>3. /\ bits' \subseteq {"START", "ERROR"}
      /\ pc' \in [Tasks -> {"none", "wait", "blocked", "start", "running", "test", "delay"}]
      /\ \A t \in Tasks : pc'[t] = IF t \in Woken({"ERROR"}) THEN After(t) ELSE n[t]
      /\ attempts' = IF Server \in Woken({"ERROR"}) THEN attempts + 1 ELSE attempts
  BY <1>1, <1>2, SetBitsType
<1>4. /\ pc[Server] = "start" /\ Server \notin Woken({"ERROR"})
      /\ \A m \in Monitors : n[m] = pc[m]
      /\ n[Server] = "wait"
  BY DEF Fail, Woken, TypeOK, n
<1>5. failures' = failures + 1 /\ UNCHANGED <<restarts, signals, got_ips, https_server, connected>>
  BY DEF Fail
<1>6. TypeOK'
  <2>1. pc'[Server] = "wait"
    BY <1>3, <1>4
  <2>2. \A m \in Monitors : pc'[m] \in {"none", "wait", "blocked", "test", "delay"}
    BY <1>3, <1>4 DEF TypeOK, After
  <2>3. https_server' \in BOOLEAN /\ (https_server' <=> pc'[Server] = "running")
    BY <2>1, <1>4, <1>5 DEF TypeOK
  <2>4. failures' \in 0..MaxFailures
    BY HttpsServerAssumption DEF TypeOK, Fail
  <2> QED BY <1>3, <1>4, <1>5, <2>1, <2>2, <2>3, <2>4 DEF TypeOK
<1>7. AttemptsAreSignalled'
  BY <1>1, <1>3, <1>4, <1>5 DEF TypeOK, AttemptsAreSignalled, SetBits
<1>8. OneRestartPerFailure'
  BY <1>5 DEF TypeOK, OneRestartPerFailure
<1>9. FailureLeft'
  BY <1>5 DEF TypeOK, OneRestartPerFailure, FailureLeft
<1> QED BY <1>6, <1>7, <1>8, <1>9

\* A restart keeps the invariant: it uses up the failure the monitor had left.
LEMMA InvRestart == ASSUME Inv, NEW m \in Monitors, Restart(m) PROVE Inv'
<1> USE ServerIsNoMonitor DEF Inv
<1> DEFINE n == [pc EXCEPT ![m] = "wait"]
<1>1. SetBits({"START"}, n)
  BY DEF Restart
<1>2. n \in [Tasks -> {"none", "wait", "blocked", "start", "running", "test", "delay"}]
  BY DEF TypeOK
<1> HIDE DEF n
<1>3. /\ bits' \subseteq {"START", "ERROR"}
      /\ pc' \in [Tasks -> {"none", "wait", "blocked", "start", "running", "test", "delay"}]
      /\ \A t \in Tasks : pc'[t] = IF t \in Woken({"START"}) THEN After(t) ELSE n[t]
      /\ attempts' = IF Server \in Woken({"START"}) THEN attempts + 1 ELSE attempts
  BY <1>1, <1>2, SetBitsType
<1>4. /\ m \notin Woken({"START"}) /\ n[m] = "wait"
      /\ \A t \in Tasks \ {m} : n[t] = pc[t]
      /\ \A t \in Woken({"START"}) : pc[t] = "blocked"
  BY DEF Restart, Woken, TypeOK, n
<1>5. /\ restarts' = [restarts EXCEPT ![m] = @ + 1] /\ signals' = signals + 1
      /\ pc[m] = "delay"
      /\ UNCHANGED <<failures, got_ips, https_server, connected>>
  BY DEF Restart
<1>6. TypeOK'
  BY <1>3, <1>4, <1>5 DEF TypeOK, After
<1>7. AttemptsAreSignalled'
  BY <1>1, <1>3, <1>5, WokenServer DEF TypeOK, AttemptsAreSignalled
<1>8. OneRestartPerFailure'
  BY <1>5 DEF TypeOK, OneRestartPerFailure, FailureLeft
<1>9. ASSUME NEW k \in Monitors, pc'[k] = "delay" \/ (pc'[k] = "test" /\ "ERROR" \in bits')
      PROVE  restarts'[k] < failures'
  <2>1. k \notin Woken({"START"}) \/ "ERROR" \notin bits'
    BY <1>1, WokenMonitor
  <2>2. k \notin Woken({"START"})
    BY <2>1, <1>3, <1>9 DEF After
  <2>3. k # m /\ pc'[k] = pc[k]
    BY <2>2, <1>3, <1>4, <1>9
  <2>4. "ERROR" \in bits' => "ERROR" \in bits
    BY <1>1 DEF SetBits
  <2> QED BY <2>3, <2>4, <1>5, <1>9 DEF TypeOK, FailureLeft
<1>10. FailureLeft'
  BY <1>9 DEF FailureLeft
<1> QED BY <1>6, <1>7, <1>8, <1>10

\* GOT_IP keeps the invariant.
LEMMA InvGotIp == ASSUME Inv, GotIp PROVE Inv'
<1> USE ServerIsNoMonitor DEF Inv
<1>1. SetBits({"START"}, pc)
  BY DEF GotIp
<1>2. /\ bits' \subseteq {"START", "ERROR"}
      /\ pc' \in [Tasks -> {"none", "wait", "blocked", "start", "running", "test", "delay"}]
      /\ \A t \in Tasks : pc'[t] = IF t \in Woken({"START"}) THEN After(t) ELSE pc[t]
      /\ attempts' = IF Server \in Woken({"START"}) THEN attempts + 1 ELSE attempts
  BY <1>1, SetBitsType DEF TypeOK
<1>3. \A t \in Woken({"START"}) : pc[t] = "blocked"
  BY DEF Woken
<1>4. /\ signals' = signals + 1 /\ got_ips' = got_ips + 1 /\ got_ips < MaxGotIps
      /\ UNCHANGED <<failures, restarts, https_server, connected>>
  BY DEF GotIp
<1>5. TypeOK'
  BY <1>2, <1>3, <1>4, HttpsServerAssumption DEF TypeOK, After
<1>6. AttemptsAreSignalled'
  BY <1>1, <1>2, <1>4, WokenServer DEF TypeOK, AttemptsAreSignalled
<1>7. OneRestartPerFailure'
  BY <1>4 DEF OneRestartPerFailure
<1>8. ASSUME NEW k \in Monitors, pc'[k] = "delay" \/ (pc'[k] = "test" /\ "ERROR" \in bits')
      PROVE  restarts'[k] < failures'
  <2>1. k \notin Woken({"START"}) \/ "ERROR" \notin bits'
    BY <1>1, WokenMonitor
  <2>2. k \notin Woken({"START"})
    BY <2>1, <1>2, <1>8 DEF After
  <2>3. "ERROR" \in bits' => "ERROR" \in bits
    BY <1>1 DEF SetBits
  <2> QED BY <2>2, <2>3, <1>2, <1>4, <1>8 DEF FailureLeft
<1>9. FailureLeft'
  BY <1>8 DEF FailureLeft
<1> QED BY <1>5, <1>6, <1>7, <1>9

\* Every step keeps the inductive invariant.
LEMMA InvNext == Inv /\ [Next]_vars => Inv'
<1> SUFFICES ASSUME Inv, [Next]_vars PROVE Inv'
  OBVIOUS
<1> USE ServerIsNoMonitor DEF Inv
<1>1. CASE \E t \in Tasks : WaitBits(t)
  BY <1>1, InvWaitBits
<1>2. CASE Start
  BY <1>2 DEF Start, TypeOK, AttemptsAreSignalled, OneRestartPerFailure, FailureLeft
<1>3. CASE Fail
  BY <1>3, InvFail
<1>4. CASE \E m \in Monitors : TestError(m)
  BY <1>4 DEF TestError, TypeOK, AttemptsAreSignalled, OneRestartPerFailure, FailureLeft
<1>5. CASE \E m \in Monitors : Restart(m)
  BY <1>5, InvRestart
<1>6. CASE StaConnected \/ StaDisconnected
  <2>1. connected' \in BOOLEAN
    BY <1>6 DEF StaConnected, StaDisconnected
  <2>2. UNCHANGED <<bits, pc, https_server, signals, got_ips, attempts, failures, restarts>>
    BY <1>6 DEF StaConnected, StaDisconnected
  <2> QED
    BY <2>1, <2>2 DEF TypeOK, AttemptsAreSignalled, OneRestartPerFailure, FailureLeft
<1>7. CASE GotIp
  BY <1>7, InvGotIp
<1>8. CASE MainLoop
  BY <1>8 DEF MainLoop, init_https_server, TypeOK, AttemptsAreSignalled,
              OneRestartPerFailure, FailureLeft
<1>9. CASE UNCHANGED vars
  BY <1>9 DEF vars, TypeOK, AttemptsAreSignalled, OneRestartPerFailure, FailureLeft
<1> QED BY <1>1, <1>2, <1>3, <1>4, <1>5, <1>6, <1>7, <1>8, <1>9 DEF Next

\* The inductive invariant is an invariant.
THEOREM HttpsInvariant == Spec => []Inv
BY InvInit, InvNext, PTL DEF Spec

\* Types are kept (wifi_comm.c:235-345), for any number of monitors.
THEOREM HttpsTypeCorrect == Spec => []TypeOK
BY HttpsInvariant, PTL DEF Inv

\* Every attempt to start the server uses up a signal of its own
\* (wifi_comm.c:246, 253, 271-274), however many monitors there are.
THEOREM HttpsAttemptsAreSignalled == Spec => []AttemptsAreSignalled
BY HttpsInvariant, PTL DEF Inv

\* No monitor asks for more restarts than there were failures
\* (wifi_comm.c:237-248), however many monitors there are.
THEOREM HttpsOneRestartPerFailure == Spec => []OneRestartPerFailure
BY HttpsInvariant, PTL DEF Inv
=============================================================================
