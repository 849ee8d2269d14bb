--------------------------- MODULE SamplePipeline ---------------------------
(***************************************************************************)
(* The path of a reading through the firmware: the HX711 sampling task     *)
(* (hx711.c) puts filtered readings into one FreeRTOS queue, from which    *)
(* both the weight manager task (weight_manager.c) and the HTTPS handler   *)
(* for GET /weight (wifi_comm.c) receive.                                  *)
(*                                                                         *)
(* Three tasks interleave here: the sampling task, the weight manager,     *)
(* which first waits for SNTP and only then drains the queue, and the HTTP *)
(* server task, whose handler never blocks.  A FreeRTOS queue call is one  *)
(* step.  A reading carries the number of its conversion, which the        *)
(* program does not have: it tells readings of equal weight apart.         *)
(***************************************************************************)
EXTENDS WeightManager, Sequences

CONSTANTS
  QueueLen,     \* the length of hx711_q
  MaxSamples,   \* bound: conversions explored
  MaxGets       \* bound: GET requests explored

ASSUME SamplePipelineAssumption ==
  /\ QueueLen \in Nat \ {0}
  /\ MaxSamples \in Nat
  /\ MaxGets \in Nat

VARIABLES
  hx_pc,            \* hx711_rtos_task: at the "read" or at the "send"
  filtered_value,   \* its local filtered_value
  hx711_q,          \* the queue, oldest reading first
  wm_pc,            \* weight_manager_task: in the "sntp" wait or at "receive"
  raw_count,        \* its local raw_count
  served,           \* weight_get_handler's local weight, of the last 200 answer
  status,           \* the last answer of weight_get_handler, 0 before the first
  gets,             \* GET requests answered so far
  changed_at        \* history: the number of the reading that made the last event

vars == <<hx_pc, filtered_value, hx711_q, wm_pc, raw_count, served, status, gets,
          changed_at, wmVars>>

Reading == [no : Nat, w : Weights]
NoReading == [no |-> 0, w |-> 0]   \* the zero-initialised locals

Init ==
  /\ hx_pc = "read"
  /\ filtered_value = NoReading
  /\ hx711_q = <<>>
  /\ wm_pc = "sntp"
  /\ raw_count = NoReading
  /\ served = NoReading
  /\ status = 0
  /\ gets = 0
  /\ changed_at = 0
  /\ WMInit

(***************************************************************************)
(* hx711_rtos_task.  Nothing else in the firmware takes scale->mutex, so   *)
(* the take succeeds; the filter is abstracted to the reading it delivers. *)
(***************************************************************************)
Read(w) ==
  /\ hx_pc = "read"
  /\ filtered_value.no < MaxSamples
  /\ filtered_value' = [no |-> filtered_value.no + 1, w |-> w]
  /\ hx_pc' = "send"
  /\ UNCHANGED <<hx711_q, wm_pc, raw_count, served, status, gets, changed_at,
                 wmVars>>

\* xQueueSend with a timeout of 0 drops the new item when the queue is full.
Sent(q, item) == IF Len(q) < QueueLen THEN Append(q, item) ELSE q

\* Seeded bug: a full queue makes room by discarding its oldest item.
SendOverwriting ==
  /\ hx_pc = "send"
  /\ hx711_q' = Append(IF Len(hx711_q) < QueueLen THEN hx711_q ELSE Tail(hx711_q),
                       filtered_value)
  /\ hx_pc' = "read"
  /\ UNCHANGED <<filtered_value, wm_pc, raw_count, served, status, gets, changed_at,
                 wmVars>>

Send ==
  /\ hx_pc = "send"
  /\ hx711_q' = Sent(hx711_q, filtered_value)
  /\ hx_pc' = "read"
  /\ UNCHANGED <<filtered_value, wm_pc, raw_count, served, status, gets, changed_at,
                 wmVars>>

(***************************************************************************)
(* weight_manager_task.                                                    *)
(***************************************************************************)

\* Seeded bug: the wait has no timeout, and time never comes.
SntpWaitUnbounded ==
  /\ wm_pc = "sntp"
  /\ UNCHANGED vars

\* sntp_time_available returns: synchronised, timed out, or never started.
SntpWaitOver ==
  /\ wm_pc = "sntp"
  /\ wm_pc' = "receive"
  /\ UNCHANGED <<hx_pc, filtered_value, hx711_q, raw_count, served, status, gets,
                 changed_at, wmVars>>

\* Seeded bug: the task only peeks, and leaves the reading in the queue.
WeighWithoutRemoving ==
  /\ wm_pc = "receive"
  /\ hx711_q # <<>>
  /\ raw_count' = Head(hx711_q)
  /\ WMReceive(Head(hx711_q).w)
  /\ changed_at' = IF event' = "NONE" THEN changed_at ELSE Head(hx711_q).no
  /\ UNCHANGED <<hx_pc, filtered_value, hx711_q, wm_pc, served, status, gets>>

Weigh ==
  /\ wm_pc = "receive"
  /\ hx711_q # <<>>
  /\ raw_count' = Head(hx711_q)
  /\ hx711_q' = Tail(hx711_q)
  /\ WMReceive(Head(hx711_q).w)
  /\ changed_at' = IF event' = "NONE" THEN changed_at ELSE Head(hx711_q).no
  /\ UNCHANGED <<hx_pc, filtered_value, wm_pc, served, status, gets>>

(***************************************************************************)
(* weight_get_handler: xQueueReceive with a timeout of 0.                  *)
(***************************************************************************)
GetWeight ==
  /\ gets < MaxGets
  /\ gets' = gets + 1
  /\ \/ /\ hx711_q # <<>>
        /\ served' = Head(hx711_q)
        /\ hx711_q' = Tail(hx711_q)
        /\ status' = 200
     \/ /\ hx711_q = <<>>
        /\ status' = 500
        /\ UNCHANGED <<served, hx711_q>>
  /\ UNCHANGED <<hx_pc, filtered_value, wm_pc, raw_count, changed_at, wmVars>>

\* The bounded exploration is over: every conversion was made and handled.
Exhausted ==
  /\ filtered_value.no = MaxSamples
  /\ hx_pc = "read"
  /\ wm_pc = "receive"
  /\ hx711_q = <<>>
  /\ UNCHANGED vars

Next ==
  \/ \E w \in Weights : Read(w)
  \/ Send
  \/ SntpWaitOver
  \/ Weigh
  \/ GetWeight
  \/ Exhausted

Spec == Init /\ [][Next]_vars

(***************************************************************************)
(* The SNTP wait has a timeout, and weight_manager_task, alone at its      *)
(* priority on core 1 most of the time, runs whenever the sampling task    *)
(* and the radio leave it the core: both steps are weakly fair.  Nothing   *)
(* obliges a client to send requests, nor is sampling assumed to go on.    *)
(***************************************************************************)
FairSpec == Spec /\ WF_vars(SntpWaitOver) /\ WF_vars(Weigh)

-----------------------------------------------------------------------------
(***************************************************************************)
(* Properties.                                                             *)
(***************************************************************************)

\* The type invariant of the pipeline.
TypeOK ==
  /\ hx_pc \in {"read", "send"}
  /\ filtered_value \in Reading
  /\ hx711_q \in Seq(Reading)
  /\ Len(hx711_q) <= QueueLen
  /\ wm_pc \in {"sntp", "receive"}
  /\ raw_count \in Reading
  /\ served \in Reading
  /\ status \in {0, 200, 500}
  /\ gets \in Nat
  /\ changed_at \in Nat
  /\ WMTypeOK

\* Readings wait in the order they were taken, and every reading in the queue,
\* or about to be sent, is newer than everything the weight manager or an HTTP
\* client has had: no reading is processed twice, by one of them or by both,
\* and neither ever goes back in time (hx711.c:246-256, weight_manager.c:136,
\* wifi_comm.c:224).
FreshAndInOrder ==
  /\ \A i, j \in 1..Len(hx711_q) : i < j => hx711_q[i].no < hx711_q[j].no
  /\ \A i \in 1..Len(hx711_q) :
       /\ raw_count.no < hx711_q[i].no
       /\ served.no < hx711_q[i].no
       /\ IF hx_pc = "send" THEN hx711_q[i].no < filtered_value.no
                            ELSE hx711_q[i].no <= filtered_value.no
  /\ IF hx_pc = "send"
       THEN raw_count.no < filtered_value.no /\ served.no < filtered_value.no
       ELSE raw_count.no <= filtered_value.no /\ served.no <= filtered_value.no
  /\ raw_count.no = served.no => raw_count.no = 0

\* The queue keeps a sample unless QueueLen older ones are waiting, in which
\* case it is the newest that is lost, and hands each kept sample, oldest first,
\* to exactly one of its two consumers.
Stream ==
  INSTANCE SampleStream WITH
    Capacity  <- QueueLen,
    Consumers <- {"weight_manager", "http"},
    sampled   <- filtered_value.no,
    inHand    <- IF hx_pc = "send" THEN {filtered_value.no} ELSE {},
    waiting   <- {hx711_q[i].no : i \in 1..Len(hx711_q)},
    got       <- [c \in {"weight_manager", "http"} |->
                    IF c = "http" THEN served.no ELSE raw_count.no]

ImplementsStream == Stream!Spec

\* However many readings are lost to a full queue or taken by HTTP clients in
\* between, two changes of mind of the weight manager are at least
\* DebounceCount + 1 conversions apart: no reading counts towards both
\* (weight_manager.c:136-146).
EventsApart ==
  [][event' # "NONE" /\ raw_count' # raw_count
       => raw_count'.no >= changed_at + DebounceCount + 1]_vars

\* A reading that got into the queue does not stay there: the weight manager or
\* a client receives it (weight_manager.c:134-136).
EveryReadingLeaves ==
  \A n \in 1..MaxSamples :
    (\E i \in 1..Len(hx711_q) : hx711_q[i].no = n)
      ~> ~(\E i \in 1..Len(hx711_q) : hx711_q[i].no = n)
=============================================================================
