------------------------------ MODULE TimeLog ------------------------------
(***************************************************************************)
(* The time log of main/spiffs_manager/spiffs_manager.c: every 5 seconds   *)
(* a task reads a JSON file into memory, appends the time, and writes the  *)
(* whole file anew.  The chip can lose power at any moment, the file       *)
(* system can be full, and every fopen, malloc and cJSON constructor can   *)
(* fail.                                                                   *)
(*                                                                         *)
(* A document is "absent", "torn" (anything cJSON_Parse refuses, an empty  *)
(* file included), "bare" (an object without an array of timestamps) or a  *)
(* "log" with its times.                                                   *)
(***************************************************************************)
EXTENDS Integers, Sequences, SequencesExt

CONSTANTS
  Capacity,      \* the times for which the partition has room
  ClockPeriod,   \* times are counted modulo this, so that they stay finite
  MaxCrashes,    \* bound: power losses explored
  MaxFailures    \* bound: failing calls explored

ASSUME TimeLogAssumption ==
  /\ Capacity \in Nat \ {0}
  /\ ClockPeriod \in Nat /\ ClockPeriod > Capacity + 1
  /\ MaxCrashes \in Nat
  /\ MaxFailures \in Nat

VARIABLES
  pc,         \* time_logging_task: "load", "open" or "write"
  file,       \* time_log.json
  root,       \* the task's cJSON document
  clock_ok,   \* whether the system time is past 2020
  now,        \* the next time to log
  crashes,    \* power losses so far
  failures,   \* failed calls so far
  saved,      \* history: the times of the last document written completely
  excused     \* history: something since then may have cost the log its times

vars == <<pc, file, root, clock_ok, now, crashes, failures, saved, excused>>

Document(kind, times) == [kind |-> kind, times |-> times]
Absent  == Document("absent", <<>>)
Torn    == Document("torn", <<>>)
Bare    == Document("bare", <<>>)
Log(ts) == Document("log", ts)

Init ==
  /\ pc = "load"
  /\ file = Absent
  /\ root = Absent
  /\ clock_ok = FALSE
  /\ now = 0
  /\ crashes = 0
  /\ failures = 0
  /\ saved = <<>>
  /\ excused = FALSE

(***************************************************************************)
(* Steps 1 and 2 of the loop, up to the document in memory.                *)
(***************************************************************************)
Tick == now' = (now + 1) % ClockPeriod

\* cJSON_ReplaceItemInObject replaces nothing in an object that has no
\* "timestamps" yet: the time goes to an array outside the document.
WithTime(doc) == IF doc.kind = "log" THEN Log(Append(doc.times, now)) ELSE doc

\* Seeded bug: the old document is not read.
ReadNothing == Log(<<>>)

\* Seeded bug: no document is begun when there is none to read.
ReadAsIs == file

\* What is read from the file, or begun anew when there is nothing to read.
ReadBack == IF file.kind \in {"log", "bare"} THEN file ELSE Log(<<>>)

\* Seeded bug: a document that cannot be read is kept as it is.
LoadOnlyReadable ==
  /\ pc = "load"
  /\ clock_ok
  /\ file.kind # "torn"
  /\ root' = WithTime(ReadBack)
  /\ pc' = "open"
  /\ Tick
  /\ UNCHANGED <<file, clock_ok, crashes, failures, saved, excused>>

Load ==
  /\ pc = "load"
  /\ clock_ok
  /\ root' = WithTime(ReadBack)
  /\ pc' = "open"
  /\ Tick
  /\ UNCHANGED <<file, clock_ok, crashes, failures, saved, excused>>

\* One call of the round fails: fopen, malloc or cJSON_Parse on a document that
\* is there, the making of the array for a new one, or of the string of the time.
LoadFailing ==
  /\ pc = "load"
  /\ clock_ok
  /\ failures < MaxFailures
  /\ failures' = failures + 1
  /\ \/ /\ file.kind \in {"log", "bare"}
        /\ root' = Log(<<now>>)
        /\ excused' = TRUE
     \/ /\ file.kind \notin {"log", "bare"}
        /\ root' = Bare
        /\ UNCHANGED excused
     \/ /\ root' = ReadBack
        /\ UNCHANGED excused
  /\ pc' = "open"
  /\ Tick
  /\ UNCHANGED <<file, clock_ok, crashes, saved>>

(***************************************************************************)
(* Step 3: fopen(..., "w") empties the file, fclose has written it.        *)
(***************************************************************************)
Open ==
  /\ pc = "open"
  /\ file' = Torn
  /\ pc' = "write"
  /\ UNCHANGED <<root, clock_ok, now, crashes, failures, saved, excused>>

\* cJSON_Print or fopen failed: nothing is written this time round.
OpenFailing ==
  /\ pc = "open"
  /\ failures < MaxFailures
  /\ failures' = failures + 1
  /\ pc' = "load"
  /\ UNCHANGED <<file, root, clock_ok, now, crashes, saved, excused>>

\* A document that outgrows the partition is cut short, and nobody notices.
Write ==
  /\ pc = "write"
  /\ IF Len(root.times) <= Capacity
       THEN file' = root /\ saved' = root.times /\ excused' = FALSE
       ELSE file' = Torn /\ excused' = TRUE /\ UNCHANGED saved
  /\ pc' = "load"
  /\ UNCHANGED <<root, clock_ok, now, crashes, failures>>

(***************************************************************************)
(* The environment.                                                        *)
(***************************************************************************)
\* SNTP has set the clock.
ClockSet ==
  /\ ~clock_ok
  /\ clock_ok' = TRUE
  /\ UNCHANGED <<pc, file, root, now, crashes, failures, saved, excused>>

\* Power is lost and comes back: the flash keeps the file, and nothing else.
Crash ==
  /\ crashes < MaxCrashes
  /\ crashes' = crashes + 1
  /\ pc' = "load"
  /\ root' = Absent
  /\ clock_ok' = FALSE
  /\ excused' = (excused \/ pc = "write")
  /\ UNCHANGED <<file, now, failures, saved>>

\* The round does nothing while the time is not valid.
Skip ==
  /\ pc = "load"
  /\ ~clock_ok
  /\ UNCHANGED vars

Next ==
  \/ Load \/ LoadFailing
  \/ Open \/ OpenFailing
  \/ Write
  \/ ClockSet
  \/ Crash
  \/ Skip

Spec == Init /\ [][Next]_vars

\* The task is scheduled.  That calls fail, power is lost or the clock is set
\* is not assumed.
FairSpec ==
  Spec /\ WF_vars(Load \/ LoadFailing) /\ WF_vars(Open \/ OpenFailing) /\ WF_vars(Write)

-----------------------------------------------------------------------------
(***************************************************************************)
(* Properties.                                                             *)
(***************************************************************************)
Times == 0..(ClockPeriod - 1)
Documents(kinds) == [kind : kinds, times : Seq(Times)]

\* The type invariant; what fits the partition is what the file can hold.
TypeOK ==
  /\ pc \in {"load", "open", "write"}
  /\ file \in Documents({"absent", "torn", "bare", "log"})
  /\ Len(file.times) <= Capacity
  /\ root \in Documents({"absent", "bare", "log"})
  /\ Len(root.times) <= Capacity + 1
  /\ pc # "load" => root.kind # "absent"
  /\ clock_ok \in BOOLEAN
  /\ now \in Times
  /\ crashes \in 0..MaxCrashes
  /\ failures \in 0..MaxFailures
  /\ saved \in Seq(Times) /\ Len(saved) <= Capacity
  /\ excused \in BOOLEAN

\* A complete document never drops times an earlier one had, unless power was
\* lost between fopen and fclose, the file outgrew the partition or could not be
\* read, and each of these costs the log once: a power loss at any other moment
\* costs it nothing (spiffs_manager.c:96-143).
LostOnlyWhenExcused == [][saved' # saved /\ ~excused => IsPrefix(saved, saved')]_vars

\* Power losses, full partitions and unreadable files are got over: while the
\* clock is set, and the file is not an object without timestamps, a complete
\* log is written again and again (spiffs_manager.c:113-135).
RecoversUnlessBare ==
  <>[](clock_ok /\ file.kind # "bare") => []<>(file.kind = "log")

\* While the clock is set times are logged, whatever failed before, as
\* spiffs_manager.h:14 has it: "Start background task that logs time to SPIFFS
\* every X seconds".
KeepsLogging == <>[]clock_ok => []<>(file.kind = "log")
=============================================================================
