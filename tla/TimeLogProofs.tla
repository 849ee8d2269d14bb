--------------------------- MODULE TimeLogProofs ---------------------------
(***************************************************************************)
(* Proofs about TimeLog for any size of the partition and any number of    *)
(* power losses and failing calls.  The property is about a step that      *)
(* completes a document; the invariant carries what that document will     *)
(* keep from the moment the old one is read: while nothing has excused a   *)
(* loss, the file between two rounds is what was last saved, and what is   *)
(* in memory goes on from there.                                           *)
(***************************************************************************)
EXTENDS TimeLog, TLAPS

FileIsSaved    == ~excused /\ pc # "write" => file.times = saved /\ file.kind # "torn"
MemoryFollows  == ~excused /\ pc # "load" => IsPrefix(saved, root.times)

OnlyLogsHold   == \A d \in {file, root} : d.kind # "log" => d.times = <<>>

Inv == TypeOK /\ FileIsSaved /\ MemoryFollows /\ OnlyLogsHold

-----------------------------------------------------------------------------
\* A sequence is a prefix of itself, and of itself with one more element.
LEMMA PrefixOfAppend ==
  ASSUME NEW S, NEW s \in Seq(S), NEW e \in S
  PROVE  IsPrefix(s, s) /\ IsPrefix(s, Append(s, e))
BY DEF IsPrefix

\* The empty sequence is a prefix of every sequence.
LEMMA EmptyIsPrefix == ASSUME NEW S, NEW s \in Seq(S) PROVE IsPrefix(<<>>, s)
BY DEF IsPrefix

\* Documents are what they are made of.
LEMMA DocumentFields ==
  ASSUME NEW k, NEW ts
  PROVE  Document(k, ts).kind = k /\ Document(k, ts).times = ts
BY DEF Document

\* The clock stays in its range.
LEMMA TickInRange == ASSUME TypeOK, Tick PROVE now' \in Times
BY TimeLogAssumption DEF TypeOK, Tick, Times

\* The invariant holds initially.
LEMMA InvInit == Init => Inv
<1> SUFFICES ASSUME Init PROVE Inv
  OBVIOUS
<1>1. Absent.kind = "absent" /\ Absent.times = <<>>
  BY DocumentFields DEF Absent
<1>2. Absent \in Documents({"absent"})
  BY DEF Absent, Document, Documents
<1>3. clock_ok \in BOOLEAN /\ excused \in BOOLEAN
  BY DEF Init
<1>4. now \in Times /\ saved \in Seq(Times) /\ Len(saved) <= Capacity
  BY TimeLogAssumption DEF Init, Times
<1>5. /\ file \in Documents({"absent", "torn", "bare", "log"})
      /\ root \in Documents({"absent", "bare", "log"})
      /\ Len(file.times) <= Capacity /\ Len(root.times) <= Capacity + 1
  BY <1>1, <1>2, TimeLogAssumption DEF Init, Documents
<1>6. TypeOK
  BY <1>3, <1>4, <1>5, TimeLogAssumption DEF Init, TypeOK
<1>7. FileIsSaved /\ MemoryFollows /\ OnlyLogsHold
  BY <1>1 DEF Init, FileIsSaved, MemoryFollows, OnlyLogsHold
<1> QED BY <1>6, <1>7 DEF Inv

\* Every document a round can begin with keeps the invariant, if it follows what
\* was saved or the round is excused.
LEMMA InvLoaded ==
  ASSUME Inv, pc = "load", pc' = "open", Tick, UNCHANGED <<file, clock_ok, crashes, saved>>,
         failures' \in 0..MaxFailures, excused' \in BOOLEAN,
         root'.kind \in {"bare", "log"}, root' \in Documents({"bare", "log"}),
         Len(root'.times) <= Capacity + 1,
         root'.kind # "log" => root'.times = <<>>,
         excused => excused',
         ~excused' => IsPrefix(saved, root'.times)
  PROVE  Inv'
<1> USE DEF Inv
<1>1. now' \in Times
  BY TickInRange
<1>2. root' \in Documents({"absent", "bare", "log"})
  BY DEF Documents
<1>3. TypeOK'
  BY <1>1, <1>2 DEF TypeOK
<1>4. FileIsSaved' /\ MemoryFollows'
  BY DEF FileIsSaved, MemoryFollows
<1>5. OnlyLogsHold'
  BY DEF OnlyLogsHold
<1> QED BY <1>3, <1>4, <1>5

\* What is read back follows what was saved.
LEMMA ReadBackFollows ==
  ASSUME Inv, pc = "load"
  PROVE  /\ ReadBack \in Documents({"bare", "log"})
         /\ Len(ReadBack.times) <= Capacity
         /\ ReadBack.kind # "log" => ReadBack.times = <<>>
         /\ ~excused => ReadBack.times = saved
<1> USE DEF Inv
<1>1. CASE file.kind \in {"log", "bare"}
  BY <1>1 DEF ReadBack, TypeOK, Documents, FileIsSaved, OnlyLogsHold
<1>2. CASE file.kind \notin {"log", "bare"}
  <2>1. ReadBack = Document("log", <<>>)
    BY <1>2 DEF ReadBack, Log
  <2>2. ReadBack.kind = "log" /\ ReadBack.times = <<>>
    BY <2>1, DocumentFields
  <2>3. ReadBack \in Documents({"bare", "log"})
    BY <2>1 DEF Document, Documents
  <2>4. file.times = <<>>
    BY <1>2 DEF OnlyLogsHold
  <2> QED BY <2>2, <2>3, <2>4, TimeLogAssumption DEF FileIsSaved
<1> QED BY <1>1, <1>2

\* A round that reads the file keeps the invariant.
LEMMA InvLoad == ASSUME Inv, Load PROVE Inv'
<1> USE DEF Inv
<1> DEFINE d == ReadBack
<1>1. /\ d \in Documents({"bare", "log"}) /\ Len(d.times) <= Capacity
      /\ d.kind # "log" => d.times = <<>>
      /\ ~excused => d.times = saved
  BY ReadBackFollows DEF Load
<1>2. root' = WithTime(d) /\ now \in Times /\ saved \in Seq(Times)
  BY DEF Load, TypeOK
<1> HIDE DEF d
<1>3. d.times \in Seq(Times) /\ d.kind \in {"bare", "log"}
  BY <1>1 DEF Documents
<1>4. CASE d.kind = "log"
  <2>1. root' = Document("log", Append(d.times, now))
    BY <1>2, <1>4 DEF WithTime, Log
  <2>2. root'.kind = "log" /\ root'.times = Append(d.times, now)
    BY <2>1, DocumentFields
  <2>3. Append(d.times, now) \in Seq(Times) /\ Len(Append(d.times, now)) <= Capacity + 1
    BY <1>1, <1>2, <1>3, TimeLogAssumption
  <2>4. root' \in Documents({"bare", "log"})
    BY <2>1, <2>3 DEF Document, Documents
  <2>5. IsPrefix(d.times, Append(d.times, now))
    BY <1>2, <1>3, PrefixOfAppend
  <2> QED BY <1>1, <2>2, <2>3, <2>4, <2>5, InvLoaded DEF Load, TypeOK
<1>5. CASE d.kind # "log"
  <2>1. root' = d
    BY <1>2, <1>5 DEF WithTime
  <2>2. IsPrefix(d.times, d.times)
    BY <1>2, <1>3, PrefixOfAppend
  <2>3. Len(d.times) <= Capacity + 1
    BY <1>1, <1>3, TimeLogAssumption
  <2> QED BY <1>1, <1>3, <2>1, <2>2, <2>3, InvLoaded DEF Load, TypeOK
<1> QED BY <1>4, <1>5

\* A round in which a call fails keeps it: it is excused, or drops nothing.
LEMMA InvLoadFailing == ASSUME Inv, LoadFailing PROVE Inv'
<1> USE DEF Inv
<1>1. /\ pc = "load" /\ pc' = "open" /\ Tick /\ now \in Times /\ saved \in Seq(Times)
      /\ UNCHANGED <<file, clock_ok, crashes, saved>>
      /\ failures' \in 0..MaxFailures
  BY TimeLogAssumption DEF LoadFailing, TypeOK
<1>2. CASE root' = Log(<<now>>) /\ excused' = TRUE
  <2>1. root' = Document("log", <<now>>)
    BY <1>2 DEF Log
  <2>2. root'.kind = "log" /\ root'.times = <<now>>
    BY <2>1, DocumentFields
  <2>3. <<now>> \in Seq(Times) /\ Len(<<now>>) <= Capacity + 1
    BY <1>1, TimeLogAssumption
  <2>4. root' \in Documents({"bare", "log"})
    BY <2>1, <2>3 DEF Document, Documents
  <2> QED BY <1>1, <1>2, <2>2, <2>3, <2>4, InvLoaded
<1>3. CASE file.kind \notin {"log", "bare"} /\ root' = Bare /\ excused' = excused
  <2>1. root' = Document("bare", <<>>)
    BY <1>3 DEF Bare
  <2>2. root'.kind = "bare" /\ root'.times = <<>>
    BY <2>1, DocumentFields
  <2>3. root' \in Documents({"bare", "log"}) /\ Len(root'.times) <= Capacity + 1
    BY <2>1, <2>2, TimeLogAssumption DEF Document, Documents
  <2>4. ~excused => saved = <<>>
    BY <1>1, <1>3 DEF FileIsSaved, OnlyLogsHold
  <2>5. ~excused => IsPrefix(saved, root'.times)
    BY <1>1, <2>2, <2>4, PrefixOfAppend DEF IsPrefix
  <2>6. excused' \in BOOLEAN
    BY <1>3 DEF TypeOK
  <2> QED BY <1>1, <1>3, <2>2, <2>3, <2>5, <2>6, InvLoaded
<1>4. CASE root' = ReadBack /\ excused' = excused
  <2>1. /\ root' \in Documents({"bare", "log"}) /\ Len(root'.times) <= Capacity
        /\ root'.kind # "log" => root'.times = <<>>
        /\ ~excused => root'.times = saved
    BY <1>1, <1>4, ReadBackFollows
  <2>2. root'.kind \in {"bare", "log"} /\ root'.times \in Seq(Times)
    BY <2>1 DEF Documents
  <2>3. Len(root'.times) <= Capacity + 1
    BY <2>1, <2>2, TimeLogAssumption
  <2>4. IsPrefix(saved, saved)
    BY <1>1, PrefixOfAppend
  <2>5. excused' \in BOOLEAN
    BY <1>4 DEF TypeOK
  <2> QED BY <1>1, <1>4, <2>1, <2>2, <2>3, <2>4, <2>5, InvLoaded
<1> QED BY <1>2, <1>3, <1>4 DEF LoadFailing

\* Emptying the file keeps the invariant: what it held is in memory.
LEMMA InvOpen == ASSUME Inv, Open PROVE Inv'
<1> USE DEF Inv
<1>1. file'.kind = "torn" /\ file'.times = <<>>
  BY DocumentFields DEF Open, Torn
<1>2. file' \in Documents({"absent", "torn", "bare", "log"})
  BY DEF Open, Torn, Document, Documents
<1>3. TypeOK'
  BY <1>1, <1>2, TimeLogAssumption DEF Open, TypeOK
<1>4. FileIsSaved' /\ MemoryFollows'
  BY DEF Open, FileIsSaved, MemoryFollows
<1>5. OnlyLogsHold'
  BY <1>1 DEF Open, OnlyLogsHold
<1> QED BY <1>3, <1>4, <1>5

\* Writing the file keeps it: the file is what was saved, or was cut short.
LEMMA InvWrite == ASSUME Inv, Write PROVE Inv'
<1> USE DEF Inv
<1>1. root.kind \in {"bare", "log"} /\ root.times \in Seq(Times)
  BY DEF Write, TypeOK, Documents
<1>2. CASE Len(root.times) <= Capacity
  <2>1. file' = root /\ saved' = root.times /\ excused' = FALSE
    BY <1>2 DEF Write
  <2>2. file' \in Documents({"absent", "torn", "bare", "log"})
    BY <1>1, <2>1 DEF TypeOK, Documents
  <2>3. TypeOK'
    BY <1>1, <1>2, <2>1, <2>2 DEF Write, TypeOK
  <2>4. FileIsSaved' /\ MemoryFollows' /\ OnlyLogsHold'
    BY <1>1, <2>1 DEF Write, FileIsSaved, MemoryFollows, OnlyLogsHold
  <2> QED BY <2>3, <2>4
<1>3. CASE ~(Len(root.times) <= Capacity)
  <2>1. file' = Torn /\ excused' = TRUE /\ saved' = saved
    BY <1>3 DEF Write
  <2>2. file'.kind = "torn" /\ file'.times = <<>>
    BY <2>1, DocumentFields DEF Torn
  <2>3. file' \in Documents({"absent", "torn", "bare", "log"})
    BY <2>1 DEF Torn, Document, Documents
  <2>4. TypeOK'
    BY <2>1, <2>2, <2>3, TimeLogAssumption DEF Write, TypeOK
  <2>5. FileIsSaved' /\ MemoryFollows' /\ OnlyLogsHold'
    BY <2>1, <2>2 DEF Write, FileIsSaved, MemoryFollows, OnlyLogsHold
  <2> QED BY <2>4, <2>5
<1> QED BY <1>2, <1>3

\* A power loss keeps it: outside the write the file is untouched, and within
\* it the loss is excused.
LEMMA InvCrash == ASSUME Inv, Crash PROVE Inv'
<1> USE DEF Inv
<1>1. root'.kind = "absent" /\ root'.times = <<>>
  BY DocumentFields DEF Crash, Absent
<1>2. root' \in Documents({"absent", "bare", "log"})
  BY DEF Crash, Absent, Document, Documents
<1>3. excused' \in BOOLEAN /\ clock_ok' \in BOOLEAN
  BY DEF Crash, TypeOK
<1>4. TypeOK'
  BY <1>1, <1>2, <1>3, TimeLogAssumption DEF Crash, TypeOK
<1>5. FileIsSaved' /\ MemoryFollows'
  BY DEF Crash, FileIsSaved, MemoryFollows
<1>6. OnlyLogsHold'
  BY <1>1 DEF Crash, OnlyLogsHold
<1> QED BY <1>4, <1>5, <1>6

\* Every step keeps the inductive invariant.
LEMMA InvNext == ASSUME Inv, [Next]_vars PROVE Inv'
<1> USE DEF Inv, FileIsSaved, MemoryFollows, OnlyLogsHold
<1>1. CASE OpenFailing
  BY <1>1, TimeLogAssumption DEF OpenFailing, TypeOK
<1>2. CASE ClockSet
  <2>1. clock_ok' \in BOOLEAN
    BY <1>2 DEF ClockSet
  <2> QED BY <1>2, <2>1 DEF ClockSet, TypeOK
<1>3. CASE Skip \/ UNCHANGED vars
  BY <1>3 DEF Skip, vars, TypeOK
<1> QED
  BY <1>1, <1>2, <1>3, InvLoad, InvLoadFailing, InvOpen, InvWrite, InvCrash DEF Next

\* The inductive invariant is an invariant.
THEOREM TimeLogInvariant == Spec => []Inv
<1>1. Inv /\ [Next]_vars => Inv'
  BY InvNext
<1> QED BY <1>1, InvInit, PTL DEF Spec

\* Types are kept (spiffs_manager.c:91-148), for any size of the partition.
THEOREM TimeLogTypeCorrect == Spec => []TypeOK
BY TimeLogInvariant, PTL DEF Inv

\* Times are lost only to a power loss during the write, a full partition or an
\* unreadable file (spiffs_manager.c:96-143), however many of these there are.
THEOREM TimeLogLostOnlyWhenExcused == Spec => LostOnlyWhenExcused
<1>1. Inv /\ [Next]_vars => [saved' # saved /\ ~excused => IsPrefix(saved, saved')]_vars
  <2> SUFFICES ASSUME Inv, [Next]_vars, saved' # saved, ~excused
               PROVE  IsPrefix(saved, saved')
    OBVIOUS
  <2>1. CASE Write
    BY <2>1 DEF Write, Inv, MemoryFollows
  <2>2. CASE ~Write
    BY <2>2 DEF Next, Load, LoadFailing, Open, OpenFailing, ClockSet, Crash, Skip, vars
  <2> QED BY <2>1, <2>2
<1> QED BY <1>1, TimeLogInvariant, PTL DEF Spec, LostOnlyWhenExcused
=============================================================================
