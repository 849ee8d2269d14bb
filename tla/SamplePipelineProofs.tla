----------------------- MODULE SamplePipelineProofs -----------------------
(***************************************************************************)
(* Proofs about the sample pipeline, for every queue length, every set of  *)
(* weights and every bound.                                                *)
(*                                                                         *)
(* The inductive invariant is the type invariant, the order of the numbers *)
(* in the queue and around it (FreshAndInOrder), and the relation between  *)
(* the debounce streak and the conversions since the last event.           *)
(***************************************************************************)
EXTENDS SamplePipeline, WeightManagerProofs, FiniteSetTheorems

\* Each reading of the current streak was a conversion of its own.
StreakFits == raw_count.no >= changed_at + Streak

PipelineInv == TypeOK /\ FreshAndInOrder /\ StreakFits

-----------------------------------------------------------------------------
(***************************************************************************)
(* Lemmas about the queue.                                                 *)
(***************************************************************************)

\* Receiving: the rest of the queue is the queue shifted by one.
LEMMA TailShifts ==
  ASSUME NEW S, NEW q \in Seq(S), q # <<>>
  PROVE  /\ Head(q) = q[1] /\ Head(q) \in S
         /\ Tail(q) \in Seq(S)
         /\ Len(q) \in Nat \ {0} /\ 1 \in 1..Len(q)
         /\ Len(Tail(q)) = Len(q) - 1
         /\ \A i \in 1..Len(Tail(q)) : Tail(q)[i] = q[i + 1] /\ i + 1 \in 1..Len(q)
  OBVIOUS

\* Sending: the item goes behind the others, or nowhere.
LEMMA SentAppends ==
  ASSUME NEW S, NEW q \in Seq(S), NEW item \in S
  PROVE  /\ Sent(q, item) \in Seq(S)
         /\ Len(q) < QueueLen =>
              /\ Len(Sent(q, item)) = Len(q) + 1
              /\ \A i \in 1..Len(q) : Sent(q, item)[i] = q[i]
              /\ Sent(q, item)[Len(q) + 1] = item
         /\ ~(Len(q) < QueueLen) => Sent(q, item) = q
  BY DEF Sent

-----------------------------------------------------------------------------
(***************************************************************************)
(* The inductive invariant.                                                *)
(***************************************************************************)

\* The conversion numbers in the state are natural numbers.
LEMMA NumbersAreNat ==
  ASSUME TypeOK
  PROVE  /\ filtered_value.no \in Nat /\ raw_count.no \in Nat /\ served.no \in Nat
         /\ changed_at \in Nat /\ Len(hx711_q) \in Nat
         /\ \A i \in 1..Len(hx711_q) : hx711_q[i] \in Reading /\ hx711_q[i].no \in Nat
<1>1. \A r \in Reading : r.no \in Nat
  BY DEF Reading
<1>2. hx711_q \in Seq(Reading) /\ Len(hx711_q) \in Nat
  BY DEF TypeOK
<1>3. \A i \in 1..Len(hx711_q) : hx711_q[i] \in Reading
  BY <1>2
<1> QED  BY <1>1, <1>2, <1>3 DEF TypeOK

LEMMA InitInv == Init => PipelineInv
<1> SUFFICES ASSUME Init PROVE PipelineInv  OBVIOUS
<1>1. WMTypeOK
  BY WMInitTypeOK DEF Init
<1>2. TypeOK
  BY <1>1, SamplePipelineAssumption, WeightManagerAssumption
  DEF Init, TypeOK, Reading, NoReading
<1>3. FreshAndInOrder
  BY DEF Init, FreshAndInOrder, NoReading
<1>4. StreakFits
  BY DEF Init, WMInit, StreakFits, Streak, NoReading
<1> QED  BY <1>2, <1>3, <1>4 DEF PipelineInv

LEMMA ReadKeepsInv ==
  ASSUME PipelineInv, NEW w \in Weights, Read(w)
  PROVE  PipelineInv'
<1> USE DEF PipelineInv, Read
<1>1. WMTypeOK'
  BY StutterKeepsType DEF TypeOK
<1>2. TypeOK'
  BY <1>1 DEF TypeOK, Reading
<1>3. FreshAndInOrder'
  <2>1. filtered_value'.no = filtered_value.no + 1 /\ hx_pc = "read" /\ hx_pc' = "send"
    OBVIOUS
  <2> HIDE DEF PipelineInv
  <2>2. TypeOK /\ FreshAndInOrder /\ UNCHANGED <<hx711_q, raw_count, served>>
    BY DEF PipelineInv
  <2> HIDE DEF Read
  <2> QED  BY <2>1, <2>2, NumbersAreNat DEF FreshAndInOrder
<1>4. StreakFits'
  BY DEF StreakFits, Streak, wmVars
<1> QED  BY <1>2, <1>3, <1>4

LEMMA SendKeepsInv ==
  ASSUME PipelineInv, Send
  PROVE  PipelineInv'
<1>1. WMTypeOK'
  BY StutterKeepsType DEF PipelineInv, TypeOK, Send
<1>2. /\ hx711_q \in Seq(Reading) /\ filtered_value \in Reading
      /\ Len(hx711_q) \in Nat /\ Len(hx711_q) <= QueueLen
  BY DEF PipelineInv, TypeOK
<1>3. /\ TypeOK /\ FreshAndInOrder
      /\ hx711_q' = Sent(hx711_q, filtered_value)
      /\ hx_pc = "send" /\ hx_pc' = "read"
      /\ UNCHANGED <<filtered_value, raw_count, served>>
  BY DEF PipelineInv, Send
<1>4. /\ hx711_q' \in Seq(Reading)
      /\ Len(hx711_q) < QueueLen =>
           /\ Len(hx711_q') = Len(hx711_q) + 1
           /\ \A i \in 1..Len(hx711_q) : hx711_q'[i] = hx711_q[i]
           /\ hx711_q'[Len(hx711_q) + 1] = filtered_value
      /\ ~(Len(hx711_q) < QueueLen) => hx711_q' = hx711_q
  BY <1>2, <1>3, SentAppends
<1>5. Len(hx711_q') <= QueueLen
  BY <1>2, <1>4, SamplePipelineAssumption
<1>6. TypeOK'
  BY <1>1, <1>4, <1>5 DEF PipelineInv, TypeOK, Send
<1>7. FreshAndInOrder'
  <2>1. CASE Len(hx711_q) < QueueLen
    <3>1. \A i \in 1..Len(hx711_q') : i \in 1..Len(hx711_q) \/ i = Len(hx711_q) + 1
      BY <1>2, <1>4, <2>1
    <3>2. \A i \in 1..Len(hx711_q) :
            hx711_q'[i].no = hx711_q[i].no /\ hx711_q[i].no < filtered_value.no
      BY <1>3, <1>4, <2>1 DEF FreshAndInOrder
    <3>3. hx711_q'[Len(hx711_q) + 1].no = filtered_value.no
      BY <1>4, <2>1
    <3>4. /\ filtered_value.no \in Nat
          /\ raw_count.no \in Nat /\ raw_count.no < filtered_value.no
          /\ served.no \in Nat /\ served.no < filtered_value.no
          /\ \A i \in 1..Len(hx711_q) :
               /\ hx711_q[i].no \in Nat
               /\ raw_count.no < hx711_q[i].no /\ served.no < hx711_q[i].no
      BY <1>3, NumbersAreNat DEF FreshAndInOrder
    <3>5. \A i \in 1..Len(hx711_q') :
            /\ hx711_q'[i].no <= filtered_value.no
            /\ raw_count.no < hx711_q'[i].no /\ served.no < hx711_q'[i].no
      BY <3>1, <3>2, <3>3, <3>4
    <3>6. \A i, j \in 1..Len(hx711_q') : i < j => hx711_q'[i].no < hx711_q'[j].no
      <4> SUFFICES ASSUME NEW i \in 1..Len(hx711_q'), NEW j \in 1..Len(hx711_q'), i < j
                   PROVE  hx711_q'[i].no < hx711_q'[j].no
        OBVIOUS
      <4>1. i \in 1..Len(hx711_q)
        BY <1>2, <1>4, <2>1
      <4>2. CASE j \in 1..Len(hx711_q)
        BY <1>3, <3>2, <4>1, <4>2 DEF FreshAndInOrder
      <4>3. CASE j = Len(hx711_q) + 1
        BY <3>2, <3>3, <4>1, <4>3
      <4> QED  BY <3>1, <4>2, <4>3
    <3> QED
      BY <1>3, <3>4, <3>5, <3>6 DEF FreshAndInOrder
  <2>2. CASE ~(Len(hx711_q) < QueueLen)
    BY <1>3, <1>4, <2>2, NumbersAreNat DEF FreshAndInOrder
  <2> QED  BY <2>1, <2>2
<1>8. StreakFits'
  BY DEF PipelineInv, Send, StreakFits, Streak, wmVars
<1> QED  BY <1>6, <1>7, <1>8 DEF PipelineInv

LEMMA SntpKeepsInv ==
  ASSUME PipelineInv, SntpWaitOver
  PROVE  PipelineInv'
<1> USE DEF PipelineInv, SntpWaitOver
<1>1. WMTypeOK'
  BY StutterKeepsType DEF TypeOK
<1>2. TypeOK'
  BY <1>1 DEF TypeOK
<1>3. FreshAndInOrder'
  BY DEF FreshAndInOrder
<1>4. StreakFits'
  BY DEF StreakFits, Streak, wmVars
<1> QED  BY <1>2, <1>3, <1>4

\* The order invariant when the oldest reading leaves to either consumer.
LEMMA HeadLeaves ==
  ASSUME TypeOK, FreshAndInOrder, hx711_q # <<>>
  PROVE  /\ Head(hx711_q) \in Reading
         /\ raw_count.no < Head(hx711_q).no /\ served.no < Head(hx711_q).no
         /\ Tail(hx711_q) \in Seq(Reading) /\ Len(Tail(hx711_q)) <= QueueLen
         /\ \A i, j \in 1..Len(Tail(hx711_q)) :
              i < j => Tail(hx711_q)[i].no < Tail(hx711_q)[j].no
         /\ \A i \in 1..Len(Tail(hx711_q)) :
              /\ Head(hx711_q).no < Tail(hx711_q)[i].no
              /\ raw_count.no < Tail(hx711_q)[i].no
              /\ served.no < Tail(hx711_q)[i].no
              /\ IF hx_pc = "send" THEN Tail(hx711_q)[i].no < filtered_value.no
                                   ELSE Tail(hx711_q)[i].no <= filtered_value.no
         /\ IF hx_pc = "send" THEN Head(hx711_q).no < filtered_value.no
                              ELSE Head(hx711_q).no <= filtered_value.no
<1>1. hx711_q \in Seq(Reading) /\ Len(hx711_q) <= QueueLen
  BY DEF TypeOK
<1>2. /\ Head(hx711_q) = hx711_q[1] /\ Head(hx711_q) \in Reading
      /\ Tail(hx711_q) \in Seq(Reading)
      /\ Len(hx711_q) \in Nat \ {0} /\ 1 \in 1..Len(hx711_q)
      /\ Len(Tail(hx711_q)) = Len(hx711_q) - 1
      /\ \A i \in 1..Len(Tail(hx711_q)) :
           Tail(hx711_q)[i] = hx711_q[i + 1] /\ i + 1 \in 1..Len(hx711_q)
  BY <1>1, TailShifts
<1>3. \A i \in 1..Len(Tail(hx711_q)) : 1 < i + 1
  OBVIOUS
<1> QED  BY <1>1, <1>2, <1>3, SamplePipelineAssumption DEF FreshAndInOrder

\* Receiving a weight lengthens the streak by at most one, and an event is
\* logged only when the streak was full.
LEMMA StreakGrowsByOne ==
  ASSUME NEW w \in Weights, WMTypeOK, WMReceive(w)
  PROVE  /\ Streak \in Nat
         /\ Streak' \in Nat
         /\ event' = "NONE" => Streak' <= Streak + 1
         /\ event' # "NONE" => Streak' = 0 /\ Streak = DebounceCount
<1> USE WeightManagerAssumption
    DEF WMTypeOK, WMReceive, handle_state_transition, Counted, Stay, Streak
<1>1. CASE current_state = "NO_WEIGHT"
  BY <1>1
<1>2. CASE current_state = "DEBOUNCE_ADD"
  BY <1>2
<1>3. CASE current_state = "MEASURING"
  BY <1>3
<1>4. CASE current_state = "DEBOUNCE_REMOVE"
  BY <1>4
<1> QED  BY <1>1, <1>2, <1>3, <1>4 DEF States

LEMMA WeighKeepsInv ==
  ASSUME PipelineInv, Weigh
  PROVE  PipelineInv'
<1> USE DEF PipelineInv
<1>1. Head(hx711_q) \in Reading /\ Head(hx711_q).w \in Weights
  BY HeadLeaves DEF Weigh, Reading
<1>2. WMTypeOK'
  BY <1>1, ReceiveKeepsType DEF Weigh, TypeOK
<1>3. TypeOK'
  BY <1>1, <1>2, HeadLeaves DEF Weigh, TypeOK, Reading
<1>4. FreshAndInOrder'
  <2>1. /\ raw_count' = Head(hx711_q)
        /\ hx711_q' = Tail(hx711_q)
        /\ UNCHANGED <<hx_pc, filtered_value, served>>
    BY DEF Weigh
  <2> QED  BY <2>1, HeadLeaves DEF Weigh, TypeOK, Reading, FreshAndInOrder
<1>5. StreakFits'
  <2>1. /\ raw_count'.no = Head(hx711_q).no
        /\ changed_at' = IF event' = "NONE" THEN changed_at ELSE Head(hx711_q).no
        /\ WMReceive(Head(hx711_q).w) /\ hx711_q # <<>>
    BY DEF Weigh
  <2>2. raw_count.no < Head(hx711_q).no /\ Head(hx711_q).no \in Nat
    BY <1>1, <2>1, HeadLeaves DEF Reading
  <2>3. /\ Streak \in Nat /\ Streak' \in Nat
        /\ event' = "NONE" => Streak' <= Streak + 1
        /\ event' # "NONE" => Streak' = 0
    BY <1>1, <2>1, StreakGrowsByOne DEF TypeOK
  <2> QED  BY <2>1, <2>2, <2>3, NumbersAreNat DEF StreakFits
<1> QED  BY <1>3, <1>4, <1>5

LEMMA GetKeepsInv ==
  ASSUME PipelineInv, GetWeight
  PROVE  PipelineInv'
<1> USE DEF PipelineInv
<1>1. WMTypeOK'
  BY StutterKeepsType DEF GetWeight, TypeOK
<1>2. StreakFits'
  BY DEF GetWeight, StreakFits, Streak, wmVars
<1>3. CASE hx711_q # <<>>
  <2>1. /\ served' = Head(hx711_q)
        /\ hx711_q' = Tail(hx711_q)
        /\ status' = 200
    BY <1>3 DEF GetWeight
  <2>2. TypeOK'
    BY <1>1, <1>3, <2>1, HeadLeaves DEF GetWeight, TypeOK
  <2>3. FreshAndInOrder'
    BY <1>3, <2>1, HeadLeaves DEF GetWeight, TypeOK, Reading, FreshAndInOrder
  <2> QED  BY <1>2, <2>2, <2>3
<1>4. CASE hx711_q = <<>>
  <2>1. TypeOK'
    BY <1>1, <1>4 DEF GetWeight, TypeOK
  <2>2. FreshAndInOrder'
    BY <1>4 DEF GetWeight, FreshAndInOrder
  <2> QED  BY <1>2, <2>1, <2>2
<1> QED  BY <1>3, <1>4

LEMMA StutterKeepsInv == PipelineInv /\ UNCHANGED vars => PipelineInv'
<1> SUFFICES ASSUME PipelineInv, UNCHANGED vars PROVE PipelineInv'  OBVIOUS
<1>1. WMTypeOK'
  BY StutterKeepsType DEF PipelineInv, TypeOK, vars
<1> QED
  BY <1>1
  DEF PipelineInv, vars, wmVars, TypeOK, FreshAndInOrder, StreakFits, Streak

LEMMA NextKeepsInv == PipelineInv /\ [Next]_vars => PipelineInv'
  BY ReadKeepsInv, SendKeepsInv, SntpKeepsInv, WeighKeepsInv, GetKeepsInv,
     StutterKeepsInv
  DEF Next, Exhausted

LEMMA PipelineInvariant == Spec => []PipelineInv
  BY InitInv, NextKeepsInv, PTL DEF Spec

\* The pipeline is type correct: the queue never holds more than QueueLen
\* readings and the weight manager never counts past its limit.
THEOREM PipelineTypeCorrect == Spec => []TypeOK
  BY PipelineInvariant, PTL DEF PipelineInv

\* No reading is processed twice, and no consumer goes back in time.
THEOREM PipelineFresh == Spec => []FreshAndInOrder
  BY PipelineInvariant, PTL DEF PipelineInv

\* Two changes of mind of the weight manager are at least DebounceCount + 1
\* conversions apart, whatever is lost or taken in between.
THEOREM PipelineEventsApart == Spec => EventsApart
<1>1. ASSUME PipelineInv, [Next]_vars, event' # "NONE", raw_count' # raw_count
      PROVE  raw_count'.no >= changed_at + DebounceCount + 1
  <2>1. Weigh
    BY <1>1 DEF Next, Read, Send, SntpWaitOver, GetWeight, Exhausted, vars
  <2>2. Head(hx711_q).w \in Weights /\ raw_count.no < Head(hx711_q).no
        /\ Head(hx711_q) \in Reading
    BY <1>1, <2>1, HeadLeaves DEF PipelineInv, Weigh, Reading
  <2>3. Streak = DebounceCount
    BY <1>1, <2>1, <2>2, StreakGrowsByOne DEF PipelineInv, TypeOK, Weigh
  <2> QED
    BY <1>1, <2>1, <2>2, <2>3, WeightManagerAssumption
    DEF PipelineInv, TypeOK, StreakFits, Weigh, Reading
<1> QED  BY <1>1, PipelineInvariant, PTL DEF Spec, EventsApart

-----------------------------------------------------------------------------
(***************************************************************************)
(* Refinement: the pipeline implements SampleStream and, seen from the     *)
(* weight manager, WeightManager and so Presence.                          *)
(***************************************************************************)

Waiting == {hx711_q[i].no : i \in 1..Len(hx711_q)}
InHand == IF hx_pc = "send" THEN {filtered_value.no} ELSE {}
Got == [c \in {"weight_manager", "http"} |->
          IF c = "http" THEN served.no ELSE raw_count.no]

\* As many samples wait as there are readings in the queue.
LEMMA WaitingCounts ==
  ASSUME TypeOK, FreshAndInOrder
  PROVE  Cardinality(Waiting) = Len(hx711_q)
<1> DEFINE f == [i \in 1..Len(hx711_q) |-> hx711_q[i].no]
<1>1. \A i, j \in 1..Len(hx711_q) : hx711_q[i].no = hx711_q[j].no => i = j
  <2> SUFFICES ASSUME NEW i \in 1..Len(hx711_q), NEW j \in 1..Len(hx711_q), i # j
               PROVE  hx711_q[i].no # hx711_q[j].no
    OBVIOUS
  <2>1. i \in Nat /\ j \in Nat /\ (i < j \/ j < i)
    BY NumbersAreNat
  <2>2. hx711_q[i].no \in Nat /\ hx711_q[j].no \in Nat
    BY NumbersAreNat
  <2> QED  BY <2>1, <2>2 DEF FreshAndInOrder
<1>2. f \in Bijection(1..Len(hx711_q), Waiting)
  BY <1>1 DEF Bijection, Injection, IsInjective, Surjection, Waiting
<1>3. ExistsBijection(1..Len(hx711_q), Waiting)
  BY <1>2 DEF ExistsBijection
<1> QED  BY <1>3, NumbersAreNat, FS_CountingElements

\* What leaves with the head of the queue is the smallest number waiting.
LEMMA HeadIsOldest ==
  ASSUME TypeOK, FreshAndInOrder, hx711_q # <<>>, hx711_q' = Tail(hx711_q)
  PROVE  /\ Head(hx711_q).no \in Waiting
         /\ \A m \in Waiting : Head(hx711_q).no <= m
         /\ Waiting' = Waiting \ {Head(hx711_q).no}
<1> DEFINE h == Head(hx711_q).no
<1>1. hx711_q \in Seq(Reading)
  BY DEF TypeOK
<1>2. /\ Head(hx711_q) = hx711_q[1]
      /\ Len(hx711_q) \in Nat \ {0} /\ 1 \in 1..Len(hx711_q)
      /\ Len(Tail(hx711_q)) = Len(hx711_q) - 1
      /\ \A i \in 1..Len(Tail(hx711_q)) :
           Tail(hx711_q)[i] = hx711_q[i + 1] /\ i + 1 \in 1..Len(hx711_q)
  BY <1>1, TailShifts
<1>3. h \in Nat /\ h \in Waiting
  BY <1>2, NumbersAreNat DEF Waiting
<1>4. \A i \in 1..Len(hx711_q) : i = 1 \/ h < hx711_q[i].no
  <2> TAKE i \in 1..Len(hx711_q)
  <2>1. i = 1 \/ 1 < i
    BY <1>2
  <2> QED  BY <1>2, <2>1 DEF FreshAndInOrder
<1>5. \A m \in Waiting : h <= m
  BY <1>2, <1>3, <1>4, NumbersAreNat DEF Waiting
<1>6. Waiting' = {Tail(hx711_q)[i].no : i \in 1..Len(Tail(hx711_q))}
  BY DEF Waiting
<1>7. ASSUME NEW n \in Waiting \ {h}
      PROVE  n \in Waiting'
  <2>1. PICK i \in 1..Len(hx711_q) : n = hx711_q[i].no
    BY DEF Waiting
  <2>2. i # 1
    BY <1>2, <2>1
  <2>3. i - 1 \in 1..Len(Tail(hx711_q)) /\ (i - 1) + 1 = i
    BY <1>2, <2>2
  <2>4. Tail(hx711_q)[i - 1] = hx711_q[i]
    BY <1>2, <2>3
  <2> QED  BY <1>6, <2>1, <2>3, <2>4
<1>8. ASSUME NEW n \in Waiting'
      PROVE  n \in Waiting \ {h}
  <2>1. PICK i \in 1..Len(Tail(hx711_q)) : n = Tail(hx711_q)[i].no
    BY <1>6
  <2>2. n = hx711_q[i + 1].no /\ i + 1 \in 1..Len(hx711_q) /\ i + 1 # 1
    BY <1>2, <2>1
  <2>3. h < n /\ n \in Nat
    BY <1>4, <2>2, NumbersAreNat
  <2> QED  BY <1>3, <2>2, <2>3 DEF Waiting
<1>9. Waiting' = Waiting \ {h}
  BY <1>7, <1>8
<1> QED  BY <1>3, <1>5, <1>9

\* What the queue gains with a sent reading.
LEMMA SentIsKept ==
  ASSUME TypeOK, Len(hx711_q) < QueueLen, hx711_q' = Sent(hx711_q, filtered_value)
  PROVE  Waiting' = Waiting \cup {filtered_value.no}
<1>1. hx711_q \in Seq(Reading) /\ filtered_value \in Reading /\ Len(hx711_q) \in Nat
  BY DEF TypeOK
<1>2. /\ Len(hx711_q') = Len(hx711_q) + 1
      /\ \A i \in 1..Len(hx711_q) : hx711_q'[i] = hx711_q[i]
      /\ hx711_q'[Len(hx711_q) + 1] = filtered_value
  BY <1>1, SentAppends
<1>3. 1..Len(hx711_q') = 1..Len(hx711_q) \cup {Len(hx711_q) + 1}
  BY <1>1, <1>2
<1> QED  BY <1>2, <1>3 DEF Waiting

LEMMA StreamInit == Init => Stream!Init
<1> SUFFICES ASSUME Init PROVE Stream!Init  OBVIOUS
<1>1. Waiting = {}
  BY DEF Init, Waiting
<1> QED  BY <1>1 DEF Init, NoReading, Waiting, Stream!Init

LEMMA StreamStep ==
  ASSUME PipelineInv, [Next]_vars
  PROVE  [Stream!Next]_Stream!vars
<1>1. ASSUME UNCHANGED <<hx_pc, filtered_value, hx711_q, raw_count, served>>
      PROVE  UNCHANGED Stream!vars
  BY <1>1 DEF Stream!vars
<1>2. ASSUME NEW w \in Weights, Read(w)
      PROVE  Stream!Sample
  BY <1>2 DEF Read, Stream!Sample
<1>3. CASE Send
  <2>1. /\ hx_pc = "send" /\ hx_pc' = "read"
        /\ hx711_q' = Sent(hx711_q, filtered_value)
        /\ UNCHANGED <<filtered_value, raw_count, served>>
    BY <1>3 DEF Send
  <2>2. Stream!Cardinality(Waiting) = Len(hx711_q)
    <3>1. Stream!Cardinality(Waiting) = Cardinality(Waiting)
      BY DEF Stream!Cardinality, Cardinality
    <3> QED  BY <3>1, WaitingCounts DEF PipelineInv
  <2>3. CASE Len(hx711_q) < QueueLen
    <3>1. Waiting' = Waiting \cup {filtered_value.no}
      BY <2>1, <2>3, SentIsKept DEF PipelineInv
    <3> QED  BY <2>1, <2>2, <2>3, <3>1 DEF Waiting, Stream!Keep, Stream!Next
  <2>4. CASE ~(Len(hx711_q) < QueueLen)
    <3>1. Len(hx711_q) = QueueLen
      BY <2>4, NumbersAreNat, SamplePipelineAssumption DEF PipelineInv, TypeOK
    <3>2. hx711_q' = hx711_q
      BY <2>1, <2>4 DEF Sent
    <3> QED  BY <2>1, <2>2, <3>1, <3>2 DEF Waiting, Stream!Lose, Stream!Next
  <2> QED  BY <2>3, <2>4
<1>4. CASE Weigh
  <2>1. /\ hx711_q # <<>> /\ hx711_q' = Tail(hx711_q) /\ raw_count' = Head(hx711_q)
        /\ UNCHANGED <<hx_pc, filtered_value, served>>
    BY <1>4 DEF Weigh
  <2>2. /\ Head(hx711_q).no \in Waiting
        /\ \A m \in Waiting : Head(hx711_q).no <= m
        /\ Waiting' = Waiting \ {Head(hx711_q).no}
    BY <2>1, HeadIsOldest DEF PipelineInv
  <2>3. Got' = [Got EXCEPT !["weight_manager"] = Head(hx711_q).no]
    BY <2>1 DEF Got
  <2>4. Stream!Consume("weight_manager")
    BY <2>1, <2>2, <2>3 DEF Waiting, Got, Stream!Consume
  <2> QED  BY <2>4 DEF Stream!Next
<1>5. CASE GetWeight
  <2>1. CASE hx711_q # <<>>
    <3>1. /\ hx711_q' = Tail(hx711_q) /\ served' = Head(hx711_q)
          /\ UNCHANGED <<hx_pc, filtered_value, raw_count>>
      BY <1>5, <2>1 DEF GetWeight
    <3>2. /\ Head(hx711_q).no \in Waiting
          /\ \A m \in Waiting : Head(hx711_q).no <= m
          /\ Waiting' = Waiting \ {Head(hx711_q).no}
      BY <2>1, <3>1, HeadIsOldest DEF PipelineInv
    <3>3. Got' = [Got EXCEPT !["http"] = Head(hx711_q).no]
      BY <3>1 DEF Got
    <3>4. Stream!Consume("http")
      BY <3>1, <3>2, <3>3 DEF Waiting, Got, Stream!Consume
    <3> QED  BY <3>4 DEF Stream!Next
  <2>2. CASE hx711_q = <<>>
    BY <1>1, <1>5, <2>2 DEF GetWeight
  <2> QED  BY <2>1, <2>2
<1>6. CASE SntpWaitOver
  BY <1>1, <1>6 DEF SntpWaitOver
<1>7. CASE UNCHANGED vars
  BY <1>1, <1>7 DEF vars
<1> QED
  BY <1>2, <1>3, <1>4, <1>5, <1>6, <1>7 DEF Next, Exhausted, Stream!Next

\* The shared queue keeps its promise to both consumers for every length: it
\* loses a sample only when full, and only the newest, and hands every other one
\* to exactly one consumer, oldest first.
THEOREM PipelineImplementsStream == Spec => ImplementsStream
  BY StreamInit, StreamStep, PipelineInvariant, PTL
  DEF Spec, ImplementsStream, Stream!Spec

\* Seen from the weight manager, every step of the pipeline is a step of
\* weight_manager.c's state machine or none.
THEOREM PipelineImplementsWeightManager == Spec => WMSpec
<1>1. Init => WMInit
  BY DEF Init
<1>2. ASSUME PipelineInv, [Next]_vars
      PROVE  [WMNext]_wmVars
  <2>1. CASE Weigh
    <3>1. Head(hx711_q).w \in Weights
      BY <1>2, <2>1, HeadLeaves DEF PipelineInv, Weigh, Reading
    <3> QED  BY <2>1, <3>1 DEF Weigh, WMNext
  <2>2. CASE ~Weigh
    BY <1>2, <2>2
    DEF Next, Read, Send, SntpWaitOver, GetWeight, Exhausted, vars
  <2> QED  BY <2>1, <2>2
<1> QED  BY <1>1, <1>2, PipelineInvariant, PTL DEF Spec, WMSpec

\* So the weight manager detects presence on what it receives, whatever the
\* sampling task and the HTTP clients do in between.
THEOREM PipelineImplementsDetector == Spec => ImplementsDetector
  BY PipelineImplementsWeightManager, WMImplementsDetector
=============================================================================
