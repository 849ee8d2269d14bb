--------------------------- MODULE SlidingWindow ---------------------------
(***************************************************************************)
(* What a moving average with a median prefilter promises: the mean of the *)
(* last Size values it was given since it was set up or restarted, each    *)
(* possibly replaced by the median of itself and the two before it.        *)
(*                                                                         *)
(* This is the abstract specification of moving_average.c (module          *)
(* MovingAverageCalls).                                                    *)
(***************************************************************************)
EXTENDS Integers, SequencesExt, FiniteSetsExt

CONSTANTS Size, Values

VARIABLES
  live,     \* whether there is a window at all
  window,   \* the values averaged, oldest first
  recent,   \* the last three raw values, oldest first
  out       \* the last mean returned, as a quotient

vars == <<live, window, recent, out>>

LastOf(s, n) == SubSeq(s, Len(s) - Min({n, Len(s)}) + 1, Len(s))
Average(s) == [num |-> FoldSeq(+, 0, s), den |-> Len(s)]
NoAverage == [num |-> 0, den |-> 1]

\* The middle value: no more than one of the three is below it, or above it.
Median(s) ==
  CHOOSE m \in ToSet(s) :
    /\ Cardinality({i \in 1..3 : s[i] < m}) <= 1
    /\ Cardinality({i \in 1..3 : s[i] > m}) <= 1

Init ==
  /\ live = FALSE
  /\ window = <<>>
  /\ recent = <<>>
  /\ out = NoAverage

SetUp ==
  /\ live' = TRUE
  /\ window' = <<>>
  /\ recent' = <<>>
  /\ UNCHANGED out

\* A value enters the window and the mean of the window is returned.
Enter(v) ==
  IF live
    THEN window' = LastOf(Append(window, v), Size) /\ out' = Average(window')
    ELSE out' = NoAverage /\ UNCHANGED window

Take(v) ==
  /\ Enter(v)
  /\ UNCHANGED <<live, recent>>

TakeMedian(v) ==
  /\ recent' = LastOf(Append(recent, v), 3)
  /\ Enter(IF Len(recent') = 3 THEN Median(recent') ELSE v)
  /\ UNCHANGED live

Restart(v) ==
  /\ live
  /\ window' = <<v>>
  /\ recent' = <<v, v, v>>
  /\ UNCHANGED <<live, out>>

\* The value is ignored, and zero returned in its place.
Ignore ==
  /\ out' = NoAverage
  /\ UNCHANGED <<live, window, recent>>

TearDown ==
  /\ live' = FALSE
  /\ window' = <<>>
  /\ recent' = <<>>
  /\ UNCHANGED out

Next ==
  \/ SetUp \/ Ignore \/ TearDown
  \/ \E v \in Values : Take(v) \/ TakeMedian(v) \/ Restart(v)

Spec == Init /\ [][Next]_vars
=============================================================================
