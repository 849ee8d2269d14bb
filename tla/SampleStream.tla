---------------------------- MODULE SampleStream ----------------------------
(***************************************************************************)
(* What the sensor queue promises its consumers.  Samples are numbered in  *)
(* the order they are taken.  A sample in hand is either kept or, when     *)
(* Capacity samples are already waiting, lost for good; a consumer always  *)
(* gets the oldest sample waiting, and nobody else gets it again.          *)
(*                                                                         *)
(* This is the abstract specification of the hx711_q FreeRTOS queue as the *)
(* sampling task, the weight manager and the HTTP handler use it together  *)
(* (module SamplePipeline).                                                *)
(***************************************************************************)
EXTENDS Naturals, FiniteSets

CONSTANTS
  Capacity,   \* how many samples can wait
  Consumers   \* who takes samples

VARIABLES
  sampled,   \* the number of the last sample taken from the sensor
  inHand,    \* the sample not yet offered to the queue, as a set of at most one
  waiting,   \* the set of samples kept and not yet consumed
  got        \* for each consumer the last sample it got, 0 before the first

vars == <<sampled, inHand, waiting, got>>

Init ==
  /\ sampled = 0
  /\ inHand = {}
  /\ waiting = {}
  /\ got = [c \in Consumers |-> 0]

Sample ==
  /\ inHand = {}
  /\ sampled' = sampled + 1
  /\ inHand' = {sampled + 1}
  /\ UNCHANGED <<waiting, got>>

Keep ==
  /\ inHand # {}
  /\ Cardinality(waiting) < Capacity
  /\ waiting' = waiting \cup inHand
  /\ inHand' = {}
  /\ UNCHANGED <<sampled, got>>

Lose ==
  /\ inHand # {}
  /\ Cardinality(waiting) = Capacity
  /\ inHand' = {}
  /\ UNCHANGED <<sampled, waiting, got>>

Consume(c) ==
  \E n \in waiting :
    /\ \A m \in waiting : n <= m
    /\ waiting' = waiting \ {n}
    /\ got' = [got EXCEPT ![c] = n]
    /\ UNCHANGED <<sampled, inHand>>

Next == Sample \/ Keep \/ Lose \/ \E c \in Consumers : Consume(c)

Spec == Init /\ [][Next]_vars
=============================================================================
